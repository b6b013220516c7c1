------------------------------- MODULE Rtadvd -------------------------------
(***************************************************************************)
(* rtadvd, the router advertisement daemon: its timers (timer.c), the      *)
(* advertising interfaces and their prefixes (config.c), and the main loop *)
(* with its routing messages, solicitations and signals (rtadvd.c).        *)
(*                                                                         *)
(* Timers count down in seconds; Off is the null pointer.  A random delay  *)
(* below half a second becomes a choice between now and the next second.   *)
(* The kernel's routing socket (external) is a queue that delivers one     *)
(* message per read, in order, and may overflow.                           *)
(***************************************************************************)
EXTENDS Integers, Sequences, FiniteSets

CONSTANTS
    Ifs,            \* the advertising interfaces
    Prefixes,       \* their prefixes
    Static,         \* those the configuration file lists; none: the kernel's
    Unfit,          \* those with a length out of 4..127
    InitUp,         \* whether an interface may be up, or down, at startup
    mininterval, maxinterval,         \* of every interface
    MAX_INITIAL_RTR_ADVERT_INTERVAL,  \* 16 in the code
    prefix_timo,    \* 7200 in the code
    Early,          \* whether links and routes change before rtsock_open()
    Late,           \* whether the loop may take seconds to get to a timer
    Overflow,       \* whether the routing socket may drop messages
    MaxQueue,       \* bound: routing messages waiting
    MaxChanges      \* bound: changes of links and routes

MIN_DELAY_BETWEEN_RAS == 3
MAX_INITIAL_RTR_ADVERTISEMENTS == 3

\* getconfig() refuses other intervals.
ASSUME ConfigAssumption ==
    /\ mininterval \in Nat /\ maxinterval \in Nat
    /\ mininterval >= MIN_DELAY_BETWEEN_RAS /\ mininterval < maxinterval
    /\ MAX_INITIAL_RTR_ADVERT_INTERVAL \in Nat
    /\ MAX_INITIAL_RTR_ADVERT_INTERVAL >= MIN_DELAY_BETWEEN_RAS
    /\ prefix_timo \in Nat \ {0}
    /\ Static \subseteq Prefixes \ Unfit /\ InitUp \subseteq BOOLEAN
    /\ {Early, Late, Overflow} \subseteq BOOLEAN /\ MaxQueue \in Nat /\ MaxChanges \in Nat

Off == -1           \* no timer
Absent == -2        \* a prefix that is not in the list

VARIABLES
    pc,             \* the main loop, see Pcs
    rai,            \* struct rainfo, and what was sent, for each interface
    do_dump, do_die,
    up,             \* whether each interface is up: the kernel's IFF_UP
    routes,         \* the kernel's direct routes of each interface
    msgs,           \* routing messages waiting to be read
    changes,
    missed          \* history: a change the daemon got no message of

vars == <<pc, rai, do_dump, do_die, up, routes, msgs, changes, missed>>

Pcs == {"start", "loop", "check", "select", "input", "done", "failed"}

\* Not in the code: orphan, a timer that is linked but that rai->timer does not
\* point to; told, what the last advertisement said; fresh, whether one has been
\* sent since the interface came up.
RaInfo == [flag : BOOLEAN,                  \* IFF_UP of the cached ifm_flags
           timer : {Off} \cup Nat, orphan : {Off} \cup Nat,
           initcounter : 0..MAX_INITIAL_RTR_ADVERTISEMENTS,
           waiting : BOOLEAN,               \* whether any RS waits for an RA
           lastsent : 0..MIN_DELAY_BETWEEN_RAS,     \* seconds ago, or more
           lifetime : BOOLEAN,              \* whether it is not 0
           prefix : [Prefixes -> {Absent, Off} \cup Nat],   \* the prefixes' timers
           told : [lifetime : BOOLEAN, valid : SUBSET Prefixes, zero : SUBSET Prefixes],
           fresh : BOOLEAN]

----------------------------------------------------------------------------
(* One interface *)

Valid(r) == {p \in Prefixes : r.prefix[p] = Off}
Invalidated(r) == {p \in Prefixes : r.prefix[p] \notin {Absent, Off}}

\* The contents of the packet: an invalidated prefix has zero lifetimes.
make_packet(r) == [lifetime |-> r.lifetime, valid |-> Valid(r), zero |-> Invalidated(r)]

\* An advertisement goes out, on an interface believed up.
ra_output(r) ==
    IF ~r.flag THEN r
    ELSE [r EXCEPT !.initcounter = IF @ < MAX_INITIAL_RTR_ADVERTISEMENTS THEN @ + 1 ELSE @,
                   !.waiting = FALSE, !.lastsent = 0,
                   !.told = make_packet(r), !.fresh = FALSE]

\* The next interval: none before the first advertisement, short at first.
ra_timer_update(r) ==
    IF r.initcounter = 0 THEN {0}
    ELSE {IF r.initcounter < MAX_INITIAL_RTR_ADVERTISEMENTS
             /\ interval > MAX_INITIAL_RTR_ADVERT_INTERVAL
          THEN MAX_INITIAL_RTR_ADVERT_INTERVAL ELSE interval
          : interval \in mininterval..(maxinterval - 1)}

lesser(a, b) == IF a < b THEN a ELSE b

set_short_delayUnlimited(r) ==
    IF r.timer = Off THEN {r} ELSE {[r EXCEPT !.timer = lesser(delay, r.timer)] : delay \in 0..1}

set_short_delayAdds(r) ==
    IF r.timer = Off THEN {r}
    ELSE {[r EXCEPT !.timer = @ + (MIN_DELAY_BETWEEN_RAS - r.lastsent)]}

\* Advertise soon, but not within MIN_DELAY_BETWEEN_RAS of the last time.
set_short_delay(r) ==
    IF r.timer = Off THEN {r}
    ELSE {[r EXCEPT !.timer = lesser(delay, r.timer) + (MIN_DELAY_BETWEEN_RAS - r.lastsent)]
          : delay \in 0..1}

\* The last lines of getconfig().
getconfig(flag, listed) ==
    [flag |-> flag, timer |-> 0, orphan |-> Off, initcounter |-> 0, waiting |-> FALSE,
     lastsent |-> MIN_DELAY_BETWEEN_RAS, lifetime |-> TRUE,
     prefix |-> [p \in Prefixes |-> IF p \in listed THEN Off ELSE Absent],
     told |-> [lifetime |-> FALSE, valid |-> {}, zero |-> {}], fresh |-> TRUE]

\* prefix_timeout() of every prefix whose time is up.
prefix_timeout(r) == [r EXCEPT !.prefix = [p \in Prefixes |-> IF @[p] = 0 THEN Absent ELSE @[p]]]

TimerExpiresOnce(r) == IF r.timer # 0 THEN {r} ELSE {[ra_output(r) EXCEPT !.timer = Off]}

\* ra_timeout() and what rtadvd_check_timer() makes of its result: a null
\* rai->timer counts as a timer that was removed, and the timer stays as it is.
TimerExpires(r) ==
    IF r.timer # 0 THEN {r}
    ELSE LET s == ra_output(r) IN {[s EXCEPT !.timer = n] : n \in ra_timer_update(s)}

OrphanExpires(r) ==
    IF r.orphan # 0 THEN {r}
    ELSE LET s == ra_output(r) IN
         IF s.timer = Off THEN {s} ELSE {[s EXCEPT !.orphan = n] : n \in ra_timer_update(s)}

\* rtadvd_check_timer() for one interface.  The list is in order of creation,
\* newest first: the orphan comes last, a prefix's timer before or after the
\* interface's.
Checked(r) ==
    UNION {OrphanExpires(s) :
        s \in TimerExpires(prefix_timeout(r)) \cup {prefix_timeout(t) : t \in TimerExpires(r)}}

\* Whether select() has a timeout because of this interface, and it is over.
Due(r) == \/ r.timer = 0
          \/ r.orphan = 0 /\ r.timer # Off
          \/ \E p \in Prefixes : r.prefix[p] = 0

----------------------------------------------------------------------------
(* Routing messages *)

GoesDownKeepsTimer(r) == {[r EXCEPT !.flag = FALSE]}

\* rtmsg_input()'s last part: what new flags and a changed prefix lead to.
GoesDown(r) == {[r EXCEPT !.flag = FALSE, !.timer = Off]}

ComesUpNoTimer(r) == {[r EXCEPT !.flag = TRUE, !.initcounter = 0, !.waiting = FALSE, !.fresh = TRUE]}

\* A new timer, also if rai->timer still points to one.
ComesUp(r) ==
    LET s == [r EXCEPT !.flag = TRUE, !.initcounter = 0, !.waiting = FALSE, !.fresh = TRUE,
                       !.orphan = IF r.timer = Off THEN @ ELSE r.timer]
    IN  {[s EXCEPT !.timer = n] : n \in ra_timer_update(s)}

Flags(r, flag, prefixchange) ==
    IF r.flag /\ ~flag THEN GoesDown(r)
    ELSE IF ~r.flag /\ flag THEN ComesUp(r)
    ELSE IF prefixchange /\ flag THEN set_short_delay([r EXCEPT !.initcounter = 0])
    ELSE {r}

AddedKeepsTimer(r, p) == IF r.prefix[p] = Absent THEN [r EXCEPT !.prefix[p] = Off] ELSE r

\* RTM_ADD: a new prefix, or one that is made available again.
Added(r, p) == IF r.prefix[p] = Off THEN r ELSE [r EXCEPT !.prefix[p] = Off]

DeletedAtOnce(r, p) == [r EXCEPT !.prefix[p] = Absent]

\* RTM_DELETE: the prefix is advertised with zero lifetimes for two hours.
Deleted(r, p) == IF r.prefix[p] = Absent THEN r ELSE [r EXCEPT !.prefix[p] = prefix_timo]

\* A message's effect on the interface it is about.  The flags of RTM_IFINFO
\* come with it, those of the other messages from the kernel when it is read.
Handled(m) ==
    LET r == rai[m.ifindex] IN
    CASE m.type = "RTM_IFINFO" -> Flags(r, m.up, FALSE)
      [] m.type = "RTM_NEWADDR" -> Flags(r, up[m.ifindex], FALSE)
      [] m.type \in {"RTM_ADD", "RTM_DELETE"} /\ m.p \in Unfit -> Flags(r, up[m.ifindex], FALSE)
      [] m.type = "RTM_ADD" /\ m.p \notin Unfit -> Flags(Added(r, m.p), up[m.ifindex], Added(r, m.p) # r)
      [] m.type = "RTM_DELETE" /\ m.p \notin Unfit ->
            Flags(Deleted(r, m.p), up[m.ifindex], Deleted(r, m.p) # r)

\* invalidate_prefix()'s sanity check, which ends the program.
Insane(m) == m.type = "RTM_DELETE" /\ m.p \in Invalidated(rai[m.ifindex])

----------------------------------------------------------------------------
(* The main loop *)

\* main() up to getconfig(): the routing socket is not open yet.
Init ==
    /\ pc = "start"
    /\ up \in [Ifs -> InitUp]
    /\ routes \in [Ifs -> SUBSET Prefixes]
    /\ rai = [i \in Ifs |-> getconfig(up[i], IF Static # {} THEN Static ELSE routes[i] \ Unfit)]
    /\ do_dump = FALSE /\ do_die = FALSE
    /\ msgs = <<>> /\ changes = 0 /\ missed = FALSE

rtsock_open ==
    /\ pc = "start"
    /\ pc' = "loop"
    /\ UNCHANGED <<rai, do_dump, do_die, up, routes, msgs, changes, missed>>

dieBeforeZero ==
    /\ pc = "loop" /\ do_die
    /\ rai' = [i \in Ifs |-> [ra_output(rai[i]) EXCEPT !.lifetime = FALSE]]
    /\ do_dump' = FALSE
    /\ pc' = "done"
    /\ UNCHANGED <<do_die, up, routes, msgs, changes, missed>>

\* Every interface believed up gets a last advertisement, with lifetime 0.
die ==
    /\ pc = "loop" /\ do_die
    /\ rai' = [i \in Ifs |-> ra_output([rai[i] EXCEPT !.lifetime = FALSE])]
    /\ do_dump' = FALSE
    /\ pc' = "done"
    /\ UNCHANGED <<do_die, up, routes, msgs, changes, missed>>

Top ==
    /\ pc = "loop" /\ ~do_die
    /\ do_dump' = FALSE
    /\ pc' = "check"
    /\ UNCHANGED <<rai, do_die, up, routes, msgs, changes, missed>>

rtadvd_check_timer ==
    /\ pc = "check"
    /\ \E f \in [Ifs -> UNION {Checked(rai[i]) : i \in Ifs}] :
          /\ \A i \in Ifs : f[i] \in Checked(rai[i])
          /\ rai' = f
    /\ pc' = "select"
    /\ UNCHANGED <<do_dump, do_die, up, routes, msgs, changes, missed>>

\* select() returns 0.
Timeout ==
    /\ pc = "select" /\ msgs = <<>>
    /\ \E i \in Ifs : Due(rai[i])
    /\ pc' = "loop"
    /\ UNCHANGED <<rai, do_dump, do_die, up, routes, msgs, changes, missed>>

\* The ICMPv6 socket may be ready as well.
rtmsg_input ==
    /\ pc = "select" /\ msgs # <<>>
    /\ msgs' = Tail(msgs)
    /\ IF Insane(Head(msgs))
       THEN pc' = "failed" /\ UNCHANGED rai
       ELSE /\ \E r \in Handled(Head(msgs)) : rai' = [rai EXCEPT ![Head(msgs).ifindex] = r]
            /\ pc' \in {"loop", "input"}
    /\ UNCHANGED <<do_dump, do_die, up, routes, changes, missed>>

\* The ICMPv6 socket is ready, and the routing socket is not or has been read.
Input == pc = "input" \/ (pc = "select" /\ msgs = <<>>)

\* Only the first solicitation that waits sets the delay.
rs_input(i) ==
    /\ Input
    /\ IF rai[i].waiting THEN UNCHANGED rai
       ELSE \E r \in set_short_delay([rai[i] EXCEPT !.waiting = TRUE]) : rai' = [rai EXCEPT ![i] = r]
    /\ pc' = "loop"
    /\ UNCHANGED <<do_dump, do_die, up, routes, msgs, changes, missed>>

\* rtadvd_input() for any other packet: another router's advertisement only
\* touches statistics, the rest is dropped.
OtherInput ==
    /\ Input
    /\ pc' = "loop"
    /\ UNCHANGED <<rai, do_dump, do_die, up, routes, msgs, changes, missed>>

\* SIGUSR1 and SIGTERM interrupt select() and nothing else.
Interrupted == pc' = IF pc = "select" THEN "loop" ELSE pc

rtadvd_set_dump_file ==
    /\ pc \notin {"start", "done", "failed"}
    /\ do_dump' = TRUE /\ Interrupted
    /\ UNCHANGED <<rai, do_die, up, routes, msgs, changes, missed>>

set_die ==
    /\ pc \notin {"start", "done", "failed"}
    /\ do_die' = TRUE /\ Interrupted
    /\ UNCHANGED <<rai, do_dump, up, routes, msgs, changes, missed>>

----------------------------------------------------------------------------
(* The kernel and the clock *)

Before(n) == IF n > 0 THEN n - 1 ELSE n

Tick ==
    /\ pc \notin {"done", "failed"}
    /\ Late \/ (pc = "select" /\ \A i \in Ifs : ~Due(rai[i]))
    /\ rai' = [i \in Ifs |-> [rai[i] EXCEPT
                 !.timer = Before(@), !.orphan = Before(@),
                 !.lastsent = IF @ < MIN_DELAY_BETWEEN_RAS THEN @ + 1 ELSE @,
                 !.prefix = [p \in Prefixes |-> Before(@[p])]]]
    /\ UNCHANGED <<pc, do_dump, do_die, up, routes, msgs, changes, missed>>

\* A message to the daemon, if its socket is open and has room.
Tell(m) ==
    /\ pc \notin {"done", "failed"}
    /\ changes < MaxChanges /\ changes' = changes + 1
    /\ \/ pc # "start" /\ Len(msgs) < MaxQueue /\ msgs' = Append(msgs, m) /\ UNCHANGED missed
       \/ (IF pc = "start" THEN Early ELSE Overflow) /\ missed' = TRUE /\ UNCHANGED msgs
    /\ UNCHANGED <<pc, rai, do_dump, do_die>>

LinkChange(i) ==
    /\ up' = [up EXCEPT ![i] = ~@]
    /\ Tell([type |-> "RTM_IFINFO", ifindex |-> i, up |-> up'[i]])
    /\ UNCHANGED routes

AddressChange(i) ==
    /\ Tell([type |-> "RTM_NEWADDR", ifindex |-> i])
    /\ UNCHANGED <<up, routes>>

RouteChange(i, p) ==
    /\ routes' = [routes EXCEPT ![i] = IF p \in @ THEN @ \ {p} ELSE @ \cup {p}]
    /\ Tell([type |-> IF p \in routes[i] THEN "RTM_DELETE" ELSE "RTM_ADD", ifindex |-> i, p |-> p])
    /\ UNCHANGED up

Daemon ==
    \/ rtsock_open \/ die \/ Top \/ rtadvd_check_timer \/ Timeout \/ rtmsg_input
    \/ \E i \in Ifs : rs_input(i)
    \/ OtherInput

Environment ==
    \/ rtadvd_set_dump_file \/ set_die \/ Tick
    \/ \E i \in Ifs : LinkChange(i) \/ AddressChange(i) \/ \E p \in Prefixes : RouteChange(i, p)

Next == Daemon \/ Environment

Spec == Init /\ [][Next]_vars

\* The loop runs; select() reports a routing message each time one is there, and
\* a timer that is due; the clock runs.
Fairness ==
    /\ WF_vars(rtsock_open \/ die \/ Top \/ rtadvd_check_timer \/ (pc = "input" /\ OtherInput))
    /\ SF_vars(rtmsg_input)
    /\ WF_vars(Timeout)
    /\ SF_vars(Tick)

FairSpec == Spec /\ Fairness

----------------------------------------------------------------------------
(* Properties *)

\* Every variable has its type; an invalidated prefix lasts at most prefix_timo
\* (invalidate_prefix()), and no timer is set beyond the longest interval.
TypeOK ==
    /\ pc \in Pcs
    /\ rai \in [Ifs -> RaInfo]
    /\ do_dump \in BOOLEAN /\ do_die \in BOOLEAN
    /\ up \in [Ifs -> BOOLEAN] /\ routes \in [Ifs -> SUBSET Prefixes]
    /\ \A k \in 1..Len(msgs) : msgs[k].ifindex \in Ifs
    /\ changes \in 0..MaxChanges /\ missed \in BOOLEAN
    /\ \A i \in Ifs : /\ rai[i].timer < maxinterval + MIN_DELAY_BETWEEN_RAS
                      /\ \A p \in Prefixes : rai[i].prefix[p] <= prefix_timo

\* rai->timer is null exactly while the interface is believed down: rtmsg_input()
\* never removes a null timer, and no advertisement is lost for want of one,
\* whatever messages are lost.
TimerFollowsFlag == \A i \in Ifs : rai[i].flag <=> rai[i].timer # Off

\* Two advertisements on an interface are MIN_DELAY_BETWEEN_RAS apart, whatever
\* solicitations and prefix changes ask for (set_short_delay()); only an interface
\* that has come up advertises at once.
RateLimited ==
    \A i \in Ifs :
        LET r == rai[i] IN
        pc = "check" /\ r.flag =>
            /\ r.timer = 0 \/ r.orphan = 0 => r.fresh \/ r.lastsent >= MIN_DELAY_BETWEEN_RAS
            /\ ~(r.timer = 0 /\ r.orphan = 0)

\* A solicitation that waits is answered soon: the timer that rs_input() shortened
\* is not put off again by later solicitations and prefix changes.
AnsweredSoon ==
    \A i \in Ifs : rai[i].waiting /\ rai[i].flag =>
        rai[i].timer + rai[i].lastsent <= MIN_DELAY_BETWEEN_RAS + 1

\* As long as no routing message is lost, invalidate_prefix() never finds a prefix
\* invalidated already, and whenever all of them are read the cached flags and the
\* list of prefixes are the kernel's, in whatever order the messages and the flags
\* read by ioctl came: no stale RTM_IFINFO wins, no prefix stays for want of its
\* route or expires while it has one.
InStep ==
    ~missed =>
        /\ pc # "failed"
        /\ msgs = <<>> => \A i \in Ifs :
              /\ rai[i].flag = up[i]
              /\ Static = {} => Valid(rai[i]) = routes[i] \ Unfit

\* The hosts of an interface that is up are told that the router stops: die() goes
\* by the cached flags, which are right unless a message is unread or lost.
LastWord ==
    pc = "done" /\ msgs = <<>> /\ ~missed /\ Static = {} =>
        \A i \in Ifs : up[i] => ~rai[i].told.lifetime

\* rtadvd_check_timer() leaves no timer due: select() has something to wait for.
NoSpin == [][rtadvd_check_timer => \A i \in Ifs : ~Due(rai'[i])]_vars

\* A prefix that hosts were told is valid does not vanish from the advertisements:
\* the next ones announce zero lifetimes, unless the interface was down meanwhile.
Deprecates ==
    [][\A i \in Ifs : rai[i].told.valid \subseteq
          rai'[i].told.valid \cup rai'[i].told.zero \/ rai[i].fresh]_vars

\* rtadvd starts or stops sending according to the latest status of an interface.
FollowsStatus ==
    \A i \in Ifs :
        \/ <>(pc \in {"done", "failed"})
        \/ /\ <>[]up[i] => []<>(rai[i].flag /\ rai[i].lastsent = 0)
           /\ <>[]~up[i] => <>[]~rai[i].flag

\* On an interface that stays up, the advertisements end up announcing the prefixes
\* that have routes, and no other.
HostsLearn ==
    \A i \in Ifs :
        \/ <>(pc \in {"done", "failed"})
        \/ <>[]up[i] => <>[](rai[i].told = [lifetime |-> TRUE, valid |-> routes[i] \ Unfit, zero |-> {}])

\* SIGTERM ends rtadvd, also when it arrives between the test of do_die and
\* select(), as long as some interface's timer makes the loop go round.
StopsWithTimer ==
    <>[](\E i \in Ifs : rai[i].flag) => (do_die ~> pc \in {"done", "failed"})
=============================================================================
