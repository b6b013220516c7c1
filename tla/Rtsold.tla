------------------------------- MODULE Rtsold -------------------------------
(***************************************************************************)
(* rtsold, the router solicitation daemon: the per-interface state machine *)
(* of rtsold.c and rtsol.c, its main loop around select(), and SIGUSR1.    *)
(* The links, their duplicate address detection and the routers that       *)
(* answer are the environment.                                             *)
(*                                                                         *)
(* Time is counted in whole seconds.  expire, an absolute time in the      *)
(* code, is the number of seconds left; the random delay below one second  *)
(* ends in this second or at the start of the next.                        *)
(***************************************************************************)
EXTENDS Integers

CONSTANTS
    Ifs,             \* the interfaces of the command line
    HasMedia,        \* those whose driver supports SIOCGIFMEDIA
    Mobile,          \* -m
    Once,            \* -1, or invoked as rtsol
    InitLinks,       \* what the links may be like at startup
    LinkStates,      \* bound: what they may be like later
    DadStates,       \* bound: what the addresses may be like
    PROBE_INTERVAL,  \* 60 in the code
    DADRETRY         \* 10 in the code

MAX_RTR_SOLICITATION_DELAY == 1
RTR_SOLICITATION_INTERVAL == 4
MAX_RTR_SOLICITATIONS == 3
IdleInterval == 3

Links == {"gone", "disabled", "down", "up"}
Dads == {"none", "tentative", "optimistic", "duplicated", "ready"}

ASSUME ConstAssumption ==
    /\ HasMedia \subseteq Ifs
    /\ InitLinks \subseteq Links /\ LinkStates \subseteq Links /\ DadStates \subseteq Dads
    /\ Mobile \in BOOLEAN /\ Once \in BOOLEAN
    /\ PROBE_INTERVAL \in Nat \ {0} /\ DADRETRY \in Nat

tm_max == -1         \* a stopped timer

VARIABLES
    pc,       \* the main loop: at its top, in rtsol_check_timer(), in select(), over
    ifs,      \* struct ifinfo of each interface, and what was sent on it
    do_dump,  \* set by SIGUSR1
    link,     \* each link: no such interface, not IFF_UP, no carrier, running
    dad       \* the flags of each link-local address

vars == <<pc, ifs, do_dump, link, dad>>

IfStates == {"IFS_IDLE", "IFS_DELAY", "IFS_PROBE", "IFS_DOWN", "IFS_TENTATIVE"}

\* sent, heard and since are not in the code: the solicitations sent since the
\* last event that calls for them, whether an advertisement came after one of
\* them, and the seconds since the last one, up to RTR_SOLICITATION_INTERVAL.
IfInfo == [state : IfStates,
           active : {-1, 0, 1}, mediareqok : BOOLEAN,
           probeinterval : {0, PROBE_INTERVAL}, probetimer : Int,
           probes : 0..MAX_RTR_SOLICITATIONS, dadcount : 0..DADRETRY,
           expire : Int, racnt : BOOLEAN,
           sent : Nat, heard : BOOLEAN, since : 0..RTR_SOLICITATION_INTERVAL]

----------------------------------------------------------------------------
(* if.c *)

\* The state that interface_up()'s result leads to.  A failing get_llflag()
\* counts as success; an optimistic address as failure.
interface_up(i) ==
    IF link[i] \in {"gone", "disabled"} THEN "IFS_DOWN"
    ELSE IF dad[i] \in {"none", "ready"} THEN "IFS_DELAY"
    ELSE IF dad[i] = "tentative" THEN "IFS_TENTATIVE"
    ELSE "IFS_DOWN"

\* interface_up() sets IFF_UP on an interface that has it not.
BroughtUp(i) == IF link[i] = "disabled" THEN {"disabled", "down", "up"} ELSE {link[i]}

interface_status(i) == IF link[i] = "gone" THEN -1 ELSE IF link[i] = "up" THEN 1 ELSE 0

\* SIOCGIFMEDIA is tried only on an interface that is up and running.
MediaReqOk(i, before) == before /\ (link[i] = "up" => i \in HasMedia)

----------------------------------------------------------------------------
(* Per interface *)

\* DOWN and TENTATIVE: look again in a second, after DADRETRY times in a minute.
DadTimerGivesUp(r) ==
    IF r.dadcount + 1 > DADRETRY
    THEN [r EXCEPT !.dadcount = 0, !.expire = tm_max]
    ELSE [r EXCEPT !.dadcount = r.dadcount + 1, !.expire = 1]

DadTimer(r) ==
    IF r.dadcount + 1 > DADRETRY
    THEN [r EXCEPT !.dadcount = 0, !.expire = PROBE_INTERVAL]
    ELSE [r EXCEPT !.dadcount = r.dadcount + 1, !.expire = 1]

ProbeTimerHurried(r) == [r EXCEPT !.expire = MAX_RTR_SOLICITATION_DELAY]

\* PROBE: the next solicitation, or the wait after the last.
ProbeTimer(r) ==
    [r EXCEPT !.expire = IF r.probes < MAX_RTR_SOLICITATIONS
                         THEN RTR_SOLICITATION_INTERVAL ELSE MAX_RTR_SOLICITATION_DELAY]

rtsol_timer_update(r) ==
    CASE r.state \in {"IFS_DOWN", "IFS_TENTATIVE"} -> {DadTimer(r)}
      [] r.state = "IFS_IDLE" -> {[r EXCEPT !.expire = IF Mobile THEN IdleInterval ELSE tm_max]}
      [] r.state = "IFS_DELAY" -> {[r EXCEPT !.expire = d] : d \in 0..MAX_RTR_SOLICITATION_DELAY}
      [] r.state = "IFS_PROBE" -> {ProbeTimer(r)}

\* A failing sendmsg() counts as a solicitation too.
sendpacket(r) == [r EXCEPT !.probes = r.probes + 1, !.sent = r.sent + 1, !.since = 0]

\* One of the events after which up to three solicitations are due.
Event(r, s) == [r EXCEPT !.state = s, !.sent = 0, !.heard = FALSE]

ProbeIntervalNever(mediareqok) == 0

ProbeInterval(mediareqok) == IF mediareqok THEN 0 ELSE PROBE_INTERVAL

\* ifconfig(): the interface's first state.
ifconfig(i) ==
    LET ok == MediaReqOk(i, TRUE) IN
    rtsol_timer_update(
        [state |-> interface_up(i), active |-> interface_status(i), mediareqok |-> ok,
         probeinterval |-> ProbeInterval(ok), probetimer |-> 0,
         probes |-> 0, dadcount |-> 0, expire |-> 0, racnt |-> FALSE,
         sent |-> 0, heard |-> FALSE, since |-> RTR_SOLICITATION_INTERVAL])

ExpireIdleKeepsActive(i, r) ==
    LET rest == r.probetimer - IdleInterval
    IN  IF interface_status(i) # r.active THEN Event(r, "IFS_DELAY")
        ELSE IF r.probeinterval = 0 THEN r
        ELSE IF rest > 0 THEN [r EXCEPT !.probetimer = rest]
        ELSE Event([r EXCEPT !.probetimer = r.probeinterval], "IFS_PROBE")

\* The link's status has changed, or it is time to probe one that has none.
ExpireIdle(i, r) ==
    LET seen == [r EXCEPT !.active = interface_status(i),
                          !.mediareqok = MediaReqOk(i, r.mediareqok)]
        rest == r.probetimer - IdleInterval
    IN  IF seen.active # r.active THEN Event(seen, "IFS_DELAY")
        ELSE IF r.probeinterval = 0 THEN seen
        ELSE IF rest > 0 THEN [seen EXCEPT !.probetimer = rest]
        ELSE Event([seen EXCEPT !.probetimer = r.probeinterval], "IFS_PROBE")

ExpireProbe(r) ==
    IF r.probes < MAX_RTR_SOLICITATIONS THEN sendpacket(r)
    ELSE [r EXCEPT !.probes = 0, !.state = "IFS_IDLE"]

\* rtsol_check_timer(): what the expiration of its timer does to an interface.
Expire(i, r) ==
    CASE r.state \in {"IFS_DOWN", "IFS_TENTATIVE"} -> [r EXCEPT !.state = interface_up(i)]
      [] r.state = "IFS_IDLE" -> ExpireIdle(i, r)
      [] r.state = "IFS_DELAY" -> sendpacket([r EXCEPT !.state = "IFS_PROBE"])
      [] r.state = "IFS_PROBE" -> ExpireProbe(r)

\* An interface after rtsol_check_timer() has looked at it.
Checked(i, r) == IF r.expire = 0 THEN rtsol_timer_update(Expire(i, r)) ELSE {r}

Counted(r) == IF r.sent > 0 THEN [r EXCEPT !.racnt = TRUE, !.heard = TRUE]
              ELSE [r EXCEPT !.racnt = TRUE]

InputStaysInProbe(r) ==
    IF r.state = "IFS_PROBE" THEN rtsol_timer_update([Counted(r) EXCEPT !.probes = 0])
    ELSE {Counted(r)}

\* rtsol_input() of a valid advertisement.
Input(r) ==
    IF r.state = "IFS_PROBE"
    THEN rtsol_timer_update([Counted(r) EXCEPT !.state = "IFS_IDLE", !.probes = 0])
    ELSE {Counted(r)}

----------------------------------------------------------------------------
(* main() *)

Init ==
    /\ pc = "loop" /\ do_dump = FALSE
    /\ link \in [Ifs -> InitLinks] /\ dad \in [Ifs -> DadStates]
    /\ ifs \in [Ifs -> UNION {ifconfig(i) : i \in Ifs}]
    /\ \A i \in Ifs : ifs[i] \in ifconfig(i)

TopKeepsDump ==
    /\ pc = "loop"
    /\ pc' = "check"
    /\ UNCHANGED <<ifs, do_dump, link, dad>>

\* The dump asked for by SIGUSR1, if any.
Top ==
    /\ pc = "loop"
    /\ pc' = "check"
    /\ do_dump' = FALSE
    /\ UNCHANGED <<ifs, link, dad>>

NoTimerIgnored(f) == FALSE
NoTimer(f) == \A i \in Ifs : f[i].expire = tm_max
AllHeard(f) == \A i \in Ifs : f[i].state = "IFS_DOWN" \/ f[i].racnt

CheckTimer ==
    /\ pc = "check"
    /\ \E f \in [Ifs -> UNION {Checked(i, ifs[i]) : i \in Ifs}] :
         /\ \A i \in Ifs : f[i] \in Checked(i, ifs[i])
         /\ ifs' = f
         /\ pc' = IF Once /\ (NoTimer(f) \/ AllHeard(f)) THEN "done" ELSE "select"
    /\ \E l \in [Ifs -> Links] :
         /\ \A i \in Ifs :
              l[i] \in IF ifs[i].expire = 0 /\ ifs[i].state \in {"IFS_DOWN", "IFS_TENTATIVE"}
                       THEN BroughtUp(i) ELSE {link[i]}
         /\ link' = l
    /\ UNCHANGED <<do_dump, dad>>

\* select() returns because its timeout, the first timer, has run out.
Timeout ==
    /\ pc = "select" /\ \E i \in Ifs : ifs[i].expire = 0
    /\ pc' = "loop"
    /\ UNCHANGED <<ifs, do_dump, link, dad>>

\* select() returns because a packet is there; the checks of rtsol_input()
\* pass it or drop it.
RaInput(i) ==
    /\ pc = "select"
    /\ \E r \in Input(ifs[i]) \cup {ifs[i]} : ifs' = [ifs EXCEPT ![i] = r]
    /\ pc' = "loop"
    /\ UNCHANGED <<do_dump, link, dad>>

\* SIGUSR1: select() is interrupted, anything else goes on.
Signal ==
    /\ pc # "done"
    /\ do_dump' = TRUE
    /\ pc' = IF pc = "select" THEN "loop" ELSE pc
    /\ UNCHANGED <<ifs, link, dad>>

----------------------------------------------------------------------------
(* The environment *)

LinkChange(i) ==
    /\ link' \in {[link EXCEPT ![i] = l] : l \in LinkStates}
    /\ UNCHANGED <<pc, ifs, do_dump, dad>>

DadChange(i) ==
    /\ dad' \in {[dad EXCEPT ![i] = d] : d \in DadStates}
    /\ UNCHANGED <<pc, ifs, do_dump, link>>

\* A second passes; the daemon may be late for its timers.
Tick ==
    /\ ifs' = [i \in Ifs |->
         [ifs[i] EXCEPT !.expire = IF @ > 0 THEN @ - 1 ELSE @,
                        !.since = IF @ < RTR_SOLICITATION_INTERVAL THEN @ + 1 ELSE @]]
    /\ UNCHANGED <<pc, do_dump, link, dad>>

Next ==
    \/ Top \/ CheckTimer \/ Timeout \/ Signal \/ Tick
    \/ \E i \in Ifs : RaInput(i) \/ LinkChange(i) \/ DadChange(i)

\* The daemon runs and time passes.
Fairness == WF_vars(Top) /\ WF_vars(CheckTimer) /\ WF_vars(Timeout) /\ WF_vars(Tick)

Spec == Init /\ [][Next]_vars
FairSpec == Spec /\ Fairness

----------------------------------------------------------------------------
(* Properties *)

\* The types of the variables: among them, probes never passes
\* MAX_RTR_SOLICITATIONS and dadcount never passes DADRETRY.
TypeOK ==
    /\ pc \in {"loop", "check", "select", "done"} /\ do_dump \in BOOLEAN
    /\ ifs \in [Ifs -> IfInfo]
    /\ link \in [Ifs -> Links] /\ dad \in [Ifs -> Dads]

\* rtsold "sends at most 3 Router Solicitations on an interface after one of"
\* its events, whatever advertisements and link changes come in between.
AtMostThree == \A i \in Ifs : ifs[i].sent <= MAX_RTR_SOLICITATIONS

Sends(i) == ifs'[i].sent > ifs[i].sent

\* "Once rtsold has sent a Router Solicitation, and has received a valid Router
\* Advertisement, it refrains from sending additional solicitations on that
\* interface": until the next event.
Refrains == [][\A i \in Ifs : Sends(i) => ~ifs[i].heard]_vars

\* Two solicitations of one event are RTR_SOLICITATION_INTERVAL apart, however
\* late the loop is and whatever wakes it up.
Spaced ==
    [][\A i \in Ifs : Sends(i) /\ ifs[i].sent > 0 => ifs[i].since >= RTR_SOLICITATION_INTERVAL]_vars

\* An interface that is up with a usable address gets its solicitation.
Solicits ==
    \A i \in Ifs : <>[](link[i] \in {"down", "up"} /\ dad[i] = "ready")
                      => <>(ifs[i].state = "IFS_PROBE" \/ pc = "done")

\* "detects such failures by periodically probing to see if the status of the
\* interface is active or not": a change of the link that lasts is noticed, and
\* so is an interface that is gone or cannot be brought up.
FailureNoticed ==
    \A i \in Ifs : \A l \in Links :
        <>[](link[i] = l /\ dad[i] = "ready")
            => <>(/\ link[i] = l
                  /\ \/ ifs[i].active = interface_status(i)
                     \/ l \in {"gone", "disabled"} /\ ifs[i].state = "IFS_DOWN")

\* "periodically sends Router Solicitation on an interface that does not
\* support SIOCGIFMEDIA ioctl".
Periodic ==
    \A i \in Ifs \ HasMedia :
        <>[](link[i] = "up" /\ dad[i] = "ready") => []<>(ifs[i].state = "IFS_PROBE")

\* "Upon receipt of signal SIGUSR1, rtsold will dump the current internal state".
Dumps == do_dump ~> ~do_dump

\* rtsold -1 ends once its interfaces are ready, answered or not.
OnceEnds ==
    (\A i \in Ifs : <>[](link[i] \in {"down", "up"} /\ dad[i] = "ready")) => <>(pc = "done")
=============================================================================
