---------------------------- MODULE RtadvdProofs ----------------------------
(***************************************************************************)
(* Proofs about rtadvd's timers, for any number of interfaces and prefixes *)
(* and any intervals getconfig() accepts, whatever routing messages are    *)
(* lost and whenever links and routes change; in the second part, about    *)
(* the flags and prefixes it caches; in the third, about the prefixes that *)
(* go.                                                                     *)
(*                                                                         *)
(* The argument about the timers is about one interface at a time.         *)
(* Answered and Spaced bound, from above and from below, the time left on  *)
(* the timer together with the time since the last advertisement:          *)
(* shortening a timer keeps both, and a second that passes moves from the  *)
(* one to the other.                                                       *)
(***************************************************************************)
EXTENDS Rtadvd, TLAPS

Typed(r) ==
    /\ r \in RaInfo
    /\ r.timer < maxinterval + MIN_DELAY_BETWEEN_RAS
    /\ \A p \in Prefixes : r.prefix[p] <= prefix_timo

Answered(r) == r.waiting /\ r.flag => r.timer + r.lastsent <= MIN_DELAY_BETWEEN_RAS + 1

\* A timer exactly on interfaces believed up, and no other timer.
Kept(r) == (r.flag <=> r.timer # Off) /\ r.orphan = Off

Spaced(r) == r.flag /\ ~r.fresh => r.timer + r.lastsent >= MIN_DELAY_BETWEEN_RAS

AllUp == InitUp = {TRUE}

Good(r) == Typed(r) /\ Answered(r) /\ (AllUp => Kept(r) /\ Spaced(r))

Messages ==
    [type : {"RTM_IFINFO"}, ifindex : Ifs, up : BOOLEAN]
    \cup [type : {"RTM_NEWADDR"}, ifindex : Ifs]
    \cup [type : {"RTM_ADD", "RTM_DELETE"}, ifindex : Ifs, p : Prefixes]

----------------------------------------------------------------------------
(* One interface *)

\* The constants are numbers that fit together.
LEMMA Constants ==
    /\ mininterval \in Nat /\ maxinterval \in Nat /\ mininterval >= 3 /\ maxinterval >= 4
    /\ MAX_INITIAL_RTR_ADVERT_INTERVAL \in Nat /\ MAX_INITIAL_RTR_ADVERT_INTERVAL >= 3
    /\ prefix_timo \in Nat /\ prefix_timo > 0
    /\ MIN_DELAY_BETWEEN_RAS = 3 /\ MAX_INITIAL_RTR_ADVERTISEMENTS = 3
    /\ Off = -1 /\ Absent = -2
BY ConfigAssumption DEF ConfigAssumption, MIN_DELAY_BETWEEN_RAS, MAX_INITIAL_RTR_ADVERTISEMENTS,
                        Off, Absent

\* The fields that the proofs reason about have these types.
LEMMA Fields ==
    ASSUME NEW r \in RaInfo
    PROVE  /\ r.timer \in Int /\ (r.timer = Off \/ r.timer \in Nat)
           /\ r.lastsent \in 0..3 /\ r.initcounter \in 0..3
           /\ r.prefix \in [Prefixes -> {Absent, Off} \cup Nat]
           /\ r.orphan = Off \/ r.orphan \in Nat
BY Constants DEF RaInfo

\* A new value of the timer.
LEMMA SetTimer ==
    ASSUME NEW r, Typed(r), NEW n \in {Off} \cup Nat, n < maxinterval + 3
    PROVE  LET s == [r EXCEPT !.timer = n] IN
           /\ Typed(s) /\ s.timer = n /\ s.flag = r.flag /\ s.fresh = r.fresh
           /\ s.waiting = r.waiting /\ s.lastsent = r.lastsent /\ s.orphan = r.orphan
           /\ s.prefix = r.prefix /\ s.initcounter = r.initcounter
<1> DEFINE s == [r EXCEPT !.timer = n]
<1>1. r \in RaInfo
  BY DEF Typed
<1>2. /\ s \in RaInfo /\ s.timer = n /\ s.flag = r.flag /\ s.fresh = r.fresh
      /\ s.waiting = r.waiting /\ s.lastsent = r.lastsent /\ s.orphan = r.orphan
      /\ s.prefix = r.prefix /\ s.initcounter = r.initcounter
  BY <1>1 DEF RaInfo
<1> HIDE DEF s
<1>3. Typed(s)
  BY <1>2, Constants DEF Typed
<1> QED BY <1>2, <1>3 DEF s

\* What an advertisement changes.
LEMMA Output ==
    ASSUME NEW r, Typed(r)
    PROVE  LET s == ra_output(r) IN
           /\ Typed(s) /\ s.flag = r.flag /\ s.timer = r.timer /\ s.orphan = r.orphan
           /\ s.prefix = r.prefix
           /\ r.flag => s.initcounter \in 1..3 /\ s.lastsent = 0 /\ s.waiting = FALSE
           /\ ~r.flag => s = r
<1> DEFINE c == IF r.initcounter < MAX_INITIAL_RTR_ADVERTISEMENTS THEN r.initcounter + 1
                ELSE r.initcounter
           t == make_packet(r)
           s == [r EXCEPT !.initcounter = c, !.waiting = FALSE, !.lastsent = 0,
                          !.told = t, !.fresh = FALSE]
<1>1. r \in RaInfo
  BY DEF Typed
<1>2. c \in 1..3
  BY <1>1, Fields, Constants
<1>3. t \in [lifetime : BOOLEAN, valid : SUBSET Prefixes, zero : SUBSET Prefixes]
  BY <1>1 DEF make_packet, Valid, Invalidated, RaInfo
<1>4. ra_output(r) = IF ~r.flag THEN r ELSE s
  BY DEF ra_output
<1> HIDE DEF c, t
<1>5. /\ s \in RaInfo /\ s.flag = r.flag /\ s.timer = r.timer /\ s.orphan = r.orphan
      /\ s.prefix = r.prefix /\ s.initcounter = c /\ s.lastsent = 0 /\ s.waiting = FALSE
  <2>1. c \in 0..MAX_INITIAL_RTR_ADVERTISEMENTS /\ 0 \in 0..MIN_DELAY_BETWEEN_RAS
    BY <1>2, Constants
  <2> QED BY <1>1, <1>3, <2>1, Zenon DEF RaInfo
<1> HIDE DEF s
<1>6. Typed(s)
  BY <1>5 DEF Typed
<1>7. CASE r.flag
  BY <1>2, <1>4, <1>5, <1>6, <1>7, Zenon
<1>8. CASE ~r.flag
  BY <1>4, <1>8
<1> QED BY <1>7, <1>8, Zenon

\* The next interval is none before the first advertisement, and long enough and
\* not too long after it.
LEMMA Interval ==
    ASSUME NEW r, r.initcounter \in 0..3, NEW n \in ra_timer_update(r)
    PROVE  /\ n \in Nat /\ n < maxinterval
           /\ r.initcounter # 0 => n >= 3
           /\ r.initcounter = 0 => n = 0
<1>1. CASE r.initcounter = 0
  BY <1>1, Constants DEF ra_timer_update
<1>2. CASE r.initcounter # 0
  <2>1. PICK d \in mininterval..(maxinterval - 1) :
          n = IF r.initcounter < MAX_INITIAL_RTR_ADVERTISEMENTS
                 /\ d > MAX_INITIAL_RTR_ADVERT_INTERVAL
              THEN MAX_INITIAL_RTR_ADVERT_INTERVAL ELSE d
    BY <1>2 DEF ra_timer_update
  <2> QED BY <1>2, <2>1, Constants
<1> QED BY <1>1, <1>2

\* An advertisement soon: a good interface stays good, also with a waiting
\* solicitation or a prefix that has changed.
LEMMA ShortDelay ==
    ASSUME NEW r, Typed(r), AllUp => Kept(r), NEW s \in set_short_delay(r)
    PROVE  /\ Typed(s) /\ Answered(s) /\ s.flag = r.flag /\ s.prefix = r.prefix
           /\ AllUp => Kept(s) /\ Spaced(s)
<1>0. r \in RaInfo
  BY DEF Typed
<1>1. CASE r.timer = Off
  <2>1. s = r
    BY <1>1 DEF set_short_delay
  <2>2. Answered(s)
    BY <1>0, <1>1, <2>1, Fields, Constants DEF Answered
  <2>3. AllUp => Spaced(s)
    BY <1>1, <2>1 DEF Kept, Spaced
  <2> QED BY <2>1, <2>2, <2>3
<1>2. CASE r.timer # Off
  <2>1. PICK d \in 0..1 :
          s = [r EXCEPT !.timer = lesser(d, r.timer) + (MIN_DELAY_BETWEEN_RAS - r.lastsent)]
    BY <1>2 DEF set_short_delay
  <2> DEFINE n == lesser(d, r.timer) + (MIN_DELAY_BETWEEN_RAS - r.lastsent)
  <2>2. n \in Nat /\ n + r.lastsent >= 3 /\ n + r.lastsent <= 4 /\ r.lastsent \in 0..3
    BY <1>0, <1>2, Fields, Constants DEF lesser
  <2>3. s = [r EXCEPT !.timer = n]
    BY <2>1
  <2> HIDE DEF n
  <2>4. n < maxinterval + 3
    BY <2>2, Constants
  <2>5. /\ Typed(s) /\ s.timer = n /\ s.flag = r.flag /\ s.lastsent = r.lastsent
        /\ s.orphan = r.orphan /\ s.prefix = r.prefix
    BY <2>2, <2>3, <2>4, SetTimer
  <2>6. s.timer # Off
    BY <2>2, <2>5, Constants
  <2>7. AllUp => Kept(s)
    BY <1>2, <2>5, <2>6 DEF Kept
  <2>8. s.timer + s.lastsent >= MIN_DELAY_BETWEEN_RAS
        /\ s.timer + s.lastsent <= MIN_DELAY_BETWEEN_RAS + 1
    BY <2>2, <2>5, Constants
  <2> QED BY <2>5, <2>7, <2>8 DEF Answered, Spaced
<1> QED BY <1>1, <1>2

\* Everything the argument is about but the prefixes.
SameTimers(r, s) ==
    /\ s.flag = r.flag /\ s.timer = r.timer /\ s.orphan = r.orphan /\ s.fresh = r.fresh
    /\ s.waiting = r.waiting /\ s.lastsent = r.lastsent

\* A change of the prefixes alone leaves an interface good.
LEMMA OnlyPrefixes ==
    ASSUME NEW r, Good(r), NEW s, Typed(s), SameTimers(r, s)
    PROVE  Good(s)
BY DEF Good, SameTimers, Answered, Kept, Spaced

\* A change of the prefixes' timers.
LEMMA SetPrefix ==
    ASSUME NEW r, Typed(r), NEW f \in [Prefixes -> {Absent, Off} \cup Nat],
           \A p \in Prefixes : f[p] <= prefix_timo
    PROVE  LET s == [r EXCEPT !.prefix = f] IN
           Typed(s) /\ SameTimers(r, s) /\ s.prefix = f /\ s.initcounter = r.initcounter
<1> DEFINE s == [r EXCEPT !.prefix = f]
<1>1. r \in RaInfo
  BY DEF Typed
<1>2. /\ s \in RaInfo /\ SameTimers(r, s) /\ s.prefix = f /\ s.initcounter = r.initcounter
  BY <1>1 DEF RaInfo, SameTimers
<1> HIDE DEF s
<1>3. Typed(s)
  BY <1>2 DEF Typed, SameTimers
<1> QED BY <1>2, <1>3 DEF s

\* Prefixes whose time is up are gone.
LEMMA PrefixTimeout ==
    ASSUME NEW r, Typed(r)
    PROVE  LET s == prefix_timeout(r) IN
           /\ Typed(s) /\ SameTimers(r, s)
           /\ \A p \in Prefixes : /\ s.prefix[p] # 0
                                 /\ s.prefix[p] = IF r.prefix[p] = 0 THEN Absent ELSE r.prefix[p]
<1> DEFINE f == [p \in Prefixes |-> IF r.prefix[p] = 0 THEN Absent ELSE r.prefix[p]]
<1>1. r \in RaInfo /\ \A p \in Prefixes : r.prefix[p] <= prefix_timo
  BY DEF Typed
<1>2. f \in [Prefixes -> {Absent, Off} \cup Nat]
  BY <1>1, Fields
<1>3. \A p \in Prefixes : /\ f[p] <= prefix_timo /\ f[p] # 0
                          /\ f[p] = IF r.prefix[p] = 0 THEN Absent ELSE r.prefix[p]
  BY <1>1, Constants
<1>4. prefix_timeout(r) = [r EXCEPT !.prefix = f]
  BY DEF prefix_timeout
<1> HIDE DEF f
<1> QED BY <1>2, <1>3, <1>4, SetPrefix

\* The interface's timer expires, or does not.
LEMMA Expires ==
    ASSUME NEW r, Good(r), NEW s \in TimerExpires(r)
    PROVE  Good(s) /\ s.prefix = r.prefix /\ s.flag = r.flag /\ (AllUp => s.timer # 0)
<1>1. CASE r.timer # 0
  <2>1. s = r
    BY <1>1 DEF TimerExpires
  <2> QED BY <1>1, <2>1
<1>2. CASE r.timer = 0
  <2> DEFINE t == ra_output(r)
  <2>1. PICK n \in ra_timer_update(t) : s = [t EXCEPT !.timer = n]
    BY <1>2 DEF TimerExpires
  <2>2. /\ Typed(t) /\ t.flag = r.flag /\ t.timer = r.timer /\ t.orphan = r.orphan
        /\ t.prefix = r.prefix
        /\ r.flag => t.initcounter \in 1..3 /\ t.lastsent = 0 /\ t.waiting = FALSE
    BY Output, Zenon DEF Good
  <2> HIDE DEF t
  <2>3. t.initcounter \in 0..3
    BY <2>2, Fields DEF Typed
  <2>4. n \in Nat /\ n < maxinterval /\ (t.initcounter # 0 => n >= 3)
    BY <2>1, <2>3, Interval
  <2>5. n < maxinterval + 3 /\ n # Off
    BY <2>4, Constants
  <2>6. /\ Typed(s) /\ s.timer = n /\ s.flag = r.flag /\ s.orphan = r.orphan
        /\ s.prefix = r.prefix /\ s.waiting = t.waiting /\ s.lastsent = t.lastsent
    BY <2>1, <2>2, <2>4, <2>5, SetTimer
  <2>7. CASE r.flag
    <3>1. n >= 3 /\ s.lastsent = 0 /\ s.waiting = FALSE
      BY <2>2, <2>4, <2>6, <2>7
    <3>2. Answered(s)
      BY <3>1 DEF Answered
    <3>3. s.timer + s.lastsent >= MIN_DELAY_BETWEEN_RAS /\ s.timer # 0
      BY <2>4, <2>6, <3>1, Constants
    <3>4. AllUp => Kept(s)
      BY <2>5, <2>6, <2>7 DEF Good, Kept
    <3> QED BY <2>6, <3>2, <3>3, <3>4 DEF Good, Spaced
  <2>8. CASE ~r.flag
    <3>1. ~AllUp
      BY <1>2, <2>8, Constants DEF Good, Kept
    <3>2. Answered(s)
      BY <2>6, <2>8 DEF Answered
    <3> QED BY <2>6, <3>1, <3>2 DEF Good
  <2> QED BY <2>7, <2>8
<1> QED BY <1>1, <1>2

\* A second timer, which only an interface that was down at startup has.
LEMMA Orphan ==
    ASSUME NEW r, Good(r), NEW s \in OrphanExpires(r)
    PROVE  Good(s) /\ s.prefix = r.prefix /\ s.flag = r.flag /\ (AllUp => s = r)
<1>1. CASE r.orphan # 0
  BY <1>1 DEF OrphanExpires
<1>2. CASE r.orphan = 0
  <2> DEFINE t == ra_output(r)
  <2>1. /\ Typed(t) /\ t.flag = r.flag /\ t.prefix = r.prefix /\ (r.flag => t.waiting = FALSE)
    BY Output, Zenon DEF Good
  <2>2. ~AllUp
    BY <1>2, Constants DEF Good, Kept
  <2>3. s = t \/ \E n \in ra_timer_update(t) : s = [t EXCEPT !.orphan = n]
    BY <1>2 DEF OrphanExpires
  <2> HIDE DEF t
  <2>4. Typed(s) /\ s.flag = t.flag /\ s.waiting = t.waiting /\ s.prefix = t.prefix
    <3>1. ASSUME NEW n \in ra_timer_update(t), s = [t EXCEPT !.orphan = n]
          PROVE  Typed(s) /\ s.flag = t.flag /\ s.waiting = t.waiting /\ s.prefix = t.prefix
      <4>1. t \in RaInfo /\ t.initcounter \in 0..3
        BY <2>1, Fields DEF Typed
      <4>2. n \in Nat
        BY <3>1, <4>1, Interval
      <4>3. s \in RaInfo /\ s.flag = t.flag /\ s.waiting = t.waiting /\ s.prefix = t.prefix
            /\ s.timer = t.timer
        BY <3>1, <4>1, <4>2 DEF RaInfo
      <4> QED BY <2>1, <4>3 DEF Typed
    <3> QED BY <2>1, <2>3, <3>1
  <2>5. Answered(s)
    BY <2>1, <2>4 DEF Answered
  <2> QED BY <2>1, <2>2, <2>4, <2>5 DEF Good
<1> QED BY <1>1, <1>2

\* rtadvd_check_timer() leaves a good interface good, and nothing due on it.
LEMMA CheckedGood ==
    ASSUME NEW r, Good(r), NEW s \in Checked(r)
    PROVE  Good(s) /\ (AllUp => ~Due(s))
<1>1. PICK t \in TimerExpires(prefix_timeout(r)) \cup {prefix_timeout(u) : u \in TimerExpires(r)} :
        s \in OrphanExpires(t)
  BY DEF Checked
<1>2. Good(t) /\ (AllUp => t.timer # 0) /\ \A p \in Prefixes : t.prefix[p] # 0
  <2>1. CASE t \in TimerExpires(prefix_timeout(r))
    <3> DEFINE q == prefix_timeout(r)
    <3>1. Good(q) /\ \A p \in Prefixes : q.prefix[p] # 0
      BY PrefixTimeout, OnlyPrefixes DEF Good
    <3> HIDE DEF q
    <3>2. Good(t) /\ t.prefix = q.prefix /\ (AllUp => t.timer # 0)
      BY <2>1, <3>1, Expires DEF q
    <3> QED BY <3>1, <3>2
  <2>2. ASSUME NEW v \in TimerExpires(r), t = prefix_timeout(v)
        PROVE  Good(t) /\ (AllUp => t.timer # 0) /\ \A p \in Prefixes : t.prefix[p] # 0
    <3>1. Good(v) /\ (AllUp => v.timer # 0)
      BY <2>2, Expires
    <3>2. Typed(t) /\ SameTimers(v, t) /\ \A p \in Prefixes : t.prefix[p] # 0
      BY <2>2, <3>1, PrefixTimeout DEF Good
    <3>3. Good(t)
      BY <3>1, <3>2, OnlyPrefixes
    <3> QED BY <3>1, <3>2, <3>3 DEF SameTimers
  <2> QED BY <1>1, <2>1, <2>2
<1>3. Good(s) /\ (AllUp => s = t)
  BY <1>1, <1>2, Orphan
<1>4. AllUp => t.orphan # 0
  BY <1>2, Constants DEF Good, Kept
<1> QED BY <1>2, <1>3, <1>4 DEF Due

----------------------------------------------------------------------------
(* Routing messages and the clock *)

\* An interface goes down, comes up, or advertises a changed prefix soon.
LEMMA FlagsGood ==
    ASSUME NEW r, Good(r), NEW flag \in BOOLEAN, NEW change \in BOOLEAN,
           NEW s \in Flags(r, flag, change)
    PROVE  Good(s)
<1>0. r \in RaInfo /\ Typed(r)
  BY DEF Good, Typed
<1>1. CASE r.flag /\ ~flag
  <2>1. s = [r EXCEPT !.flag = FALSE, !.timer = Off]
    BY <1>1 DEF Flags, GoesDown
  <2>2. /\ s \in RaInfo /\ s.flag = FALSE /\ s.timer = Off /\ s.orphan = r.orphan
        /\ s.prefix = r.prefix
    BY <1>0, <2>1, Zenon DEF RaInfo
  <2>3. Typed(s)
    BY <1>0, <2>2, Constants DEF Typed
  <2> QED BY <2>2, <2>3 DEF Good, Answered, Kept, Spaced
<1>2. CASE ~r.flag /\ flag
  <2> DEFINE o == IF r.timer = Off THEN r.orphan ELSE r.timer
             t == [r EXCEPT !.flag = TRUE, !.initcounter = 0, !.waiting = FALSE, !.fresh = TRUE,
                            !.orphan = o]
  <2>1. PICK n \in ra_timer_update(t) : s = [t EXCEPT !.timer = n]
    BY <1>2, Zenon DEF Flags, ComesUp
  <2>2. o \in {Off} \cup Nat /\ 0 \in 0..MAX_INITIAL_RTR_ADVERTISEMENTS
    BY <1>0, Fields, Constants
  <2>3. AllUp => o = Off
    BY <1>2 DEF Good, Kept
  <2> HIDE DEF o
  <2>4. /\ t \in RaInfo /\ t.flag = TRUE /\ t.initcounter = 0 /\ t.waiting = FALSE
        /\ t.fresh = TRUE /\ t.orphan = o /\ t.prefix = r.prefix /\ t.timer = r.timer
    BY <1>0, <2>2, Zenon DEF RaInfo
  <2> HIDE DEF t
  <2>5. Typed(t)
    BY <1>0, <2>4 DEF Typed
  <2>6. n = 0
    BY <2>1, <2>4, Interval
  <2>7. n \in {Off} \cup Nat /\ n < maxinterval + 3 /\ n # Off
    BY <2>6, Constants
  <2>8. /\ Typed(s) /\ s.timer = n /\ s.flag = TRUE /\ s.waiting = FALSE /\ s.fresh = TRUE
        /\ s.orphan = o
    BY <2>1, <2>4, <2>5, <2>7, SetTimer
  <2> QED BY <2>3, <2>7, <2>8 DEF Good, Answered, Kept, Spaced
<1>3. CASE s = r
  BY <1>3
<1>4. CASE s \in set_short_delay([r EXCEPT !.initcounter = 0])
  <2> DEFINE t == [r EXCEPT !.initcounter = 0]
  <2>1. 0 \in 0..MAX_INITIAL_RTR_ADVERTISEMENTS
    BY Constants
  <2>2. /\ t \in RaInfo /\ t.flag = r.flag /\ t.timer = r.timer /\ t.orphan = r.orphan
        /\ t.prefix = r.prefix
    BY <1>0, <2>1 DEF RaInfo
  <2> HIDE DEF t
  <2>3. Typed(t)
    BY <1>0, <2>2 DEF Typed
  <2>4. AllUp => Kept(t)
    BY <2>2 DEF Good, Kept
  <2> QED BY <1>4, <2>3, <2>4, ShortDelay DEF Good, t
<1> QED BY <1>1, <1>2, <1>3, <1>4 DEF Flags

\* A prefix is added or invalidated.
LEMMA PrefixGood ==
    ASSUME NEW r, Good(r), NEW p \in Prefixes
    PROVE  Good(Added(r, p)) /\ Good(Deleted(r, p))
<1>1. ASSUME NEW n \in {Off, prefix_timo} PROVE Good([r EXCEPT !.prefix[p] = n])
  <2> DEFINE f == [r.prefix EXCEPT ![p] = n]
  <2>1. r.prefix \in [Prefixes -> {Absent, Off} \cup Nat] /\ \A q \in Prefixes : r.prefix[q] <= prefix_timo
    BY Fields DEF Good, Typed
  <2>2. n \in {Absent, Off} \cup Nat /\ n <= prefix_timo
    BY Constants
  <2>3. f \in [Prefixes -> {Absent, Off} \cup Nat] /\ \A q \in Prefixes : f[q] <= prefix_timo
    BY <2>1, <2>2
  <2>4. [r EXCEPT !.prefix[p] = n] = [r EXCEPT !.prefix = f]
    OBVIOUS
  <2> HIDE DEF f
  <2>5. Typed([r EXCEPT !.prefix = f]) /\ SameTimers(r, [r EXCEPT !.prefix = f])
    BY <2>3, SetPrefix DEF Good
  <2> QED BY <2>4, <2>5, OnlyPrefixes
<1> QED BY <1>1 DEF Added, Deleted

\* rtmsg_input(), whatever the message is.
LEMMA HandledGood ==
    ASSUME NEW m \in Messages, Good(rai[m.ifindex]), up \in [Ifs -> BOOLEAN], NEW s \in Handled(m)
    PROVE  Good(s)
<1> DEFINE r == rai[m.ifindex]
<1>1. m.ifindex \in Ifs /\ up[m.ifindex] \in BOOLEAN
  BY DEF Messages
<1>2. CASE m.type = "RTM_IFINFO"
  <2>1. m.up \in BOOLEAN
    BY <1>2 DEF Messages
  <2>2. s \in Flags(r, m.up, FALSE)
    BY <1>2, Zenon DEF Handled
  <2> QED BY <2>1, <2>2, FlagsGood, Zenon
<1>3. CASE m.type = "RTM_NEWADDR"
  <2>1. s \in Flags(r, up[m.ifindex], FALSE)
    BY <1>3, Zenon DEF Handled
  <2> QED BY <1>1, <2>1, FlagsGood, Zenon
<1>4. CASE m.type \in {"RTM_ADD", "RTM_DELETE"} /\ m.p \in Unfit
  <2>1. s \in Flags(r, up[m.ifindex], FALSE)
    BY <1>4, Zenon DEF Handled
  <2> QED BY <1>1, <2>1, FlagsGood, Zenon
<1>5. CASE m.type = "RTM_ADD" /\ m.p \notin Unfit
  <2>1. m.p \in Prefixes
    BY <1>5 DEF Messages
  <2>2. s \in Flags(Added(r, m.p), up[m.ifindex], Added(r, m.p) # r)
    BY <1>5 DEF Handled
  <2>3. (Added(r, m.p) # r) \in BOOLEAN
    OBVIOUS
  <2> QED BY <1>1, <2>1, <2>2, <2>3, PrefixGood, FlagsGood, Zenon
<1>6. CASE m.type = "RTM_DELETE" /\ m.p \notin Unfit
  <2>1. m.p \in Prefixes
    BY <1>6 DEF Messages
  <2>2. s \in Flags(Deleted(r, m.p), up[m.ifindex], Deleted(r, m.p) # r)
    BY <1>6 DEF Handled
  <2>3. (Deleted(r, m.p) # r) \in BOOLEAN
    OBVIOUS
  <2> QED BY <1>1, <2>1, <2>2, <2>3, PrefixGood, FlagsGood, Zenon
<1>7. m.type \in {"RTM_IFINFO", "RTM_NEWADDR", "RTM_ADD", "RTM_DELETE"}
  BY DEF Messages
<1> QED BY <1>2, <1>3, <1>4, <1>5, <1>6, <1>7

\* A second passes.
Later(r) == [r EXCEPT !.timer = Before(@), !.orphan = Before(@),
                      !.lastsent = IF @ < MIN_DELAY_BETWEEN_RAS THEN @ + 1 ELSE @,
                      !.prefix = [p \in Prefixes |-> Before(@[p])]]

\* A second leaves a good interface good.
LEMMA LaterGood ==
    ASSUME NEW r, Good(r)
    PROVE  Good(Later(r))
<1> DEFINE t == Before(r.timer)
           o == Before(r.orphan)
           l == IF r.lastsent < MIN_DELAY_BETWEEN_RAS THEN r.lastsent + 1 ELSE r.lastsent
           f == [p \in Prefixes |-> Before(r.prefix[p])]
           s == [r EXCEPT !.timer = t, !.orphan = o, !.lastsent = l, !.prefix = f]
<1>1. r \in RaInfo /\ \A p \in Prefixes : r.prefix[p] <= prefix_timo
  BY DEF Good, Typed
<1>2. /\ t \in {Off} \cup Nat /\ (t = Off <=> r.timer = Off) /\ t <= r.timer
      /\ o \in {Off} \cup Nat /\ (r.orphan = Off => o = Off)
  BY <1>1, Fields, Constants DEF Before
<1>3. l \in 0..MIN_DELAY_BETWEEN_RAS
  BY <1>1, Fields, Constants
<1>4. t + l >= 3 \/ t + l >= r.timer + r.lastsent
  BY <1>1, Fields, Constants DEF Before
<1>5. t + l <= 4 \/ t + l <= r.timer + r.lastsent
  BY <1>1, Fields, Constants DEF Before
<1>6. f \in [Prefixes -> {Absent, Off} \cup Nat]
  BY <1>1, Fields, Constants DEF Before
<1>7. \A p \in Prefixes : f[p] <= prefix_timo
  BY <1>1, Fields, Constants DEF Before
<1>8. Later(r) = s
  BY DEF Later
<1>9. t \in Int /\ l \in Int /\ r.timer \in Int /\ r.lastsent \in Int
  BY <1>1, <1>2, <1>3, Fields, Constants
<1> HIDE DEF t, o, l, f
<1>10. /\ s \in RaInfo /\ s.flag = r.flag /\ s.fresh = r.fresh /\ s.waiting = r.waiting
       /\ s.timer = t /\ s.orphan = o /\ s.lastsent = l /\ s.prefix = f
  BY <1>1, <1>2, <1>3, <1>6, Zenon DEF RaInfo
<1> HIDE DEF s
<1>11. Typed(s)
  BY <1>2, <1>7, <1>9, <1>10, Constants DEF Good, Typed
<1>12. /\ r.timer + r.lastsent <= MIN_DELAY_BETWEEN_RAS + 1
            => s.timer + s.lastsent <= MIN_DELAY_BETWEEN_RAS + 1
       /\ r.timer + r.lastsent >= MIN_DELAY_BETWEEN_RAS
            => s.timer + s.lastsent >= MIN_DELAY_BETWEEN_RAS
  BY <1>4, <1>5, <1>9, <1>10, Constants
<1>13. Answered(s) /\ (AllUp => Spaced(s))
  BY <1>10, <1>12 DEF Good, Answered, Spaced
<1>14. AllUp => Kept(s)
  BY <1>2, <1>10 DEF Good, Kept
<1> QED BY <1>8, <1>11, <1>13, <1>14 DEF Good

----------------------------------------------------------------------------
(* The daemon *)

\* After die() the interfaces are as its last advertisements leave them.
Dead(r) == Typed(r) /\ Answered(r) /\ (AllUp => Kept(r))

Rest ==
    /\ pc \in Pcs /\ do_dump \in BOOLEAN /\ do_die \in BOOLEAN
    /\ up \in [Ifs -> BOOLEAN] /\ routes \in [Ifs -> SUBSET Prefixes]
    /\ msgs \in Seq(Messages) /\ changes \in 0..MaxChanges /\ missed \in BOOLEAN

IInv ==
    /\ Rest /\ rai \in [Ifs -> RaInfo]
    /\ \A i \in Ifs : IF pc = "done" THEN Dead(rai[i]) ELSE Good(rai[i])

\* What is good is also good enough for the end.
LEMMA GoodDead == ASSUME NEW r, Good(r) PROVE Dead(r)
BY DEF Good, Dead

\* A state whose interfaces are good.
LEMMA FromGood ==
    ASSUME Rest', DOMAIN rai' = Ifs, rai' = [i \in Ifs |-> rai'[i]],
           \A i \in Ifs : Good(rai'[i])
    PROVE  IInv'
<1>1. \A i \in Ifs : rai'[i] \in RaInfo /\ Dead(rai'[i])
  BY GoodDead DEF Good, Typed
<1>2. rai' \in [Ifs -> RaInfo]
  BY <1>1
<1> QED BY <1>1, <1>2 DEF IInv

\* getconfig() makes a good interface.
LEMMA ConfigGood ==
    ASSUME NEW flag \in InitUp, NEW listed \in SUBSET Prefixes
    PROVE  Good(getconfig(flag, listed))
<1> DEFINE f == [p \in Prefixes |-> IF p \in listed THEN Off ELSE Absent]
           t == [lifetime |-> FALSE, valid |-> {}, zero |-> {}]
           s == [flag |-> flag, timer |-> 0, orphan |-> Off, initcounter |-> 0, waiting |-> FALSE,
                 lastsent |-> MIN_DELAY_BETWEEN_RAS, lifetime |-> TRUE, prefix |-> f,
                 told |-> t, fresh |-> TRUE]
<1>1. getconfig(flag, listed) = s
  BY DEF getconfig
<1>2. flag \in BOOLEAN /\ (AllUp => flag)
  BY ConfigAssumption, Zenon DEF ConfigAssumption, AllUp
<1>3. f \in [Prefixes -> {Absent, Off} \cup Nat] /\ \A p \in Prefixes : f[p] <= prefix_timo
  BY Constants
<1>4. t \in [lifetime : BOOLEAN, valid : SUBSET Prefixes, zero : SUBSET Prefixes]
  OBVIOUS
<1>5. /\ 0 \in 0..MAX_INITIAL_RTR_ADVERTISEMENTS /\ MIN_DELAY_BETWEEN_RAS \in 0..MIN_DELAY_BETWEEN_RAS
      /\ 0 < maxinterval + MIN_DELAY_BETWEEN_RAS /\ 0 # Off
  BY Constants
<1> HIDE DEF f, t
<1>6. /\ s \in RaInfo /\ s.flag = flag /\ s.timer = 0 /\ s.orphan = Off /\ s.waiting = FALSE
      /\ s.fresh = TRUE /\ s.prefix = f
  BY <1>2, <1>3, <1>4, <1>5 DEF RaInfo
<1> HIDE DEF s
<1> QED BY <1>1, <1>2, <1>3, <1>5, <1>6 DEF Good, Typed, Answered, Kept, Spaced

\* rtadvd starts with good interfaces.
LEMMA InitIInv == Init => IInv
<1> SUFFICES ASSUME Init PROVE IInv OBVIOUS
<1> DEFINE l(i) == IF Static # {} THEN Static ELSE routes[i] \ Unfit
<1>1. ConfigAssumption
  BY ConfigAssumption
<1>2. \A i \in Ifs : up[i] \in InitUp /\ l(i) \in SUBSET Prefixes
  BY <1>1 DEF Init, ConfigAssumption
<1>3. rai = [i \in Ifs |-> getconfig(up[i], l(i))]
  BY DEF Init
<1> HIDE DEF l
<1>4. \A i \in Ifs : Good(rai[i])
  BY <1>2, <1>3, ConfigGood
<1>5. rai \in [Ifs -> RaInfo]
  BY <1>3, <1>4 DEF Good, Typed
<1>6. Rest
  <2>1. up \in [Ifs -> BOOLEAN]
    BY <1>1 DEF Init, ConfigAssumption
  <2>2. 0 \in 0..MaxChanges /\ <<>> \in Seq(Messages)
    BY <1>1 DEF ConfigAssumption
  <2> QED BY <2>1, <2>2, Zenon DEF Init, Rest, Pcs
<1>7. pc # "done"
  BY DEF Init
<1> QED BY <1>4, <1>5, <1>6, <1>7 DEF IInv

\* The loop and its timers.
LEMMA LoopIInv ==
    ASSUME IInv, rtsock_open \/ die \/ Top \/ rtadvd_check_timer \/ Timeout \/ OtherInput
    PROVE  IInv'
<1>0. Rest
  BY DEF IInv
<1>1. CASE die
  <2>1. pc # "done" /\ pc' = "done" /\ rai' = [i \in Ifs |-> ra_output([rai[i] EXCEPT !.lifetime = FALSE])]
    BY <1>1 DEF die
  <2>2. ASSUME NEW i \in Ifs PROVE Dead(rai'[i])
    <3> DEFINE r == rai[i]
               t == [r EXCEPT !.lifetime = FALSE]
               s == ra_output(t)
    <3>1. Good(r) /\ r \in RaInfo
      BY <2>1 DEF IInv
    <3>2. rai'[i] = s
      BY <2>1
    <3> HIDE DEF r
    <3>3. t \in RaInfo /\ SameTimers(r, t) /\ t.prefix = r.prefix
      BY <3>1, Zenon DEF RaInfo, SameTimers
    <3> HIDE DEF t
    <3>4. Typed(t)
      BY <3>1, <3>3 DEF Good, Typed, SameTimers
    <3>5. Typed(s) /\ s.flag = t.flag /\ s.timer = t.timer /\ s.orphan = t.orphan
          /\ (t.flag => s.waiting = FALSE)
      BY <3>4, Output, Zenon
    <3> HIDE DEF s
    <3>6. Answered(s)
      BY <3>5 DEF Answered
    <3>7. AllUp => Kept(s)
      BY <3>1, <3>3, <3>5 DEF Good, Kept, SameTimers
    <3> QED BY <3>2, <3>5, <3>6, <3>7 DEF Dead
  <2>3. rai' \in [Ifs -> RaInfo]
    BY <2>1, <2>2 DEF Dead, Typed
  <2>4. Rest'
    BY <1>0, <1>1, Zenon DEF die, Rest, Pcs
  <2> QED BY <2>1, <2>2, <2>3, <2>4 DEF IInv
<1>2. CASE rtadvd_check_timer
  <2>1. PICK f \in [Ifs -> UNION {Checked(rai[i]) : i \in Ifs}] :
          (\A i \in Ifs : f[i] \in Checked(rai[i])) /\ rai' = f
    BY <1>2 DEF rtadvd_check_timer
  <2>2. \A i \in Ifs : Good(rai[i])
    BY <1>2 DEF IInv, rtadvd_check_timer
  <2>3. \A i \in Ifs : Good(rai'[i])
    BY <2>1, <2>2, CheckedGood
  <2>4. Rest'
    BY <1>0, <1>2 DEF rtadvd_check_timer, Rest, Pcs
  <2> QED BY <2>1, <2>3, <2>4, FromGood
<1>3. CASE rtsock_open \/ Top \/ Timeout \/ OtherInput
  <2>1. pc # "done" /\ pc' # "done" /\ rai' = rai
    BY <1>3 DEF rtsock_open, Top, Timeout, OtherInput, Input
  <2>2. Rest'
    BY <1>0, <1>3, Zenon DEF rtsock_open, Top, Timeout, OtherInput, Rest, Pcs
  <2> QED BY <2>1, <2>2 DEF IInv
<1> QED BY <1>1, <1>2, <1>3

\* Routing messages and solicitations.
LEMMA InputIInv ==
    ASSUME IInv, rtmsg_input \/ \E i \in Ifs : rs_input(i)
    PROVE  IInv'
<1>0. Rest /\ rai \in [Ifs -> RaInfo]
  BY DEF IInv
<1>1. pc # "done"
  BY Zenon DEF rtmsg_input, rs_input, Input
<1>2. \A i \in Ifs : Good(rai[i])
  BY <1>1 DEF IInv
<1>3. CASE rtmsg_input
  <2> DEFINE m == Head(msgs)
  <2>1. m \in Messages /\ Tail(msgs) \in Seq(Messages)
    BY <1>0, <1>3 DEF rtmsg_input, Rest
  <2>2. m.ifindex \in Ifs
    BY <2>1 DEF Messages
  <2>3. Rest'
    BY <1>0, <1>3, <2>1 DEF rtmsg_input, Rest, Pcs
  <2>4. rai' = rai \/ \E r \in Handled(m) : rai' = [rai EXCEPT ![m.ifindex] = r]
    BY <1>3 DEF rtmsg_input
  <2> HIDE DEF m
  <2>5. ASSUME NEW r \in Handled(m), rai' = [rai EXCEPT ![m.ifindex] = r] PROVE IInv'
    <3>1. Good(r)
      BY <1>0, <1>2, <2>1, <2>2, HandledGood DEF Rest
    <3>2. \A i \in Ifs : Good(rai'[i])
      BY <1>0, <1>2, <2>5, <3>1
    <3> QED BY <1>0, <2>3, <2>5, <3>2, FromGood, Zenon
  <2>6. CASE rai' = rai
    BY <1>0, <1>2, <2>3, <2>6, FromGood
  <2> QED BY <2>4, <2>5, <2>6
<1>4. ASSUME NEW i \in Ifs, rs_input(i) PROVE IInv'
  <2>1. Rest'
    BY <1>0, <1>4 DEF rs_input, Rest, Pcs
  <2>2. rai' = rai \/ \E r \in set_short_delay([rai[i] EXCEPT !.waiting = TRUE]) :
                        rai' = [rai EXCEPT ![i] = r]
    BY <1>4, Zenon DEF rs_input
  <2> DEFINE r == rai[i]
             t == [r EXCEPT !.waiting = TRUE]
  <2>3. ASSUME NEW s \in set_short_delay(t), rai' = [rai EXCEPT ![i] = s] PROVE IInv'
    <3>1. Good(r) /\ r \in RaInfo
      BY <1>0, <1>2
    <3> HIDE DEF r
    <3>2. /\ t \in RaInfo /\ t.flag = r.flag /\ t.timer = r.timer /\ t.orphan = r.orphan
          /\ t.prefix = r.prefix
      BY <3>1, Zenon DEF RaInfo
    <3>3. s \in set_short_delay(t)
      BY <2>3 DEF r
    <3> HIDE DEF t
    <3>4. Typed(t) /\ (AllUp => Kept(t))
      BY <3>1, <3>2 DEF Good, Typed, Kept
    <3>5. Good(s)
      BY <3>3, <3>4, ShortDelay DEF Good
    <3>6. \A j \in Ifs : Good(rai'[j])
      BY <1>0, <1>2, <2>3, <3>5
    <3> QED BY <1>0, <2>1, <2>3, <3>6, FromGood, Zenon
  <2>4. CASE rai' = rai
    BY <1>0, <1>2, <2>1, <2>4, FromGood
  <2> QED BY <2>2, <2>3, <2>4, Zenon
<1> QED BY <1>3, <1>4

\* Links, routes, signals and the clock.
LEMMA OutsideIInv ==
    ASSUME IInv, Environment
    PROVE  IInv'
<1>0. Rest /\ rai \in [Ifs -> RaInfo]
  BY DEF IInv
<1>1. CASE Tick
  <2>1. pc # "done" /\ rai' = [i \in Ifs |-> Later(rai[i])]
    BY <1>1, Zenon DEF Tick, Later
  <2>2. \A i \in Ifs : Good(rai[i])
    BY <2>1 DEF IInv
  <2>3. \A i \in Ifs : Good(rai'[i])
    BY <2>1, <2>2, LaterGood
  <2>4. Rest'
    BY <1>0, <1>1, Zenon DEF Tick, Rest
  <2> QED BY <2>1, <2>3, <2>4, FromGood
<1>2. CASE rtadvd_set_dump_file \/ set_die
  <2>1. pc # "done" /\ pc' # "done" /\ rai' = rai
    BY <1>2 DEF rtadvd_set_dump_file, set_die, Interrupted
  <2>2. Rest'
    BY <1>0, <1>2, Zenon DEF rtadvd_set_dump_file, set_die, Interrupted, Rest, Pcs
  <2> QED BY <2>1, <2>2 DEF IInv
<1>3. ASSUME NEW m \in Messages, Tell(m), up' \in [Ifs -> BOOLEAN], routes' \in [Ifs -> SUBSET Prefixes]
      PROVE  IInv'
  <2>1. msgs' \in Seq(Messages)
    BY <1>0, <1>3 DEF Tell, Rest
  <2>2. changes' \in 0..MaxChanges
    BY <1>0, <1>3, ConfigAssumption DEF Tell, Rest, ConfigAssumption
  <2>3. missed' \in BOOLEAN /\ pc' = pc /\ rai' = rai /\ do_dump' = do_dump /\ do_die' = do_die
    BY <1>0, <1>3, Zenon DEF Tell, Rest
  <2>4. Rest'
    BY <1>0, <1>3, <2>1, <2>2, <2>3 DEF Rest
  <2> QED BY <2>3, <2>4 DEF IInv
<1>4. ASSUME NEW i \in Ifs, LinkChange(i) PROVE IInv'
  <2>1. up' \in [Ifs -> BOOLEAN] /\ routes' \in [Ifs -> SUBSET Prefixes]
    BY <1>0, <1>4 DEF LinkChange, Rest
  <2>2. [type |-> "RTM_IFINFO", ifindex |-> i, up |-> up'[i]] \in Messages
    BY <2>1 DEF Messages
  <2> QED BY <1>3, <1>4, <2>1, <2>2 DEF LinkChange
<1>5. ASSUME NEW i \in Ifs, AddressChange(i) PROVE IInv'
  <2>1. [type |-> "RTM_NEWADDR", ifindex |-> i] \in Messages
    BY DEF Messages
  <2> QED BY <1>0, <1>3, <1>5, <2>1 DEF AddressChange, Rest
<1>6. ASSUME NEW i \in Ifs, NEW p \in Prefixes, RouteChange(i, p) PROVE IInv'
  <2>1. up' \in [Ifs -> BOOLEAN] /\ routes' \in [Ifs -> SUBSET Prefixes]
    BY <1>0, <1>6 DEF RouteChange, Rest
  <2>2. [type |-> IF p \in routes[i] THEN "RTM_DELETE" ELSE "RTM_ADD", ifindex |-> i, p |-> p]
          \in Messages
    BY DEF Messages
  <2> QED BY <1>3, <1>6, <2>1, <2>2 DEF RouteChange
<1> QED BY <1>1, <1>2, <1>4, <1>5, <1>6 DEF Environment

\* Every interface is typed and answers in time, also after die().
LEMMA EachInterface ==
    ASSUME IInv
    PROVE  \A i \in Ifs : Dead(rai[i]) /\ (pc # "done" => Good(rai[i]))
BY GoodDead DEF IInv

-----------------------------------------------------------------------------
(***************************************************************************)
(* The cached flags and prefixes are the kernel's once the routing socket  *)
(* is empty, for any number of interfaces, prefixes, changes and messages  *)
(* waiting.                                                                *)
(*                                                                         *)
(* The prefixes lag behind the kernel: they are those of H[0], where H[k]  *)
(* are the routes after the first k of the messages that wait.  The flags  *)
(* may be ahead, because some messages make rtadvd read the current ones;  *)
(* it is enough that the last RTM_IFINFO that waits carries the current    *)
(* ones, or that none waits and they are cached.                           *)
(***************************************************************************)

\* R are the routes the prefixes f reflect.
Known(R, f) ==
    /\ \A p \in R : f[p] \in {Absent, Off}
    /\ \A p \in Prefixes \cap Unfit : f[p] = Absent
    /\ Static = {} => \A p \in Prefixes \ Unfit : p \in R <=> f[p] = Off

Routes == [Ifs -> SUBSET Prefixes]

\* What a message says of the routes before and after it.
Says(R, m, S) ==
    /\ m.type = "RTM_ADD" => m.p \notin R[m.ifindex] /\ S = [R EXCEPT ![m.ifindex] = @ \cup {m.p}]
    /\ m.type = "RTM_DELETE" => m.p \in R[m.ifindex] /\ S = [R EXCEPT ![m.ifindex] = @ \ {m.p}]
    /\ m.type \notin {"RTM_ADD", "RTM_DELETE"} => S = R

History(H, q, R) ==
    /\ H \in [0..Len(q) -> Routes] /\ H[Len(q)] = R
    /\ \A k \in 1..Len(q) : Says(H[k - 1], q[k], H[k])

PrefixSync == \E H \in [0..Len(msgs) -> Routes] :
    History(H, msgs, routes) /\ \A i \in Ifs : Known(H[0][i], rai[i].prefix)

IsInfo(m, i) == m.type = "RTM_IFINFO" /\ m.ifindex = i

\* The last RTM_IFINFO of interface i in q, if there is one, carries flag u.
LastInfo(q, i, u) ==
    \A k \in 1..Len(q) : IsInfo(q[k], i) =>
        q[k].up = u \/ \E j \in 1..Len(q) : j > k /\ IsInfo(q[j], i)

NoInfo(q, i) == \A k \in 1..Len(q) : ~IsInfo(q[k], i)

FlagSync == \A i \in Ifs :
    /\ LastInfo(msgs, i, up[i])
    /\ NoInfo(msgs, i) => rai[i].flag = up[i]

LastAdvertisement == pc = "done" => \A i \in Ifs : rai[i].flag => rai[i].told.lifetime = FALSE

Sync == ~missed => pc # "failed" /\ PrefixSync /\ FlagSync

SInv == IInv /\ Sync /\ LastAdvertisement

----------------------------------------------------------------------------
(* One interface *)

\* Prefixes that expire are neither valid nor routes.
LEMMA CheckedFields ==
    ASSUME NEW r, Good(r), NEW s \in Checked(r)
    PROVE  /\ s.flag = r.flag
           /\ \A p \in Prefixes : s.prefix[p] = IF r.prefix[p] = 0 THEN Absent ELSE r.prefix[p]
<1>1. PICK t \in TimerExpires(prefix_timeout(r)) \cup {prefix_timeout(u) : u \in TimerExpires(r)} :
        s \in OrphanExpires(t)
  BY DEF Checked
<1>2. /\ Good(t) /\ t.flag = r.flag
      /\ \A p \in Prefixes : t.prefix[p] = IF r.prefix[p] = 0 THEN Absent ELSE r.prefix[p]
  <2>1. CASE t \in TimerExpires(prefix_timeout(r))
    <3> DEFINE q == prefix_timeout(r)
    <3>1. /\ Typed(q) /\ SameTimers(r, q)
          /\ \A p \in Prefixes : q.prefix[p] = IF r.prefix[p] = 0 THEN Absent ELSE r.prefix[p]
      BY PrefixTimeout DEF Good
    <3>2. Good(q)
      BY <3>1, OnlyPrefixes
    <3>3. t \in TimerExpires(q)
      BY <2>1
    <3> HIDE DEF q
    <3>4. Good(t) /\ t.flag = q.flag /\ t.prefix = q.prefix
      BY <3>2, <3>3, Expires
    <3> QED BY <3>1, <3>4 DEF SameTimers
  <2>2. ASSUME NEW v \in TimerExpires(r), t = prefix_timeout(v)
        PROVE  /\ Good(t) /\ t.flag = r.flag
               /\ \A p \in Prefixes : t.prefix[p] = IF r.prefix[p] = 0 THEN Absent ELSE r.prefix[p]
    <3>1. Good(v) /\ v.flag = r.flag /\ v.prefix = r.prefix
      BY <2>2, Expires
    <3>2. /\ Typed(t) /\ SameTimers(v, t)
          /\ \A p \in Prefixes : t.prefix[p] = IF v.prefix[p] = 0 THEN Absent ELSE v.prefix[p]
      BY <2>2, <3>1, PrefixTimeout DEF Good
    <3>3. Good(t)
      BY <3>1, <3>2, OnlyPrefixes
    <3> QED BY <3>1, <3>2, <3>3 DEF SameTimers
  <2> QED BY <1>1, <2>1, <2>2
<1>3. s.flag = t.flag /\ s.prefix = t.prefix
  BY <1>1, <1>2, Orphan
<1> QED BY <1>2, <1>3

\* The flags are those of the message, the prefixes are left alone.
LEMMA FlagsSet ==
    ASSUME NEW r \in RaInfo, NEW flag \in BOOLEAN, NEW change \in BOOLEAN,
           NEW s \in Flags(r, flag, change)
    PROVE  s.flag = flag /\ s.prefix = r.prefix
<1>0. r.flag \in BOOLEAN
  BY DEF RaInfo
<1>1. CASE r.flag /\ ~flag
  <2>1. s = [r EXCEPT !.flag = FALSE, !.timer = Off]
    BY <1>1 DEF Flags, GoesDown
  <2>2. s.flag = FALSE /\ s.prefix = r.prefix
    BY <2>1 DEF RaInfo
  <2> QED BY <1>1, <2>2, Zenon
<1>2. CASE ~r.flag /\ flag
  <2> DEFINE o == IF r.timer = Off THEN r.orphan ELSE r.timer
             t == [r EXCEPT !.flag = TRUE, !.initcounter = 0, !.waiting = FALSE, !.fresh = TRUE,
                            !.orphan = o]
  <2>1. PICK n \in ra_timer_update(t) : s = [t EXCEPT !.timer = n]
    BY <1>2, Zenon DEF Flags, ComesUp
  <2> HIDE DEF o
  <2>2. s.flag = TRUE /\ s.prefix = r.prefix
    BY <2>1 DEF RaInfo
  <2> QED BY <1>2, <2>2, Zenon
<1>3. CASE r.flag = flag /\ s = r
  BY <1>3
<1>4. CASE r.flag = flag /\ s \in set_short_delay([r EXCEPT !.initcounter = 0])
  <2> DEFINE t == [r EXCEPT !.initcounter = 0]
  <2>1. t.flag = r.flag /\ t.prefix = r.prefix
    BY DEF RaInfo
  <2>2. s = t \/ \E n : s = [t EXCEPT !.timer = n]
    BY <1>4, Zenon DEF set_short_delay
  <2>3. s.flag = r.flag /\ s.prefix = r.prefix
    <3>1. ASSUME NEW n, s = [t EXCEPT !.timer = n] PROVE s.flag = r.flag /\ s.prefix = r.prefix
      BY <3>1 DEF RaInfo
    <3> QED BY <2>1, <2>2, <3>1, Zenon
  <2> QED BY <1>4, <2>3
<1>5. r.flag = flag \/ (r.flag /\ ~flag) \/ (~r.flag /\ flag)
  BY <1>0
<1>6. r.flag = flag => s = r \/ s \in set_short_delay([r EXCEPT !.initcounter = 0])
  BY <1>0 DEF Flags
<1> QED BY <1>1, <1>2, <1>3, <1>4, <1>5, <1>6

\* A second does not make a prefix valid or invalid.
LEMMA LaterKnown ==
    ASSUME NEW r \in RaInfo, NEW R \in SUBSET Prefixes, Known(R, r.prefix)
    PROVE  Later(r).flag = r.flag /\ Known(R, Later(r).prefix)
<1> DEFINE f == [p \in Prefixes |-> Before(r.prefix[p])]
<1>1. Later(r).flag = r.flag /\ Later(r).prefix = f
  BY DEF Later, RaInfo
<1>2. \A p \in Prefixes : (f[p] = Off <=> r.prefix[p] = Off) /\ (r.prefix[p] = Absent => f[p] = Absent)
  BY Fields, Constants DEF Before
<1> HIDE DEF f
<1>3. Known(R, f)
  BY <1>2 DEF Known
<1> QED BY <1>1, <1>3

----------------------------------------------------------------------------
(* The queue *)

\* A message is read.
LEMMA HistoryTail ==
    ASSUME NEW q \in Seq(Messages), q # <<>>, NEW R, NEW H, History(H, q, R)
    PROVE  LET G == [k \in 0..Len(Tail(q)) |-> H[k + 1]] IN
           /\ History(G, Tail(q), R) /\ G \in [0..Len(Tail(q)) -> Routes]
           /\ H[0] \in Routes /\ G[0] \in Routes /\ Says(H[0], Head(q), G[0])
<1> DEFINE G == [k \in 0..Len(Tail(q)) |-> H[k + 1]]
<1>1. /\ Len(q) \in Nat /\ Len(q) > 0 /\ Len(Tail(q)) = Len(q) - 1
      /\ \A k \in 1..Len(Tail(q)) : Tail(q)[k] = q[k + 1]
      /\ Head(q) = q[1]
  OBVIOUS
<1>2. H \in [0..Len(q) -> Routes] /\ H[Len(q)] = R
  BY DEF History
<1>3. G \in [0..Len(Tail(q)) -> Routes]
  BY <1>1, <1>2
<1>4. G[Len(Tail(q))] = R
  BY <1>1, <1>2
<1>5. \A k \in 1..Len(Tail(q)) : Says(G[k - 1], Tail(q)[k], G[k])
  <2> TAKE k \in 1..Len(Tail(q))
  <2>1. k + 1 \in 1..Len(q) /\ (k + 1) - 1 = k /\ G[k - 1] = H[k] /\ G[k] = H[k + 1]
    BY <1>1
  <2>2. Says(H[(k + 1) - 1], q[k + 1], H[k + 1])
    BY <2>1 DEF History
  <2> QED BY <1>1, <2>1, <2>2
<1>6. Says(H[0], q[1], H[1]) /\ G[0] = H[1] /\ H[0] \in Routes /\ G[0] \in Routes
  <2>1. 1 \in 1..Len(q) /\ 1 - 1 = 0 /\ 0 \in 0..Len(q) /\ 0 \in 0..Len(Tail(q))
    BY <1>1
  <2>2. G[0] = H[1]
    BY <2>1
  <2> QED BY <1>2, <1>3, <2>1, <2>2 DEF History
<1> QED BY <1>1, <1>3, <1>4, <1>5, <1>6 DEF History

\* A message is queued.
LEMMA HistoryAppend ==
    ASSUME NEW q \in Seq(Messages), NEW m \in Messages, NEW R, NEW H, History(H, q, R),
           NEW S \in Routes, Says(R, m, S)
    PROVE  \E G \in [0..Len(Append(q, m)) -> Routes] :
               History(G, Append(q, m), S) /\ G[0] = H[0]
<1> DEFINE n == Len(q) + 1
           G == [k \in 0..n |-> IF k = n THEN S ELSE H[k]]
<1>1. /\ Len(q) \in Nat /\ Len(Append(q, m)) = n /\ Append(q, m)[n] = m
      /\ \A k \in 1..Len(q) : Append(q, m)[k] = q[k]
  OBVIOUS
<1>2. H \in [0..Len(q) -> Routes] /\ H[Len(q)] = R
  BY DEF History
<1>3. G \in [0..n -> Routes] /\ G[n] = S
  BY <1>1, <1>2
<1>4. \A k \in 1..n : Says(G[k - 1], Append(q, m)[k], G[k])
  <2> TAKE k \in 1..n
  <2>1. CASE k = n
    <3>1. G[k - 1] = R
      BY <1>1, <1>2, <2>1
    <3> QED BY <1>1, <1>3, <2>1, <3>1
  <2>2. CASE k # n
    <3>1. k \in 1..Len(q) /\ G[k - 1] = H[k - 1] /\ G[k] = H[k]
      BY <1>1, <2>2
    <3> QED BY <1>1, <3>1 DEF History
  <2> QED BY <2>1, <2>2
<1>5. G[0] = H[0]
  BY <1>1
<1>6. History(G, Append(q, m), S)
  BY <1>1, <1>3, <1>4 DEF History
<1> HIDE DEF n, G
<1> QED BY <1>1, <1>3, <1>5, <1>6

\* The first message read: the flag of the interface is then that it reports, if no other
\* message about the interface is left.
LEMMA InfoTail ==
    ASSUME NEW q \in Seq(Messages), q # <<>>, NEW i, NEW u, LastInfo(q, i, u)
    PROVE  /\ LastInfo(Tail(q), i, u)
           /\ NoInfo(Tail(q), i) => NoInfo(q, i) \/ (IsInfo(Head(q), i) /\ Head(q).up = u)
<1>1. /\ Len(q) \in Nat /\ Len(q) > 0 /\ Len(Tail(q)) = Len(q) - 1
      /\ \A k \in 1..Len(Tail(q)) : Tail(q)[k] = q[k + 1]
      /\ Head(q) = q[1]
  OBVIOUS
<1>2. LastInfo(Tail(q), i, u)
  <2> SUFFICES ASSUME NEW k \in 1..Len(Tail(q)), IsInfo(Tail(q)[k], i), Tail(q)[k].up # u
               PROVE  \E j \in 1..Len(Tail(q)) : j > k /\ IsInfo(Tail(q)[j], i)
    BY DEF LastInfo
  <2>1. k + 1 \in 1..Len(q) /\ IsInfo(q[k + 1], i) /\ q[k + 1].up # u
    BY <1>1
  <2>2. PICK j \in 1..Len(q) : j > k + 1 /\ IsInfo(q[j], i)
    BY <2>1 DEF LastInfo
  <2>3. j - 1 \in 1..Len(Tail(q)) /\ j - 1 > k /\ (j - 1) + 1 = j
    BY <1>1, <2>2
  <2>4. IsInfo(Tail(q)[j - 1], i)
    BY <1>1, <2>2, <2>3
  <2> QED BY <2>3, <2>4
<1>3. ASSUME NoInfo(Tail(q), i), ~NoInfo(q, i)
      PROVE  IsInfo(Head(q), i) /\ Head(q).up = u
  <2>1. \A k \in 1..Len(q) : IsInfo(q[k], i) => k = 1
    <3> SUFFICES ASSUME NEW k \in 1..Len(q), IsInfo(q[k], i), k # 1 PROVE FALSE OBVIOUS
    <3>1. k - 1 \in 1..Len(Tail(q)) /\ (k - 1) + 1 = k
      BY <1>1
    <3>2. Tail(q)[k - 1] = q[k]
      BY <1>1, <3>1
    <3> QED BY <1>3, <3>1, <3>2 DEF NoInfo
  <2>2. IsInfo(q[1], i) /\ 1 \in 1..Len(q)
    BY <1>3, <2>1 DEF NoInfo
  <2>3. q[1].up = u
    BY <2>1, <2>2 DEF LastInfo
  <2> QED BY <1>1, <2>2, <2>3
<1> QED BY <1>2, <1>3

\* A message more, from the kernel: the last about an interface reports its flag.
LEMMA InfoAppend ==
    ASSUME NEW q \in Seq(Messages), NEW m \in Messages, NEW i, NEW u, NEW v, LastInfo(q, i, u),
           IF IsInfo(m, i) THEN m.up = v ELSE v = u
    PROVE  /\ LastInfo(Append(q, m), i, v)
           /\ NoInfo(Append(q, m), i) => NoInfo(q, i) /\ ~IsInfo(m, i)
<1> DEFINE n == Len(q) + 1
<1>1. /\ Len(q) \in Nat /\ Len(Append(q, m)) = n /\ Append(q, m)[n] = m
      /\ \A k \in 1..Len(q) : Append(q, m)[k] = q[k]
  OBVIOUS
<1>2. n \in 1..n /\ (\A k \in 1..Len(q) : k \in 1..n /\ n > k)
      /\ (\A k \in 1..n : k = n \/ k \in 1..Len(q))
  BY <1>1
<1> HIDE DEF n
<1>3. LastInfo(Append(q, m), i, v)
  <2>1. CASE IsInfo(m, i)
    BY <1>1, <1>2, <2>1 DEF LastInfo
  <2>2. CASE ~IsInfo(m, i)
    BY <1>1, <1>2, <2>2 DEF LastInfo
  <2> QED BY <2>1, <2>2
<1>4. NoInfo(Append(q, m), i) => NoInfo(q, i) /\ ~IsInfo(m, i)
  BY <1>1, <1>2 DEF NoInfo
<1> QED BY <1>3, <1>4

----------------------------------------------------------------------------
(* The daemon *)

\* Steps that neither read nor write a message and leave flags and prefixes in
\* step.
LEMMA QuietSync ==
    ASSUME IInv, Sync, UNCHANGED <<msgs, routes, up, missed>>,
           pc' = "failed" => pc = "failed",
           \A i \in Ifs : /\ rai'[i].flag = rai[i].flag
                          /\ \A R \in SUBSET Prefixes :
                               Known(R, rai[i].prefix) => Known(R, rai'[i].prefix)
    PROVE  Sync'
<1> SUFFICES ASSUME ~missed PROVE (pc # "failed" /\ PrefixSync /\ FlagSync)'
  BY DEF Sync
<1>1. pc # "failed" /\ PrefixSync /\ FlagSync
  BY DEF Sync
<1>2. PICK H \in [0..Len(msgs) -> Routes] :
        History(H, msgs, routes) /\ \A i \in Ifs : Known(H[0][i], rai[i].prefix)
  BY <1>1 DEF PrefixSync
<1>3. Len(msgs) \in Nat
  BY DEF IInv, Rest
<1>4. H[0] \in Routes
  BY <1>3
<1>5. \A i \in Ifs : Known(H[0][i], rai'[i].prefix)
  BY <1>2, <1>4, Zenon DEF Routes
<1>6. PrefixSync'
  BY <1>2, <1>5 DEF PrefixSync
<1>7. FlagSync'
  BY <1>1 DEF FlagSync
<1> QED BY <1>1, <1>6, <1>7

\* rtmsg_input() brings an interface in step with its message.
LEMMA HandledSync ==
    ASSUME IInv, NEW m \in Messages, NEW s \in Handled(m), rai[m.ifindex] \in RaInfo,
           NEW R \in Routes, NEW S \in Routes, Says(R, m, S),
           Known(R[m.ifindex], rai[m.ifindex].prefix)
    PROVE  /\ s.flag = IF m.type = "RTM_IFINFO" THEN m.up ELSE up[m.ifindex]
           /\ Known(S[m.ifindex], s.prefix)
<1> DEFINE r == rai[m.ifindex]
           i == m.ifindex
<1>1. i \in Ifs /\ up[i] \in BOOLEAN /\ R[i] \in SUBSET Prefixes /\ r.prefix \in [Prefixes -> {Absent, Off} \cup Nat]
  BY Fields, Zenon DEF Messages, IInv, Rest, Routes
<1>2. CASE m.type = "RTM_IFINFO"
  <2>1. m.up \in BOOLEAN
    BY <1>2 DEF Messages
  <2>2. s \in Flags(r, m.up, FALSE)
    BY <1>2, Zenon DEF Handled
  <2>3. s.flag = m.up /\ s.prefix = r.prefix
    BY <2>1, <2>2, FlagsSet, Zenon
  <2>4. S = R
    BY <1>2 DEF Says
  <2> QED BY <1>2, <2>3, <2>4
<1>3. CASE m.type = "RTM_NEWADDR"
  <2>1. s \in Flags(r, up[i], FALSE)
    BY <1>3, Zenon DEF Handled
  <2>2. s.flag = up[i] /\ s.prefix = r.prefix
    BY <1>1, <2>1, FlagsSet, Zenon
  <2>3. S = R
    BY <1>3 DEF Says
  <2> QED BY <1>3, <2>2, <2>3
<1>4. CASE m.type \in {"RTM_ADD", "RTM_DELETE"} /\ m.p \in Unfit
  <2>1. s \in Flags(r, up[i], FALSE)
    BY <1>4, Zenon DEF Handled
  <2>2. s.flag = up[i] /\ s.prefix = r.prefix
    BY <1>1, <2>1, FlagsSet, Zenon
  <2>3. S[i] = R[i] \cup {m.p} \/ S[i] = R[i] \ {m.p}
    BY <1>1, <1>4 DEF Says, Routes
  <2>4. m.p \in Prefixes
    BY <1>4, Zenon DEF Messages
  <2>5. Known(S[i], r.prefix)
    BY <1>1, <1>4, <2>3, <2>4, Zenon DEF Known
  <2> QED BY <1>4, <2>2, <2>5
<1>5. CASE m.type = "RTM_ADD" /\ m.p \notin Unfit
  <2> DEFINE a == Added(r, m.p)
  <2>1. m.p \in Prefixes
    BY <1>5 DEF Messages
  <2>2. s \in Flags(a, up[i], a # r)
    BY <1>5 DEF Handled
  <2>3. a \in RaInfo /\ a.prefix = [r.prefix EXCEPT ![m.p] = Off]
    <3>1. [r.prefix EXCEPT ![m.p] = Off] \in [Prefixes -> {Absent, Off} \cup Nat]
      BY <1>1, <2>1
    <3>2. CASE r.prefix[m.p] = Off
      <4>1. a = r
        BY <3>2 DEF Added
      <4>2. [r.prefix EXCEPT ![m.p] = Off] = r.prefix
        BY <1>1, <3>2
      <4> QED BY <4>1, <4>2
    <3>3. CASE r.prefix[m.p] # Off
      <4>1. a = [r EXCEPT !.prefix[m.p] = Off]
        BY <3>3 DEF Added
      <4> QED BY <1>1, <3>1, <4>1 DEF RaInfo
    <3> QED BY <3>2, <3>3
  <2>4. (a # r) \in BOOLEAN
    OBVIOUS
  <2> HIDE DEF a
  <2>5. s.flag = up[i] /\ s.prefix = [r.prefix EXCEPT ![m.p] = Off]
    BY <1>1, <2>2, <2>3, <2>4, FlagsSet, Zenon
  <2>6. S[i] = R[i] \cup {m.p}
    BY <1>1, <1>5 DEF Says, Routes
  <2>7. Known(S[i], s.prefix)
    BY <1>1, <1>5, <2>1, <2>5, <2>6 DEF Known
  <2> QED BY <1>5, <2>5, <2>7
<1>6. CASE m.type = "RTM_DELETE" /\ m.p \notin Unfit
  <2> DEFINE a == Deleted(r, m.p)
             f == IF r.prefix[m.p] = Absent THEN r.prefix ELSE [r.prefix EXCEPT ![m.p] = prefix_timo]
  <2>1. m.p \in Prefixes
    BY <1>6 DEF Messages
  <2>2. s \in Flags(a, up[i], a # r)
    BY <1>6, Zenon DEF Handled
  <2>3. a \in RaInfo /\ a.prefix = f
    <3>1. [r.prefix EXCEPT ![m.p] = prefix_timo] \in [Prefixes -> {Absent, Off} \cup Nat]
      BY <1>1, <2>1, Constants
    <3>2. CASE r.prefix[m.p] = Absent
      BY <3>2 DEF Deleted
    <3>3. CASE r.prefix[m.p] # Absent
      <4>1. a = [r EXCEPT !.prefix[m.p] = prefix_timo]
        BY <3>3 DEF Deleted
      <4>2. a \in RaInfo /\ a.prefix = [r.prefix EXCEPT ![m.p] = prefix_timo]
        BY <1>1, <3>1, <4>1 DEF RaInfo
      <4> QED BY <3>3, <4>2
    <3> QED BY <3>2, <3>3, Zenon
  <2>4. (a # r) \in BOOLEAN
    OBVIOUS
  <2> HIDE DEF a
  <2>5. s.flag = up[i] /\ s.prefix = f
    BY <1>1, <2>2, <2>3, <2>4, FlagsSet, Zenon
  <2>6. S[i] = R[i] \ {m.p}
    BY <1>1, <1>6, Zenon DEF Says, Routes
  <2>7. f[m.p] # Off /\ \A p \in Prefixes : p # m.p => f[p] = r.prefix[p]
    BY <1>1, <2>1, Constants
  <2> HIDE DEF f
  <2>8. Known(S[i], f)
    BY <1>1, <1>6, <2>1, <2>6, <2>7 DEF Known
  <2> QED BY <1>6, <2>5, <2>8
<1>7. m.type \in {"RTM_IFINFO", "RTM_NEWADDR", "RTM_ADD", "RTM_DELETE"}
  BY DEF Messages
<1> QED BY <1>2, <1>3, <1>4, <1>5, <1>6, <1>7, Zenon

\* rtmsg_input() does not meet invalidate_prefix()'s sanity check, and moves the
\* prefixes one message on.
LEMMA ReadSync ==
    ASSUME IInv, Sync, rtmsg_input
    PROVE  Sync'
<1> SUFFICES ASSUME ~missed PROVE (pc # "failed" /\ PrefixSync /\ FlagSync)'
  BY DEF Sync, rtmsg_input
<1>1. pc # "failed" /\ PrefixSync /\ FlagSync
  BY DEF Sync, rtmsg_input
<1> DEFINE m == Head(msgs)
<1>2. /\ msgs \in Seq(Messages) /\ msgs # <<>> /\ m \in Messages /\ msgs' = Tail(msgs)
      /\ UNCHANGED <<routes, up>> /\ rai \in [Ifs -> RaInfo]
  BY DEF rtmsg_input, IInv, Rest
<1>3. m.ifindex \in Ifs
  BY <1>2 DEF Messages
<1>4. PICK H \in [0..Len(msgs) -> Routes] :
        History(H, msgs, routes) /\ \A i \in Ifs : Known(H[0][i], rai[i].prefix)
  BY <1>1 DEF PrefixSync
<1> DEFINE G == [k \in 0..Len(Tail(msgs)) |-> H[k + 1]]
<1>5. /\ History(G, Tail(msgs), routes) /\ G \in [0..Len(Tail(msgs)) -> Routes]
      /\ H[0] \in Routes /\ G[0] \in Routes /\ Says(H[0], m, G[0])
  BY <1>2, <1>4, HistoryTail
<1>6. ~Insane(m)
  BY <1>3, <1>4, <1>5, Zenon DEF Insane, Says, Known, Invalidated
<1>7. pc' # "failed" /\ \E r \in Handled(m) : rai' = [rai EXCEPT ![m.ifindex] = r]
  BY <1>6 DEF rtmsg_input
<1>8. PICK r \in Handled(m) : rai' = [rai EXCEPT ![m.ifindex] = r]
  BY <1>7, Zenon
<1> HIDE DEF m, G
<1>9. /\ r.flag = IF m.type = "RTM_IFINFO" THEN m.up ELSE up[m.ifindex]
      /\ Known(G[0][m.ifindex], r.prefix)
  BY <1>2, <1>3, <1>4, <1>5, HandledSync, Zenon
<1>10. \A i \in Ifs : i # m.ifindex => G[0][i] = H[0][i] /\ rai'[i] = rai[i]
  BY <1>2, <1>5, <1>8 DEF Says, Messages, Routes
<1>11. rai'[m.ifindex] = r
  BY <1>2, <1>3, <1>8, Zenon
<1>12. \A i \in Ifs : Known(G[0][i], rai'[i].prefix)
  BY <1>4, <1>9, <1>10, <1>11, Zenon
<1>13. PrefixSync'
  BY <1>2, <1>5, <1>12, Zenon DEF PrefixSync
<1>14. FlagSync'
  <2> SUFFICES ASSUME NEW i \in Ifs
               PROVE  /\ LastInfo(Tail(msgs), i, up[i])
                      /\ NoInfo(Tail(msgs), i) => rai'[i].flag = up[i]
    BY <1>2 DEF FlagSync
  <2>1. /\ LastInfo(Tail(msgs), i, up[i])
        /\ NoInfo(Tail(msgs), i) => NoInfo(msgs, i) \/ (IsInfo(m, i) /\ m.up = up[i])
    BY <1>1, <1>2, InfoTail DEF FlagSync, m
  <2>2. ASSUME NoInfo(msgs, i) PROVE rai'[i].flag = up[i]
    <3>1. rai[i].flag = up[i]
      BY <1>1, <2>2 DEF FlagSync
    <3>2. ~IsInfo(m, i)
      BY <1>2, <2>2 DEF NoInfo, m
    <3> QED BY <1>9, <1>10, <1>11, <3>1, <3>2 DEF IsInfo
  <2>3. ASSUME IsInfo(m, i), m.up = up[i] PROVE rai'[i].flag = up[i]
    BY <1>9, <1>11, <2>3 DEF IsInfo
  <2> QED BY <2>1, <2>2, <2>3
<1> QED BY <1>7, <1>13, <1>14

\* A change of the kernel and its message; one without a message is missed.
LEMMA TellSync ==
    ASSUME IInv, Sync, NEW m \in Messages, Tell(m), routes' \in Routes, Says(routes, m, routes'),
           \A i \in Ifs : IF IsInfo(m, i) THEN m.up = up'[i] ELSE up'[i] = up[i]
    PROVE  Sync'
<1>1. CASE missed'
  BY <1>1 DEF Sync
<1>2. CASE ~missed'
  <2>1. /\ ~missed /\ msgs' = Append(msgs, m) /\ pc' = pc /\ rai' = rai /\ msgs \in Seq(Messages)
    BY <1>2 DEF Tell, IInv, Rest
  <2>2. pc # "failed" /\ PrefixSync /\ FlagSync
    BY <2>1, Zenon DEF Sync
  <2>3. PICK H \in [0..Len(msgs) -> Routes] :
          History(H, msgs, routes) /\ \A i \in Ifs : Known(H[0][i], rai[i].prefix)
    BY <2>2, Zenon DEF PrefixSync
  <2>4. PICK G \in [0..Len(Append(msgs, m)) -> Routes] :
          History(G, Append(msgs, m), routes') /\ G[0] = H[0]
    BY <2>1, <2>3, HistoryAppend
  <2>5. PrefixSync'
    BY <2>1, <2>3, <2>4, Zenon DEF PrefixSync
  <2>6. FlagSync'
    <3> SUFFICES ASSUME NEW i \in Ifs
                 PROVE  /\ LastInfo(Append(msgs, m), i, up'[i])
                        /\ NoInfo(Append(msgs, m), i) => rai[i].flag = up'[i]
      BY <2>1 DEF FlagSync
    <3>1. LastInfo(msgs, i, up[i]) /\ (NoInfo(msgs, i) => rai[i].flag = up[i])
      BY <2>2 DEF FlagSync
    <3>2. IF IsInfo(m, i) THEN m.up = up'[i] ELSE up'[i] = up[i]
      OBVIOUS
    <3>3. /\ LastInfo(Append(msgs, m), i, up'[i])
          /\ NoInfo(Append(msgs, m), i) => NoInfo(msgs, i) /\ ~IsInfo(m, i)
      BY <2>1, <3>1, <3>2, InfoAppend, Zenon
    <3> QED BY <3>1, <3>2, <3>3, Zenon
  <2> QED BY <2>1, <2>2, <2>5, <2>6 DEF Sync
<1> QED BY <1>1, <1>2

\* The kernel tells every change of a link, an address or a route, or counts it as missed.
LEMMA KernelSync ==
    ASSUME IInv, Sync, NEW i \in Ifs,
           LinkChange(i) \/ AddressChange(i) \/ \E p \in Prefixes : RouteChange(i, p)
    PROVE  Sync'
<1>0. up \in [Ifs -> BOOLEAN] /\ routes \in Routes
  BY DEF IInv, Rest, Routes
<1>1. CASE LinkChange(i)
  <2> DEFINE m == [type |-> "RTM_IFINFO", ifindex |-> i, up |-> up'[i]]
  <2>1. Tell(m) /\ routes' = routes /\ up' = [up EXCEPT ![i] = ~@]
    BY <1>1 DEF LinkChange
  <2>2. up'[i] \in BOOLEAN /\ \A j \in Ifs : j # i => up'[j] = up[j]
    BY <1>0, <2>1, Zenon
  <2>3. m \in Messages /\ m.type = "RTM_IFINFO" /\ m.ifindex = i /\ m.up = up'[i]
    BY <2>2 DEF Messages
  <2> HIDE DEF m
  <2>4. Says(routes, m, routes')
    BY <2>1, <2>3 DEF Says
  <2>5. \A j \in Ifs : IF IsInfo(m, j) THEN m.up = up'[j] ELSE up'[j] = up[j]
    BY <2>2, <2>3 DEF IsInfo
  <2> QED BY <1>0, <2>1, <2>3, <2>4, <2>5, TellSync
<1>2. CASE AddressChange(i)
  <2> DEFINE m == [type |-> "RTM_NEWADDR", ifindex |-> i]
  <2>1. Tell(m) /\ routes' = routes /\ up' = up
    BY <1>2 DEF AddressChange
  <2>2. m \in Messages /\ m.type = "RTM_NEWADDR"
    BY DEF Messages
  <2> HIDE DEF m
  <2>3. Says(routes, m, routes') /\ \A j \in Ifs : ~IsInfo(m, j)
    BY <2>1, <2>2 DEF Says, IsInfo
  <2> QED BY <1>0, <2>1, <2>2, <2>3, TellSync
<1>3. ASSUME NEW p \in Prefixes, RouteChange(i, p) PROVE Sync'
  <2> DEFINE m == [type |-> IF p \in routes[i] THEN "RTM_DELETE" ELSE "RTM_ADD",
                   ifindex |-> i, p |-> p]
  <2>1. Tell(m) /\ up' = up
        /\ routes' = [routes EXCEPT ![i] = IF p \in routes[i] THEN routes[i] \ {p} ELSE routes[i] \cup {p}]
    BY <1>3 DEF RouteChange
  <2>2. /\ m \in Messages /\ m.ifindex = i /\ m.p = p
        /\ m.type = IF p \in routes[i] THEN "RTM_DELETE" ELSE "RTM_ADD"
    BY DEF Messages
  <2> HIDE DEF m
  <2>3. routes' \in Routes
    BY <1>0, <2>1 DEF Routes
  <2>4. Says(routes, m, routes') /\ \A j \in Ifs : ~IsInfo(m, j)
    BY <2>1, <2>2, Zenon DEF Says, IsInfo
  <2> QED BY <2>1, <2>2, <2>3, <2>4, TellSync, Zenon
<1> QED BY <1>1, <1>2, <1>3

\* Everything else leaves flags and prefixes in step.
LEMMA OtherSync ==
    ASSUME IInv, Sync,
           \/ rtsock_open \/ die \/ Top \/ rtadvd_check_timer \/ Timeout \/ OtherInput
           \/ \E i \in Ifs : rs_input(i)
           \/ rtadvd_set_dump_file \/ set_die \/ Tick
    PROVE  Sync'
<1>0. rai \in [Ifs -> RaInfo]
  BY DEF IInv
<1>1. UNCHANGED <<msgs, routes, up, missed>> /\ (pc' = "failed" => pc = "failed")
  BY Zenon DEF rtsock_open, die, Top, rtadvd_check_timer, Timeout, OtherInput, rs_input,
         rtadvd_set_dump_file, set_die, Interrupted, Tick
<1>2. SUFFICES \A i \in Ifs : /\ rai'[i].flag = rai[i].flag
                              /\ \A R \in SUBSET Prefixes :
                                   Known(R, rai[i].prefix) => Known(R, rai'[i].prefix)
  BY <1>1, QuietSync, Zenon
<1>3. CASE rtsock_open \/ Top \/ Timeout \/ OtherInput \/ rtadvd_set_dump_file \/ set_die
  BY <1>3 DEF rtsock_open, Top, Timeout, OtherInput, rtadvd_set_dump_file, set_die
<1>4. CASE die
  <2> TAKE i \in Ifs
  <2> DEFINE r == rai[i]
             t == [r EXCEPT !.lifetime = FALSE]
             s == ra_output(t)
  <2>1. rai'[i] = s /\ Typed(r)
    BY <1>4, EachInterface DEF die, Dead
  <2> HIDE DEF r
  <2>2. t \in RaInfo /\ SameTimers(r, t) /\ t.prefix = r.prefix
    BY <2>1, Zenon DEF RaInfo, SameTimers, Typed
  <2> HIDE DEF t
  <2>3. Typed(t)
    BY <2>1, <2>2 DEF Typed, SameTimers
  <2>4. s.flag = t.flag /\ s.prefix = t.prefix
    BY <2>3, Output, Zenon
  <2> QED BY <2>1, <2>2, <2>4, Zenon DEF SameTimers, r
<1>5. CASE rtadvd_check_timer
  <2> TAKE i \in Ifs
  <2>1. rai'[i] \in Checked(rai[i]) /\ Good(rai[i])
    BY <1>5, EachInterface DEF rtadvd_check_timer
  <2>2. /\ rai'[i].flag = rai[i].flag
        /\ \A p \in Prefixes :
             rai'[i].prefix[p] = IF rai[i].prefix[p] = 0 THEN Absent ELSE rai[i].prefix[p]
    BY <2>1, CheckedFields
  <2> QED BY <2>2, Constants DEF Known
<1>6. ASSUME NEW i \in Ifs, rs_input(i)
      PROVE  \A j \in Ifs : /\ rai'[j].flag = rai[j].flag
                            /\ \A R \in SUBSET Prefixes :
                                 Known(R, rai[j].prefix) => Known(R, rai'[j].prefix)
  <2>1. rai' = rai \/ \E s \in set_short_delay([rai[i] EXCEPT !.waiting = TRUE]) :
                        rai' = [rai EXCEPT ![i] = s]
    BY <1>6, Zenon DEF rs_input
  <2>2. ASSUME NEW s \in set_short_delay([rai[i] EXCEPT !.waiting = TRUE]),
               rai' = [rai EXCEPT ![i] = s]
        PROVE  s.flag = rai[i].flag /\ s.prefix = rai[i].prefix
    <3> DEFINE r == rai[i]
               t == [r EXCEPT !.waiting = TRUE]
    <3>1. r \in RaInfo
      BY <1>0
    <3>2. s = t \/ \E n : s = [t EXCEPT !.timer = n]
      BY <2>2, Zenon DEF set_short_delay
    <3> HIDE DEF r
    <3>3. s.flag = r.flag /\ s.prefix = r.prefix
      BY <3>1, <3>2, Zenon DEF RaInfo
    <3> QED BY <3>3 DEF r
  <2> QED BY <1>0, <2>1, <2>2, Zenon
<1>7. CASE Tick
  <2>1. rai' = [i \in Ifs |-> Later(rai[i])]
    BY <1>7, Zenon DEF Tick, Later
  <2>2. \A i \in Ifs : Later(rai[i]).flag = rai[i].flag
    BY <1>0 DEF Later, RaInfo
  <2> QED BY <1>0, <2>1, <2>2, LaterKnown, Zenon
<1> QED BY <1>3, <1>4, <1>5, <1>6, <1>7, Zenon

\* getconfig() takes the prefixes from the kernel, or from the configuration.
LEMMA InitSync == Init => Sync
<1> SUFFICES ASSUME Init PROVE Sync OBVIOUS
<1> DEFINE l(i) == IF Static # {} THEN Static ELSE routes[i] \ Unfit
<1>1. routes \in Routes /\ msgs = <<>> /\ Len(msgs) = 0 /\ pc # "failed"
  BY Zenon DEF Init, Routes
<1>2. \A i \in Ifs : /\ rai[i].flag = up[i]
                     /\ rai[i].prefix = [p \in Prefixes |-> IF p \in l(i) THEN Off ELSE Absent]
  <2> TAKE i \in Ifs
  <2>1. rai[i] = getconfig(up[i], l(i))
    BY DEF Init
  <2> HIDE DEF l
  <2> QED BY <2>1 DEF getconfig
<1>3. \A i \in Ifs : l(i) \cap Unfit = {} /\ (Static = {} => l(i) = routes[i] \ Unfit)
  BY ConfigAssumption DEF ConfigAssumption
<1> HIDE DEF l
<1>4. \A i \in Ifs : Known(routes[i], rai[i].prefix)
  <2> TAKE i \in Ifs
  <2> DEFINE f == [p \in Prefixes |-> IF p \in l(i) THEN Off ELSE Absent]
  <2>1. routes[i] \subseteq Prefixes /\ Absent # Off
    BY <1>1, Constants DEF Routes
  <2>2. Known(routes[i], f)
    BY <1>3, <2>1 DEF Known
  <2> QED BY <1>2, <2>2
<1> DEFINE H == [k \in 0..0 |-> routes]
<1>5. H \in [0..Len(msgs) -> Routes] /\ H[0] = routes /\ History(H, msgs, routes)
  BY <1>1 DEF History
<1> HIDE DEF H
<1>6. PrefixSync
  BY <1>4, <1>5 DEF PrefixSync
<1>7. FlagSync
  <2>1. \A k \in 1..Len(msgs) : FALSE
    BY <1>1
  <2>2. \A i \in Ifs : LastInfo(msgs, i, up[i])
    BY <2>1 DEF LastInfo
  <2>3. \A i \in Ifs : rai[i].flag = up[i]
    BY <1>2, Zenon
  <2> QED BY <2>2, <2>3 DEF FlagSync
<1> QED BY <1>1, <1>6, <1>7 DEF Sync

\* die() is the only way to "done", and nothing happens after it.
LEMMA EndIsTold ==
    ASSUME IInv, LastAdvertisement, Next
    PROVE  LastAdvertisement'
<1>1. CASE die
  <2> SUFFICES ASSUME NEW i \in Ifs, rai'[i].flag PROVE rai'[i].told.lifetime = FALSE
    BY Zenon DEF LastAdvertisement
  <2> DEFINE r == rai[i]
             t == [r EXCEPT !.lifetime = FALSE]
             s == ra_output(t)
  <2>1. rai'[i] = s /\ r \in RaInfo
    BY <1>1 DEF die, IInv
  <2> HIDE DEF r
  <2>2. t \in RaInfo /\ t.lifetime = FALSE
    BY <2>1, Zenon DEF RaInfo
  <2> HIDE DEF t
  <2>3. CASE ~t.flag
    BY <2>1, <2>3 DEF ra_output
  <2>4. CASE t.flag
    <3> DEFINE c == IF t.initcounter < MAX_INITIAL_RTR_ADVERTISEMENTS THEN t.initcounter + 1
                    ELSE t.initcounter
               u == make_packet(t)
    <3>1. s = [t EXCEPT !.initcounter = c, !.waiting = FALSE, !.lastsent = 0,
                        !.told = u, !.fresh = FALSE]
      BY <2>4 DEF ra_output
    <3>2. u.lifetime = FALSE
      BY <2>2 DEF make_packet
    <3> HIDE DEF c, u
    <3>3. s.told = u
      BY <2>2, <3>1 DEF RaInfo
    <3> QED BY <2>1, <3>2, <3>3
  <2> QED BY <2>3, <2>4, Zenon
<1>2. CASE ~die
  <2>1. pc # "done" /\ pc' # "done"
    BY <1>2, Zenon DEF Next, Daemon, Environment, rtsock_open, Top, rtadvd_check_timer, Timeout,
                rtmsg_input, rs_input, OtherInput, Input, rtadvd_set_dump_file, set_die,
                Interrupted, Tick, LinkChange, AddressChange, RouteChange, Tell
  <2> QED BY <2>1 DEF LastAdvertisement
<1> QED BY <1>1, <1>2

\* An empty queue leaves nothing to catch up with.
LEMMA EmptyQueue ==
    ASSUME SInv, ~missed, msgs = <<>>
    PROVE  /\ pc # "failed"
           /\ \A i \in Ifs : rai[i].flag = up[i] /\ (Static = {} => Valid(rai[i]) = routes[i] \ Unfit)
<1>1. pc # "failed" /\ PrefixSync /\ FlagSync
  BY DEF SInv, Sync
<1>2. \A i \in Ifs : rai[i].flag = up[i]
  BY <1>1 DEF FlagSync, NoInfo
<1>3. PICK H \in [0..Len(msgs) -> Routes] :
        History(H, msgs, routes) /\ \A i \in Ifs : Known(H[0][i], rai[i].prefix)
  BY <1>1 DEF PrefixSync
<1>4. H[0] = routes
  BY <1>3 DEF History
<1>5. routes \in Routes
  BY DEF SInv, IInv, Rest, Routes
<1>6. Absent # Off
  BY Constants
<1>7. ASSUME NEW i \in Ifs, Static = {} PROVE Valid(rai[i]) = routes[i] \ Unfit
  <2>1. Known(routes[i], rai[i].prefix) /\ routes[i] \subseteq Prefixes
    BY <1>3, <1>4, <1>5 DEF Routes
  <2> QED BY <1>6, <1>7, <2>1 DEF Known, Valid
<1> QED BY <1>1, <1>2, <1>7

-----------------------------------------------------------------------------
(***************************************************************************)
(* A prefix the hosts were told is valid is announced with zero lifetimes  *)
(* before it goes, if the loop is in time and prefix_timo exceeds the time *)
(* an advertisement may be put off.                                        *)
(*                                                                         *)
(* The advertisement is due within MIN_DELAY_BETWEEN_RAS and a second of   *)
(* the one before.  Until lastsent has reached its limit it measures how   *)
(* long the prefix has been invalidated; after that the timer does.        *)
(***************************************************************************)

InTime == Late = FALSE /\ prefix_timo >= MIN_DELAY_BETWEEN_RAS + 2

\* Prefix p was invalidated since the last advertisement, so long ago at most.
Slips(r, p) ==
    /\ r.prefix[p] + 4 >= prefix_timo
    /\ r.timer # 0 \/ r.lastsent < 3 => r.prefix[p] + r.lastsent >= prefix_timo

Soon(r) == r.timer + r.lastsent <= 4

\* Of what was told valid, all is valid or will be told to be invalid.
Remembers(r) ==
    r.flag => /\ r.timer # Off
              /\ ~r.fresh => \A p \in r.told.valid : r.prefix[p] = Off \/ (Slips(r, p) /\ Soon(r))

\* The prefixes P have been announced, and could be again.
Announces(r, P) ==
    /\ r.flag => \A p \in P : r.prefix[p] \notin {Absent, 0}
    /\ P \subseteq r.told.valid \cup r.told.zero

\* One interface's part of Deprecates.
Owns(r, s) == r.told.valid \subseteq s.told.valid \cup s.told.zero \/ r.fresh

RInv == \A i \in Ifs : Remembers(rai[i])

\* The prefixes told valid are prefixes.
LEMMA ToldType ==
    ASSUME NEW r, Typed(r)
    PROVE  /\ r.told.valid \subseteq Prefixes
           /\ \A p \in Prefixes : r.prefix[p] \in Int /\ (r.prefix[p] \in {Absent, Off} \/ r.prefix[p] \in Nat)
           /\ r.flag \in BOOLEAN /\ r.fresh \in BOOLEAN
<1>1. r \in RaInfo
  BY DEF Typed
<1> QED BY <1>1, Constants DEF RaInfo

\* What was told valid can still be announced.
LEMMA StillThere ==
    ASSUME InTime, NEW r, Typed(r), Remembers(r), ~r.fresh
    PROVE  Announces(r, r.told.valid)
<1>1. ASSUME r.flag, NEW p \in r.told.valid PROVE r.prefix[p] \notin {Absent, 0}
  <2>1. r.prefix[p] = Off \/ r.prefix[p] + 4 >= prefix_timo
    BY <1>1 DEF Remembers, Slips
  <2>2. r.prefix[p] \in Int
    BY <1>1, ToldType
  <2>3. prefix_timo >= 5
    BY Constants DEF InTime
  <2> QED BY <2>1, <2>2, <2>3, Constants
<1> QED BY <1>1 DEF Announces

\* What ra_output() leaves behind.
LEMMA OutputTold ==
    ASSUME NEW r, Typed(r)
    PROVE  LET s == ra_output(r) IN
           /\ r.flag => s.told.valid = Valid(r) /\ s.told.zero = Invalidated(r)
           /\ ~r.flag => s.told = r.told
<1>1. CASE r.flag
  <2> DEFINE c == IF r.initcounter < MAX_INITIAL_RTR_ADVERTISEMENTS THEN r.initcounter + 1
                  ELSE r.initcounter
             t == make_packet(r)
             s == [r EXCEPT !.initcounter = c, !.waiting = FALSE, !.lastsent = 0,
                            !.told = t, !.fresh = FALSE]
  <2>1. ra_output(r) = s
    BY <1>1 DEF ra_output
  <2>2. t.valid = Valid(r) /\ t.zero = Invalidated(r)
    BY DEF make_packet
  <2>3. r \in RaInfo
    BY DEF Typed
  <2> HIDE DEF c, t
  <2>4. s.told = t
    BY <2>3 DEF RaInfo
  <2> QED BY <1>1, <2>1, <2>2, <2>4
<1>2. CASE ~r.flag
  BY <1>2 DEF ra_output
<1> QED BY <1>1, <1>2

\* An advertisement announces every prefix of the list, valid or not.
LEMMA Advertises ==
    ASSUME NEW r, Typed(r), NEW s, s.flag = r.flag, s.prefix = r.prefix,
           s.told = ra_output(r).told, r.flag => s.timer # Off
    PROVE  /\ Remembers(s)
           /\ \A P \in SUBSET Prefixes : Announces(r, P) => Announces(s, P)
<1>1. CASE r.flag
  <2>1. s.told.valid = Valid(r) /\ s.told.zero = Invalidated(r)
    BY <1>1, OutputTold
  <2>2. \A p \in s.told.valid : s.prefix[p] = Off
    BY <2>1 DEF Valid
  <2>3. Remembers(s)
    BY <1>1, <2>2 DEF Remembers
  <2>4. ASSUME NEW P \in SUBSET Prefixes, Announces(r, P) PROVE Announces(s, P)
    <3>1. \A p \in P : r.prefix[p] \notin {Absent, 0}
      BY <1>1, <2>4 DEF Announces
    <3>2. P \subseteq Valid(r) \cup Invalidated(r)
      BY <3>1 DEF Valid, Invalidated
    <3> QED BY <2>1, <3>1, <3>2 DEF Announces
  <2> QED BY <2>3, <2>4
<1>2. CASE ~r.flag
  <2>1. s.told = r.told
    BY <1>2, OutputTold
  <2> QED BY <1>2, <2>1 DEF Remembers, Announces
<1> QED BY <1>1, <1>2

\* No prefix that has to be announced is dropped by prefix_timeout().
LEMMA TimeoutRemembers ==
    ASSUME InTime, NEW r, Typed(r), Remembers(r)
    PROVE  LET s == prefix_timeout(r) IN
           /\ Remembers(s)
           /\ \A P \in SUBSET Prefixes : Announces(r, P) => Announces(s, P)
<1> DEFINE s == prefix_timeout(r)
<1>1. /\ SameTimers(r, s)
      /\ \A p \in Prefixes : s.prefix[p] = IF r.prefix[p] = 0 THEN Absent ELSE r.prefix[p]
  BY PrefixTimeout
<1>2. s.told = r.told
  BY DEF prefix_timeout, Typed, RaInfo
<1> HIDE DEF s
<1>3. /\ s.flag = r.flag /\ s.fresh = r.fresh /\ s.timer = r.timer /\ s.lastsent = r.lastsent
  BY <1>1 DEF SameTimers
<1>4. Remembers(s)
  <2> SUFFICES ASSUME r.flag
               PROVE  /\ s.timer # Off
                      /\ ~s.fresh => \A p \in s.told.valid :
                                        s.prefix[p] = Off \/ (Slips(s, p) /\ Soon(s))
    BY <1>3 DEF Remembers
  <2>1. s.timer # Off
    BY <1>3 DEF Remembers
  <2>2. ASSUME ~r.fresh, NEW p \in r.told.valid
        PROVE  s.prefix[p] = Off \/ (Slips(s, p) /\ Soon(s))
    <3>1. r.prefix[p] # 0 /\ p \in Prefixes
      BY <2>2, StillThere, ToldType DEF Announces
    <3>2. s.prefix[p] = r.prefix[p]
      BY <1>1, <3>1
    <3>3. r.prefix[p] = Off \/ (Slips(r, p) /\ Soon(r))
      BY <2>2 DEF Remembers
    <3> QED BY <1>3, <3>2, <3>3 DEF Slips, Soon
  <2> QED BY <1>2, <1>3, <2>1, <2>2
<1>5. ASSUME NEW P \in SUBSET Prefixes, Announces(r, P) PROVE Announces(s, P)
  BY <1>1, <1>2, <1>3, <1>5 DEF Announces
<1> QED BY <1>4, <1>5 DEF s

\* The interface's timer expires, or does not.
LEMMA ExpiresRemembers ==
    ASSUME NEW r, Good(r), Remembers(r), NEW s \in TimerExpires(r)
    PROVE  /\ Remembers(s) /\ Good(s)
           /\ \A P \in SUBSET Prefixes : Announces(r, P) => Announces(s, P)
<1>1. Good(s) /\ s.prefix = r.prefix /\ s.flag = r.flag
  BY Expires
<1>2. CASE r.timer # 0
  BY <1>1, <1>2 DEF TimerExpires
<1>3. CASE r.timer = 0
  <2> DEFINE t == ra_output(r)
  <2>1. PICK n \in ra_timer_update(t) : s = [t EXCEPT !.timer = n]
    BY <1>3 DEF TimerExpires
  <2>2. Typed(r) /\ Typed(t)
    BY Output, Zenon DEF Good
  <2>3. t \in RaInfo /\ t.initcounter \in 0..3
    BY <2>2, Fields DEF Typed
  <2> HIDE DEF t
  <2>4. n \in Nat
    BY <2>1, <2>3, Interval
  <2>5. s.timer = n /\ s.told = t.told
    BY <2>1, <2>3 DEF RaInfo
  <2>6. s.timer # Off
    BY <2>4, <2>5, Constants
  <2> QED BY <1>1, <2>2, <2>5, <2>6, Advertises DEF t
<1> QED BY <1>2, <1>3

\* The second timer of an interface that was down at startup.
LEMMA OrphanRemembers ==
    ASSUME NEW r, Good(r), Remembers(r), NEW s \in OrphanExpires(r)
    PROVE  /\ Remembers(s)
           /\ \A P \in SUBSET Prefixes : Announces(r, P) => Announces(s, P)
<1>1. s.prefix = r.prefix /\ s.flag = r.flag
  BY Orphan
<1>2. CASE r.orphan # 0
  BY <1>2 DEF OrphanExpires
<1>3. CASE r.orphan = 0
  <2> DEFINE t == ra_output(r)
  <2>1. s = t \/ \E n \in ra_timer_update(t) : s = [t EXCEPT !.orphan = n]
    BY <1>3 DEF OrphanExpires
  <2>2. Typed(r) /\ Typed(t) /\ t.timer = r.timer
    BY Output, Zenon DEF Good
  <2>3. t \in RaInfo
    BY <2>2 DEF Typed
  <2> HIDE DEF t
  <2>4. s.timer = t.timer /\ s.told = t.told
    BY <2>1, <2>3 DEF RaInfo
  <2>5. r.flag => s.timer # Off
    BY <2>2, <2>4 DEF Remembers
  <2> QED BY <1>1, <2>2, <2>4, <2>5, Advertises DEF t
<1> QED BY <1>2, <1>3

\* rtadvd_check_timer(), in whatever order it finds the timers.
LEMMA CheckedRemembers ==
    ASSUME InTime, NEW r, Good(r), Remembers(r), NEW s \in Checked(r)
    PROVE  Remembers(s) /\ Owns(r, s)
<1> DEFINE Leads(x, y) == \A P \in SUBSET Prefixes : Announces(x, P) => Announces(y, P)
<1>1. PICK t \in TimerExpires(prefix_timeout(r)) \cup {prefix_timeout(u) : u \in TimerExpires(r)} :
        s \in OrphanExpires(t)
  BY DEF Checked
<1>2. Good(t) /\ Remembers(t) /\ Leads(r, t)
  <2>1. CASE t \in TimerExpires(prefix_timeout(r))
    <3> DEFINE q == prefix_timeout(r)
    <3>1. Good(q)
      BY PrefixTimeout, OnlyPrefixes DEF Good
    <3>2. Remembers(q) /\ Leads(r, q)
      BY TimeoutRemembers DEF Good
    <3>3. t \in TimerExpires(q)
      BY <2>1
    <3> HIDE DEF q
    <3>4. Good(t) /\ Remembers(t) /\ Leads(q, t)
      BY <3>1, <3>2, <3>3, ExpiresRemembers
    <3> QED BY <3>2, <3>4
  <2>2. ASSUME NEW v \in TimerExpires(r), t = prefix_timeout(v)
        PROVE  Good(t) /\ Remembers(t) /\ Leads(r, t)
    <3>1. Good(v) /\ Remembers(v) /\ Leads(r, v)
      BY <2>2, ExpiresRemembers
    <3>2. Good(t)
      BY <2>2, <3>1, PrefixTimeout, OnlyPrefixes DEF Good
    <3>3. Remembers(t) /\ Leads(v, t)
      BY <2>2, <3>1, TimeoutRemembers DEF Good
    <3> QED BY <3>1, <3>2, <3>3
  <2> QED BY <1>1, <2>1, <2>2
<1>3. Remembers(s) /\ Leads(t, s)
  BY <1>1, <1>2, OrphanRemembers
<1>4. CASE ~r.fresh
  <2>1. Announces(r, r.told.valid) /\ r.told.valid \in SUBSET Prefixes
    BY <1>4, StillThere, ToldType DEF Good
  <2>2. Announces(s, r.told.valid)
    BY <1>2, <1>3, <2>1
  <2> QED BY <1>3, <2>2 DEF Announces, Owns
<1>5. CASE r.fresh
  BY <1>3, <1>5 DEF Owns
<1> QED BY <1>4, <1>5

\* The advertisement that announces the change is due soon.
LEMMA ShortRemembers ==
    ASSUME NEW r, Typed(r), r.flag => r.timer # Off,
           r.flag /\ ~r.fresh => \A p \in r.told.valid : r.prefix[p] = Off \/ Slips(r, p),
           NEW s \in set_short_delay(r)
    PROVE  Remembers(s) /\ s.told = r.told
<1>0. r \in RaInfo
  BY DEF Typed
<1>1. CASE r.timer = Off
  <2>1. s = r
    BY <1>1 DEF set_short_delay
  <2> QED BY <1>1, <2>1 DEF Remembers
<1>2. CASE r.timer # Off
  <2>1. PICK d \in 0..1 :
          s = [r EXCEPT !.timer = lesser(d, r.timer) + (MIN_DELAY_BETWEEN_RAS - r.lastsent)]
    BY <1>2 DEF set_short_delay
  <2> DEFINE n == lesser(d, r.timer) + (MIN_DELAY_BETWEEN_RAS - r.lastsent)
  <2>2. /\ n \in Nat /\ n + r.lastsent <= 4 /\ r.lastsent \in 0..3
        /\ r.timer = 0 /\ ~ (r.lastsent < 3) => n = 0
    BY <1>0, <1>2, Fields, Constants DEF lesser
  <2>3. s = [r EXCEPT !.timer = n]
    BY <2>1
  <2> HIDE DEF n
  <2>4. /\ s.timer = n /\ s.flag = r.flag /\ s.lastsent = r.lastsent /\ s.fresh = r.fresh
        /\ s.prefix = r.prefix /\ s.told = r.told
    BY <1>0, <2>3 DEF RaInfo
  <2>5. s.timer # Off /\ Soon(s)
    BY <2>2, <2>4, Constants DEF Soon
  <2>6. ASSUME NEW p \in r.told.valid, Slips(r, p) PROVE Slips(s, p)
    BY <2>2, <2>4, <2>6, Zenon DEF Slips
  <2> QED BY <2>4, <2>5, <2>6 DEF Remembers
<1> QED BY <1>1, <1>2

\* An interface goes down, comes up, or advertises a changed prefix soon.
LEMMA FlagsRemember ==
    ASSUME NEW r, Typed(r), r.flag => r.timer # Off,
           NEW flag \in BOOLEAN, NEW change \in BOOLEAN,
           r.flag /\ ~r.fresh =>
              \A p \in r.told.valid : r.prefix[p] = Off \/ (Slips(r, p) /\ (Soon(r) \/ change)),
           NEW s \in Flags(r, flag, change)
    PROVE  Remembers(s) /\ s.told = r.told
<1>0. r \in RaInfo
  BY DEF Typed
<1>1. CASE r.flag /\ ~flag
  <2>1. s = [r EXCEPT !.flag = FALSE, !.timer = Off]
    BY <1>1 DEF Flags, GoesDown
  <2>2. s.flag = FALSE /\ s.told = r.told
    BY <1>0, <2>1 DEF RaInfo
  <2> QED BY <2>2 DEF Remembers
<1>2. CASE ~r.flag /\ flag
  <2> DEFINE o == IF r.timer = Off THEN r.orphan ELSE r.timer
             t == [r EXCEPT !.flag = TRUE, !.initcounter = 0, !.waiting = FALSE, !.fresh = TRUE,
                            !.orphan = o]
  <2>1. PICK n \in ra_timer_update(t) : s = [t EXCEPT !.timer = n]
    BY <1>2, Zenon DEF Flags, ComesUp
  <2> HIDE DEF o
  <2>2. t.initcounter = 0 /\ s.fresh = TRUE /\ s.timer = n /\ s.told = r.told
    BY <1>0, <2>1 DEF RaInfo
  <2>3. n = 0
    BY <2>1, <2>2, Zenon DEF ra_timer_update
  <2> QED BY <2>2, <2>3, Constants DEF Remembers
<1>3. CASE change /\ flag /\ r.flag
  <2> DEFINE t == [r EXCEPT !.initcounter = 0]
  <2>1. s \in set_short_delay(t)
    BY <1>3 DEF Flags
  <2>2. 0 \in 0..MAX_INITIAL_RTR_ADVERTISEMENTS
    BY Constants
  <2>3. /\ t \in RaInfo /\ t.flag = r.flag /\ t.timer = r.timer /\ t.lastsent = r.lastsent
        /\ t.prefix = r.prefix /\ t.told = r.told /\ t.fresh = r.fresh
    BY <1>0, <2>2 DEF RaInfo
  <2> HIDE DEF t
  <2>4. Typed(t)
    BY <2>3 DEF Typed
  <2>5. r.flag /\ ~r.fresh => \A p \in t.told.valid : t.prefix[p] = Off \/ Slips(t, p)
    BY <2>3 DEF Slips
  <2> QED BY <2>1, <2>3, <2>4, <2>5, ShortRemembers
<1>4. CASE s = r /\ ((~change /\ r.flag) \/ ~r.flag)
  BY <1>4 DEF Remembers
<1>5. \/ r.flag /\ ~flag
      \/ ~r.flag /\ flag
      \/ change /\ flag /\ r.flag
      \/ (~change /\ r.flag /\ flag) \/ (~r.flag /\ ~flag)
  OBVIOUS
<1>6. (~change /\ r.flag /\ flag) \/ (~r.flag /\ ~flag) => s = r
  BY DEF Flags
<1> QED BY <1>1, <1>2, <1>3, <1>4, <1>5, <1>6

\* A prefix that is added is valid again.
LEMMA AddedRemembers ==
    ASSUME NEW r, Typed(r), Remembers(r), NEW p \in Prefixes
    PROVE  LET t == Added(r, p) IN Remembers(t) /\ t.told = r.told
<1>1. CASE r.prefix[p] = Off
  BY <1>1 DEF Added
<1>2. CASE r.prefix[p] # Off
  <2> DEFINE t == [r EXCEPT !.prefix[p] = Off]
  <2>1. Added(r, p) = t
    BY <1>2 DEF Added
  <2>2. r \in RaInfo
    BY DEF Typed
  <2>3. /\ t.flag = r.flag /\ t.timer = r.timer /\ t.lastsent = r.lastsent
        /\ t.told = r.told /\ t.fresh = r.fresh /\ t.prefix = [r.prefix EXCEPT ![p] = Off]
    BY <2>2 DEF RaInfo
  <2>4. r.prefix \in [Prefixes -> {Absent, Off} \cup Nat] /\ r.told.valid \subseteq Prefixes
    BY <2>2, Fields, ToldType
  <2> HIDE DEF t
  <2>5. \A q \in Prefixes : t.prefix[q] = Off \/ t.prefix[q] = r.prefix[q]
    BY <2>3, <2>4
  <2>6. Remembers(t)
    BY <2>3, <2>4, <2>5 DEF Remembers, Slips, Soon
  <2> QED BY <2>1, <2>3, <2>6
<1> QED BY <1>1, <1>2

\* A prefix that is invalidated has all of prefix_timo left.
LEMMA DeletedSlips ==
    ASSUME NEW r, Typed(r), Remembers(r), NEW p \in Prefixes, r.prefix[p] \in {Absent, Off}
    PROVE  LET t == Deleted(r, p) IN
           /\ t.flag = r.flag /\ t.timer = r.timer /\ t.told = r.told
           /\ r.flag /\ ~t.fresh =>
                \A q \in t.told.valid :
                   t.prefix[q] = Off \/ (Slips(t, q) /\ (Soon(t) \/ t # r))
<1>1. CASE r.prefix[p] = Absent
  <2>1. Deleted(r, p) = r
    BY <1>1, Zenon DEF Deleted
  <2> QED BY <2>1 DEF Remembers
<1>2. CASE r.prefix[p] = Off
  <2> DEFINE t == [r EXCEPT !.prefix[p] = prefix_timo]
  <2>1. Deleted(r, p) = t
    BY <1>2, Constants DEF Deleted
  <2>2. r \in RaInfo
    BY DEF Typed
  <2>3. /\ t.flag = r.flag /\ t.timer = r.timer /\ t.lastsent = r.lastsent
        /\ t.told = r.told /\ t.fresh = r.fresh
        /\ t.prefix = [r.prefix EXCEPT ![p] = prefix_timo]
    BY <2>2 DEF RaInfo
  <2>4. r.prefix \in [Prefixes -> {Absent, Off} \cup Nat] /\ r.told.valid \subseteq Prefixes
        /\ r.lastsent \in 0..3
    BY <2>2, Fields, ToldType
  <2> HIDE DEF t
  <2>5. t.prefix[p] = prefix_timo /\ \A q \in Prefixes \ {p} : t.prefix[q] = r.prefix[q]
    BY <2>3, <2>4
  <2>6. t # r
    BY <1>2, <2>5, Constants
  <2>7. Slips(t, p)
    BY <2>3, <2>4, <2>5, Constants DEF Slips
  <2>8. ASSUME r.flag, ~t.fresh, NEW q \in t.told.valid
        PROVE  t.prefix[q] = Off \/ (Slips(t, q) /\ (Soon(t) \/ t # r))
    <3>1. CASE q = p
      BY <2>6, <2>7, <3>1
    <3>2. CASE q # p
      <4>1. t.prefix[q] = r.prefix[q]
        BY <2>3, <2>4, <2>5, <2>8, <3>2
      <4>2. r.prefix[q] = Off \/ Slips(r, q)
        BY <2>3, <2>8 DEF Remembers
      <4> QED BY <2>3, <2>6, <4>1, <4>2 DEF Slips
    <3> QED BY <3>1, <3>2
  <2> QED BY <2>1, <2>3, <2>8
<1> QED BY <1>1, <1>2, Zenon

\* rtmsg_input(), whatever the message is.
LEMMA HandledRemembers ==
    ASSUME NEW m \in Messages, Good(rai[m.ifindex]), Remembers(rai[m.ifindex]), ~Insane(m),
           up \in [Ifs -> BOOLEAN], NEW s \in Handled(m)
    PROVE  Remembers(s) /\ s.told = rai[m.ifindex].told
<1> DEFINE r == rai[m.ifindex]
<1>1. m.ifindex \in Ifs /\ up[m.ifindex] \in BOOLEAN
  BY Zenon DEF Messages
<1>2. Typed(r) /\ (r.flag => r.timer # Off)
      /\ (r.flag /\ ~r.fresh => \A p \in r.told.valid : r.prefix[p] = Off \/ (Slips(r, p) /\ Soon(r)))
  BY DEF Good, Remembers
<1>3. ASSUME NEW f \in BOOLEAN, s \in Flags(r, f, FALSE) PROVE Remembers(s) /\ s.told = r.told
  <2> HIDE DEF r
  <2> QED BY <1>2, <1>3, FlagsRemember, Zenon
<1>4. CASE m.type = "RTM_IFINFO"
  <2>1. m.up \in BOOLEAN
    BY <1>4 DEF Messages
  <2>2. s \in Flags(r, m.up, FALSE)
    BY <1>4, Zenon DEF Handled
  <2> QED BY <1>3, <2>1, <2>2, Zenon
<1>5. CASE m.type = "RTM_NEWADDR" \/ (m.type \in {"RTM_ADD", "RTM_DELETE"} /\ m.p \in Unfit)
  <2>1. s \in Flags(r, up[m.ifindex], FALSE)
    BY <1>5, Zenon DEF Handled
  <2> QED BY <1>1, <1>3, <2>1, Zenon
<1>6. CASE m.type = "RTM_ADD" /\ m.p \notin Unfit
  <2> DEFINE t == Added(r, m.p)
  <2>1. m.p \in Prefixes
    BY <1>6 DEF Messages
  <2>2. s \in Flags(t, up[m.ifindex], t # r)
    BY <1>6 DEF Handled
  <2>3. Typed(t) /\ Remembers(t) /\ t.told = r.told
    BY <1>2, <2>1, PrefixGood, AddedRemembers, Zenon DEF Good
  <2>4. (t # r) \in BOOLEAN
    BY Zenon
  <2> HIDE DEF t
  <2>5. Remembers(s) /\ s.told = t.told
    <3>1. t.flag /\ ~t.fresh =>
            \A p \in t.told.valid : t.prefix[p] = Off \/ (Slips(t, p) /\ (Soon(t) \/ t # r))
      BY <2>3, Zenon DEF Remembers
    <3>2. t.flag => t.timer # Off
      BY <2>3 DEF Remembers
    <3> QED BY <1>1, <2>2, <2>3, <2>4, <3>1, <3>2, FlagsRemember, Zenon
  <2> QED BY <2>3, <2>5
<1>7. CASE m.type = "RTM_DELETE" /\ m.p \notin Unfit
  <2> DEFINE t == Deleted(r, m.p)
  <2>1. m.p \in Prefixes
    BY <1>7 DEF Messages
  <2>2. s \in Flags(t, up[m.ifindex], t # r)
    BY <1>7, Zenon DEF Handled
  <2>3. r.prefix[m.p] \in {Absent, Off}
    BY <1>7, <2>1 DEF Insane, Invalidated
  <2>4. Typed(t)
    BY <1>2, <2>1, PrefixGood, Zenon DEF Good
  <2>5. /\ t.flag = r.flag /\ t.timer = r.timer /\ t.told = r.told
        /\ r.flag /\ ~t.fresh =>
             \A q \in t.told.valid :
                t.prefix[q] = Off \/ (Slips(t, q) /\ (Soon(t) \/ t # r))
    BY <1>2, <2>1, <2>3, DeletedSlips, Zenon
  <2>6. (t # r) \in BOOLEAN
    BY Zenon
  <2> HIDE DEF t
  <2>7. Remembers(s) /\ s.told = t.told
    BY <1>1, <1>2, <2>2, <2>4, <2>5, <2>6, FlagsRemember, Zenon
  <2> QED BY <2>5, <2>7
<1>8. m.type \in {"RTM_IFINFO", "RTM_NEWADDR", "RTM_ADD", "RTM_DELETE"}
  BY Zenon DEF Messages
<1> QED BY <1>4, <1>5, <1>6, <1>7, <1>8, Zenon

\* A second passes, with nothing due: what slips is announced in time.
LEMMA LaterRemembers ==
    ASSUME InTime, NEW r, Typed(r), Remembers(r), ~Due(r)
    PROVE  Remembers(Later(r)) /\ Later(r).told = r.told
<1> DEFINE t == Before(r.timer)
           l == IF r.lastsent < MIN_DELAY_BETWEEN_RAS THEN r.lastsent + 1 ELSE r.lastsent
           f == [p \in Prefixes |-> Before(r.prefix[p])]
           s == Later(r)
<1>1. r \in RaInfo /\ prefix_timo >= 5 /\ prefix_timo \in Nat
  BY Constants DEF Typed, InTime
<1>2. /\ s.flag = r.flag /\ s.fresh = r.fresh /\ s.told = r.told
      /\ s.timer = t /\ s.lastsent = l /\ s.prefix = f
  BY <1>1 DEF Later, RaInfo
<1>3. r.timer \in Int /\ (r.timer = Off \/ r.timer \in Nat) /\ r.lastsent \in 0..3 /\ r.timer # 0
  BY <1>1, Fields DEF Due
<1>4. r.timer # Off => t = r.timer - 1 /\ t \in Nat /\ t # Off /\ r.timer >= 1
  BY <1>3, Constants DEF Before
<1>5. l \in 0..3 /\ (r.lastsent < 3 => l = r.lastsent + 1) /\ (~(r.lastsent < 3) => l = 3)
  BY <1>3, Constants
<1>6. \A p \in Prefixes : f[p] = Before(r.prefix[p])
  OBVIOUS
<1> HIDE DEF t, l, f, s
<1>7. ASSUME r.flag, ~r.fresh, NEW p \in r.told.valid
      PROVE  s.prefix[p] = Off \/ (Slips(s, p) /\ Soon(s))
  <2>1. r.timer # Off /\ (r.prefix[p] = Off \/ (Slips(r, p) /\ Soon(r)))
    BY <1>7 DEF Remembers
  <2>2. p \in Prefixes /\ r.prefix[p] \in Int
    BY <1>7, ToldType
  <2>3. s.prefix[p] = Before(r.prefix[p])
    BY <1>2, <1>6, <2>2
  <2>4. CASE r.prefix[p] = Off
    BY <2>3, <2>4, Constants DEF Before
  <2>5. CASE Slips(r, p) /\ Soon(r)
    <3>1. r.prefix[p] + r.lastsent >= prefix_timo /\ r.timer + r.lastsent <= 4
      BY <1>3, <2>5 DEF Slips, Soon
    <3>2. s.prefix[p] = r.prefix[p] - 1
      BY <1>1, <1>3, <2>2, <2>3, <3>1 DEF Before
    <3>3. s.prefix[p] + 4 >= prefix_timo
      BY <1>1, <1>3, <2>2, <3>1, <3>2
    <3>4. t # 0 \/ l < 3 => s.prefix[p] + l >= prefix_timo
      BY <1>1, <1>3, <1>4, <1>5, <2>1, <2>2, <3>1, <3>2
    <3>5. t + l <= 4
      BY <1>3, <1>4, <1>5, <2>1, <3>1
    <3> QED BY <1>2, <3>3, <3>4, <3>5 DEF Slips, Soon
  <2> QED BY <2>1, <2>4, <2>5
<1>8. Remembers(s)
  BY <1>2, <1>4, <1>7 DEF Remembers
<1> QED BY <1>2, <1>8 DEF s

\* die()'s last advertisement announces what the others would.
LEMMA DieRemembers ==
    ASSUME InTime, NEW r, Typed(r), Remembers(r)
    PROVE  LET s == ra_output([r EXCEPT !.lifetime = FALSE]) IN Remembers(s) /\ Owns(r, s)
<1> DEFINE t == [r EXCEPT !.lifetime = FALSE]
           s == ra_output(t)
<1>1. r \in RaInfo
  BY DEF Typed
<1>2. /\ t \in RaInfo /\ t.flag = r.flag /\ t.timer = r.timer /\ t.told = r.told
      /\ t.prefix = r.prefix
  BY <1>1, Zenon DEF RaInfo
<1> HIDE DEF t
<1>3. Typed(t)
  BY <1>2 DEF Typed
<1>4. s.flag = t.flag /\ s.prefix = t.prefix /\ s.timer = t.timer
  BY <1>3, Output, Zenon
<1>5. t.flag => s.timer # Off
  BY <1>2, <1>4 DEF Remembers
<1>6. Remembers(s) /\ \A P \in SUBSET Prefixes : Announces(t, P) => Announces(s, P)
  BY <1>3, <1>4, <1>5, Advertises
<1> HIDE DEF s
<1>7. CASE ~r.fresh
  <2>1. Announces(r, r.told.valid) /\ r.told.valid \in SUBSET Prefixes
    BY <1>7, StillThere, ToldType
  <2>2. Announces(s, r.told.valid)
    BY <1>2, <1>6, <2>1 DEF Announces
  <2>3. Owns(r, s)
    BY <2>2 DEF Announces, Owns
  <2> QED BY <1>6, <2>3 DEF s, t
<1>8. CASE r.fresh
  BY <1>6, <1>8, Zenon DEF Owns, s, t
<1> QED BY <1>7, <1>8

\* Every step, seen by one interface.
LEMMA NextRemembers ==
    ASSUME InTime, IInv, RInv, [Next]_vars, NEW i \in Ifs
    PROVE  Remembers(rai'[i]) /\ Owns(rai[i], rai'[i])
<1>0. /\ rai \in [Ifs -> RaInfo] /\ Typed(rai[i]) /\ Remembers(rai[i])
      /\ \A j \in Ifs : pc # "done" => Good(rai[j])
  BY EachInterface DEF IInv, RInv, Dead
<1>1. ASSUME rai'[i] = rai[i] PROVE Remembers(rai'[i]) /\ Owns(rai[i], rai'[i])
  BY <1>0, <1>1 DEF Owns
<1>2. CASE die
  <2>1. rai'[i] = ra_output([rai[i] EXCEPT !.lifetime = FALSE])
    BY <1>2 DEF die
  <2> QED BY <1>0, <2>1, DieRemembers
<1>3. CASE rtadvd_check_timer
  <2>1. rai'[i] \in Checked(rai[i]) /\ Good(rai[i])
    BY <1>0, <1>3 DEF rtadvd_check_timer
  <2> QED BY <1>0, <2>1, CheckedRemembers
<1>4. CASE rtmsg_input
  <2> DEFINE m == Head(msgs)
  <2>1. m \in Messages /\ pc # "done" /\ up \in [Ifs -> BOOLEAN]
    BY <1>4 DEF rtmsg_input, IInv, Rest
  <2>2. rai' = rai \/ (~Insane(m) /\ \E s \in Handled(m) : rai' = [rai EXCEPT ![m.ifindex] = s])
    BY <1>4 DEF rtmsg_input
  <2> HIDE DEF m
  <2>3. ASSUME ~Insane(m), NEW s \in Handled(m), rai' = [rai EXCEPT ![m.ifindex] = s],
               m.ifindex = i
        PROVE  Remembers(rai'[i]) /\ Owns(rai[i], rai'[i])
    <3>1. rai'[i] = s
      BY <1>0, <2>3
    <3>2. Good(rai[m.ifindex]) /\ Remembers(rai[m.ifindex])
      BY <1>0, <2>1, <2>3
    <3>3. Remembers(s) /\ s.told = rai[i].told
      BY <2>1, <2>3, <3>2, HandledRemembers
    <3> QED BY <3>1, <3>3 DEF Owns
  <2>4. ASSUME NEW s, rai' = [rai EXCEPT ![m.ifindex] = s], m.ifindex # i
        PROVE  rai'[i] = rai[i]
    BY <1>0, <2>4
  <2> QED BY <1>1, <2>2, <2>3, <2>4
<1>5. ASSUME NEW j \in Ifs, rs_input(j) PROVE Remembers(rai'[i]) /\ Owns(rai[i], rai'[i])
  <2>1. rai' = rai \/ \E s \in set_short_delay([rai[j] EXCEPT !.waiting = TRUE]) :
                        rai' = [rai EXCEPT ![j] = s]
    BY <1>5, Zenon DEF rs_input
  <2> DEFINE r == rai[i]
             t == [r EXCEPT !.waiting = TRUE]
  <2>2. ASSUME NEW s \in set_short_delay(t), rai'[i] = s
        PROVE  Remembers(rai'[i]) /\ Owns(rai[i], rai'[i])
    <3>1. Typed(r) /\ Remembers(r) /\ r \in RaInfo
      BY <1>0
    <3> HIDE DEF r
    <3>2. /\ t \in RaInfo /\ t.flag = r.flag /\ t.timer = r.timer /\ t.lastsent = r.lastsent
          /\ t.prefix = r.prefix /\ t.told = r.told /\ t.fresh = r.fresh
      BY <3>1, Zenon DEF RaInfo
    <3>3. s \in set_short_delay(t)
      BY <2>2, Zenon DEF r
    <3> HIDE DEF t
    <3>4. Typed(t) /\ (t.flag => t.timer # Off)
      BY <3>1, <3>2, Zenon DEF Typed, Remembers
    <3>5. t.flag /\ ~t.fresh => \A p \in t.told.valid : t.prefix[p] = Off \/ Slips(t, p)
      BY <3>1, <3>2, Zenon DEF Remembers, Slips
    <3>6. Remembers(s) /\ s.told = t.told
      BY <3>3, <3>4, <3>5, ShortRemembers
    <3> QED BY <2>2, <3>2, <3>6 DEF Owns, r
  <2>3. ASSUME NEW s, rai' = [rai EXCEPT ![j] = s], i # j PROVE rai'[i] = rai[i]
    BY <1>0, <2>3
  <2>4. ASSUME NEW s, rai' = [rai EXCEPT ![j] = s], i = j PROVE rai'[i] = s
    BY <1>0, <2>4
  <2> HIDE DEF t
  <2> QED BY <1>1, <2>1, <2>2, <2>3, <2>4, Zenon DEF t
<1>6. CASE Tick
  <2>1. rai'[i] = Later(rai[i])
    BY <1>6, Zenon DEF Tick, Later
  <2>2. ~Due(rai[i])
    BY <1>6, Zenon DEF Tick, InTime
  <2>3. Remembers(Later(rai[i])) /\ Later(rai[i]).told = rai[i].told
    BY <1>0, <2>2, LaterRemembers
  <2> QED BY <2>1, <2>3 DEF Owns
<1>7. CASE \/ rtsock_open \/ Top \/ Timeout \/ OtherInput \/ rtadvd_set_dump_file \/ set_die
           \/ \E j \in Ifs : LinkChange(j) \/ AddressChange(j) \/ \E p \in Prefixes : RouteChange(j, p)
           \/ UNCHANGED vars
  <2>1. rai' = rai
    BY <1>7, Zenon DEF rtsock_open, Top, Timeout, OtherInput, rtadvd_set_dump_file, set_die,
                LinkChange, AddressChange, RouteChange, Tell, vars
  <2> QED BY <1>1, <2>1
<1> QED BY <1>2, <1>3, <1>4, <1>5, <1>6, <1>7 DEF Next, Daemon, Environment

-----------------------------------------------------------------------------
(***************************************************************************)
(* The invariants hold in every behaviour, and what follows from them.     *)
(***************************************************************************)
\* Every interface stays good until die().
LEMMA Invariance == Spec => []IInv
<1>1. ASSUME IInv, [Next]_vars PROVE IInv'
  <2>1. CASE UNCHANGED vars
    BY <1>1, <2>1 DEF vars, IInv, Rest
  <2> QED BY <1>1, <2>1, LoopIInv, InputIInv, OutsideIInv DEF Next, Daemon
<1> QED BY <1>1, InitIInv, PTL DEF Spec

\* The state of rtadvd stays within its types and its timers within the longest
\* interval, for any number of interfaces and prefixes and any loss of messages.
THEOREM TypeCorrect == Spec => []TypeOK
<1>1. IInv => TypeOK
  <2> SUFFICES ASSUME IInv PROVE TypeOK OBVIOUS
  <2>1. \A i \in Ifs : /\ rai[i].timer < maxinterval + MIN_DELAY_BETWEEN_RAS
                       /\ \A p \in Prefixes : rai[i].prefix[p] <= prefix_timo
    BY EachInterface DEF Dead, Typed
  <2>2. \A k \in 1..Len(msgs) : msgs[k].ifindex \in Ifs
    <3>1. \A k \in 1..Len(msgs) : msgs[k] \in Messages
      BY DEF IInv, Rest
    <3>2. \A m \in Messages : m.ifindex \in Ifs
      BY DEF Messages
    <3> QED BY <3>1, <3>2
  <2> QED BY <2>1, <2>2 DEF IInv, Rest, TypeOK
<1> QED BY <1>1, Invariance, PTL

\* A solicitation that waits is answered within MIN_DELAY_BETWEEN_RAS and a second
\* of the advertisement before it, whatever else shortens or lengthens the timer.
THEOREM AnsweredInTime == Spec => []AnsweredSoon
<1>1. IInv => AnsweredSoon
  BY EachInterface DEF Dead, Answered, AnsweredSoon
<1> QED BY <1>1, Invariance, PTL

\* On interfaces that are up at startup, rai->timer is null exactly while the
\* interface is believed down, whatever routing messages are lost or read late.
THEOREM TimerKept == ASSUME InitUp = {TRUE} PROVE Spec => []TimerFollowsFlag
<1>1. IInv => TimerFollowsFlag
  BY EachInterface DEF Dead, Kept, TimerFollowsFlag, AllUp
<1> QED BY <1>1, Invariance, PTL

\* Two advertisements are MIN_DELAY_BETWEEN_RAS apart, for every interval and
\* however late the loop is, on interfaces that are up at startup.
THEOREM SpacedOut == ASSUME InitUp = {TRUE} PROVE Spec => []RateLimited
<1>1. IInv => RateLimited
  <2> SUFFICES ASSUME IInv, NEW i \in Ifs, pc = "check", rai[i].flag
               PROVE  /\ rai[i].timer = 0 \/ rai[i].orphan = 0
                           => rai[i].fresh \/ rai[i].lastsent >= MIN_DELAY_BETWEEN_RAS
                      /\ ~(rai[i].timer = 0 /\ rai[i].orphan = 0)
    BY DEF RateLimited
  <2>1. Kept(rai[i]) /\ Spaced(rai[i]) /\ Typed(rai[i])
    BY EachInterface DEF Good, AllUp
  <2>2. rai[i].orphan # 0
    BY <2>1, Constants DEF Kept
  <2>3. rai[i].lastsent \in 0..3
    BY <2>1, Fields DEF Typed
  <2>4. rai[i].timer = 0 /\ ~rai[i].fresh => rai[i].lastsent >= MIN_DELAY_BETWEEN_RAS
    BY <2>1, <2>3, Constants DEF Spaced
  <2> QED BY <2>2, <2>4
<1> QED BY <1>1, Invariance, PTL

\* rtadvd_check_timer() leaves nothing due, so the loop sleeps: for interfaces
\* that are up at startup.
THEOREM NeverSpins == ASSUME InitUp = {TRUE} PROVE Spec => NoSpin
<1>1. IInv /\ [Next]_vars => [rtadvd_check_timer => \A i \in Ifs : ~Due(rai'[i])]_vars
  <2> SUFFICES ASSUME IInv, rtadvd_check_timer, NEW i \in Ifs PROVE ~Due(rai'[i])
    OBVIOUS
  <2>1. rai'[i] \in Checked(rai[i])
    BY DEF rtadvd_check_timer
  <2>2. Good(rai[i])
    BY EachInterface DEF rtadvd_check_timer
  <2> QED BY <2>1, <2>2, CheckedGood DEF AllUp
<1> QED BY <1>1, Invariance, PTL DEF Spec, NoSpin

\* The cache follows the kernel through every step.
LEMMA SyncInvariance == Spec => []SInv
<1>1. Init => SInv
  <2>1. Init => LastAdvertisement
    BY DEF Init, LastAdvertisement
  <2> QED BY <2>1, InitIInv, InitSync DEF SInv
<1>2. ASSUME SInv, [Next]_vars, IInv' PROVE SInv'
  <2>1. CASE UNCHANGED vars
    <3>1. Sync'
      BY <1>2, <2>1 DEF SInv, vars, Sync, PrefixSync, FlagSync
    <3>2. LastAdvertisement'
      BY <1>2, <2>1 DEF SInv, vars, LastAdvertisement
    <3> QED BY <1>2, <3>1, <3>2, Zenon DEF SInv
  <2>2. CASE Next
    <3>1. Sync'
      BY <1>2, <2>2, ReadSync, KernelSync, OtherSync DEF SInv, Next, Daemon, Environment
    <3>2. LastAdvertisement'
      BY <1>2, <2>2, EndIsTold DEF SInv
    <3> QED BY <1>2, <3>1, <3>2 DEF SInv
  <2> QED BY <1>2, <2>1, <2>2
<1> QED BY <1>1, <1>2, Invariance, PTL DEF Spec

\* As long as no message is missed, cached flags and prefixes are the kernel's
\* whenever all are read, and invalidate_prefix()'s sanity check does not end the
\* daemon, for any number of interfaces, prefixes, changes and messages.
THEOREM StaysInStep == Spec => []InStep
<1>1. SInv => (~missed => pc # "failed")
  BY DEF SInv, Sync
<1>2. SInv => InStep
  BY <1>1, EmptyQueue DEF InStep
<1> QED BY <1>2, SyncInvariance, PTL

\* die() tells the hosts of every interface that is up.
THEOREM EveryoneTold == Spec => []LastWord
<1>1. SInv => LastWord
  <2> SUFFICES ASSUME SInv, pc = "done", msgs = <<>>, ~missed, Static = {},
                      NEW i \in Ifs, up[i]
               PROVE  ~rai[i].told.lifetime
    BY DEF LastWord
  <2>1. rai[i].flag
    BY EmptyQueue
  <2> QED BY <2>1 DEF SInv, LastAdvertisement
<1> QED BY <1>1, SyncInvariance, PTL

\* A prefix that the hosts of an interface were told is valid is announced with
\* zero lifetimes before it goes, for any number of interfaces and prefixes, any
\* intervals and any loss of routing messages: if the loop is in time, and
\* prefix_timo, two hours in the code, is five seconds at least.
THEOREM NoneVanishes == ASSUME InTime PROVE Spec => Deprecates
<1>1. Init => RInv
  <2> SUFFICES ASSUME Init, NEW i \in Ifs PROVE Remembers(rai[i])
    BY Zenon DEF RInv
  <2>1. rai[i].timer = 0 /\ rai[i].fresh = TRUE
    BY DEF Init, getconfig
  <2> QED BY <2>1, Constants DEF Remembers
<1>2. IInv /\ RInv /\ [Next]_vars => RInv'
  BY NextRemembers DEF RInv
<1>3. IInv /\ RInv /\ [Next]_vars
        => [\A i \in Ifs : rai[i].told.valid \subseteq
               rai'[i].told.valid \cup rai'[i].told.zero \/ rai[i].fresh]_vars
  BY NextRemembers DEF Owns
<1> QED BY <1>1, <1>2, <1>3, Invariance, PTL DEF Spec, Deprecates
=============================================================================
