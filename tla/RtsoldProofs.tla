---------------------------- MODULE RtsoldProofs ----------------------------
(***************************************************************************)
(* Proofs about rtsold's solicitations, for any number of interfaces, any  *)
(* retry limits and any behaviour of links and routers.                    *)
(*                                                                         *)
(* That probes counts the solicitations of the current event, and not      *)
(* older ones, depends on the state: Settled says where it starts over.    *)
(* Timed ties the timer of a probing interface to the time of its last     *)
(* solicitation.                                                           *)
(*                                                                         *)
(* The second half is about Discovery: rtsold -1 and rtadvd on one link.   *)
(***************************************************************************)
EXTENDS Discovery, TLAPS

Settled(r) ==
    /\ r.state \in {"IFS_DOWN", "IFS_TENTATIVE", "IFS_DELAY"} => r.sent = 0 /\ r.probes = 0 /\ ~r.heard
    /\ r.state = "IFS_PROBE" => r.sent = r.probes /\ ~r.heard
    /\ r.state = "IFS_IDLE" => r.probes = 0 /\ r.sent <= MAX_RTR_SOLICITATIONS

Timed(r) ==
    r.state = "IFS_PROBE" /\ r.sent > 0 /\ r.probes < MAX_RTR_SOLICITATIONS =>
        r.expire >= 0 /\ r.since + r.expire >= RTR_SOLICITATION_INTERVAL

Good(r) == r \in IfInfo /\ Settled(r) /\ Timed(r)

IInv == TypeOK /\ \A i \in Ifs : Good(ifs[i])

----------------------------------------------------------------------------
(* Updates of struct ifinfo *)

\* The limits are numbers.
LEMMA Limits == /\ MAX_RTR_SOLICITATIONS \in Nat /\ RTR_SOLICITATION_INTERVAL \in Nat
                /\ 1 \in 0..MAX_RTR_SOLICITATIONS /\ 0 \in 0..MAX_RTR_SOLICITATIONS
                /\ 0 \in 0..RTR_SOLICITATION_INTERVAL
BY DEF MAX_RTR_SOLICITATIONS, RTR_SOLICITATION_INTERVAL

\* The fields the properties are about have these types.
LEMMA Fields ==
    ASSUME NEW r \in IfInfo
    PROVE  /\ r.state \in IfStates /\ r.probes \in 0..MAX_RTR_SOLICITATIONS
           /\ r.sent \in Nat /\ r.expire \in Int /\ r.since \in 0..RTR_SOLICITATION_INTERVAL
           /\ r.dadcount \in 0..DADRETRY /\ r.probetimer \in Int
           /\ r.probeinterval \in {0, PROBE_INTERVAL} /\ r.mediareqok \in BOOLEAN
BY DEF IfInfo

----------------------------------------------------------------------------
(* One interface *)

\* rtsol_timer_update() completes a settled interface: it changes the timer and
\* dadcount only.
LEMMA TimerUpdate ==
    ASSUME NEW r \in IfInfo, Settled(r), NEW x \in rtsol_timer_update(r)
    PROVE  Good(x) /\ x.sent = r.sent /\ x.heard = r.heard
<1> DEFINE Same == /\ x \in IfInfo /\ x.state = r.state /\ x.probes = r.probes
                   /\ x.sent = r.sent /\ x.heard = r.heard /\ x.since = r.since
<1>1. r.dadcount \in 0..DADRETRY /\ PROBE_INTERVAL \in Int /\ DADRETRY \in Nat
  BY Fields, ConstAssumption DEF ConstAssumption
<1>2. CASE r.state \in {"IFS_DOWN", "IFS_TENTATIVE"}
  <2>1. x = DadTimer(r)
    BY <1>2 DEF rtsol_timer_update
  <2>2. CASE r.dadcount + 1 > DADRETRY
    <3>1. x = [r EXCEPT !.dadcount = 0, !.expire = PROBE_INTERVAL] /\ 0 \in 0..DADRETRY
      BY <1>1, <2>1, <2>2 DEF DadTimer
    <3>2. Same
      BY <1>1, <3>1, Zenon DEF IfInfo
    <3>3. QED
      BY <3>2, <1>2 DEF Good, Settled, Timed
  <2>3. CASE ~(r.dadcount + 1 > DADRETRY)
    <3>1. PICK d \in 0..DADRETRY, e \in Int : d = r.dadcount + 1 /\ e = 1
      BY <1>1, <2>3
    <3>2. x = [r EXCEPT !.dadcount = d, !.expire = e]
      BY <2>1, <2>3, <3>1 DEF DadTimer
    <3>3. Same
      BY <3>2, Zenon DEF IfInfo
    <3>4. QED
      BY <3>3, <1>2 DEF Good, Settled, Timed
  <2>4. QED
    BY <2>2, <2>3
<1>3. CASE r.state \notin {"IFS_DOWN", "IFS_TENTATIVE"}
  <2> DEFINE due == IF r.probes < MAX_RTR_SOLICITATIONS
                    THEN RTR_SOLICITATION_INTERVAL ELSE MAX_RTR_SOLICITATION_DELAY
             wait == IF Mobile THEN IdleInterval ELSE tm_max
  <2>0. /\ due \in Int /\ wait \in Int
        /\ \A d \in 0..MAX_RTR_SOLICITATION_DELAY : d \in Int
    BY DEF IdleInterval, tm_max, MAX_RTR_SOLICITATION_DELAY, RTR_SOLICITATION_INTERVAL
  <2>1. PICK e \in Int : /\ x = [r EXCEPT !.expire = e]
                         /\ r.state = "IFS_PROBE" => e = due
    <3>1. CASE r.state = "IFS_IDLE"
      <4>1. x = [r EXCEPT !.expire = wait]
        BY <3>1 DEF rtsol_timer_update
      <4> HIDE DEF wait
      <4>2. QED
        BY <2>0, <3>1, <4>1
    <3>2. CASE r.state = "IFS_DELAY"
      <4>1. PICK d \in 0..MAX_RTR_SOLICITATION_DELAY : x = [r EXCEPT !.expire = d]
        BY <3>2 DEF rtsol_timer_update
      <4>2. QED
        BY <2>0, <3>2, <4>1
    <3>3. CASE r.state = "IFS_PROBE"
      <4>1. x = [r EXCEPT !.expire = due]
        BY <3>3 DEF rtsol_timer_update, ProbeTimer
      <4> HIDE DEF due
      <4>2. QED
        BY <2>0, <3>3, <4>1
    <3>4. QED
      BY <1>3, <3>1, <3>2, <3>3, Fields DEF IfStates
  <2>2. Same /\ x.expire = e
    BY <2>1 DEF IfInfo
  <2>3. Timed(x)
    BY <2>1, <2>2, Fields DEF Timed, RTR_SOLICITATION_INTERVAL
  <2>4. QED
    BY <2>2, <2>3 DEF Good, Settled
<1>4. QED
  BY <1>2, <1>3

\* A solicitation within the limit leaves a probing interface settled.
LEMMA SendPacket ==
    ASSUME NEW r \in IfInfo, r.state = "IFS_PROBE", Settled(r), r.probes < MAX_RTR_SOLICITATIONS
    PROVE  /\ sendpacket(r) \in IfInfo /\ Settled(sendpacket(r))
           /\ sendpacket(r).sent = r.sent + 1
<1> DEFINE x == sendpacket(r)
<1>1. /\ r.probes + 1 \in 0..MAX_RTR_SOLICITATIONS /\ r.sent + 1 \in Nat
      /\ 0 \in 0..RTR_SOLICITATION_INTERVAL
  BY Fields, Limits
<1>2. /\ x \in IfInfo /\ x.state = r.state /\ x.sent = r.sent + 1 /\ x.probes = r.probes + 1
      /\ x.heard = r.heard
  BY <1>1, Zenon DEF sendpacket, IfInfo
<1> HIDE DEF x
<1>3. Settled(x)
  BY <1>2 DEF Settled
<1>4. QED
  BY <1>2, <1>3 DEF x

\* An event starts the count over.
LEMMA EventSettled ==
    ASSUME NEW r \in IfInfo, r.probes = 0, NEW s \in {"IFS_DELAY", "IFS_PROBE"}
    PROVE  Event(r, s) \in IfInfo /\ Settled(Event(r, s)) /\ Event(r, s).sent = 0
<1> DEFINE x == Event(r, s)
<1>1. /\ x \in IfInfo /\ x.state = s /\ x.sent = 0 /\ x.heard = FALSE /\ x.probes = r.probes
  BY Zenon DEF Event, IfInfo, IfStates
<1> HIDE DEF x
<1>2. Settled(x)
  BY <1>1 DEF Settled
<1>3. QED
  BY <1>1, <1>2 DEF x

\* What the expiration of its timer does to a good interface: a solicitation is
\* sent only if none was answered, and four seconds after the last.
LEMMA ExpireSettled ==
    ASSUME NEW i \in Ifs, NEW r \in IfInfo, Good(r), r.expire = 0
    PROVE  /\ Expire(i, r) \in IfInfo /\ Settled(Expire(i, r))
           /\ Expire(i, r).sent > r.sent =>
                ~r.heard /\ (r.sent > 0 => r.since >= RTR_SOLICITATION_INTERVAL)
<1>1. CASE r.state \in {"IFS_DOWN", "IFS_TENTATIVE"}
  <2>1. interface_up(i) \in {"IFS_DOWN", "IFS_TENTATIVE", "IFS_DELAY"}
    BY DEF interface_up
  <2>2. Expire(i, r) = [r EXCEPT !.state = interface_up(i)]
    BY <1>1 DEF Expire
  <2>3. /\ Expire(i, r) \in IfInfo /\ Expire(i, r).state = interface_up(i)
        /\ Expire(i, r).sent = r.sent /\ Expire(i, r).probes = r.probes
        /\ Expire(i, r).heard = r.heard
    BY <2>1, <2>2 DEF IfInfo, IfStates
  <2>4. QED
    BY <1>1, <2>1, <2>3, Fields DEF Good, Settled
<1>2. CASE r.state = "IFS_IDLE"
  <2> DEFINE seen == [r EXCEPT !.active = interface_status(i),
                               !.mediareqok = MediaReqOk(i, r.mediareqok)]
             rest == r.probetimer - IdleInterval
             late == [seen EXCEPT !.probetimer = r.probeinterval]
             soon == [seen EXCEPT !.probetimer = rest]
  <2>1. interface_status(i) \in {-1, 0, 1}
    BY DEF interface_status
  <2>2. MediaReqOk(i, r.mediareqok) \in BOOLEAN
    BY Fields DEF MediaReqOk
  <2>3. r.probes = 0 /\ r.sent <= MAX_RTR_SOLICITATIONS /\ r.sent \in Nat
    BY <1>2, Fields DEF Good, Settled
  <2>4. /\ seen \in IfInfo /\ seen.probes = r.probes /\ seen.sent = r.sent /\ seen.state = r.state
    BY <2>1, <2>2, Zenon DEF IfInfo
  <2>5. r.probeinterval \in Int /\ rest \in Int
    BY Fields, ConstAssumption DEF ConstAssumption, IdleInterval
  <2>6. Expire(i, r) \in {seen, soon, Event(seen, "IFS_DELAY"), Event(late, "IFS_PROBE")}
    BY <1>2 DEF Expire, ExpireIdle
  <2>7. /\ late \in IfInfo /\ late.probes = r.probes
        /\ soon \in IfInfo /\ soon.probes = r.probes /\ soon.sent = r.sent /\ soon.state = r.state
    <3> HIDE DEF seen, rest
    <3>1. QED
      BY <2>4, <2>5 DEF IfInfo
  <2> HIDE DEF seen, late, soon
  <2>8. CASE Expire(i, r) \in {seen, soon}
    BY <1>2, <2>3, <2>4, <2>7, <2>8 DEF Settled
  <2>9. CASE Expire(i, r) \in {Event(seen, "IFS_DELAY"), Event(late, "IFS_PROBE")}
    BY <2>3, <2>4, <2>7, <2>9, EventSettled
  <2>10. QED
    BY <2>6, <2>8, <2>9
<1>3. CASE r.state = "IFS_DELAY"
  <2> DEFINE p == [r EXCEPT !.state = "IFS_PROBE"]
  <2>1. r.sent = 0 /\ ~r.heard /\ r.probes = 0
    BY <1>3 DEF Good, Settled
  <2>2. /\ p \in IfInfo /\ p.state = "IFS_PROBE" /\ p.probes = r.probes /\ p.sent = r.sent
        /\ p.heard = r.heard
    BY DEF IfInfo, IfStates
  <2>3. Expire(i, r) = sendpacket(p)
    BY <1>3 DEF Expire
  <2> HIDE DEF p
  <2>4. Settled(p) /\ p.probes < MAX_RTR_SOLICITATIONS
    BY <2>1, <2>2 DEF Settled, MAX_RTR_SOLICITATIONS
  <2>5. QED
    BY <2>1, <2>2, <2>3, <2>4, SendPacket
<1>4. CASE r.state = "IFS_PROBE"
  <2>1. Expire(i, r) = ExpireProbe(r) /\ ~r.heard /\ r.sent = r.probes
    BY <1>4 DEF Expire, Good, Settled
  <2>2. CASE r.probes < MAX_RTR_SOLICITATIONS
    <3>1. r.sent > 0 => r.since >= RTR_SOLICITATION_INTERVAL
      BY <1>4, <2>2, Fields DEF Good, Timed
    <3>2. QED
      BY <1>4, <2>1, <2>2, <3>1, SendPacket DEF ExpireProbe, Good
  <2>3. CASE ~(r.probes < MAX_RTR_SOLICITATIONS)
    <3> DEFINE x == [r EXCEPT !.probes = 0, !.state = "IFS_IDLE"]
    <3>1. x \in IfInfo /\ x.state = "IFS_IDLE" /\ x.probes = 0 /\ x.sent = r.sent
      BY Limits, Zenon DEF IfInfo, IfStates
    <3>2. Expire(i, r) = x
      BY <2>1, <2>3 DEF ExpireProbe
    <3> HIDE DEF x
    <3>3. QED
      BY <2>1, <3>1, <3>2, Fields, Limits DEF Settled
  <2>4. QED
    BY <2>2, <2>3
<1>5. QED
  BY <1>1, <1>2, <1>3, <1>4, Fields DEF IfStates

\* rtsol_check_timer() keeps an interface good.
LEMMA CheckedGood ==
    ASSUME NEW i \in Ifs, NEW r \in IfInfo, Good(r), NEW x \in Checked(i, r)
    PROVE  /\ Good(x)
           /\ x.sent > r.sent => ~r.heard /\ (r.sent > 0 => r.since >= RTR_SOLICITATION_INTERVAL)
<1>1. CASE r.expire = 0
  BY <1>1, ExpireSettled, TimerUpdate DEF Checked
<1>2. CASE r.expire # 0
  BY <1>2 DEF Checked, IfInfo
<1>3. QED
  BY <1>1, <1>2

\* An advertisement keeps an interface good and sends nothing.
LEMMA InputGood ==
    ASSUME NEW r \in IfInfo, Good(r), NEW x \in Input(r)
    PROVE  Good(x) /\ x.sent = r.sent
<1> DEFINE got == Counted(r)
           idle == [got EXCEPT !.state = "IFS_IDLE", !.probes = 0]
<1>1. /\ got \in IfInfo /\ got.sent = r.sent /\ got.state = r.state /\ got.probes = r.probes
      /\ got.since = r.since /\ got.expire = r.expire
      /\ r.sent > 0 \/ got.heard = r.heard
  BY Zenon DEF Counted, IfInfo
<1>2. IF r.state = "IFS_PROBE" THEN x \in rtsol_timer_update(idle) ELSE x = got
  BY DEF Input
<1> HIDE DEF got
<1>3. idle \in IfInfo /\ idle.sent = r.sent /\ idle.state = "IFS_IDLE" /\ idle.probes = 0
  BY <1>1, Limits, Zenon DEF IfInfo, IfStates
<1> HIDE DEF idle
<1>4. CASE r.state = "IFS_PROBE"
  <2>1. Settled(idle)
    BY <1>3, <1>4, Fields DEF Good, Settled
  <2>2. QED
    BY <1>2, <1>3, <1>4, <2>1, TimerUpdate
<1>5. CASE r.state # "IFS_PROBE"
  BY <1>1, <1>2, <1>5, Fields DEF Good, Settled, Timed
<1>6. QED
  BY <1>4, <1>5

\* An interface is good when ifconfig() has set it up.
LEMMA IfconfigGood == ASSUME NEW i \in Ifs, NEW x \in ifconfig(i) PROVE Good(x)
<1> DEFINE ok == MediaReqOk(i, TRUE)
           r == [state |-> interface_up(i), active |-> interface_status(i), mediareqok |-> ok,
                 probeinterval |-> ProbeInterval(ok), probetimer |-> 0,
                 probes |-> 0, dadcount |-> 0, expire |-> 0, racnt |-> FALSE,
                 sent |-> 0, heard |-> FALSE, since |-> RTR_SOLICITATION_INTERVAL]
<1>1. interface_up(i) \in {"IFS_DOWN", "IFS_TENTATIVE", "IFS_DELAY"}
  BY DEF interface_up
<1>2. interface_status(i) \in {-1, 0, 1}
  BY DEF interface_status
<1>3. ok \in BOOLEAN
  BY DEF MediaReqOk
<1>4. ProbeInterval(ok) \in {0, PROBE_INTERVAL}
  BY DEF ProbeInterval
<1>5. x \in rtsol_timer_update(r)
  BY DEF ifconfig
<1> HIDE DEF ok
<1>6. r \in IfInfo /\ Settled(r)
  <2>1. 0 \in 0..DADRETRY /\ RTR_SOLICITATION_INTERVAL \in 0..RTR_SOLICITATION_INTERVAL
    BY ConstAssumption, Limits DEF ConstAssumption
  <2>2. r \in IfInfo
    BY <1>1, <1>2, <1>3, <1>4, <2>1, Limits DEF IfInfo, IfStates
  <2>3. QED
    BY <1>1, <2>2 DEF Settled
<1> HIDE DEF r
<1>7. QED
  BY <1>5, <1>6, TimerUpdate

\* The passing of a second keeps an interface good.
LEMMA TickGood ==
    ASSUME NEW r \in IfInfo, Good(r), NEW x,
           x = [r EXCEPT !.expire = IF @ > 0 THEN @ - 1 ELSE @,
                         !.since = IF @ < RTR_SOLICITATION_INTERVAL THEN @ + 1 ELSE @]
    PROVE  Good(x) /\ x.sent = r.sent
<1>1. PICK e \in Int, t \in 0..RTR_SOLICITATION_INTERVAL :
         /\ e = IF r.expire > 0 THEN r.expire - 1 ELSE r.expire
         /\ t = IF r.since < RTR_SOLICITATION_INTERVAL THEN r.since + 1 ELSE r.since
  BY Fields, Limits
<1>2. x = [r EXCEPT !.expire = e, !.since = t]
  BY <1>1 DEF IfInfo
<1>3. /\ x \in IfInfo /\ x.sent = r.sent /\ x.state = r.state /\ x.probes = r.probes
      /\ x.heard = r.heard /\ x.expire = e /\ x.since = t
  BY <1>2, Zenon DEF IfInfo
<1>4. QED
  BY <1>1, <1>3, Fields, Limits DEF Good, Settled, Timed

----------------------------------------------------------------------------
(* The daemon *)

\* The inductive invariant holds initially.
LEMMA Initial == Init => IInv
<1> SUFFICES ASSUME Init PROVE IInv
  OBVIOUS
<1>1. \A i \in Ifs : Good(ifs[i])
  BY IfconfigGood, Zenon DEF Init
<1>2. ifs \in [Ifs -> IfInfo]
  <2>1. ifs = [i \in Ifs |-> ifs[i]]
    BY DEF Init
  <2>2. QED
    BY <1>1, <2>1 DEF Good
<1>3. link \in [Ifs -> Links] /\ dad \in [Ifs -> Dads]
  BY ConstAssumption DEF Init, ConstAssumption
<1>4. pc \in {"loop", "check", "select", "done"} /\ do_dump \in BOOLEAN
  BY Zenon DEF Init
<1>5. QED
  BY <1>1, <1>2, <1>3, <1>4 DEF IInv, TypeOK

\* What a step does to an interface: it stays good, and a solicitation goes out
\* only unanswered and in time.
Allowed(i) ==
    /\ Good(ifs'[i])
    /\ Sends(i) => ~ifs[i].heard /\ (ifs[i].sent > 0 => ifs[i].since >= RTR_SOLICITATION_INTERVAL)

\* Every step leaves every interface good, and sends only what is allowed.
LEMMA IfsStep ==
    ASSUME IInv, Next
    PROVE  ifs' \in [Ifs -> IfInfo] /\ \A i \in Ifs : Allowed(i)
<1>1. \A i \in Ifs : ifs[i] \in IfInfo /\ Good(ifs[i])
  BY Zenon DEF IInv, TypeOK
<1>2. \A i \in Ifs : ifs[i].sent \in Nat
  BY <1>1, Fields, Zenon
<1>3. ASSUME UNCHANGED ifs PROVE ifs' \in [Ifs -> IfInfo] /\ \A i \in Ifs : Allowed(i)
  <2>1. ifs' = ifs
    BY <1>3
  <2>2. QED
    BY <1>1, <1>2, <2>1 DEF Allowed, Sends, IInv, TypeOK
<1>4. CASE CheckTimer
  <2>1. PICK f : /\ f \in [Ifs -> UNION {Checked(i, ifs[i]) : i \in Ifs}]
                 /\ \A i \in Ifs : f[i] \in Checked(i, ifs[i])
                 /\ ifs' = f
    BY <1>4 DEF CheckTimer
  <2>2. \A i \in Ifs : Allowed(i) /\ f[i] \in IfInfo
    BY <1>1, <2>1, CheckedGood DEF Allowed, Sends, Good
  <2>3. QED
    BY <2>1, <2>2
<1>5. ASSUME NEW i \in Ifs, RaInput(i) PROVE ifs' \in [Ifs -> IfInfo] /\ \A j \in Ifs : Allowed(j)
  <2>1. PICK r : r \in Input(ifs[i]) \cup {ifs[i]} /\ ifs' = [ifs EXCEPT ![i] = r]
    BY <1>5, Zenon DEF RaInput
  <2>2. r \in IfInfo /\ Good(r) /\ r.sent = ifs[i].sent
    BY <1>1, <2>1, InputGood DEF Good
  <2>3. ifs' \in [Ifs -> IfInfo]
    BY <2>1, <2>2 DEF IInv, TypeOK
  <2>4. \A j \in Ifs : ifs'[j] = IF j = i THEN r ELSE ifs[j]
    BY <2>1 DEF IInv, TypeOK
  <2>5. ASSUME NEW j \in Ifs PROVE Good(ifs'[j]) /\ ifs'[j].sent = ifs[j].sent
    BY <1>1, <2>2, <2>4
  <2>6. QED
    BY <1>2, <2>3, <2>5 DEF Allowed, Sends
<1>6. CASE Tick
  <2>1. ASSUME NEW i \in Ifs PROVE Good(ifs'[i]) /\ ifs'[i].sent = ifs[i].sent
    BY <1>1, <1>6, TickGood, Zenon DEF Tick
  <2>2. ifs' = [i \in Ifs |-> ifs'[i]]
    BY <1>6, Zenon DEF Tick
  <2>3. ifs' \in [Ifs -> IfInfo]
    BY <2>1, <2>2 DEF Good
  <2>4. QED
    BY <1>2, <2>1, <2>3 DEF Allowed, Sends
<1>7. CASE Top \/ Timeout \/ Signal \/ \E i \in Ifs : LinkChange(i) \/ DadChange(i)
  <2>1. UNCHANGED ifs
    BY <1>7 DEF Top, Timeout, Signal, LinkChange, DadChange
  <2>2. QED
    BY <1>3, <2>1
<1>8. QED
  BY <1>4, <1>5, <1>6, <1>7 DEF Next

\* Every step keeps the invariant.
LEMMA Inductive == IInv /\ [Next]_vars => IInv'
<1>1. ASSUME IInv, UNCHANGED vars PROVE IInv'
  <2>1. UNCHANGED pc /\ UNCHANGED ifs /\ UNCHANGED do_dump /\ UNCHANGED link /\ UNCHANGED dad
    BY <1>1 DEF vars
  <2>2. \A i \in Ifs : Good(ifs'[i])
    BY <1>1, <2>1 DEF IInv
  <2>3. TypeOK'
    BY <1>1, <2>1 DEF IInv, TypeOK
  <2>4. QED
    BY <2>2, <2>3 DEF IInv
<1>2. ASSUME IInv, Next PROVE IInv'
  <2>1. ifs' \in [Ifs -> IfInfo] /\ \A i \in Ifs : Good(ifs'[i])
    BY <1>2, IfsStep DEF Allowed
  <2>2. pc' \in {"loop", "check", "select", "done"} /\ do_dump' \in BOOLEAN
    BY <1>2, Zenon DEF IInv, TypeOK, Next, Top, CheckTimer, Timeout, Signal, Tick, RaInput,
        LinkChange, DadChange
  <2>3. link' \in [Ifs -> Links]
    <3>1. CASE CheckTimer
      BY <3>1 DEF CheckTimer
    <3>2. ASSUME NEW i \in Ifs, LinkChange(i) PROVE link' \in [Ifs -> Links]
      BY <1>2, <3>2, ConstAssumption DEF LinkChange, IInv, TypeOK, ConstAssumption
    <3>3. QED
      BY <1>2, <3>1, <3>2, Zenon DEF IInv, TypeOK, Next, Top, Timeout, Signal, Tick, RaInput,
          DadChange
  <2>4. dad' \in [Ifs -> Dads]
    <3>1. ASSUME NEW i \in Ifs, DadChange(i) PROVE dad' \in [Ifs -> Dads]
      BY <1>2, <3>1, ConstAssumption DEF DadChange, IInv, TypeOK, ConstAssumption
    <3>2. QED
      BY <1>2, <3>1, Zenon DEF IInv, TypeOK, Next, Top, CheckTimer, Timeout, Signal, Tick,
          RaInput, LinkChange
  <2>5. QED
    BY <2>1, <2>2, <2>3, <2>4 DEF IInv, TypeOK
<1>3. QED
  BY <1>1, <1>2

\* The daemon never leaves the invariant.
LEMMA Invariant == Spec => []IInv
BY Initial, Inductive, PTL DEF Spec

\* Every reachable state of the daemon is well typed: probes stays within
\* MAX_RTR_SOLICITATIONS and dadcount within DADRETRY.
THEOREM TypeCorrect == Spec => []TypeOK
<1>1. IInv => TypeOK
  BY DEF IInv
<1>2. QED
  BY Invariant, <1>1, PTL

\* However many interfaces there are and whatever happens to them, each gets at
\* most MAX_RTR_SOLICITATIONS solicitations per event.
THEOREM ThreeAtMost == Spec => []AtMostThree
<1>1. IInv => AtMostThree
  <2> SUFFICES ASSUME IInv, NEW i \in Ifs PROVE ifs[i].sent <= MAX_RTR_SOLICITATIONS
    BY Zenon DEF AtMostThree
  <2>1. ifs[i] \in IfInfo /\ Settled(ifs[i])
    BY DEF IInv, Good
  <2>2. QED
    BY <2>1, Fields, Limits DEF Settled, IfStates
<1>2. QED
  BY Invariant, <1>1, PTL

\* An answered solicitation is the last one of its event.
THEOREM AnswerEnds == Spec => Refrains
<1>1. IInv /\ [Next]_vars => [\A i \in Ifs : Sends(i) => ~ifs[i].heard]_vars
  BY IfsStep DEF Allowed
<1>2. QED
  BY Invariant, <1>1, PTL DEF Spec, Refrains

\* Solicitations of one event are RTR_SOLICITATION_INTERVAL seconds apart.
THEOREM IntervalKept == Spec => Spaced
<1>1. IInv /\ [Next]_vars =>
         [\A i \in Ifs : Sends(i) /\ ifs[i].sent > 0 => ifs[i].since >= RTR_SOLICITATION_INTERVAL]_vars
  BY IfsStep DEF Allowed
<1>2. QED
  BY Invariant, <1>1, PTL DEF Spec, Spaced

----------------------------------------------------------------------------
(* With a router on the link                                               *)

\* rtsold runs without -m, on links that are up.
LanBounds ==
    /\ Attached \in Ifs /\ MaxLost \in Nat /\ ~Mobile /\ InitLinks = {"up"}
    /\ {mininterval, maxinterval, MAX_INITIAL_RTR_ADVERT_INTERVAL} \subseteq Nat

\* The attached interface of rtsold: how often it has asked, and when it asks again.
Asks(r) ==
    /\ r \in IfInfo
    /\ r.state \in {"IFS_DOWN", "IFS_TENTATIVE", "IFS_DELAY"} => r.sent = 0 /\ r.probes = 0
    /\ r.state = "IFS_PROBE" =>
         /\ r.sent = r.probes /\ r.sent > 0
         /\ r.since + r.expire >= IF r.probes < 3 THEN 4 ELSE 1
    /\ r.state = "IFS_IDLE" => r.probes = 0 /\ r.sent <= 3 /\ r.expire = -1
    /\ r.state # "IFS_IDLE" => r.expire >= 0

\* The router's interface: an answer comes within four seconds of the last advertisement.
Answers(t) ==
    /\ t \in Router!RaInfo
    /\ t.flag /\ t.timer \in Nat /\ t.orphan = -1
    /\ t.waiting => t.timer + t.lastsent <= 4

\* What rtsold may count on while it probes, and has when it gives up: with q
\* solicitations and a advertisements on the link and k packets lost so far.
Promise(r, t, q, a, k) ==
    /\ r.state = "IFS_PROBE" /\ k = 0 =>
         /\ \/ a > 0
            \/ r.sent = 1 /\ r.since = 0 /\ q > 0
            \/ r.sent = 1 /\ t.waiting /\ t.timer + r.since <= 4
            \/ r.sent = 2 /\ t.waiting /\ t.timer = 0
         /\ r.sent = 2 => r.since = 0
    /\ r.state = "IFS_PROBE" /\ k = 1 =>
         /\ r.sent = 2 => a > 0 \/ t.lastsent >= r.since \/ t.lastsent = 3
         /\ r.sent = 3 => \/ a > 0
                          \/ r.since = 0 /\ q > 0 /\ t.lastsent = 3
                          \/ t.waiting /\ t.timer + r.since <= 1
    /\ r.state = "IFS_IDLE" /\ k = 0 => r.racnt
    /\ r.state = "IFS_IDLE" /\ k = 1 => r.racnt \/ a > 0 \/ (t.waiting /\ t.timer = 0)

Usable == {"none", "tentative", "ready"}

LanInv ==
    /\ rs \in Nat /\ ra \in Nat /\ lost \in 0..MaxLost /\ started \in BOOLEAN
    /\ ifs = [i \in Ifs |-> ifs[i]] /\ rai = [i \in {RouterIf} |-> rai[i]]
    /\ link \in [Ifs -> {"up"}] /\ dad \in [Ifs -> DadStates]
    /\ Asks(ifs[Attached]) /\ Answers(rai[RouterIf])
    /\ DadStates \subseteq Usable => ifs[Attached].state # "IFS_DOWN"
    /\ ~started => ifs[Attached].state \notin {"IFS_PROBE", "IFS_IDLE"}
    /\ lost = 0 => ifs[Attached].sent <= 2
    /\ Listening => Promise(ifs[Attached], rai[RouterIf], rs, ra, lost)

----------------------------------------------------------------------------
\* rtsol_timer_update() without -m: what the timer is set to in each state.
LEMMA LanTimer ==
    ASSUME ~Mobile, NEW r \in IfInfo, NEW x \in rtsol_timer_update(r)
    PROVE  /\ x \in IfInfo /\ x.state = r.state /\ x.probes = r.probes
           /\ x.sent = r.sent /\ x.since = r.since /\ x.racnt = r.racnt
           /\ r.state = "IFS_PROBE" => x.expire = IF r.probes < 3 THEN 4 ELSE 1
           /\ r.state = "IFS_IDLE" => x.expire = -1
           /\ r.state # "IFS_IDLE" => x.expire >= 0
<1>1. r.dadcount \in 0..DADRETRY /\ PROBE_INTERVAL \in Nat /\ DADRETRY \in Nat
  BY Fields, ConstAssumption DEF ConstAssumption
<1>2. CASE r.state \in {"IFS_DOWN", "IFS_TENTATIVE"}
  <2>1. x = DadTimer(r)
    BY <1>2 DEF rtsol_timer_update
  <2>2. PICK d \in 0..DADRETRY, e \in Nat : x = [r EXCEPT !.dadcount = d, !.expire = e]
    <3>1. CASE r.dadcount + 1 > DADRETRY
      <4>1. x = [r EXCEPT !.dadcount = 0, !.expire = PROBE_INTERVAL] /\ 0 \in 0..DADRETRY
        BY <1>1, <2>1, <3>1 DEF DadTimer
      <4>2. QED
        BY <1>1, <4>1, Zenon
    <3>2. CASE ~(r.dadcount + 1 > DADRETRY)
      <4>1. PICK d \in 0..DADRETRY, e \in Nat : d = r.dadcount + 1 /\ e = 1
        BY <1>1, <3>2
      <4>2. x = [r EXCEPT !.dadcount = d, !.expire = e]
        BY <2>1, <3>2, <4>1 DEF DadTimer
      <4>3. QED
        BY <4>2, Zenon
    <3>3. QED
      BY <3>1, <3>2, Zenon
  <2>3. e \in Int /\ e >= 0
    OBVIOUS
  <2>4. /\ x \in IfInfo /\ x.state = r.state /\ x.probes = r.probes /\ x.expire = e
        /\ x.sent = r.sent /\ x.since = r.since /\ x.racnt = r.racnt
    BY <2>2, <2>3, Zenon DEF IfInfo
  <2>5. QED
    BY <1>2, <2>3, <2>4
<1>3. CASE r.state \notin {"IFS_DOWN", "IFS_TENTATIVE"}
  <2>1. PICK e \in Int : /\ x = [r EXCEPT !.expire = e]
                         /\ r.state = "IFS_PROBE" => e = IF r.probes < 3 THEN 4 ELSE 1
                         /\ r.state = "IFS_IDLE" => e = -1
                         /\ r.state = "IFS_DELAY" => e >= 0
    <3>1. CASE r.state = "IFS_IDLE"
      BY <3>1 DEF rtsol_timer_update, tm_max
    <3>2. CASE r.state = "IFS_DELAY"
      <4>1. PICK d \in 0..1 : x = [r EXCEPT !.expire = d]
        BY <3>2 DEF rtsol_timer_update, MAX_RTR_SOLICITATION_DELAY
      <4>2. QED
        BY <3>2, <4>1
    <3>3. CASE r.state = "IFS_PROBE"
      BY <3>3 DEF rtsol_timer_update, ProbeTimer, MAX_RTR_SOLICITATIONS,
         RTR_SOLICITATION_INTERVAL, MAX_RTR_SOLICITATION_DELAY
    <3>4. QED
      BY <1>3, <3>1, <3>2, <3>3, Fields DEF IfStates
  <2>2. /\ x \in IfInfo /\ x.state = r.state /\ x.probes = r.probes /\ x.expire = e
        /\ x.sent = r.sent /\ x.since = r.since /\ x.racnt = r.racnt
    BY <2>1 DEF IfInfo
  <2>3. QED
    BY <1>3, <2>1, <2>2, Fields DEF IfStates
<1>4. QED
  BY <1>2, <1>3

\* What the expiration of the timer does: nothing, a look at the address, a
\* solicitation, or the end of the wait after the third.
Waits(r, x) == x = r
Looks(r, x) ==
    /\ r.state \in {"IFS_DOWN", "IFS_TENTATIVE"}
    /\ x.state \in {"IFS_DOWN", "IFS_TENTATIVE", "IFS_DELAY"}
    /\ x.sent = r.sent /\ x.probes = r.probes /\ x.expire >= 0
Solicitation(r, x) ==
    /\ r.expire = 0 /\ r.probes < 3
    /\ r.state \in {"IFS_DELAY", "IFS_PROBE"} /\ x.state = "IFS_PROBE"
    /\ x.sent = r.sent + 1 /\ x.probes = r.probes + 1 /\ x.since = 0
    /\ x.expire = IF x.probes < 3 THEN 4 ELSE 1
GivesUp(r, x) ==
    /\ r.expire = 0 /\ r.probes = 3 /\ r.state = "IFS_PROBE"
    /\ x.state = "IFS_IDLE" /\ x.sent = r.sent /\ x.probes = 0 /\ x.expire = -1

\* rtsol_check_timer() of an interface does one of the four.
LEMMA LanChecked ==
    ASSUME ~Mobile, NEW i \in Ifs, NEW r, Asks(r), NEW x \in Checked(i, r)
    PROVE  /\ x \in IfInfo
           /\ Waits(r, x) \/ Looks(r, x) \/ Solicitation(r, x) \/ GivesUp(r, x)
           /\ r.state = "IFS_TENTATIVE" /\ x.state = "IFS_DOWN" =>
                interface_up(i) = "IFS_DOWN"
<1>0. r \in IfInfo
  BY DEF Asks
<1>1. CASE r.expire # 0
  BY <1>0, <1>1 DEF Checked, Waits
<1>2. CASE r.expire = 0
  <2> DEFINE y == Expire(i, r)
  <2>1. x \in rtsol_timer_update(y)
    BY <1>2 DEF Checked
  <2>2. r.state \in IfStates \ {"IFS_IDLE"} /\ r.probes \in 0..3
    BY <1>0, <1>2, Fields DEF Asks, MAX_RTR_SOLICITATIONS
  <2>3. CASE r.state \in {"IFS_DOWN", "IFS_TENTATIVE"}
    <3>1. interface_up(i) \in {"IFS_DOWN", "IFS_TENTATIVE", "IFS_DELAY"}
      BY DEF interface_up
    <3>2. y = [r EXCEPT !.state = interface_up(i)]
      BY <2>3 DEF Expire
    <3>3. /\ y \in IfInfo /\ y.state = interface_up(i)
          /\ y.sent = r.sent /\ y.probes = r.probes
      BY <1>0, <3>1, <3>2 DEF IfInfo, IfStates
    <3> HIDE DEF y
    <3>4. QED
      BY <2>1, <2>3, <3>1, <3>3, LanTimer DEF Looks
  <2>4. CASE r.state = "IFS_DELAY"
    <3>1. r.sent = 0 /\ r.probes = 0
      BY <2>4 DEF Asks
    <3> DEFINE p == [r EXCEPT !.state = "IFS_PROBE"]
    <3>2. p \in IfInfo /\ p.state = "IFS_PROBE" /\ p.sent = 0 /\ p.probes = 0
      BY <1>0, <3>1 DEF IfInfo, IfStates
    <3>3. y = sendpacket(p)
      BY <2>4 DEF Expire
    <3> HIDE DEF p
    <3>4. y = [p EXCEPT !.probes = 1, !.sent = 1, !.since = 0]
      BY <3>2, <3>3 DEF sendpacket
    <3>5. /\ y \in IfInfo /\ y.state = "IFS_PROBE" /\ y.sent = 1 /\ y.probes = 1 /\ y.since = 0
      <4> HIDE DEF y
      <4>1. PICK u \in 0..MAX_RTR_SOLICITATIONS, v \in Nat, w \in 0..RTR_SOLICITATION_INTERVAL :
               u = 1 /\ v = 1 /\ w = 0
        BY Limits
      <4>2. y = [p EXCEPT !.probes = u, !.sent = v, !.since = w]
        BY <3>4, <4>1
      <4>3. QED
        BY <3>2, <4>1, <4>2, Zenon DEF IfInfo
    <3> HIDE DEF y
    <3>6. QED
      BY <1>2, <2>1, <2>4, <3>1, <3>5, LanTimer DEF Solicitation
  <2>5. CASE r.state = "IFS_PROBE"
    <3>1. y = ExpireProbe(r)
      BY <2>5 DEF Expire
    <3>2. CASE r.probes < 3
      <4>1. y = sendpacket(r)
        BY <3>1, <3>2 DEF ExpireProbe, MAX_RTR_SOLICITATIONS
      <4>2. /\ r.probes + 1 \in 0..MAX_RTR_SOLICITATIONS /\ r.sent + 1 \in Nat
            /\ 0 \in 0..RTR_SOLICITATION_INTERVAL
        BY <1>0, <2>2, <3>2, Fields, Limits DEF MAX_RTR_SOLICITATIONS
      <4>3. /\ y \in IfInfo /\ y.state = "IFS_PROBE" /\ y.sent = r.sent + 1
            /\ y.probes = r.probes + 1 /\ y.since = 0
        BY <1>0, <2>5, <4>1, <4>2, Zenon DEF IfInfo, sendpacket
      <4> HIDE DEF y
      <4>4. QED
        BY <1>2, <2>1, <2>5, <3>2, <4>3, LanTimer DEF Solicitation
    <3>3. CASE r.probes = 3
      <4>1. y = [r EXCEPT !.probes = 0, !.state = "IFS_IDLE"]
        BY <3>1, <3>3 DEF ExpireProbe, MAX_RTR_SOLICITATIONS
      <4>2. y \in IfInfo /\ y.state = "IFS_IDLE" /\ y.sent = r.sent /\ y.probes = 0
        BY <1>0, <4>1, Limits, Zenon DEF IfInfo, IfStates
      <4> HIDE DEF y
      <4>3. QED
        BY <1>2, <2>1, <2>5, <3>3, <4>2, LanTimer DEF GivesUp
    <3>4. QED
      BY <2>2, <3>2, <3>3
  <2>6. QED
    BY <2>2, <2>3, <2>4, <2>5 DEF IfStates
<1>3. QED
  BY <1>1, <1>2

\* An advertisement ends the probing and is counted.
LEMMA LanInput ==
    ASSUME ~Mobile, NEW r, Asks(r), NEW x \in Input(r)
    PROVE  /\ Asks(x) /\ x.sent = r.sent /\ x.racnt /\ x.state # "IFS_PROBE"
           /\ x.state = r.state \/ (r.state = "IFS_PROBE" /\ x.state = "IFS_IDLE")
<1> DEFINE got == Counted(r)
           idle == [got EXCEPT !.state = "IFS_IDLE", !.probes = 0]
<1>0. r \in IfInfo
  BY DEF Asks
<1>1. /\ got \in IfInfo /\ got.sent = r.sent /\ got.state = r.state /\ got.probes = r.probes
      /\ got.since = r.since /\ got.expire = r.expire /\ got.racnt
  BY <1>0, Zenon DEF Counted, IfInfo
<1>2. IF r.state = "IFS_PROBE" THEN x \in rtsol_timer_update(idle) ELSE x = got
  BY DEF Input
<1> HIDE DEF got
<1>3. /\ idle \in IfInfo /\ idle.sent = r.sent /\ idle.state = "IFS_IDLE" /\ idle.probes = 0
      /\ idle.racnt
  BY <1>1, Limits, Zenon DEF IfInfo, IfStates
<1> HIDE DEF idle
<1>4. CASE r.state = "IFS_PROBE"
  <2>1. /\ x \in IfInfo /\ x.sent = r.sent /\ x.state = "IFS_IDLE" /\ x.probes = 0 /\ x.racnt
        /\ x.expire = -1
    BY <1>2, <1>3, <1>4, LanTimer
  <2>2. r.sent <= 3
    BY <1>0, <1>4, Fields DEF Asks, MAX_RTR_SOLICITATIONS
  <2>3. QED
    BY <1>4, <2>1, <2>2 DEF Asks
<1>5. CASE r.state # "IFS_PROBE"
  BY <1>1, <1>2, <1>5 DEF Asks
<1>6. QED
  BY <1>4, <1>5

\* ifconfig() has sent nothing yet.
LEMMA LanIfconfig ==
    ASSUME ~Mobile, NEW i \in Ifs, NEW x \in ifconfig(i)
    PROVE  /\ Asks(x) /\ x.sent = 0 /\ x.state = interface_up(i)
           /\ x.state \in {"IFS_DOWN", "IFS_TENTATIVE", "IFS_DELAY"}
<1> DEFINE ok == MediaReqOk(i, TRUE)
           r == [state |-> interface_up(i), active |-> interface_status(i),
                 mediareqok |-> ok,
                 probeinterval |-> ProbeInterval(ok), probetimer |-> 0,
                 probes |-> 0, dadcount |-> 0, expire |-> 0, racnt |-> FALSE,
                 sent |-> 0, heard |-> FALSE, since |-> RTR_SOLICITATION_INTERVAL]
<1>1. interface_up(i) \in {"IFS_DOWN", "IFS_TENTATIVE", "IFS_DELAY"}
  BY DEF interface_up
<1>2. interface_status(i) \in {-1, 0, 1}
  BY DEF interface_status
<1>3. ok \in BOOLEAN
  BY DEF MediaReqOk
<1>4. ProbeInterval(ok) \in {0, PROBE_INTERVAL}
  BY DEF ProbeInterval
<1>5. x \in rtsol_timer_update(r)
  BY DEF ifconfig
<1> HIDE DEF ok
<1>6. 0 \in 0..DADRETRY /\ RTR_SOLICITATION_INTERVAL \in 0..RTR_SOLICITATION_INTERVAL
  BY ConstAssumption DEF ConstAssumption, RTR_SOLICITATION_INTERVAL
<1>7. r \in IfInfo
  BY <1>1, <1>2, <1>3, <1>4, <1>6, Limits DEF IfInfo, IfStates
<1>8. r.state = interface_up(i) /\ r.sent = 0 /\ r.probes = 0
  OBVIOUS
<1> HIDE DEF r
<1>9. QED
  BY <1>1, <1>5, <1>7, <1>8, LanTimer DEF Asks

\* A second passes for an interface whose timer has not run out.
LEMMA AsksTick ==
    ASSUME NEW r, Asks(r), r.expire # 0, NEW x,
           x = [r EXCEPT !.expire = IF @ > 0 THEN @ - 1 ELSE @,
                         !.since = IF @ < RTR_SOLICITATION_INTERVAL THEN @ + 1 ELSE @]
    PROVE  /\ Asks(x) /\ x.sent = r.sent /\ x.state = r.state /\ x.racnt = r.racnt
           /\ x.since = IF r.since < 4 THEN r.since + 1 ELSE r.since
<1>0. r \in IfInfo /\ r.expire \in Int /\ r.since \in 0..4
  BY Fields DEF Asks, RTR_SOLICITATION_INTERVAL
<1>1. PICK e \in Int, c \in 0..RTR_SOLICITATION_INTERVAL :
         /\ e = IF r.expire > 0 THEN r.expire - 1 ELSE r.expire
         /\ c = IF r.since < 4 THEN r.since + 1 ELSE r.since
  <2>1. /\ (IF r.expire > 0 THEN r.expire - 1 ELSE r.expire) \in Int
        /\ (IF r.since < 4 THEN r.since + 1 ELSE r.since) \in 0..RTR_SOLICITATION_INTERVAL
    BY <1>0 DEF RTR_SOLICITATION_INTERVAL
  <2>2. QED
    BY <2>1, Zenon
<1>2. x = [r EXCEPT !.expire = e, !.since = c]
  BY <1>0, <1>1 DEF IfInfo, RTR_SOLICITATION_INTERVAL
<1>3. /\ x \in IfInfo /\ x.sent = r.sent /\ x.state = r.state /\ x.probes = r.probes
      /\ x.racnt = r.racnt /\ x.expire = e /\ x.since = c
  BY <1>0, <1>2, Zenon DEF IfInfo
<1>4. /\ r.state # "IFS_IDLE" => r.expire > 0 /\ e = r.expire - 1
      /\ r.state = "IFS_IDLE" => e = -1
  BY <1>0, <1>1 DEF Asks
<1>5. r.state = "IFS_PROBE" => c + e >= r.since + r.expire \/ (c = 4 /\ e >= 0)
  BY <1>0, <1>1, <1>4
<1>6. r.probes \in 0..3
  BY <1>0, Fields DEF MAX_RTR_SOLICITATIONS
<1>7. QED
  BY <1>0, <1>1, <1>3, <1>4, <1>5, <1>6 DEF Asks

----------------------------------------------------------------------------
(* rtadvd, up and with neither prefixes nor routes *)

\* A new interval is a number.
LEMMA LanInterval ==
    ASSUME LanBounds, NEW t \in Router!RaInfo, NEW n \in Router!ra_timer_update(t)
    PROVE  n \in Nat
BY DEF LanBounds, Router!ra_timer_update

\* The fields of struct rainfo that matter here have these types.
LEMMA LanRaFields ==
    ASSUME NEW t \in Router!RaInfo
    PROVE  /\ t.waiting \in BOOLEAN /\ t.lastsent \in 0..3 /\ t.flag \in BOOLEAN
           /\ t.initcounter \in 0..3
BY DEF Router!RaInfo, Router!MIN_DELAY_BETWEEN_RAS,
       Router!MAX_INITIAL_RTR_ADVERTISEMENTS

\* A timer that runs out sends an advertisement, which answers what waits.
LEMMA LanAdvertises ==
    ASSUME LanBounds, NEW t, Answers(t), NEW x \in Router!TimerExpires(t)
    PROVE  /\ Answers(x)
           /\ t.timer # 0 => x = t
           /\ t.timer = 0 => ~x.waiting
<1>0. t \in Router!RaInfo
  BY DEF Answers
<1>1. CASE t.timer # 0
  BY <1>1 DEF Router!TimerExpires
<1>2. CASE t.timer = 0
  <2> DEFINE s == Router!ra_output(t)
  <2>1. PICK n \in Router!ra_timer_update(s) : x = [s EXCEPT !.timer = n]
    BY <1>2 DEF Router!TimerExpires
  <2>2. Router!make_packet(t) \in [lifetime : BOOLEAN, valid : SUBSET {}, zero : SUBSET {}]
    BY <1>0 DEF Router!make_packet, Router!RaInfo, Router!Valid, Router!Invalidated
  <2>3. PICK m \in 0..Router!MAX_INITIAL_RTR_ADVERTISEMENTS :
           m = IF t.initcounter < Router!MAX_INITIAL_RTR_ADVERTISEMENTS
               THEN t.initcounter + 1 ELSE t.initcounter
    BY <1>0, LanRaFields DEF Router!MAX_INITIAL_RTR_ADVERTISEMENTS
  <2>4. PICK p \in [lifetime : BOOLEAN, valid : SUBSET {}, zero : SUBSET {}] :
           s = [t EXCEPT !.initcounter = m, !.waiting = FALSE, !.lastsent = 0, !.told = p,
                         !.fresh = FALSE]
    BY <2>2, <2>3, Zenon DEF Router!ra_output, Answers
  <2>5. 0 \in 0..Router!MIN_DELAY_BETWEEN_RAS
    BY DEF Router!MIN_DELAY_BETWEEN_RAS
  <2> HIDE DEF s
  <2>6. s \in Router!RaInfo /\ s.flag = t.flag /\ s.orphan = t.orphan /\ s.waiting = FALSE
    BY <1>0, <2>4, <2>5, Zenon DEF Router!RaInfo
  <2>7. n \in Nat
    BY <2>6, LanInterval
  <2>8. /\ x \in Router!RaInfo /\ x.flag = s.flag /\ x.orphan = s.orphan
        /\ x.waiting = s.waiting /\ x.timer = n
    BY <2>1, <2>6, <2>7 DEF Router!RaInfo
  <2>9. QED
    BY <1>2, <2>6, <2>7, <2>8 DEF Answers
<1>3. QED
  BY <1>1, <1>2

\* With no prefixes, prefix_timeout() has nothing to do.
LEMMA LanNoPrefix ==
    ASSUME NEW t, Answers(t)
    PROVE  LET y == Router!prefix_timeout(t)
           IN  /\ Answers(y) /\ y.waiting = t.waiting /\ y.timer = t.timer
               /\ y.lastsent = t.lastsent
<1> DEFINE y == Router!prefix_timeout(t)
           z == [p \in {} |-> IF t.prefix[p] = 0 THEN Router!Absent ELSE t.prefix[p]]
<1>0. t \in Router!RaInfo
  BY DEF Answers
<1>1. y = [t EXCEPT !.prefix = z]
  BY <1>0 DEF Router!prefix_timeout, Router!RaInfo
<1>2. z \in [{} -> {Router!Absent, Router!Off} \cup Nat]
  OBVIOUS
<1> HIDE DEF y, z
<1>3. /\ y \in Router!RaInfo /\ y.flag = t.flag /\ y.orphan = t.orphan
      /\ y.waiting = t.waiting /\ y.timer = t.timer /\ y.lastsent = t.lastsent
  BY <1>0, <1>1, <1>2 DEF Router!RaInfo
<1>4. QED
  BY <1>3 DEF Answers, y

\* rtadvd_check_timer(): an advertisement goes out if and only if its time is up.
LEMMA LanRouterChecked ==
    ASSUME LanBounds, NEW t, Answers(t), NEW x \in Router!Checked(t)
    PROVE  /\ Answers(x)
           /\ t.timer # 0 => x.waiting = t.waiting /\ x.timer = t.timer /\ x.lastsent = t.lastsent
           /\ t.timer = 0 => ~x.waiting
<1> DEFINE y == Router!prefix_timeout(t)
<1>1. PICK s \in Router!TimerExpires(y)
                 \cup {Router!prefix_timeout(u) : u \in Router!TimerExpires(t)} :
         x \in Router!OrphanExpires(s)
  BY DEF Router!Checked
<1>2. /\ Answers(s)
      /\ t.timer # 0 => s.waiting = t.waiting /\ s.timer = t.timer /\ s.lastsent = t.lastsent
      /\ t.timer = 0 => ~s.waiting
  <2>1. CASE s \in Router!TimerExpires(y)
    <3>1. Answers(y) /\ y.waiting = t.waiting /\ y.timer = t.timer /\ y.lastsent = t.lastsent
      BY LanNoPrefix
    <3> HIDE DEF y
    <3>2. QED
      BY <2>1, <3>1, LanAdvertises
  <2>2. ASSUME NEW u \in Router!TimerExpires(t), s = Router!prefix_timeout(u)
        PROVE  /\ Answers(s)
               /\ t.timer # 0 =>
                    s.waiting = t.waiting /\ s.timer = t.timer /\ s.lastsent = t.lastsent
               /\ t.timer = 0 => ~s.waiting
    <3>1. Answers(u) /\ (t.timer # 0 => u = t) /\ (t.timer = 0 => ~u.waiting)
      BY LanAdvertises
    <3>2. Answers(s) /\ s.waiting = u.waiting /\ s.timer = u.timer /\ s.lastsent = u.lastsent
      BY <2>2, <3>1, LanNoPrefix
    <3>3. QED
      BY <3>1, <3>2
  <2>3. QED
    BY <1>1, <2>1, <2>2
<1>3. x = s
  BY <1>1, <1>2 DEF Router!OrphanExpires, Answers
<1>4. QED
  BY <1>2, <1>3

\* rs_input(): the first solicitation that waits brings the answer forward.
LEMMA LanSolicited ==
    ASSUME NEW t, Answers(t), ~t.waiting,
           NEW x \in Router!set_short_delay([t EXCEPT !.waiting = TRUE])
    PROVE  /\ Answers(x) /\ x.waiting /\ x.lastsent = t.lastsent
           /\ x.timer + t.lastsent <= 4
<1> DEFINE w == [t EXCEPT !.waiting = TRUE]
<1>0. t \in Router!RaInfo
  BY DEF Answers
<1>1. /\ w \in Router!RaInfo /\ w.waiting /\ w.timer = t.timer /\ w.lastsent = t.lastsent
      /\ w.flag = t.flag /\ w.orphan = t.orphan
  BY <1>0, Zenon DEF Router!RaInfo
<1>2. t.timer \in Nat /\ t.lastsent \in 0..3
  BY <1>0, LanRaFields DEF Answers
<1> HIDE DEF w
<1>3. PICK d \in 0..1 :
         x = [w EXCEPT !.timer = Router!lesser(d, w.timer) + (3 - w.lastsent)]
  BY <1>1, <1>2 DEF Router!set_short_delay, Router!Off, Router!MIN_DELAY_BETWEEN_RAS, w
<1>4. PICK n \in Nat : n = Router!lesser(d, w.timer) + (3 - w.lastsent) /\ n + t.lastsent <= 4
  BY <1>1, <1>2 DEF Router!lesser
<1>5. x = [w EXCEPT !.timer = n]
  BY <1>3, <1>4
<1>6. /\ x \in Router!RaInfo /\ x.waiting /\ x.timer = n /\ x.lastsent = t.lastsent
      /\ x.flag = t.flag /\ x.orphan = t.orphan
  BY <1>1, <1>5 DEF Router!RaInfo
<1>7. QED
  BY <1>4, <1>6 DEF Answers

\* A second passes for a router that has nothing to do.
LEMMA LanRouterTick ==
    ASSUME NEW t, Answers(t), t.timer # 0, NEW x,
           x = [t EXCEPT !.timer = Router!Before(@), !.orphan = Router!Before(@),
                         !.lastsent = IF @ < Router!MIN_DELAY_BETWEEN_RAS THEN @ + 1 ELSE @,
                         !.prefix = [p \in {} |-> Router!Before(@[p])]]
    PROVE  /\ Answers(x) /\ x.waiting = t.waiting /\ x.timer = t.timer - 1
           /\ x.lastsent = IF t.lastsent < 3 THEN t.lastsent + 1 ELSE t.lastsent
<1>0. t \in Router!RaInfo
  BY DEF Answers
<1>1. t.timer \in Nat \ {0} /\ t.lastsent \in 0..3 /\ t.orphan = -1
  BY <1>0, LanRaFields DEF Answers
<1> DEFINE n == t.timer - 1
           l == IF t.lastsent < 3 THEN t.lastsent + 1 ELSE t.lastsent
           z == [p \in {} |-> Router!Before(t.prefix[p])]
<1>2. x = [t EXCEPT !.timer = n, !.orphan = -1, !.lastsent = l, !.prefix = z]
  <2>1. Router!Before(t.timer) = n /\ Router!Before(t.orphan) = -1
    BY <1>1 DEF Router!Before
  <2>2. l = IF t.lastsent < Router!MIN_DELAY_BETWEEN_RAS THEN t.lastsent + 1 ELSE t.lastsent
    BY DEF Router!MIN_DELAY_BETWEEN_RAS
  <2> HIDE DEF n, l
  <2>3. QED
    BY <1>0, <2>1, <2>2 DEF Router!RaInfo
<1>3. n \in Nat /\ l \in 0..Router!MIN_DELAY_BETWEEN_RAS /\ -1 = Router!Off
  BY <1>1 DEF Router!MIN_DELAY_BETWEEN_RAS, Router!Off
<1>4. z \in [{} -> {Router!Absent, Router!Off} \cup Nat]
  OBVIOUS
<1>5. t.waiting => n + l <= 4
  BY <1>1 DEF Answers
<1>6. l = IF t.lastsent < 3 THEN t.lastsent + 1 ELSE t.lastsent
  OBVIOUS
<1> HIDE DEF n, l, z
<1>7. /\ x \in Router!RaInfo /\ x.waiting = t.waiting /\ x.timer = n /\ x.lastsent = l
      /\ x.flag = t.flag /\ x.orphan = -1
  BY <1>0, <1>2, <1>3, <1>4, Zenon DEF Router!RaInfo
<1>8. QED
  BY <1>3, <1>5, <1>6, <1>7 DEF Answers, n

----------------------------------------------------------------------------
(* The two together *)

\* rtsol_check_timer() keeps the promise: rtsold asks again, or gives up, only
\* when it has waited long enough.
LEMMA KeptByHost ==
    ASSUME NEW r, Asks(r), NEW t, Answers(t), NEW q \in Nat, NEW a \in Nat, NEW k \in Nat,
           k = 0 => r.sent <= 2, Promise(r, t, q, a, k),
           NEW x \in IfInfo, Waits(r, x) \/ Looks(r, x) \/ Solicitation(r, x) \/ GivesUp(r, x),
           NEW b, b = IF x.sent > r.sent THEN q + 1 ELSE q
    PROVE  Asks(x) /\ (k = 0 => x.sent <= 2) /\ Promise(x, t, b, a, k)
<1>0. /\ r.sent \in Nat /\ r.probes \in 0..3 /\ r.expire \in Int /\ r.since \in 0..4
      /\ t.lastsent \in 0..3 /\ t.timer \in Nat /\ t.waiting \in BOOLEAN
      /\ r.state \in IfStates
  BY Fields, LanRaFields DEF Asks, Answers, MAX_RTR_SOLICITATIONS, RTR_SOLICITATION_INTERVAL
<1>1. CASE Waits(r, x)
  <2>1. x = r /\ b = q
    BY <1>0, <1>1 DEF Waits
  <2>2. QED
    BY <2>1
<1>2. CASE Looks(r, x)
  <2>1. x.sent = 0 /\ x.probes = 0
    BY <1>2 DEF Looks, Asks
  <2>2. QED
    BY <1>2, <2>1 DEF Looks, Asks, Promise
<1>3. CASE Solicitation(r, x)
  <2>1. /\ r.expire = 0 /\ r.probes < 3 /\ x.state = "IFS_PROBE" /\ x.since = 0
        /\ x.sent = r.sent + 1 /\ x.probes = r.probes + 1 /\ x.sent = x.probes
        /\ x.expire = IF x.probes < 3 THEN 4 ELSE 1
        /\ b = q + 1
    BY <1>0, <1>3 DEF Solicitation, Asks
  <2>2. Asks(x)
    BY <1>0, <2>1 DEF Asks
  <2>3. CASE r.state = "IFS_DELAY"
    BY <1>0, <2>1, <2>2, <2>3 DEF Asks, Promise
  <2>4. CASE r.state = "IFS_PROBE"
    <3>1. r.sent \in {1, 2} /\ r.since = 4
      BY <1>0, <2>1, <2>4 DEF Asks
    <3>2. CASE k = 0
      BY <1>0, <2>1, <2>2, <2>4, <3>1, <3>2 DEF Promise
    <3>3. CASE k = 1
      BY <1>0, <2>1, <2>2, <2>4, <3>1, <3>3 DEF Promise
    <3>4. QED
      BY <2>1, <2>2, <3>2, <3>3 DEF Promise
  <2>5. QED
    BY <1>3, <2>3, <2>4 DEF Solicitation
<1>4. CASE GivesUp(r, x)
  <2>1. /\ r.expire = 0 /\ r.state = "IFS_PROBE" /\ r.sent = 3 /\ r.since >= 1
        /\ x.state = "IFS_IDLE" /\ x.sent = 3 /\ x.probes = 0 /\ x.expire = -1
    BY <1>0, <1>4 DEF GivesUp, Asks
  <2>2. Asks(x) /\ k # 0
    BY <2>1 DEF Asks
  <2>3. k = 1 => a > 0 \/ (t.waiting /\ t.timer = 0)
    BY <1>0, <2>1 DEF Promise
  <2>4. QED
    BY <2>1, <2>2, <2>3 DEF Promise
<1>5. QED
  BY <1>1, <1>2, <1>3, <1>4

\* An advertisement that arrives keeps it.
LEMMA KeptByInput ==
    ASSUME ~Mobile, NEW r, Asks(r), NEW x \in Input(r), NEW t, NEW q, NEW a, NEW k
    PROVE  Promise(x, t, q, a, k)
BY LanInput DEF Promise

\* rtadvd_check_timer() keeps it: an advertisement goes out when the time is up.
LEMMA KeptByRouter ==
    ASSUME LanBounds, NEW r, Asks(r), NEW t, Answers(t), NEW q \in Nat, NEW a \in Nat,
           NEW k \in Nat, Promise(r, t, q, a, k), NEW x \in Router!Checked(t),
           NEW b, b = IF t.timer = 0 THEN a + 1 ELSE a
    PROVE  Promise(r, x, q, b, k)
<1>0. t.timer \in Nat
  BY DEF Answers
<1>1. CASE t.timer = 0
  BY <1>1, Fields DEF Promise, Asks, RTR_SOLICITATION_INTERVAL
<1>2. CASE t.timer # 0
  BY <1>2, LanRouterChecked DEF Promise
<1>3. QED
  BY <1>1, <1>2

\* rs_input() keeps it: the answer comes in time.
LEMMA KeptBySolicited ==
    ASSUME NEW r, Asks(r), NEW t, Answers(t), NEW q \in Nat, NEW a \in Nat, NEW k \in Nat,
           Promise(r, t, q, a, k), NEW x,
           \/ t.waiting /\ x = t
           \/ ~t.waiting /\ x \in Router!set_short_delay([t EXCEPT !.waiting = TRUE])
    PROVE  Answers(x) /\ Promise(r, x, q - 1, a, k)
<1>0. /\ r.sent \in Nat /\ r.since \in 0..4 /\ t.lastsent \in 0..3 /\ t.timer \in Nat
  BY Fields, LanRaFields DEF Asks, Answers, RTR_SOLICITATION_INTERVAL
<1>1. CASE t.waiting /\ x = t
  BY <1>0, <1>1 DEF Promise, Answers
<1>2. CASE ~t.waiting /\ x \in Router!set_short_delay([t EXCEPT !.waiting = TRUE])
  <2>1. Answers(x) /\ x.waiting /\ x.lastsent = t.lastsent /\ x.timer + t.lastsent <= 4
    BY <1>2, LanSolicited
  <2>2. x.timer \in Nat
    BY <2>1 DEF Answers
  <2>3. QED
    BY <1>0, <1>2, <2>1, <2>2 DEF Promise
<1>3. QED
  BY <1>1, <1>2

\* The loss of a packet keeps it: what counted on none counts on the next answer.
LEMMA KeptByLoss ==
    ASSUME NEW r, Asks(r), NEW t, Answers(t), NEW q, NEW a, NEW k \in Nat,
           k = 0 => r.sent <= 2, Promise(r, t, q, a, k), NEW b, NEW c
    PROVE  Promise(r, t, b, c, k + 1)
<1>0. /\ r.sent \in Nat /\ r.since \in 0..4 /\ t.lastsent \in 0..3
  BY Fields, LanRaFields, Zenon DEF Asks, Answers, RTR_SOLICITATION_INTERVAL
<1>1. QED
  BY <1>0 DEF Promise

\* So does a second in which nothing is on its way.
LEMMA KeptByTick ==
    ASSUME NEW r, Asks(r), NEW t, Answers(t), t.timer # 0, NEW k \in Nat,
           Promise(r, t, 0, 0, k),
           NEW x, x.state = r.state, x.sent = r.sent, x.racnt = r.racnt,
           x.since = IF r.since < 4 THEN r.since + 1 ELSE r.since,
           NEW y, y.waiting = t.waiting, y.timer = t.timer - 1,
           y.lastsent = IF t.lastsent < 3 THEN t.lastsent + 1 ELSE t.lastsent
    PROVE  Promise(x, y, 0, 0, k)
<1>0. /\ r.sent \in Nat /\ r.since \in 0..4 /\ t.lastsent \in 0..3 /\ t.timer \in Nat
  BY Fields, LanRaFields, Zenon DEF Asks, Answers, RTR_SOLICITATION_INTERVAL
<1>1. CASE k = 0
  BY <1>0, <1>1 DEF Promise
<1>2. CASE k = 1
  BY <1>0, <1>2 DEF Promise
<1>3. QED
  BY <1>1, <1>2, Zenon DEF Promise

----------------------------------------------------------------------------
\* An interface that is up is not given up while its address is usable.
LEMMA LanStaysUp ==
    ASSUME LanInv, DadStates \subseteq Usable, Attached \in Ifs
    PROVE  interface_up(Attached) # "IFS_DOWN"
<1>1. link[Attached] = "up" /\ dad[Attached] \in Usable
  BY DEF LanInv
<1>2. QED
  BY <1>1 DEF interface_up, Usable

\* getconfig() starts with a timer that has run out.
LEMMA LanGetconfig == ASSUME NEW listed PROVE Answers(Router!getconfig(TRUE, listed))
<1> DEFINE t == Router!getconfig(TRUE, listed)
           z == [p \in {} |-> IF p \in listed THEN Router!Off ELSE Router!Absent]
<1>1. t = [flag |-> TRUE, timer |-> 0, orphan |-> Router!Off, initcounter |-> 0,
           waiting |-> FALSE, lastsent |-> Router!MIN_DELAY_BETWEEN_RAS, lifetime |-> TRUE,
           prefix |-> z, told |-> [lifetime |-> FALSE, valid |-> {}, zero |-> {}], fresh |-> TRUE]
  BY DEF Router!getconfig
<1>2. z \in [{} -> {Router!Absent, Router!Off} \cup Nat]
  OBVIOUS
<1>3. /\ Router!MIN_DELAY_BETWEEN_RAS \in 0..Router!MIN_DELAY_BETWEEN_RAS
      /\ 0 \in 0..Router!MAX_INITIAL_RTR_ADVERTISEMENTS /\ Router!Off = -1
  BY DEF Router!MIN_DELAY_BETWEEN_RAS, Router!MAX_INITIAL_RTR_ADVERTISEMENTS, Router!Off
<1> HIDE DEF t, z
<1>4. t \in Router!RaInfo
  BY <1>1, <1>2, <1>3 DEF Router!RaInfo
<1>5. t.flag /\ t.timer = 0 /\ t.orphan = -1 /\ ~t.waiting
  BY <1>1, <1>3
<1>6. Answers(t)
  BY <1>4, <1>5 DEF Answers
<1>7. QED
  BY <1>6, Zenon DEF t

\* The invariant holds initially.
LEMMA LanInitial == LanBounds /\ LanInit => LanInv
<1> SUFFICES ASSUME LanBounds, LanInit PROVE LanInv
  OBVIOUS
<1>0. Init /\ Router!Init /\ rs = 0 /\ ra = 0 /\ lost = 0 /\ started = FALSE
  BY DEF LanInit
<1>1. /\ link \in [Ifs -> {"up"}] /\ dad \in [Ifs -> DadStates] /\ ifs = [i \in Ifs |-> ifs[i]]
      /\ ifs[Attached] \in ifconfig(Attached)
  BY <1>0 DEF Init, LanBounds
<1>2. rai = [i \in {RouterIf} |-> rai[i]] /\ Answers(rai[RouterIf])
  <2>1. up[RouterIf] = TRUE
    BY <1>0 DEF Router!Init
  <2>2. PICK listed : rai[RouterIf] = Router!getconfig(up[RouterIf], listed)
    BY <1>0, Zenon DEF Router!Init
  <2>3. Answers(rai[RouterIf])
    BY <2>1, <2>2, LanGetconfig, Zenon
  <2>4. QED
    BY <1>0, <2>3, Zenon DEF Router!Init
<1>3. /\ Asks(ifs[Attached]) /\ ifs[Attached].sent = 0
      /\ ifs[Attached].state = interface_up(Attached)
      /\ ifs[Attached].state \in {"IFS_DOWN", "IFS_TENTATIVE", "IFS_DELAY"}
  BY <1>1, LanIfconfig DEF LanBounds
<1>4. DadStates \subseteq Usable => ifs[Attached].state # "IFS_DOWN"
  <2> SUFFICES ASSUME DadStates \subseteq Usable PROVE ifs[Attached].state # "IFS_DOWN"
    OBVIOUS
  <2>1. link[Attached] = "up" /\ dad[Attached] \in Usable
    BY <1>1 DEF LanBounds
  <2>2. QED
    BY <1>3, <2>1 DEF interface_up, Usable
<1>5. /\ lost \in 0..MaxLost /\ rs \in Nat /\ ra \in Nat /\ started \in BOOLEAN
      /\ ifs[Attached].sent <= 2
  <2>1. 0 \in 0..MaxLost /\ MaxLost \in Nat
    BY DEF LanBounds
  <2>2. started \in BOOLEAN
    BY <1>0, Zenon
  <2>3. lost \in 0..MaxLost /\ rs \in Nat /\ ra \in Nat
    BY <1>0, <2>1
  <2>4. ifs[Attached].sent <= 2
    BY <1>3
  <2>5. QED
    BY <2>2, <2>3, <2>4
<1>6. ~Listening
  BY <1>0, Zenon DEF Listening
<1>7. ifs[Attached].state \notin {"IFS_PROBE", "IFS_IDLE"}
  BY <1>3
<1>8. QED
  BY <1>1, <1>2, <1>3, <1>4, <1>5, <1>6, <1>7, Zenon DEF LanInv

\* What rtsol_check_timer() leaves, also when it is the last thing rtsold does.
LEMMA LanCheckTimer ==
    ASSUME LanBounds, LanInv, started, CheckTimer,
           rs' = IF ifs'[Attached].sent > ifs[Attached].sent THEN rs + 1 ELSE rs
    PROVE  /\ ifs' = [i \in Ifs |-> ifs'[i]] /\ link' \in [Ifs -> {"up"}] /\ dad' = dad
           /\ rs' \in Nat /\ Asks(ifs'[Attached])
           /\ DadStates \subseteq Usable => ifs'[Attached].state # "IFS_DOWN"
           /\ lost = 0 => ifs'[Attached].sent <= 2
           /\ Promise(ifs'[Attached], rai[RouterIf], rs', ra, lost)
<1> DEFINE r == ifs[Attached]
           x == ifs'[Attached]
<1>0. /\ Attached \in Ifs /\ rs \in Nat /\ ra \in Nat /\ lost \in Nat
      /\ Asks(r) /\ Answers(rai[RouterIf]) /\ (lost = 0 => r.sent <= 2)
  BY DEF LanBounds, LanInv
<1>1. Promise(r, rai[RouterIf], rs, ra, lost)
  BY DEF LanInv, Listening, CheckTimer
<1>2. ifs' = [i \in Ifs |-> ifs'[i]] /\ x \in Checked(Attached, r) /\ dad' = dad
  BY <1>0 DEF CheckTimer
<1>3. link' \in [Ifs -> {"up"}]
  <2>1. PICK l \in [Ifs -> Links] :
          /\ \A i \in Ifs :
               l[i] \in IF ifs[i].expire = 0 /\ ifs[i].state \in {"IFS_DOWN", "IFS_TENTATIVE"}
                        THEN BroughtUp(i) ELSE {link[i]}
          /\ link' = l
    BY DEF CheckTimer
  <2>2. \A i \in Ifs : link[i] = "up"
    BY DEF LanInv
  <2>3. ASSUME NEW i \in Ifs PROVE l[i] = "up"
    BY <2>1, <2>2 DEF BroughtUp
  <2>4. QED
    BY <2>1, <2>3
<1>4. /\ x \in IfInfo
      /\ Waits(r, x) \/ Looks(r, x) \/ Solicitation(r, x) \/ GivesUp(r, x)
      /\ r.state = "IFS_TENTATIVE" /\ x.state = "IFS_DOWN" =>
           interface_up(Attached) = "IFS_DOWN"
  BY <1>0, <1>2, LanChecked DEF LanBounds
<1>5. rs' \in Nat /\ rs' = IF x.sent > r.sent THEN rs + 1 ELSE rs
  BY <1>0
<1> HIDE DEF x, r
<1>6. Asks(x) /\ (lost = 0 => x.sent <= 2) /\ Promise(x, rai[RouterIf], rs', ra, lost)
  BY <1>0, <1>1, <1>4, <1>5, KeptByHost
<1>7. ASSUME DadStates \subseteq Usable PROVE x.state # "IFS_DOWN"
  <2>1. r.state # "IFS_DOWN" /\ interface_up(Attached) # "IFS_DOWN"
    BY <1>0, <1>7, LanStaysUp, Zenon DEF LanInv, r
  <2>2. QED
    BY <1>4, <2>1 DEF Waits, Looks, Solicitation, GivesUp
<1>8. QED
  BY <1>2, <1>3, <1>5, <1>6, <1>7 DEF x

\* A step that touches neither daemon's interface, the links nor the packets.
LanSame == /\ ifs' = ifs /\ link' = link /\ rai' = rai
           /\ rs' = rs /\ ra' = ra /\ lost' = lost

\* Steps of rtsold and of duplicate address detection keep the invariant.
LEMMA LanSameKeeps ==
    ASSUME LanInv, LanSame, dad' \in [Ifs -> DadStates], started' \in BOOLEAN,
           started => started', Listening' => (started /\ pc # "done") \/ ~started
    PROVE  LanInv'
<1>1. ifs'[Attached] = ifs[Attached] /\ rai'[RouterIf] = rai[RouterIf]
  BY Zenon DEF LanSame
<1>2. Listening' => Promise(ifs[Attached], rai[RouterIf], rs, ra, lost)
  BY DEF LanInv, Listening, Promise
<1>3. QED
  BY <1>1, <1>2 DEF LanInv, LanSame

\* rtsold runs.
LEMMA LanHostRuns == ASSUME LanBounds, LanInv, HostRuns PROVE LanInv'
<1>1. /\ started /\ started' = started /\ rai' = rai /\ ra' = ra /\ lost' = lost
      /\ rs' = IF ifs'[Attached].sent > ifs[Attached].sent THEN rs + 1 ELSE rs
  BY Zenon DEF HostRuns, routerVars
<1>2. CASE CheckTimer
  <2>1. /\ ifs' = [i \in Ifs |-> ifs'[i]] /\ link' \in [Ifs -> {"up"}] /\ dad' = dad
        /\ rs' \in Nat /\ Asks(ifs'[Attached])
        /\ DadStates \subseteq Usable => ifs'[Attached].state # "IFS_DOWN"
        /\ lost = 0 => ifs'[Attached].sent <= 2
        /\ Promise(ifs'[Attached], rai[RouterIf], rs', ra, lost)
    BY <1>1, <1>2, LanCheckTimer, Zenon
  <2>2. QED
    BY <1>1, <2>1 DEF LanInv
<1>3. CASE Top \/ Timeout
  <2>1. ifs' = ifs /\ link' = link /\ dad' = dad /\ pc # "done"
    BY <1>3 DEF Top, Timeout
  <2>2. rs' = rs
    <3>1. ifs[Attached].sent \in Nat
      BY Fields, Zenon DEF LanInv, Asks
    <3>2. QED
      BY <1>1, <2>1, <3>1
  <2>3. QED
    BY <1>1, <2>1, <2>2, LanSameKeeps DEF LanSame, LanInv
<1>4. QED
  BY <1>2, <1>3 DEF HostRuns

\* rtsold reads an advertisement.
LEMMA LanHostHears == ASSUME LanBounds, LanInv, HostHears PROVE LanInv'
<1>1. /\ started /\ started' = started /\ rai' = rai /\ rs' = rs /\ lost' = lost
      /\ ra > 0 /\ ra' = ra - 1 /\ ifs'[Attached] \in Input(ifs[Attached])
      /\ link' = link /\ dad' = dad
  BY DEF HostHears, routerVars, RaInput
<1>2. PICK r : ifs' = [ifs EXCEPT ![Attached] = r]
  BY Zenon DEF HostHears, RaInput
<1>3. ifs' = [i \in Ifs |-> ifs'[i]]
  <2>1. ifs = [i \in Ifs |-> ifs[i]]
    BY DEF LanInv
  <2>2. QED
    BY <1>2, <2>1
<1>4. ra' \in Nat
  BY <1>1 DEF LanInv
<1>5. Asks(ifs[Attached])
  BY DEF LanInv
<1>6. /\ Asks(ifs'[Attached]) /\ ifs'[Attached].sent = ifs[Attached].sent
      /\ ifs'[Attached].state # "IFS_DOWN" \/ ifs[Attached].state = "IFS_DOWN"
  BY <1>1, <1>5, LanInput DEF LanBounds
<1>7. Promise(ifs'[Attached], rai'[RouterIf], rs', ra', lost')
  BY <1>1, <1>5, KeptByInput, Zenon DEF LanBounds
<1>8. QED
  BY <1>1, <1>3, <1>4, <1>6, <1>7 DEF LanInv

\* rtadvd's timers.
LEMMA LanRouterTimers == ASSUME LanBounds, LanInv, RouterTimers PROVE LanInv'
<1>1. /\ started' = started /\ ifs' = ifs /\ link' = link /\ dad' = dad /\ pc' = pc
      /\ rs' = rs /\ lost' = lost
      /\ ra' = IF rai[RouterIf].timer = 0 /\ Listening THEN ra + 1 ELSE ra
  BY DEF RouterTimers, vars
<1>2. rai' = [i \in {RouterIf} |-> rai'[i]] /\ rai'[RouterIf] \in Router!Checked(rai[RouterIf])
  BY DEF RouterTimers, Router!rtadvd_check_timer
<1>3. /\ Asks(ifs[Attached]) /\ Answers(rai[RouterIf]) /\ rs \in Nat /\ ra \in Nat /\ lost \in Nat
  BY DEF LanInv, LanBounds
<1>4. Answers(rai'[RouterIf]) /\ ra' \in Nat
  BY <1>1, <1>2, <1>3, LanRouterChecked
<1>5. ASSUME Listening PROVE Promise(ifs[Attached], rai'[RouterIf], rs, ra', lost)
  <2>1. Promise(ifs[Attached], rai[RouterIf], rs, ra, lost)
    BY <1>5 DEF LanInv
  <2>2. ra' = IF rai[RouterIf].timer = 0 THEN ra + 1 ELSE ra
    BY <1>1, <1>5
  <2>3. QED
    BY <1>2, <1>3, <2>1, <2>2, KeptByRouter
<1>6. Listening' => Listening
  BY <1>1, Zenon DEF Listening
<1>7. QED
  BY <1>1, <1>2, <1>4, <1>5, <1>6 DEF LanInv

\* rtadvd reads a solicitation.
LEMMA LanRouterHears == ASSUME LanBounds, LanInv, RouterHears PROVE LanInv'
<1> DEFINE t == rai[RouterIf]
           x == rai'[RouterIf]
<1>1. /\ started' = started /\ ifs' = ifs /\ link' = link /\ dad' = dad /\ pc' = pc
      /\ rs > 0 /\ rs' = rs - 1 /\ ra' = ra /\ lost' = lost
  BY DEF RouterHears, vars
<1>2. rai = [i \in {RouterIf} |-> rai[i]]
  BY DEF LanInv
<1>3. /\ rai' = [i \in {RouterIf} |-> rai'[i]]
      /\ \/ t.waiting /\ x = t
         \/ ~t.waiting /\ x \in Router!set_short_delay([t EXCEPT !.waiting = TRUE])
  <2>1. CASE t.waiting
    BY <1>2, <2>1 DEF RouterHears, Router!rs_input
  <2>2. CASE ~t.waiting
    <3>1. PICK y \in Router!set_short_delay([t EXCEPT !.waiting = TRUE]) :
            rai' = [rai EXCEPT ![RouterIf] = y]
      BY <2>2, Zenon DEF RouterHears, Router!rs_input
    <3>2. QED
      BY <1>2, <2>2, <3>1, Zenon
  <2>3. QED
    BY <2>1, <2>2
<1>4. /\ Asks(ifs[Attached]) /\ Answers(t) /\ rs \in Nat /\ ra \in Nat /\ lost \in Nat
      /\ rs - 1 \in Nat
  BY <1>1 DEF LanInv, LanBounds
<1> HIDE DEF x
<1>5. Answers(x)
  <2>1. CASE t.waiting /\ x = t
    BY <1>4, <2>1
  <2>2. CASE ~t.waiting /\ x \in Router!set_short_delay([t EXCEPT !.waiting = TRUE])
    BY <1>4, <2>2, LanSolicited
  <2>3. QED
    BY <1>3, <2>1, <2>2
<1>6. ASSUME Listening PROVE Promise(ifs[Attached], x, rs - 1, ra, lost)
  <2>1. Promise(ifs[Attached], t, rs, ra, lost)
    BY <1>6 DEF LanInv
  <2> HIDE DEF t
  <2>2. QED
    BY <1>3, <1>4, <2>1, KeptBySolicited
<1>7. Listening' => Listening
  BY <1>1, Zenon DEF Listening
<1>8. QED
  BY <1>1, <1>3, <1>4, <1>5, <1>6, <1>7 DEF LanInv, x

\* The link loses a packet.
LEMMA LanLoses == ASSUME LanBounds, LanInv, Lose PROVE LanInv'
<1>1. /\ started' = started /\ ifs' = ifs /\ link' = link /\ dad' = dad /\ pc' = pc /\ rai' = rai
      /\ lost < MaxLost /\ lost' = lost + 1
  BY DEF Lose, vars, routerVars
<1>2. rs' \in Nat /\ ra' \in Nat
  BY DEF Lose, LanInv
<1>3. lost \in Nat /\ lost' \in 0..MaxLost /\ lost' # 0
  BY <1>1 DEF LanInv, LanBounds
<1>4. Listening' => Listening
  BY <1>1, Zenon DEF Listening
<1>5. ASSUME Listening PROVE Promise(ifs[Attached], rai[RouterIf], rs', ra', lost + 1)
  BY <1>3, <1>5, KeptByLoss DEF LanInv
<1>6. QED
  BY <1>1, <1>2, <1>3, <1>4, <1>5 DEF LanInv

\* A second passes.
LEMMA LanTicks == ASSUME LanBounds, LanInv, LanTick PROVE LanInv'
<1> DEFINE t == rai[RouterIf]
           y == rai'[RouterIf]
<1>1. /\ rs = 0 /\ rs' = rs /\ ra' = 0 /\ lost' = lost /\ started' = started
      /\ link' = link /\ dad' = dad /\ pc' = pc
  BY Zenon DEF LanTick, vars, Tick
<1>2. /\ rai' = [i \in {RouterIf} |-> rai'[i]]
      /\ ~Router!Due(t)
      /\ y = [t EXCEPT !.timer = Router!Before(@), !.orphan = Router!Before(@),
                       !.lastsent = IF @ < Router!MIN_DELAY_BETWEEN_RAS THEN @ + 1 ELSE @,
                       !.prefix = [p \in {} |-> Router!Before(@[p])]]
  BY DEF LanTick, Router!Tick
<1>3. t.timer # 0
  BY <1>2 DEF Router!Due
<1>4. /\ Asks(ifs[Attached]) /\ Answers(t) /\ lost \in Nat
  BY DEF LanInv, LanBounds
<1>5. /\ Answers(y) /\ y.waiting = t.waiting /\ y.timer = t.timer - 1
      /\ y.lastsent = IF t.lastsent < 3 THEN t.lastsent + 1 ELSE t.lastsent
  BY <1>2, <1>3, <1>4, LanRouterTick, Zenon
<1> HIDE DEF t, y
<1>6. CASE Listening
  <2> DEFINE r == ifs[Attached]
             x == ifs'[Attached]
  <2>1. /\ ifs' = [i \in Ifs |-> ifs'[i]] /\ r.expire # 0 /\ ra = 0
        /\ x = [r EXCEPT !.expire = IF @ > 0 THEN @ - 1 ELSE @,
                         !.since = IF @ < RTR_SOLICITATION_INTERVAL THEN @ + 1 ELSE @]
    BY <1>6, Zenon DEF LanTick, Tick, LanBounds
  <2>2. /\ Asks(x) /\ x.sent = r.sent /\ x.state = r.state /\ x.racnt = r.racnt
        /\ x.since = IF r.since < 4 THEN r.since + 1 ELSE r.since
    BY <1>4, <2>1, AsksTick, Zenon
  <2>3. Promise(r, t, 0, 0, lost)
    BY <1>1, <1>6, <2>1, Zenon DEF LanInv, t
  <2> HIDE DEF r, x
  <2>4. Promise(x, y, 0, 0, lost)
    BY <1>3, <1>4, <1>5, <2>2, <2>3, KeptByTick DEF r
  <2>5. /\ DadStates \subseteq Usable => x.state # "IFS_DOWN"
        /\ ~started => x.state \notin {"IFS_PROBE", "IFS_IDLE"}
        /\ lost = 0 => x.sent <= 2
    BY <2>2 DEF LanInv, r
  <2>6. rs' = 0 /\ rs' \in Nat /\ ra' \in Nat /\ lost' \in 0..MaxLost /\ started' \in BOOLEAN
    BY <1>1 DEF LanInv
  <2>7. QED
    BY <1>1, <1>2, <1>5, <2>1, <2>2, <2>4, <2>5, <2>6 DEF LanInv, x, y
<1>7. CASE ~Listening
  <2>1. ifs' = ifs
    BY <1>7 DEF LanTick, vars
  <2>2. ~Listening'
    BY <1>1, <1>7, Zenon DEF Listening
  <2>3. QED
    BY <1>1, <1>2, <1>5, <2>1, <2>2 DEF LanInv, y
<1>8. QED
  BY <1>6, <1>7

\* Every step of the two daemons and of the link keeps the invariant.
LEMMA LanInductive == LanBounds /\ LanInv /\ [LanNext]_lanVars => LanInv'
<1> SUFFICES ASSUME LanBounds, LanInv, [LanNext]_lanVars PROVE LanInv'
  BY Zenon
<1>1. CASE UNCHANGED lanVars
  <2>1. LanSame /\ dad' = dad /\ started' = started /\ pc' = pc
    BY <1>1, Zenon DEF lanVars, vars, routerVars, LanSame
  <2>2. QED
    BY <2>1, LanSameKeeps DEF LanInv, Listening
<1>2. CASE Start
  <2>1. LanSame /\ dad' = dad /\ ~started /\ started' = TRUE
    BY <1>2, Zenon DEF Start, vars, routerVars, LanSame
  <2>2. QED
    BY <2>1, LanSameKeeps DEF LanInv
<1>3. CASE HostDad
  <2>1. LanSame /\ started' = started /\ pc' = pc /\ started
    BY <1>3 DEF HostDad, DadChange, routerVars, LanSame
  <2>2. dad' \in [Ifs -> DadStates]
    BY <1>3 DEF HostDad, DadChange, LanInv
  <2>3. QED
    BY <2>1, <2>2, LanSameKeeps, Zenon DEF LanInv, Listening
<1>4. CASE RouterRuns
  <2>1. LanSame /\ dad' = dad /\ started' = started /\ pc' = pc
    BY <1>4 DEF RouterRuns, Router!rtsock_open, Router!Top, Router!Timeout,
       vars, LanSame
  <2>2. QED
    BY <2>1, LanSameKeeps DEF LanInv, Listening
<1>5. QED
  BY <1>1, <1>2, <1>3, <1>4, LanHostRuns, LanHostHears, LanRouterTimers, LanRouterHears, LanLoses,
     LanTicks DEF LanNext

\* Neither daemon leaves the invariant.
LEMMA LanInvariant == ASSUME LanBounds PROVE LanSpec => []LanInv
<1>1. LanInit => LanInv
  BY LanInitial
<1>2. LanInv /\ [LanNext]_lanVars => LanInv'
  BY LanInductive
<1>3. QED
  BY <1>1, <1>2, PTL DEF LanSpec

\* On a link with a router that loses no packet, rtsold sends no third
\* solicitation, whatever the intervals rtadvd is configured with, however many
\* other interfaces rtsold serves and whenever it is started.
THEOREM ThirdOnlyAfterLoss == ASSUME LanBounds PROVE LanSpec => []AskedTwice
<1>1. LanInv => AskedTwice
  <2> SUFFICES ASSUME LanInv PROVE AskedTwice
    BY Zenon
  <2>1. lost \in Nat /\ ifs[Attached].sent \in Nat /\ ifs[Attached].sent <= 3
    <3>1. ifs[Attached] \in IfInfo /\ lost \in Nat
      BY DEF LanInv, Asks, LanBounds
    <3>2. QED
      BY <3>1, Fields DEF LanInv, Asks, MAX_RTR_SOLICITATIONS, IfStates
  <2>2. QED
    BY <2>1 DEF LanInv, AskedTwice
<1>2. QED
  BY <1>1, LanInvariant, PTL

\* rtsold -1 does not give up on a link with a router and usable addresses that
\* loses at most one packet: it ends having heard the router, or in the second
\* in which the router's answer is due or on its way.
THEOREM RouterFound ==
    ASSUME LanBounds, MaxLost <= 1, DadStates \subseteq Usable PROVE LanSpec => Found
<1>1. ASSUME LanInv, LanNext, pc' = "done", pc # "done"
      PROVE  ifs'[Attached].racnt \/ ra > 0 \/ rai[RouterIf].timer = 0
  <2>1. /\ started /\ CheckTimer
        /\ rs' = IF ifs'[Attached].sent > ifs[Attached].sent THEN rs + 1 ELSE rs
    BY <1>1, Zenon DEF LanNext, Start, HostRuns, HostHears, HostDad,
        RouterRuns,
       RouterTimers, RouterHears, Lose, LanTick, vars, Top,
       Timeout, RaInput, DadChange, Tick
  <2>2. /\ Asks(ifs'[Attached]) /\ ifs'[Attached].state # "IFS_DOWN"
        /\ Promise(ifs'[Attached], rai[RouterIf], rs', ra, lost)
    BY <1>1, <2>1, LanCheckTimer
  <2>3. NoTimer(ifs') \/ AllHeard(ifs')
    BY <1>1, <2>1, Zenon DEF CheckTimer
  <2>4. CASE NoTimer(ifs')
    <3>1. ifs'[Attached].expire = -1
      BY <2>4, Zenon DEF NoTimer, tm_max, LanBounds
    <3>2. ifs'[Attached].state = "IFS_IDLE" /\ lost \in {0, 1}
      BY <1>1, <2>2, <3>1 DEF Asks, LanInv, LanBounds
    <3>3. QED
      BY <2>2, <3>2 DEF Promise
  <2>5. CASE AllHeard(ifs')
    BY <2>2, <2>5 DEF AllHeard, LanBounds
  <2>6. QED
    BY <2>3, <2>4, <2>5
<1>2. LanInv /\ [LanNext]_lanVars =>
        [pc' = "done" => \/ pc = "done" \/ ifs'[Attached].racnt
                         \/ ra > 0 \/ rai[RouterIf].timer = 0]_lanVars
  BY <1>1
<1>3. QED
  BY <1>2, LanInvariant, PTL DEF LanSpec, Found
=============================================================================
