----------------------------- MODULE Discovery -----------------------------
(***************************************************************************)
(* Router discovery: rtsold -1 on a host and rtadvd on a router of the same *)
(* link, each as its own module models it, joined by the packets that the   *)
(* one sends and the other reads.  The link may lose packets, and takes     *)
(* less than a second; both daemons are prompt, and nobody reconfigures     *)
(* links or routes.  Further interfaces of the host have no router.  With   *)
(* -1 (Once, and not Mobile), OnceEnds of Rtsold is a promise here as well. *)
(***************************************************************************)
EXTENDS Rtsold

CONSTANTS Attached,     \* the interface of rtsold's on the router's link
          RouterIf,     \* the router's interface on it
          mininterval, maxinterval,                   \* see Rtadvd
          MAX_INITIAL_RTR_ADVERT_INTERVAL,
          MaxLost       \* bound: packets the link loses

ASSUME LinkAssumption == Attached \in Ifs /\ MaxLost \in Nat

VARIABLES router, rai, router_dump, do_die, up, routes, msgs, changes, missed,  \* rtadvd
          rs, ra,       \* solicitations and advertisements on the link
          lost,         \* packets lost so far
          started       \* whether rtsold has been started

Router == INSTANCE Rtadvd WITH
  Ifs <- {RouterIf}, Prefixes <- {}, Static <- {}, Unfit <- {}, InitUp <- {TRUE},
  prefix_timo <- 1, Early <- FALSE, Late <- FALSE, Overflow <- FALSE,
  MaxQueue <- 0, MaxChanges <- 0,
  pc <- router, do_dump <- router_dump

routerVars == <<router, rai, router_dump, do_die, up, routes, msgs, changes, missed>>
lanVars == <<vars, routerVars, rs, ra, lost, started>>

LanInit == Init /\ Router!Init /\ rs = 0 /\ ra = 0 /\ lost = 0 /\ started = FALSE

-----------------------------------------------------------------------------
\* rtsold is started, at any time of the router's life.
Start ==
  /\ ~ started /\ started' = TRUE
  /\ UNCHANGED <<vars, routerVars, rs, ra, lost>>

\* rtsold runs; sendpacket() puts a solicitation on the link.
HostRuns ==
  /\ started
  /\ Top \/ CheckTimer \/ Timeout
  /\ rs' = IF ifs'[Attached].sent > ifs[Attached].sent THEN rs + 1 ELSE rs
  /\ UNCHANGED <<routerVars, ra, lost, started>>

\* rtsol_input() of an advertisement of the router.
HostHears ==
  /\ started
  /\ ra > 0 /\ ra' = ra - 1
  /\ RaInput(Attached)
  /\ ifs'[Attached] \in Input(ifs[Attached])
  /\ UNCHANGED <<routerVars, rs, lost, started>>

\* Duplicate address detection on the host.
HostDad ==
  /\ started
  /\ \E i \in Ifs : DadChange(i)
  /\ UNCHANGED <<routerVars, rs, ra, lost, started>>

\* rtadvd runs; ra_output() puts an advertisement on the link.
Listening == started /\ pc # "done"
RouterRuns ==
  /\ Router!rtsock_open \/ Router!Top \/ Router!Timeout
  /\ UNCHANGED <<vars, rs, ra, lost, started>>
RouterTimers ==
  /\ Router!rtadvd_check_timer
  /\ ra' = IF rai[RouterIf].timer = 0 /\ Listening THEN ra + 1 ELSE ra
  /\ UNCHANGED <<vars, rs, lost, started>>

RouterHears ==
  /\ rs > 0 /\ rs' = rs - 1
  /\ Router!rs_input(RouterIf)
  /\ UNCHANGED <<vars, ra, lost, started>>

Lose ==
  /\ lost < MaxLost /\ lost' = lost + 1
  /\ \/ rs > 0 /\ rs' = rs - 1 /\ UNCHANGED ra
     \/ ra > 0 /\ ra' = ra - 1 /\ UNCHANGED rs
  /\ UNCHANGED <<vars, routerVars, started>>

\* A second passes: nothing is on its way and nobody has something to do.
LanTick ==
  /\ rs = 0 /\ (Listening => ra = 0) /\ ra' = 0
  /\ Router!Tick
  /\ IF Listening
     THEN Tick /\ pc = "select" /\ \A i \in Ifs : ifs[i].expire # 0
     ELSE UNCHANGED vars
  /\ UNCHANGED <<rs, lost, started>>

LanNext == \/ Start \/ HostRuns \/ HostHears \/ HostDad
           \/ RouterRuns \/ RouterTimers \/ RouterHears
           \/ Lose \/ LanTick

LanFairness ==
  /\ WF_lanVars(Start) /\ WF_lanVars(HostRuns) /\ WF_lanVars(HostHears)
  /\ WF_lanVars(RouterRuns) /\ WF_lanVars(RouterTimers) /\ WF_lanVars(RouterHears)
  /\ WF_lanVars(LanTick)
LanSpec == LanInit /\ [][LanNext]_lanVars /\ LanFairness

-----------------------------------------------------------------------------
(* Properties *)

\* rtsold -1 does not give up on a link that has a router, though the link lose
\* MaxLost packets: three solicitations, RTR_SOLICITATION_INTERVAL apart, outlast
\* the delay that rs_input() and MIN_DELAY_BETWEEN_RAS put before an answer.  An
\* answer due in the second rtsold ends in counts: delays below a second are not
\* told apart.
Found ==
  [][pc' = "done" => \/ pc = "done" \/ ifs'[Attached].racnt
                     \/ ra > 0 \/ rai[RouterIf].timer = 0]_lanVars

\* The router answers at the latest when rtsold asks again: the third solicitation
\* is sent only after a loss.
AskedTwice == ifs[Attached].sent <= 2 + lost
=============================================================================
