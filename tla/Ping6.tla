-------------------------------- MODULE Ping6 --------------------------------
(***************************************************************************)
(* The main loop of ping6.  State, network, table of received numbers and   *)
(* signals are those of Ping; ping6 differs in where it moves to the next   *)
(* size of a sweep (inside pinger) and where it ends one (after a packet).  *)
(***************************************************************************)
EXTENDS Ping

\* pinger: nothing is sent when the count is reached or the sweep is over.
\* datalen goes on growing at each call then; one size too many stands for all.
pinger6(s) ==
  IF npackets > 0 /\ s.ntransmitted >= npackets THEN s
  ELSE IF ~ roundOver(s) THEN pinger(s)
  ELSE IF s.datalen + opt.sweepincr > opt.sweepmax
  THEN [s EXCEPT !.datalen = opt.sweepmax + opt.sweepincr]
  ELSE pinger([s EXCEPT !.datalen = @ + opt.sweepincr, !.sntransmitted = 0])

sent(s, t) == s.ntransmitted .. t.ntransmitted - 1

Start6 ==
  /\ pc = "start"
  /\ LET after[i \in 0 .. preload] == IF i = 0 THEN st ELSE pinger6(after[i - 1])
     IN  /\ st' = after[preload]
         /\ net' = sent(st, after[preload])
  /\ pc' = "loop"
  /\ finish_up' = FALSE
  /\ UNCHANGED <<opt, dups, nobufs, answered, late, reported>>

\* The end of a turn: no line is printed for a missing reply.
EndTurn6(s, n) ==
  /\ st' = noteMissed(s)
  /\ pc' = "loop"
  /\ net' = n \cup sent(st, s)

Transmit6(s, n) ==
  LET more == npackets = 0 \/ s.ntransmitted < npackets
  IN  \/ /\ more
         /\ s.ntransmitted < MaxSent \/ finish_up
         /\ EndTurn6(pinger6(s), n)
      \/ /\ ~ more /\ ~ s.almost_done
         /\ EndTurn6([s EXCEPT !.almost_done = TRUE], n)
      \/ /\ ~ more /\ s.almost_done
         /\ st' = s
         /\ pc' = "done"
         /\ net' = n

Timeout6 ==
  /\ pc = "select"
  /\ Transmit6(st, net)
  /\ UNCHANGED <<opt, finish_up, dups, nobufs, answered, late, reported>>

enough6(s) == enough(s) \/ (opt.sweepmax > 0 /\ s.datalen > opt.sweepmax)
AfterPacket6(s, n) ==
  \/ /\ enough6(s) \/ ~ opt.flood
     /\ st' = s
     /\ pc' = IF enough6(s) THEN "done" ELSE "loop"
     /\ net' = n
  \/ /\ ~ enough6(s) /\ opt.flood
     /\ Transmit6(s, n)

Receive6(k) ==
  /\ pc = "select"
  /\ \/ /\ AfterPacket6(pr_pack(st, k), net \ {k})
        /\ UNCHANGED dups
     \/ /\ dups > 0
        /\ dups' = dups - 1
        /\ AfterPacket6(pr_pack(st, k), net)
  /\ answered' = answered \cup {k}
  /\ late' = (late \/ cleared(k))
  /\ UNCHANGED <<opt, finish_up, nobufs, reported>>

Other6 ==
  /\ pc = "select"
  /\ AfterPacket6(st, net)
  /\ UNCHANGED <<opt, finish_up, dups, nobufs, answered, late, reported>>

\* onsignal counts the signal; a second one has no other effect.
onsignal ==
  /\ pc \in {"loop", "select"}
  /\ finish_up' = TRUE
  /\ pc' \in IF pc = "select" THEN {"select", "loop"} ELSE {pc}
  /\ UNCHANGED <<opt, st, net, dups, nobufs, answered, late, reported>>

Next6 == \/ Start6 \/ Loop \/ Timeout6 \/ Other6 \/ Status \/ onsignal
         \/ \E k \in net : Receive6(k)

\* Both programs, by the command line.
Next46 == (~ opt.v6 /\ Next) \/ (opt.v6 /\ Next6)
Spec46 == /\ Init /\ [][Next46]_vars
          /\ WF_vars(~ opt.v6 /\ Start) /\ WF_vars(opt.v6 /\ Start6) /\ WF_vars(Loop)
          /\ SF_vars(~ opt.v6 /\ Timeout) /\ SF_vars(opt.v6 /\ Timeout6)

\* ping6 alone, fair as ping; moreover every reply is delivered.
Spec6 == /\ Init /\ [][Next6]_vars
         /\ WF_vars(Start6) /\ WF_vars(Loop) /\ SF_vars(Timeout6)
         /\ \A k \in 0 .. MaxSent : SF_vars(k \in net /\ Receive6(k))

\* A sweep is over when the last of its sizes has been sent, and ping6 ends.
SweepEnds == opt.sweepmax > 0 ~> pc = "done"
=============================================================================
