-------------------------------- MODULE Ping --------------------------------
(***************************************************************************)
(* The main loop of ping: requests sent at intervals (or in answer to       *)
(* every packet, -f), replies matched by a 16-bit sequence number in a      *)
(* table of mx_dup_ck bits, the sweep over sizes, the wait after the last   *)
(* request and the signals that end the program.  Real time is left out:    *)
(* select() may time out whenever it is called.                             *)
(*                                                                          *)
(* A request is known by its true number; only number % SeqSpace travels.   *)
(* A request or a reply that stays in `net' for ever is a lost one.         *)
(***************************************************************************)
EXTENDS Integers, FiniteSets

CONSTANTS Options,      \* the command lines considered, see OptionsAssumption
          mx_dup_ck,    \* bits in rcvd_tbl (MAX_DUP_CHK, 1024 in the code)
          SeqSpace,     \* values of icmp_seq (2^16 in the code)
          MaxDups,      \* bound: replies the network delivers twice
          MaxNoBufs,    \* bound: sends that fail with ENOBUFS
          MaxSent       \* bound: requests before the user interrupts

ASSUME TableAssumption == /\ mx_dup_ck \in Nat \ {0}
                          /\ SeqSpace \in Nat \ {0}
                          /\ SeqSpace % mx_dup_ck = 0
ASSUME BoundsAssumption == MaxDups \in Nat /\ MaxNoBufs \in Nat /\ MaxSent \in Nat
ASSUME OptionsAssumption ==
  Options \subseteq [count : Nat, preload : Nat, sweepmin : Nat, sweepmax : Nat,
                     sweepincr : Nat \ {0}, flood : BOOLEAN, once : BOOLEAN,
                     numeric : BOOLEAN, v6 : BOOLEAN]   \* v6: ping6, see Ping6

VARIABLES opt,        \* the command line
          st,         \* the counters of the program, see Counters
          pc,         \* "start", "loop" (the while test), "select", "done"
          finish_up,  \* set by the signal handler
          net,        \* requests whose reply is still to come
          dups,       \* duplicates the network may still make
          nobufs,     \* ENOBUFS failures still to come
          answered,   \* history: requests a reply to which was read
          late,       \* history: a reply was read more than mx_dup_ck requests late
          reported    \* history: the number in the last "Request timeout" line

vars == <<opt, st, pc, finish_up, net, dups, nobufs, answered, late, reported>>

Counters == [ntransmitted : Nat, sntransmitted : Nat, nreceived : Nat,
             nrepeats : Nat, nmissedmax : Nat, datalen : Nat,
             rcvd_tbl : SUBSET (0 .. mx_dup_ck - 1), almost_done : BOOLEAN]

-----------------------------------------------------------------------------
(* Pieces of the loop, as functions of the counters *)

\* With -G the count given by -c is the count of one sweep.
npackets == IF opt.sweepmax > 0 THEN 0 ELSE opt.count
snpackets == IF opt.count > 0 THEN opt.count ELSE 1

\* Mutant of pinger: the bit of the request before is cleared.
pingerStaleBit(s) ==
  [s EXCEPT !.rcvd_tbl = @ \ {(s.ntransmitted + mx_dup_ck - 1) % mx_dup_ck},
            !.ntransmitted = @ + 1,
            !.sntransmitted = @ + 1]

\* CLR, send, count.  A send that fails is counted like one that succeeds.
pinger(s) == [s EXCEPT !.rcvd_tbl = @ \ {s.ntransmitted % mx_dup_ck},
                       !.ntransmitted = @ + 1,
                       !.sntransmitted = @ + 1]

\* With -f a send refused for lack of buffers is not counted.
backoff(s) == [s EXCEPT !.rcvd_tbl = @ \ {s.ntransmitted % mx_dup_ck}]

\* Mutant of pr_pack: a repeat is not taken back from nreceived.
pr_packCountsRepeats(s, k) ==
  LET bit == (k % SeqSpace) % mx_dup_ck
  IN  [s EXCEPT !.nreceived = @ + 1, !.rcvd_tbl = @ \cup {bit},
                !.nrepeats = IF bit \in s.rcvd_tbl THEN @ + 1 ELSE @]

\* A reply to request k, found in the table by its 16-bit number.
pr_pack(s, k) ==
  LET bit == (k % SeqSpace) % mx_dup_ck
  IN  IF bit \in s.rcvd_tbl
      THEN [s EXCEPT !.nrepeats = @ + 1]
      ELSE [s EXCEPT !.nreceived = @ + 1, !.rcvd_tbl = @ \cup {bit}]

\* The data length pr_pack expects of a reply during a sweep.
seq_datalen(k) == opt.sweepmin + ((k % SeqSpace) \div snpackets) * opt.sweepincr

\* Mutant of roundOver: a round has one request too many.
roundOverLate(s) == opt.sweepmax > 0 /\ s.sntransmitted = snpackets + 1

\* The sizes of a sweep change when a round of snpackets is over.
roundOver(s) == opt.sweepmax > 0 /\ s.sntransmitted = snpackets

nextSize(s) ==
  IF ~ roundOver(s) THEN s
  ELSE IF s.datalen + opt.sweepincr > opt.sweepmax
  THEN [s EXCEPT !.datalen = @ + opt.sweepincr]
  ELSE [s EXCEPT !.datalen = @ + opt.sweepincr, !.sntransmitted = 0]

missed(s) == s.ntransmitted - s.nreceived - 1
noteMissed(s) == IF missed(s) > s.nmissedmax THEN [s EXCEPT !.nmissedmax = missed(s)] ELSE s

-----------------------------------------------------------------------------
(* The program *)

Zero == [ntransmitted |-> 0, sntransmitted |-> 0, nreceived |-> 0, nrepeats |-> 0,
         nmissedmax |-> 0, datalen |-> opt.sweepmin, rcvd_tbl |-> {}, almost_done |-> FALSE]

Init ==
  /\ opt \in Options
  /\ st = Zero
  /\ pc = "start"
  /\ finish_up = FALSE
  /\ net = {}
  /\ dups = MaxDups
  /\ nobufs = MaxNoBufs
  /\ answered = {}
  /\ late = FALSE
  /\ reported = -1

\* The requests sent before the loop: one, or -l preload of them but no more
\* than -c allows; with -f some of them may be refused.
preload == IF opt.preload = 0 THEN 1
           ELSE IF npackets # 0 /\ opt.preload > npackets THEN npackets
           ELSE opt.preload

\* Mutant of Start: a signal that came during the preload is forgotten.
StartClearsFlag ==
  /\ pc = "start"
  /\ st' = [st EXCEPT !.ntransmitted = preload, !.sntransmitted = preload]
  /\ net' = 0 .. preload - 1
  /\ finish_up' = FALSE
  /\ pc' = "loop"
  /\ UNCHANGED <<opt, dups, nobufs, answered, late, reported>>

Start ==
  /\ pc = "start"
  /\ \E refused \in 0 .. (IF opt.flood THEN nobufs ELSE 0) :
       /\ refused <= preload
       /\ nobufs' = nobufs - refused
       /\ st' = [st EXCEPT !.ntransmitted = preload - refused,
                           !.sntransmitted = preload - refused]
       /\ net' = 0 .. preload - refused - 1
  /\ pc' = "loop"
  /\ UNCHANGED <<opt, finish_up, dups, answered, late, reported>>

\* while (!finish_up)
Loop ==
  /\ pc = "loop"
  /\ pc' = IF finish_up THEN "done" ELSE "select"
  /\ UNCHANGED <<opt, st, finish_up, net, dups, nobufs, answered, late, reported>>

\* Mutant of EndTurn: >= for >.
EndTurnEager(s) ==
  /\ st' = noteMissed(s)
  /\ reported' = IF missed(s) >= s.nmissedmax THEN s.ntransmitted - 2 ELSE reported
  /\ pc' = "loop"

\* The end of a turn of the loop: `last' is set and the requests that are
\* missing are counted.  The line printed names the request before the last.
EndTurn(s) ==
  /\ st' = noteMissed(s)
  /\ reported' = IF missed(s) > s.nmissedmax THEN s.ntransmitted - 2 ELSE reported
  /\ pc' = "loop"

\* Another request is due (select() timed out, or -f): the next size of the
\* sweep, a request if one is left, or else a last wait, and the end after it.
\* n: the replies in flight.  MaxSent bounds how long the user lets it run.
Transmit(s, n) ==
  LET w    == nextSize(s)
      over == roundOver(s) /\ w.datalen > opt.sweepmax
      more == npackets = 0 \/ w.ntransmitted < npackets
  IN  \/ /\ over \/ (~ more /\ w.almost_done)
         /\ st' = w
         /\ pc' = "done"
         /\ net' = n
         /\ UNCHANGED <<nobufs, reported>>
      \/ /\ ~ over /\ more
         /\ w.ntransmitted < MaxSent \/ finish_up
         /\ EndTurn(pinger(w))
         /\ net' = n \cup {w.ntransmitted}
         /\ UNCHANGED nobufs
      \/ /\ ~ over /\ more
         /\ opt.flood /\ nobufs > 0
         /\ EndTurn(backoff(w))
         /\ net' = n
         /\ nobufs' = nobufs - 1
      \/ /\ ~ over /\ ~ more /\ ~ w.almost_done
         /\ EndTurn([w EXCEPT !.almost_done = TRUE])
         /\ net' = n
         /\ UNCHANGED nobufs

\* select() returned 0.
Timeout ==
  /\ pc = "select"
  /\ Transmit(st, net)
  /\ UNCHANGED <<opt, finish_up, dups, answered, late>>

\* A packet was read: the loop ends, goes on, or with -f sends at once.
enough(s) == \/ opt.once /\ s.nreceived > 0
             \/ npackets > 0 /\ s.nreceived >= npackets
AfterPacket(s, n) ==
  \/ /\ enough(s)
     /\ st' = s
     /\ pc' = "done"
     /\ net' = n
     /\ UNCHANGED <<nobufs, reported>>
  \/ /\ ~ enough(s) /\ ~ opt.flood
     /\ st' = s
     /\ pc' = "loop"
     /\ net' = n
     /\ UNCHANGED <<nobufs, reported>>
  \/ /\ ~ enough(s) /\ opt.flood
     /\ Transmit(s, n)

\* The bit of request k has been cleared for another request, which counts as
\* sent unless -f met ENOBUFS.
cleared(k) == k + mx_dup_ck < st.ntransmitted + (IF nobufs < MaxNoBufs THEN 1 ELSE 0)

\* select() returned 1: the reply to request k, once or with another to follow.
Receive(k) ==
  /\ pc = "select"
  /\ \/ /\ AfterPacket(pr_pack(st, k), net \ {k})
        /\ UNCHANGED dups
     \/ /\ dups > 0
        /\ dups' = dups - 1
        /\ AfterPacket(pr_pack(st, k), net)
  /\ answered' = answered \cup {k}
  /\ late' = (late \/ cleared(k))
  /\ UNCHANGED <<opt, finish_up>>

\* A packet that is not a reply to this ping: pr_pack only prints it.
Other ==
  /\ pc = "select"
  /\ AfterPacket(st, net)
  /\ UNCHANGED <<opt, finish_up, dups, answered, late>>

\* SIGINFO interrupts select(); the report it asks for changes nothing.
Status ==
  /\ pc = "select"
  /\ pc' = "loop"
  /\ UNCHANGED <<opt, st, finish_up, net, dups, nobufs, answered, late, reported>>

\* SIGINT or SIGALRM: stopit.  Between the test and select() the flag is not
\* seen until select() returns; inside select() the call fails with EINTR.  A
\* second signal ends the program at once, unless -n.
Signal ==
  /\ pc \in {"start", "loop", "select"}
  /\ \/ /\ ~ finish_up \/ opt.numeric
        /\ finish_up' = TRUE
        /\ pc' \in IF pc = "select" THEN {"select", "loop"} ELSE {pc}
     \/ /\ finish_up /\ ~ opt.numeric
        /\ pc' = "done"
        /\ UNCHANGED finish_up
  /\ UNCHANGED <<opt, st, net, dups, nobufs, answered, late, reported>>

Next == \/ Start \/ Loop \/ Timeout \/ Other \/ Status \/ Signal
        \/ \E k \in net : Receive(k)

\* The program keeps running, and select() is not kept busy for ever by
\* packets and signals.
Fairness == WF_vars(Start) /\ WF_vars(Loop) /\ SF_vars(Timeout)
Spec == Init /\ [][Next]_vars /\ Fairness

-----------------------------------------------------------------------------
(* Properties *)

\* The counters have their types and only requests that were sent can be answered.
TypeOK ==
  /\ opt \in Options
  /\ st \in Counters
  /\ pc \in {"start", "loop", "select", "done"}
  /\ finish_up \in BOOLEAN /\ late \in BOOLEAN
  /\ dups \in Nat /\ nobufs \in Nat
  /\ net \subseteq 0 .. st.ntransmitted - 1
  /\ answered \subseteq 0 .. st.ntransmitted - 1
  /\ reported = -1 \/ reported \in 0 .. st.ntransmitted - 2

\* "packets received" is the number of requests that were answered, whatever
\* the order and the duplicates and although the 16-bit numbers wrap and the
\* bits of the table are used again: as long as no reply comes more
\* than mx_dup_ck requests late (the limit the comment at MAX_DUP_CHK describes).
Exact == ~ late => st.nreceived = Cardinality(answered)

\* finish() never says "somebody's printing up packets!": even with late
\* replies no more are counted than requests, unless -f met ENOBUFS.
NeverMore == nobufs = MaxNoBufs => st.nreceived <= st.ntransmitted

\* "Request timeout for icmp_seq n" is never printed for a request whose reply
\* has been read, when requests go out one per interval (no -f, no -l).
ReportTrue ==
  [][~ late' /\ ~ opt.flood /\ opt.preload <= 1
       => reported' = reported \/ reported' \notin answered']_vars

\* In a sweep pr_pack expects, from the 16-bit number alone, exactly the length
\* the request was sent with, until the numbers wrap.
ExpectedLength ==
  [][opt.sweepmax > 0 /\ opt.preload <= snpackets =>
       \A k \in st.ntransmitted .. st'.ntransmitted - 1 :
          k < SeqSpace => st'.datalen = seq_datalen(k)]_vars

\* ping and ping6 end by themselves when -c was given, and ping when the sweep is
\* over its sizes; a signal ends them wherever it catches them, between the test of
\* finish_up and select() included.
Bounded == (opt.count > 0 /\ opt.sweepmax = 0)
           \/ (opt.sweepmax > 0 /\ opt.preload <= snpackets /\ ~ opt.v6)
Finishes == (Bounded \/ finish_up) ~> pc = "done"
=============================================================================
