----------------------------- MODULE Traceroute -----------------------------
(***************************************************************************)
(* The probe loops of traceroute and traceroute6: nprobes probes for each   *)
(* ttl, one at a time, each waited for until its answer is read or the time *)
(* is up.  An answer is matched to its probe by a number that travels in 16 *)
(* bits, in a port or in icmp_seq.  The network is external: answers say    *)
(* anything, and arrive at any time, out of order, twice, or never (those   *)
(* that stay in `net').  A packet that answers no probe is skipped, and is  *)
(* not modelled.                                                            *)
(***************************************************************************)
EXTENDS Integers, Sequences, FiniteSets

CONSTANTS Options,      \* command lines: see OptionsAssumption
          Space,        \* values of the field a number travels in (2^16 in the code)
          SeqByte,      \* values of a u_char (2^8 in the code)
          MaxDups       \* bound: answers that arrive twice

\* base is what the number is added to: port, ident or 0.  "none" is traceroute6
\* with probes that have no room for a number (IPPROTO_NONE).
ASSUME OptionsAssumption ==
  /\ Options \subseteq [prog : {"traceroute", "traceroute6", "none"}, base : Nat,
                        nprobes : Nat \ {0}, first_ttl : Nat \ {0}, max_ttl : Nat \ {0}]
  /\ \A o \in Options : o.base < Space /\ o.first_ttl <= o.max_ttl
  /\ Space \in Nat /\ SeqByte \in Nat \ {0} /\ MaxDups \in Nat
  /\ \E k \in 1 .. Space : Space = k * SeqByte

VARIABLES opt,          \* the command line
          pc,           \* "send", "wait" (wait_for_reply), "done"
          ttl, probe, seq, got_there, unreachable,
          net,          \* the probes whose answers are in flight
          dups,         \* duplicates the network may still make
          result,       \* what was printed for each probe, and whose answer it was
          heard,        \* history: the answer waited for was read
          late          \* history: an answer was read SeqByte probes late

vars == <<opt, pc, ttl, probe, seq, got_there, unreachable, net, dups, result, heard, late>>

\* Time exceeded; port or protocol unreachable, or an echo reply; unreachable.
Kinds == {"exceeded", "reached", "unreachable"}

\* A number as it is sent.
Field(n) == (opt.base + n) % Space

\* Mutant: any answer to one of this run's probes will do.
checkIdent(field) == field \in {Field(n) : n \in 1 .. seq}
\* Mutant: the 16 bits are compared with the whole number.
checkWide(field) ==
  \/ opt.prog = "traceroute"  /\ field = opt.base + (seq % SeqByte)
  \/ opt.prog = "traceroute6" /\ field = opt.base + seq
  \/ opt.prog = "none"

\* packet_ok: traceroute hands the number on as a u_char.
check(field) ==
  \/ opt.prog = "traceroute"  /\ field = opt.base + (seq % SeqByte)
  \/ opt.prog = "traceroute6" /\ field = Field(seq)
  \/ opt.prog = "none"

\* Mutant: half of the probes are enough for both programs.
endsEarly(there, un) == there > 0 \/ (un > 0 /\ un >= (opt.nprobes + 1) \div 2)

\* got_there and unreachable after a ttl: the trace ends with it.
ends(there, un) ==
  \/ there > 0
  \/ un > 0 /\ un >= IF opt.prog = "traceroute" THEN opt.nprobes - 1
                                                ELSE (opt.nprobes + 1) \div 2

\* A probe is over with k printed: the next one, the next ttl, or the end.
NextProbe(k, n) ==
  LET there == IF k = "reached" THEN got_there + 1 ELSE got_there
      un    == IF k = "unreachable" THEN unreachable + 1 ELSE unreachable
  IN  /\ result' = Append(result, [kind |-> k, of |-> n, missed |-> k = "*" /\ heard])
      /\ \/ /\ probe + 1 < opt.nprobes
            /\ probe' = probe + 1 /\ got_there' = there /\ unreachable' = un
            /\ pc' = "send" /\ UNCHANGED ttl
         \/ /\ probe + 1 = opt.nprobes
            /\ probe' = 0 /\ got_there' = 0 /\ unreachable' = 0
            /\ IF ends(there, un) \/ ttl = opt.max_ttl
               THEN pc' = "done" /\ UNCHANGED ttl
               ELSE pc' = "send" /\ ttl' = ttl + 1

-----------------------------------------------------------------------------
Init ==
  /\ opt \in Options
  /\ pc = "send" /\ ttl = opt.first_ttl /\ probe = 0 /\ seq = 0
  /\ got_there = 0 /\ unreachable = 0
  /\ net = {} /\ dups = MaxDups
  /\ result = <<>> /\ heard = FALSE /\ late = FALSE

\* send_probe(++seq, ttl)
Send ==
  /\ pc = "send" /\ pc' = "wait"
  /\ seq' = seq + 1 /\ net' = net \cup {seq'} /\ heard' = FALSE
  /\ UNCHANGED <<opt, ttl, probe, got_there, unreachable, dups, result, late>>

\* An answer to probe n is read; if it is not the one waited for, the wait goes on.
Read(n) ==
  /\ pc = "wait"
  /\ \/ net' = net \ {n} /\ UNCHANGED dups
     \/ dups > 0 /\ dups' = dups - 1 /\ UNCHANGED net
  /\ heard' = (heard \/ n = seq)
  /\ late' = (late \/ n + SeqByte <= seq)
  /\ \/ check(Field(n)) /\ \E k \in Kinds : NextProbe(k, n)
     \/ ~ check(Field(n)) /\ UNCHANGED <<pc, ttl, probe, got_there, unreachable, result>>
  /\ UNCHANGED <<opt, seq>>

\* wait_for_reply returns 0: a star.
Timeout ==
  /\ pc = "wait"
  /\ NextProbe("*", 0)
  /\ UNCHANGED <<opt, seq, net, dups, heard, late>>

Next == Send \/ Timeout \/ \E n \in net : Read(n)

Spec == Init /\ [][Next]_vars

-----------------------------------------------------------------------------
(* Properties *)

\* The counters and the history fit together.
TypeOK ==
  /\ opt \in Options /\ pc \in {"send", "wait", "done"}
  /\ ttl \in opt.first_ttl .. opt.max_ttl /\ probe \in 0 .. opt.nprobes - 1
  /\ got_there \in Nat /\ unreachable \in Nat /\ got_there + unreachable <= probe
  /\ seq \in Nat /\ net \subseteq 1 .. seq /\ dups \in 0 .. MaxDups
  /\ heard \in BOOLEAN /\ late \in BOOLEAN
  /\ result \in Seq([kind : Kinds \cup {"*"}, of : Nat, missed : BOOLEAN])
  /\ Len(result) = IF pc = "wait" THEN seq - 1 ELSE seq

\* "[So] times and/or hop counts don't get confused by a reply that was delayed in
\* transit" (traceroute.c): what is printed for a probe comes from its own answer,
\* though answers come late, twice and out of order, and the number may outgrow its
\* field; unless one is SeqByte probes late, or the probes carry no number.
NotConfused ==
  opt.prog # "none" /\ ~ late => \A n \in DOMAIN result : result[n].of \in {n, 0}

\* "If there is no response within a 5 sec. timeout interval, a '*' is printed":
\* an answer that was read in time is never shown as a star, as long as the number
\* fits the field and a u_char (traceroute), and whatever it is (traceroute6).
StarMeansSilence ==
  \A n \in DOMAIN result : result[n].missed =>
     opt.prog = "traceroute" /\ (n >= SeqByte \/ opt.base + n >= Space)

\* "If almost all the probes result in some kind of unreachable, traceroute will give
\* up and exit" (all but one; half of them in traceroute6): a trace goes on past a
\* ttl only when all its probes were sent and neither this nor the destination was
\* shown for it, and ends before max_ttl only when one of them was.
Hop(t) == {n \in DOMAIN result : (n - 1) \div opt.nprobes = t - opt.first_ttl}
Shown(t, k) == Cardinality({n \in Hop(t) : result[n].kind = k})
StopsRight ==
  LET almost(t) == IF opt.prog = "traceroute" THEN Shown(t, "unreachable") + 1
                                              ELSE 2 * Shown(t, "unreachable")
      over(t) == \/ Shown(t, "reached") > 0
                 \/ Shown(t, "unreachable") > 0 /\ almost(t) >= opt.nprobes
      last    == IF pc = "done" THEN ttl ELSE ttl - 1
  IN  /\ \A t \in opt.first_ttl .. last : Cardinality(Hop(t)) = opt.nprobes
      /\ \A t \in opt.first_ttl .. ttl - 1 : ~ over(t)
      /\ pc = "done" => ttl = opt.max_ttl \/ over(ttl)
=============================================================================
