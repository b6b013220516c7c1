-------------------------- MODULE TracerouteProofs --------------------------
(***************************************************************************)
(* For any options, field width and number of duplicates: what is printed   *)
(* for a probe is its own answer, a star is shown only for silence, and a   *)
(* trace goes on and ends where the answers of a ttl say.                   *)
(***************************************************************************)
EXTENDS Traceroute, Numbers, TLAPS, FiniteSetTheorems

\* What the proofs use of the constants.
LEMMA Constants ==
  /\ Space \in Nat \ {0} /\ SeqByte \in Nat \ {0} /\ MaxDups \in Nat /\ SeqByte <= Space
  /\ \A o \in Options : /\ o.base \in Nat /\ o.nprobes \in Nat \ {0}
                         /\ o.first_ttl \in Nat /\ o.max_ttl \in Nat
                         /\ o.base < Space /\ o.first_ttl <= o.max_ttl
                         /\ o.prog \in {"traceroute", "traceroute6", "none"}
  <1>1. PICK k \in 1 .. Space : Space = k * SeqByte BY OptionsAssumption DEF OptionsAssumption
  <1>2. k * SeqByte >= 1 * SeqByte BY <1>1, OptionsAssumption, Z3 DEF OptionsAssumption
  <1> QED BY <1>1, <1>2, OptionsAssumption DEF OptionsAssumption

\* packet_ok accepts the answer of no other probe of the last SeqByte ones.
LEMMA AcceptsOwn ==
  ASSUME opt \in Options, seq \in Nat, NEW n \in 1 .. seq, seq < n + SeqByte,
         opt.prog # "none", check(Field(n))
  PROVE  n = seq
  <1> DEFINE b == opt.base
  <1>b. b \in Nat /\ Space \in Nat \ {0} /\ SeqByte \in Nat \ {0} /\ SeqByte <= Space
    BY Constants
  <1>1. CASE opt.prog = "traceroute"
    <2>1. (b + n) % Space = b + (seq % SeqByte) BY <1>1 DEF check, Field
    <2> DEFINE j == (b + n) \div Space
               r == seq % SeqByte
    <2>n. b + n \in Nat BY <1>b
    <2>2. j \in Nat /\ b + n = Space * j + ((b + n) % Space) BY <1>b, <2>n, DivMod
    <2>3. r \in 0 .. SeqByte - 1 BY <1>b, DivMod
    <2>4. PICK k \in 1 .. Space : Space = k * SeqByte BY OptionsAssumption DEF OptionsAssumption
    <2> HIDE DEF b, j, r
    <2>5. Space * j = SeqByte * (k * j) BY <1>b, <2>2, <2>4, Z3
    <2>6. k * j \in Nat BY <1>b, <2>2, <2>4, Z3
    <2>7. SeqByte * (k * j) \in Nat BY <1>b, <2>6, Z3
    <2>8. n = SeqByte * (k * j) + r BY <1>b, <2>1, <2>2, <2>3, <2>5, <2>7 DEF r
    <2>9. n % SeqByte = r BY <1>b, <2>3, <2>6, <2>8, ModShift
    <2>10. n \in Nat /\ n <= seq /\ seq - n < SeqByte /\ n % SeqByte = seq % SeqByte
      BY <1>b, <2>9 DEF r
    <2> QED BY <1>b, <2>10, ModUnique
  <1>2. CASE opt.prog = "traceroute6"
    <2>1. (b + n) % Space = (b + seq) % Space BY <1>2 DEF check, Field
    <2>2. b + n \in Nat /\ b + seq \in Nat /\ b + n <= b + seq /\ (b + seq) - (b + n) < Space
      BY <1>b
    <2>3. b + n = b + seq BY <1>b, <2>1, <2>2, ModUnique
    <2> QED BY <1>b, <2>3
  <1> QED BY <1>1, <1>2, Constants

\* packet_ok accepts the answer waited for, if its number fits.
Fits == opt.prog = "traceroute" => seq < SeqByte /\ opt.base + seq < Space

\* The number of the probe just sent comes back as packet_ok expects it, in the byte or
\* in the port.
LEMMA AcceptsRight ==
  ASSUME opt \in Options, seq \in Nat, Fits
  PROVE  check(Field(seq))
  <1>1. CASE opt.prog = "traceroute"
    <2>1. seq < SeqByte /\ opt.base + seq < Space BY <1>1 DEF Fits
    <2>2. opt.base \in Nat /\ Space \in Nat /\ SeqByte \in Nat BY Constants
    <2>3. seq % SeqByte = seq BY <2>1, <2>2, ModSmall
    <2>4. opt.base + seq \in Nat BY <2>2
    <2>5. (opt.base + seq) % Space = opt.base + seq BY <2>1, <2>2, <2>4, ModSmall
    <2> QED BY <1>1, <2>3, <2>5 DEF check, Field
  <1> QED BY <1>1, Constants DEF check

-----------------------------------------------------------------------------
\* While a probe is waited for, its answer has been read and skipped only if its
\* number does not fit.
SkippedOnlyMisfit == pc = "wait" /\ heard => ~ Fits

\* The inductive invariant.
IInv == TypeOK /\ NotConfused /\ StarMeansSilence /\ SkippedOnlyMisfit

Entry == [kind : Kinds \cup {"*"}, of : Nat, missed : BOOLEAN]

\* NextProbe keeps the counters in range and adds one entry.
LEMMA NextProbeType ==
  ASSUME TypeOK, pc = "wait", opt' = opt, seq' = seq,
         NEW k \in Kinds \cup {"*"}, NEW n \in Nat, NextProbe(k, n)
  PROVE  /\ pc' \in {"send", "done"}
         /\ ttl' \in opt.first_ttl .. opt.max_ttl /\ probe' \in 0 .. opt.nprobes - 1
         /\ got_there' \in Nat /\ unreachable' \in Nat /\ got_there' + unreachable' <= probe'
         /\ result' \in Seq(Entry) /\ Len(result') = seq
         /\ \A i \in 1 .. seq - 1 : result'[i] = result[i]
         /\ result'[seq].of = n /\ (result'[seq].missed => k = "*" /\ heard)
         /\ DOMAIN result = 1 .. seq - 1 /\ DOMAIN result' = 1 .. seq
  <1> DEFINE e == [kind |-> k, of |-> n, missed |-> k = "*" /\ heard]
             there == IF k = "reached" THEN got_there + 1 ELSE got_there
             un == IF k = "unreachable" THEN unreachable + 1 ELSE unreachable
  <1>1. /\ opt \in Options /\ result \in Seq(Entry) /\ Len(result) = seq - 1 /\ seq \in Nat
        /\ got_there \in Nat /\ unreachable \in Nat /\ got_there + unreachable <= probe
        /\ ttl \in opt.first_ttl .. opt.max_ttl /\ probe \in 0 .. opt.nprobes - 1
    BY DEF TypeOK, Entry
  <1>2. e \in Entry BY DEF Entry
  <1>3. result' = Append(result, e) BY DEF NextProbe
  <1>4. /\ result' \in Seq(Entry) /\ Len(result') = seq
        /\ \A i \in 1 .. seq - 1 : result'[i] = result[i]
        /\ result'[seq] = e
        /\ DOMAIN result = 1 .. seq - 1 /\ DOMAIN result' = 1 .. seq
    <2> HIDE DEF e
    <2> QED BY <1>1, <1>2, <1>3
  <1>5. /\ opt.nprobes \in Nat \ {0} /\ opt.first_ttl \in Nat /\ opt.max_ttl \in Nat
    BY <1>1, Constants
  <1>6. there \in Nat /\ un \in Nat /\ there + un <= probe + 1 BY <1>1
  <1>7. \/ /\ probe + 1 < opt.nprobes
           /\ probe' = probe + 1 /\ got_there' = there /\ unreachable' = un
           /\ pc' = "send" /\ ttl' = ttl
        \/ /\ probe' = 0 /\ got_there' = 0 /\ unreachable' = 0
           /\ \/ pc' = "done" /\ ttl' = ttl
              \/ pc' = "send" /\ ttl' = ttl + 1 /\ ttl # opt.max_ttl
    BY DEF NextProbe
  <1> HIDE DEF there, un
  <1>8. /\ pc' \in {"send", "done"}
        /\ ttl' \in opt.first_ttl .. opt.max_ttl /\ probe' \in 0 .. opt.nprobes - 1
        /\ got_there' \in Nat /\ unreachable' \in Nat /\ got_there' + unreachable' <= probe'
    <2>1. CASE /\ probe + 1 < opt.nprobes
               /\ probe' = probe + 1 /\ got_there' = there /\ unreachable' = un
               /\ pc' = "send" /\ ttl' = ttl
      <3>1. probe' \in 0 .. opt.nprobes - 1 BY <2>1, <1>1, <1>5
      <3>2. got_there' + unreachable' <= probe' BY <2>1, <1>6
      <3> QED BY <2>1, <3>1, <3>2, <1>1, <1>6
    <2>2. CASE /\ probe' = 0 /\ got_there' = 0 /\ unreachable' = 0
               /\ \/ pc' = "done" /\ ttl' = ttl
                  \/ pc' = "send" /\ ttl' = ttl + 1 /\ ttl # opt.max_ttl
      <3>1. probe' \in 0 .. opt.nprobes - 1 BY <2>2, <1>5
      <3>2. ttl' \in opt.first_ttl .. opt.max_ttl BY <2>2, <1>1, <1>5
      <3>3. got_there' + unreachable' <= probe' BY <2>2
      <3> QED BY <2>2, <3>1, <3>2, <3>3
    <2> QED BY <1>7, <2>1, <2>2
  <1>9. e.of = n /\ (e.missed => k = "*" /\ heard) BY Zenon
  <1>10. result'[seq].of = n /\ (result'[seq].missed => k = "*" /\ heard)
    <2> HIDE DEF e
    <2> QED BY <1>4, <1>9, Zenon
  <1> QED BY <1>4, <1>8, <1>10

\* The first probe is yet to be sent.
LEMMA InitIInv == Init => IInv
  <1> SUFFICES ASSUME Init PROVE IInv OBVIOUS
  <1>1. opt \in Options BY DEF Init
  <1>2. TypeOK
    <2>1. /\ opt.first_ttl \in Nat /\ opt.max_ttl \in Nat /\ opt.first_ttl <= opt.max_ttl
          /\ opt.nprobes \in Nat \ {0} /\ MaxDups \in Nat
      BY <1>1, Constants
    <2>2. /\ pc = "send" /\ ttl = opt.first_ttl /\ probe = 0 /\ seq = 0 /\ got_there = 0
          /\ unreachable = 0 /\ net = {} /\ dups = MaxDups /\ result = <<>>
          /\ heard = FALSE /\ late = FALSE
      BY DEF Init
    <2>3. ttl \in opt.first_ttl .. opt.max_ttl BY <2>1, <2>2
    <2>4. probe \in 0 .. opt.nprobes - 1 /\ dups \in 0 .. MaxDups BY <2>1, <2>2
    <2>5. result \in Seq(Entry) /\ Len(result) = 0 BY <2>2
    <2>6. got_there + unreachable <= probe BY <2>2
    <2>7. net \subseteq 1 .. seq /\ Len(result) = IF pc = "wait" THEN seq - 1 ELSE seq
      BY <2>2, <2>5
    <2>8. heard \in BOOLEAN /\ late \in BOOLEAN BY <2>2
    <2> QED BY <1>1, <2>2, <2>3, <2>4, <2>5, <2>6, <2>7, <2>8 DEF TypeOK, Entry
  <1>3. result = <<>> /\ pc = "send" BY DEF Init
  <1> QED BY <1>2, <1>3 DEF IInv, NotConfused, StarMeansSilence, SkippedOnlyMisfit

\* Sending starts the wait with nothing heard.
LEMMA SendIInv == IInv /\ Send => IInv'
  <1> SUFFICES ASSUME IInv, Send PROVE IInv' OBVIOUS
  <1>1. TypeOK'
    <2>1. /\ pc = "send" /\ pc' = "wait" /\ seq' = seq + 1 /\ net' = net \cup {seq + 1}
          /\ heard' = FALSE
          /\ UNCHANGED <<opt, ttl, probe, got_there, unreachable, dups, result, late>>
      BY DEF Send
    <2>2. seq \in Nat /\ net \subseteq 1 .. seq BY DEF IInv, TypeOK
    <2>3. seq' \in Nat /\ net' \subseteq 1 .. seq' BY <2>1, <2>2
    <2>4. Len(result') = IF pc' = "wait" THEN seq' - 1 ELSE seq'
      BY <2>1, <2>2 DEF IInv, TypeOK
    <2> QED BY <2>1, <2>3, <2>4 DEF IInv, TypeOK
  <1>2. NotConfused' BY DEF IInv, NotConfused, Send
  <1>3. StarMeansSilence' BY DEF IInv, StarMeansSilence, Send
  <1>4. SkippedOnlyMisfit' BY DEF Send, SkippedOnlyMisfit
  <1> QED BY <1>1, <1>2, <1>3, <1>4 DEF IInv

\* A star is printed.
LEMMA TimeoutIInv == IInv /\ Timeout => IInv'
  <1> SUFFICES ASSUME IInv, Timeout PROVE IInv' OBVIOUS
  <1> USE DEF IInv
  <1>0. pc = "wait" /\ NextProbe("*", 0) /\ UNCHANGED <<opt, seq, net, dups, heard, late>>
    BY DEF Timeout
  <1>1. /\ pc' \in {"send", "done"}
        /\ ttl' \in opt.first_ttl .. opt.max_ttl /\ probe' \in 0 .. opt.nprobes - 1
        /\ got_there' \in Nat /\ unreachable' \in Nat /\ got_there' + unreachable' <= probe'
        /\ result' \in Seq(Entry) /\ Len(result') = seq
        /\ \A i \in 1 .. seq - 1 : result'[i] = result[i]
        /\ result'[seq].of = 0 /\ (result'[seq].missed => heard)
        /\ DOMAIN result = 1 .. seq - 1 /\ DOMAIN result' = 1 .. seq
    BY <1>0, NextProbeType
  <1>2. TypeOK' BY <1>0, <1>1 DEF TypeOK, Entry
  <1>s. seq \in Nat BY DEF TypeOK
  <1>3. NotConfused' BY <1>0, <1>1, <1>s DEF NotConfused
  <1>4. StarMeansSilence'
    <2> SUFFICES ASSUME NEW i \in 1 .. seq, result'[i].missed
                 PROVE  opt.prog = "traceroute" /\ (i >= SeqByte \/ opt.base + i >= Space)
      BY <1>0, <1>1 DEF StarMeansSilence
    <2>1. CASE i < seq BY <2>1, <1>1, <1>s DEF StarMeansSilence
    <2>2. CASE i = seq
      <3>h. heard BY <2>2, <1>1
      <3>1. ~ Fits BY <3>h, <1>0 DEF SkippedOnlyMisfit
      <3>2. opt.base \in Nat /\ SeqByte \in Nat /\ Space \in Nat BY Constants DEF TypeOK
      <3> QED BY <2>2, <3>1, <3>2, <1>s DEF Fits
    <2> QED BY <2>1, <2>2, <1>s
  <1>5. SkippedOnlyMisfit' BY <1>1 DEF SkippedOnlyMisfit
  <1> QED BY <1>2, <1>3, <1>4, <1>5

\* An answer is read: printed, or skipped.
LEMMA ReadIInv == ASSUME IInv, NEW n \in net, Read(n) PROVE IInv'
  <1> USE DEF IInv
  <1>0. /\ pc = "wait" /\ UNCHANGED <<opt, seq>>
        /\ late' = (late \/ n + SeqByte <= seq) /\ heard' = (heard \/ n = seq)
    BY DEF Read
  <1>1. /\ seq \in Nat /\ n \in 1 .. seq /\ opt \in Options /\ n \in Nat
        /\ net \subseteq 1 .. seq /\ dups \in 0 .. MaxDups /\ SeqByte \in Nat /\ MaxDups \in Nat
    BY Constants DEF TypeOK
  <1>2. net' \subseteq 1 .. seq /\ dups' \in 0 .. MaxDups
    <2>1. \/ net' = net \ {n} /\ dups' = dups
          \/ dups > 0 /\ dups' = dups - 1 /\ net' = net
      BY DEF Read
    <2>2. net' \subseteq net BY <2>1
    <2>3. dups' \in 0 .. MaxDups BY <2>1, <1>1
    <2> QED BY <2>2, <2>3, <1>1
  <1>3. heard' \in BOOLEAN /\ late' \in BOOLEAN BY <1>0
  <1>4. ~ late' => ~ late /\ seq < n + SeqByte
    <2>1. ~ late' => ~ late /\ ~ (n + SeqByte <= seq) BY <1>0, Zenon
    <2>2. ~ (n + SeqByte <= seq) => seq < n + SeqByte BY <1>1
    <2> QED BY <2>1, <2>2, Zenon
  <1>5. CASE check(Field(n)) /\ \E k \in Kinds : NextProbe(k, n)
    <2>0. PICK k \in Kinds : NextProbe(k, n) BY <1>5
    <2>k. k \in Kinds \cup {"*"} /\ k # "*" BY DEF Kinds
    <2>1. /\ pc' \in {"send", "done"}
          /\ ttl' \in opt.first_ttl .. opt.max_ttl /\ probe' \in 0 .. opt.nprobes - 1
          /\ got_there' \in Nat /\ unreachable' \in Nat /\ got_there' + unreachable' <= probe'
          /\ result' \in Seq(Entry) /\ Len(result') = seq
          /\ \A i \in 1 .. seq - 1 : result'[i] = result[i]
          /\ result'[seq].of = n /\ (result'[seq].missed => k = "*" /\ heard)
          /\ DOMAIN result = 1 .. seq - 1 /\ DOMAIN result' = 1 .. seq
      BY <2>0, <2>k, <1>0, <1>1, NextProbeType
    <2>2. TypeOK' BY <1>0, <1>1, <1>2, <1>3, <2>1 DEF TypeOK, Entry
    <2>3. NotConfused'
      <3> SUFFICES ASSUME opt.prog # "none", ~ late', NEW i \in 1 .. seq
                   PROVE  result'[i].of \in {i, 0}
        BY <1>0, <2>1 DEF NotConfused
      <3>1. CASE i < seq BY <3>1, <2>1, <1>1, <1>4 DEF NotConfused
      <3>2. CASE i = seq
        <4>1. n = seq BY <1>1, <1>4, <1>5, AcceptsOwn
        <4> QED BY <3>2, <4>1, <2>1
      <3> QED BY <3>1, <3>2, <1>1
    <2>4. StarMeansSilence'
      <3> SUFFICES ASSUME NEW i \in 1 .. seq, result'[i].missed
                   PROVE  opt.prog = "traceroute" /\ (i >= SeqByte \/ opt.base + i >= Space)
        BY <1>0, <2>1 DEF StarMeansSilence
      <3>1. CASE i < seq BY <3>1, <2>1, <1>1 DEF StarMeansSilence
      <3>2. CASE i = seq BY <3>2, <2>1, <2>k
      <3> QED BY <3>1, <3>2, <1>1
    <2>5. SkippedOnlyMisfit' BY <2>1 DEF SkippedOnlyMisfit
    <2> QED BY <2>2, <2>3, <2>4, <2>5
  <1>6. CASE /\ ~ check(Field(n))
             /\ UNCHANGED <<pc, ttl, probe, got_there, unreachable, result>>
    <2>1. TypeOK' BY <1>0, <1>1, <1>2, <1>3, <1>6 DEF TypeOK
    <2>2. NotConfused' BY <1>0, <1>4, <1>6 DEF NotConfused
    <2>3. StarMeansSilence' BY <1>0, <1>6 DEF StarMeansSilence
    <2>4. Fits' = Fits BY <1>0 DEF Fits
    <2>5. n = seq => ~ Fits BY <1>1, <1>6, AcceptsRight
    <2>6. SkippedOnlyMisfit' BY <1>0, <2>4, <2>5 DEF SkippedOnlyMisfit
    <2> QED BY <2>1, <2>2, <2>3, <2>6
  <1> QED BY <1>5, <1>6 DEF Read

\* The invariant holds of every state.
LEMMA Invariance == Spec => []IInv
  <1>1. IInv /\ [Next]_vars => IInv'
    <2> SUFFICES ASSUME IInv, [Next]_vars PROVE IInv' OBVIOUS
    <2>1. CASE Send BY <2>1, SendIInv
    <2>2. CASE Timeout BY <2>2, TimeoutIInv
    <2>3. ASSUME NEW n \in net, Read(n) PROVE IInv' BY <2>3, ReadIInv
    <2>4. CASE UNCHANGED vars
      BY <2>4 DEF vars, IInv, TypeOK, NotConfused, StarMeansSilence, SkippedOnlyMisfit, Fits
    <2> QED BY <2>1, <2>2, <2>3, <2>4 DEF Next
  <1> QED BY <1>1, InitIInv, PTL DEF Spec

\* The counters of a trace, and the probes its answers can be for, stay in range.
THEOREM TypeCorrect == Spec => []TypeOK
  BY Invariance, PTL DEF IInv

\* No probe is shown with the answer of another one, for every width of the fields:
\* the probe loop of traceroute and packet_ok.
THEOREM NeverConfused == Spec => []NotConfused
  BY Invariance, PTL DEF IInv

\* An answer read in time is shown, as long as its number fits.
THEOREM StarsAreSilence == Spec => []StarMeansSilence
  BY Invariance, PTL DEF IInv
-----------------------------------------------------------------------------
(* Where a trace ends.  The probes of a ttl are a block of nprobes numbers;   *)
(* a step adds the last number of the current block, and leaves the other     *)
(* blocks alone.                                                              *)

Block(t) == (t - opt.first_ttl) * opt.nprobes + 1 .. (t - opt.first_ttl) * opt.nprobes + opt.nprobes

\* Which block a number is in.
LEMMA InBlock ==
  ASSUME NEW n \in Nat, NEW N \in Nat \ {0}, NEW d \in Int
  PROVE  (n \div N = d) <=> (n \in d * N .. d * N + N - 1)
  <1> DEFINE q == n \div N
             r == n % N
  <1>1. q \in Nat /\ r \in 0 .. N - 1 /\ n = N * q + r BY DivMod
  <1> HIDE DEF q, r
  <1>2. q * N = N * q /\ q * N \in Int /\ d * N \in Int BY <1>1, Z3
  <1>3. q = d => n \in d * N .. d * N + N - 1 BY <1>1, <1>2
  <1>4. ASSUME n \in d * N .. d * N + N - 1 PROVE q = d
    <2>1. q * N < d * N + N /\ d * N < q * N + N BY <1>1, <1>2, <1>4
    <2>2. ~ (q >= d + 1)
      <3> SUFFICES ASSUME q >= d + 1 PROVE FALSE OBVIOUS
      <3>1. q * N >= (d + 1) * N BY <1>1, Z3
      <3>2. (d + 1) * N = d * N + N BY Z3
      <3> QED BY <2>1, <3>1, <3>2, <1>2
    <2>3. ~ (d >= q + 1)
      <3> SUFFICES ASSUME d >= q + 1 PROVE FALSE OBVIOUS
      <3>1. d * N >= (q + 1) * N BY <1>1, Z3
      <3>2. (q + 1) * N = q * N + N BY <1>1, Z3
      <3> QED BY <2>1, <3>1, <3>2, <1>2
    <2> QED BY <1>1, <2>2, <2>3
  <1> QED BY <1>3, <1>4 DEF q

\* The numbers of a hop are those of its block that have been used.
LEMMA HopIsBlock ==
  ASSUME opt \in Options, NEW L \in Nat, DOMAIN result = 1 .. L, NEW t \in Int
  PROVE  Hop(t) = Block(t) \cap (1 .. L)
  <1> DEFINE N == opt.nprobes
             d == t - opt.first_ttl
  <1>1. N \in Nat \ {0} /\ d \in Int BY Constants
  <1> HIDE DEF N, d
  <1>2. d * N \in Int BY <1>1
  <1>3. ASSUME NEW n \in 1 .. L PROVE ((n - 1) \div N = d) <=> (n \in d * N + 1 .. d * N + N)
    <2>1. ((n - 1) \div N = d) <=> (n - 1 \in d * N .. d * N + N - 1) BY <1>1, InBlock
    <2>2. (n - 1 \in d * N .. d * N + N - 1) <=> (n \in d * N + 1 .. d * N + N) BY <1>1, <1>2
    <2> QED BY <2>1, <2>2
  <1>4. Hop(t) = {n \in 1 .. L : (n - 1) \div N = d} BY DEF Hop, N, d
  <1>5. Block(t) = d * N + 1 .. d * N + N BY DEF Block, N, d
  <1> QED BY <1>3, <1>4, <1>5
\* The number that is printed next belongs to the block it falls into.
LEMMA OneMore ==
  ASSUME opt \in Options, opt' = opt, NEW L \in Nat, DOMAIN result = 1 .. L,
         DOMAIN result' = 1 .. L + 1, \A i \in 1 .. L : result'[i] = result[i],
         NEW t \in Int
  PROVE  /\ Hop(t)' = IF L + 1 \in Block(t) THEN Hop(t) \cup {L + 1} ELSE Hop(t)
         /\ \A k : /\ Shown(t, k) \in Nat
                   /\ Shown(t, k)' = IF L + 1 \in Block(t) /\ result'[L + 1].kind = k
                                     THEN Shown(t, k) + 1 ELSE Shown(t, k)
  <1>1. Hop(t) = Block(t) \cap (1 .. L) BY HopIsBlock
  <1>2. Hop(t)' = Block(t) \cap (1 .. L + 1)
    <2>1. Hop(t)' = {n \in DOMAIN result' : (n - 1) \div opt.nprobes = t - opt.first_ttl}
      BY DEF Hop
    <2> DEFINE N == opt.nprobes
               d == t - opt.first_ttl
    <2>2. N \in Nat \ {0} /\ d \in Int BY Constants
    <2>3. Block(t) = d * N + 1 .. d * N + N BY DEF Block
    <2> HIDE DEF N, d
    <2>4. d * N \in Int BY <2>2
    <2>5. ASSUME NEW n \in 1 .. L + 1
          PROVE  ((n - 1) \div N = d) <=> (n \in d * N + 1 .. d * N + N)
      <3>1. ((n - 1) \div N = d) <=> (n - 1 \in d * N .. d * N + N - 1) BY <2>2, InBlock
      <3>2. (n - 1 \in d * N .. d * N + N - 1) <=> (n \in d * N + 1 .. d * N + N)
        BY <2>2, <2>4
      <3> QED BY <3>1, <3>2
    <2>6. Hop(t)' = {n \in 1 .. L + 1 : (n - 1) \div N = d} BY <2>1 DEF N, d
    <2> QED BY <2>3, <2>5, <2>6
  <1>3. Hop(t)' = IF L + 1 \in Block(t) THEN Hop(t) \cup {L + 1} ELSE Hop(t)
    <2>1. 1 .. L + 1 = (1 .. L) \cup {L + 1} OBVIOUS
    <2> QED BY <1>1, <1>2, <2>1
  <1>4. Hop(t) \subseteq 1 .. L /\ L + 1 \notin Hop(t) BY <1>1
  <1>5. ASSUME NEW k
        PROVE  /\ Shown(t, k) \in Nat
               /\ Shown(t, k)' = IF L + 1 \in Block(t) /\ result'[L + 1].kind = k
                                 THEN Shown(t, k) + 1 ELSE Shown(t, k)
    <2> DEFINE A == {n \in Hop(t) : result[n].kind = k}
               B == {n \in Hop(t)' : result'[n].kind = k}
    <2>1. Shown(t, k) = Cardinality(A) /\ Shown(t, k)' = Cardinality(B) BY DEF Shown
    <2>2. IsFiniteSet(A) /\ Cardinality(A) \in Nat /\ L + 1 \notin A
      <3>1. IsFiniteSet(1 .. L) BY FS_Interval
      <3>2. A \in SUBSET (1 .. L) BY <1>4
      <3>3. L + 1 \notin A BY <1>4
      <3> HIDE DEF A
      <3> QED BY <3>1, <3>2, <3>3, FS_Subset, FS_CardinalityType
    <2>3. B = IF L + 1 \in Block(t) /\ result'[L + 1].kind = k THEN A \cup {L + 1} ELSE A
      <3>1. {n \in Hop(t) : result'[n].kind = k} = A BY <1>4
      <3> QED BY <1>3, <3>1
    <2> HIDE DEF A, B
    <2>4. Cardinality(A \cup {L + 1}) = Cardinality(A) + 1 BY <2>2, FS_AddElement
    <2> QED BY <2>1, <2>2, <2>3, <2>4
  <1> QED BY <1>3, <1>5

\* After a ttl: the destination was shown, or almost all probes as unreachable.
Over(t) ==
  \/ Shown(t, "reached") > 0
  \/ /\ Shown(t, "unreachable") > 0
     /\ opt.nprobes <= IF opt.prog = "traceroute" THEN Shown(t, "unreachable") + 1
                                                  ELSE 2 * Shown(t, "unreachable")

\* StopsRight, hop by hop: the hops that are complete, and those passed.
Complete == \A t \in opt.first_ttl .. (IF pc = "done" THEN ttl ELSE ttl - 1) :
              Cardinality(Hop(t)) = opt.nprobes
Passed == \A t \in opt.first_ttl .. ttl - 1 : ~ Over(t)
Reason == pc = "done" => ttl = opt.max_ttl \/ Over(ttl)

\* The three together are StopsRight.
LEMMA StopsRightParts == TypeOK => (StopsRight <=> Complete /\ Passed /\ Reason)
  BY DEF StopsRight, Complete, Passed, Reason, Over

\* How far the printing has come, and what the counters count.
Counted ==
  /\ Len(result) = (ttl - opt.first_ttl) * opt.nprobes
                   + IF pc = "done" THEN opt.nprobes ELSE probe
  /\ pc # "done" => /\ got_there = Shown(ttl, "reached")
                    /\ unreachable = Shown(ttl, "unreachable")
\* The end of a ttl as the code decides it, from its counters.
LEMMA EndsIsOver ==
  ASSUME NEW o \in Options, NEW a \in Nat, NEW b \in Nat
  PROVE  (\/ a > 0
          \/ b > 0 /\ b >= IF o.prog = "traceroute" THEN o.nprobes - 1
                                                    ELSE (o.nprobes + 1) \div 2)
         <=> (\/ a > 0
              \/ b > 0 /\ o.nprobes <= IF o.prog = "traceroute" THEN b + 1 ELSE 2 * b)
  <1> DEFINE N == o.nprobes
  <1>1. N \in Nat BY Constants
  <1> HIDE DEF N
  <1>2. (b >= (N + 1) \div 2) <=> (N <= 2 * b) BY <1>1, Z3
  <1>3. (b >= N - 1) <=> (N <= b + 1) BY <1>1
  <1> QED BY <1>2, <1>3 DEF N

\* A probe is over: the counters still count, and the trace goes on or ends rightly.
LEMMA NextProbeStops ==
  ASSUME TypeOK, Counted, Complete, Passed, pc = "wait", opt' = opt, seq' = seq,
         NEW k \in Kinds \cup {"*"}, NEW n \in Nat, NextProbe(k, n)
  PROVE  Counted' /\ Complete' /\ Passed' /\ Reason'
  <1> DEFINE N == opt.nprobes
             f == opt.first_ttl
             L == seq - 1
             there == IF k = "reached" THEN got_there + 1 ELSE got_there
             un == IF k = "unreachable" THEN unreachable + 1 ELSE unreachable
             base == (ttl - f) * N
  <1>1. /\ opt \in Options /\ seq \in Nat /\ Len(result) = L /\ probe \in 0 .. N - 1
        /\ result \in Seq(Entry) /\ ttl \in f .. opt.max_ttl
        /\ got_there \in Nat /\ unreachable \in Nat
    BY DEF TypeOK, Entry
  <1>2. N \in Nat \ {0} /\ f \in Nat /\ opt.max_ttl \in Nat BY <1>1, Constants
  <1>3. base \in Nat
    <2> HIDE DEF N, f
    <2>1. ttl - f \in Nat BY <1>1, <1>2
    <2> QED BY <1>2, <2>1, Z3
  <1>4. L = base + probe BY <1>1 DEF Counted
  <1>5. /\ DOMAIN result = 1 .. L /\ DOMAIN result' = 1 .. seq /\ Len(result') = seq
        /\ \A i \in 1 .. seq - 1 : result'[i] = result[i]
    BY NextProbeType
  <1>k. result'[seq].kind = k
    <2> DEFINE e == [kind |-> k, of |-> n, missed |-> k = "*" /\ heard]
    <2>1. result' = Append(result, e) BY DEF NextProbe
    <2>2. e.kind = k OBVIOUS
    <2>3. e \in Entry BY <1>1 DEF Entry
    <2> HIDE DEF e
    <2> QED BY <1>1, <2>1, <2>2, <2>3
  <1>6. L \in Nat /\ L + 1 = seq /\ ttl \in Int BY <1>1, <1>2, <1>3, <1>4
  <1>b. \A t \in Int : Block(t) = (t - f) * N + 1 .. (t - f) * N + N BY DEF Block
  <1>o. \A t \in Int : opt.first_ttl' = f /\ opt.nprobes' = N /\ Block(t)' = Block(t)
    BY DEF Block
  <1> HIDE DEF N, f, L, there, un, base
  <1>7. L + 1 \in Block(ttl)
    <2>1. Block(ttl) = base + 1 .. base + N BY <1>b, <1>6 DEF base
    <2> QED BY <1>1, <1>2, <1>3, <1>4, <2>1
  <1>8. ASSUME NEW t \in Int, t # ttl PROVE L + 1 \notin Block(t)
    <2> DEFINE c == (t - f) * N
    <2>1. c \in Int BY <1>2
    <2>2. CASE t <= ttl - 1
      <3>1. c <= (ttl - 1 - f) * N BY <2>2, <1>2, <1>6, Z3
      <3>2. (ttl - 1 - f) * N = base - N BY <1>2, <1>6, Z3 DEF base
      <3> HIDE DEF c
      <3>3. c + N <= base BY <2>1, <3>1, <3>2, <1>2, <1>3
      <3>4. L + 1 > c + N BY <3>3, <2>1, <1>1, <1>2, <1>3, <1>4
      <3>5. Block(t) = c + 1 .. c + N BY <1>b DEF c
      <3> QED BY <3>4, <3>5, <2>1, <1>2
    <2>3. CASE t >= ttl + 1
      <3>1. c >= (ttl + 1 - f) * N BY <2>3, <1>2, <1>6, Z3
      <3>2. (ttl + 1 - f) * N = base + N BY <1>2, <1>6, Z3 DEF base
      <3> HIDE DEF c
      <3>3. L + 1 < c + 1 BY <3>1, <3>2, <2>1, <1>1, <1>2, <1>3, <1>4
      <3>5. Block(t) = c + 1 .. c + N BY <1>b DEF c
      <3> QED BY <3>3, <3>5, <2>1, <1>2
    <2> QED BY <1>8, <2>2, <2>3, <1>6
  <1>9. ASSUME NEW t \in Int, t # ttl
        PROVE  Hop(t)' = Hop(t) /\ \A j : Shown(t, j)' = Shown(t, j)
    BY <1>1, <1>5, <1>6, <1>8, <1>9, OneMore
  <1>10. \A t \in Int : t = ttl =>
           /\ Hop(t)' = Hop(t) \cup {seq}
           /\ Shown(t, "reached")' = there /\ Shown(t, "unreachable")' = un
    <2> SUFFICES ASSUME NEW t \in Int, t = ttl
                 PROVE  /\ Hop(t)' = Hop(t) \cup {seq}
                        /\ Shown(t, "reached")' = there /\ Shown(t, "unreachable")' = un
      OBVIOUS
    <2>1. Shown(t, "reached") = got_there /\ Shown(t, "unreachable") = unreachable
      BY DEF Counted
    <2>2. L + 1 \in Block(t) BY <1>7
    <2>3. Hop(t)' = Hop(t) \cup {seq} BY <1>1, <1>5, <1>6, <2>2, OneMore
    <2>4. \A j : Shown(t, j)' = IF k = j THEN Shown(t, j) + 1 ELSE Shown(t, j)
      BY <1>1, <1>5, <1>6, <1>k, <2>2, OneMore
    <2> QED BY <2>1, <2>3, <2>4 DEF there, un
  <1>11. ASSUME NEW t \in Int, t = ttl'
         PROVE  /\ Shown(ttl, "reached")' = Shown(t, "reached")'
                /\ Shown(ttl, "unreachable")' = Shown(t, "unreachable")'
                /\ Over(ttl)' = Over(t)'
    BY <1>11 DEF Shown, Hop, Over
  <1>12. \A t \in Int : t # ttl => Over(t)' = Over(t) BY <1>9 DEF Over
  <1>13. ASSUME NEW t \in Int, t = ttl
         PROVE  Over(t)' <=> (\/ there > 0
                              \/ un > 0 /\ un >= IF opt.prog = "traceroute"
                                                 THEN N - 1 ELSE (N + 1) \div 2)
    <2>1. there \in Nat /\ un \in Nat BY <1>1 DEF there, un
    <2>2. Over(t)' <=> (\/ there > 0
                        \/ un > 0 /\ N <= IF opt.prog = "traceroute"
                                          THEN un + 1 ELSE 2 * un)
      BY <1>10, <1>13 DEF Over, N
    <2> QED BY <2>1, <2>2, <1>1, EndsIsOver DEF N
  <1>14. \A t \in f .. ttl - 1 : t \in Int /\ t # ttl BY <1>1, <1>2
  <1>p. Passed /\ Complete => \A t \in f .. ttl - 1 : ~ Over(t)' /\ Cardinality(Hop(t)') = N
    BY <1>9, <1>12, <1>14 DEF Passed, Complete, N, f
  <1>15. CASE /\ probe + 1 < N /\ probe' = probe + 1 /\ got_there' = there
              /\ unreachable' = un /\ pc' = "send" /\ ttl' = ttl
    <2>1. Counted'
      <3>1. Len(result') = (ttl' - f) * N + probe'
        BY <1>15, <1>1, <1>3, <1>4, <1>5, <1>6 DEF base
      <3>2. got_there' = Shown(ttl, "reached")' /\ unreachable' = Shown(ttl, "unreachable")'
        BY <1>15, <1>6, <1>10, <1>11
      <3> QED BY <1>15, <3>1, <3>2, <1>o DEF Counted, N, f
    <2>2. Complete' BY <1>15, <1>p DEF Complete, N, f
    <2>3. Passed' BY <1>15, <1>p DEF Passed, N, f
    <2> QED BY <1>15, <2>1, <2>2, <2>3 DEF Reason
  <1>16. ASSUME probe + 1 = N
         PROVE  \A t \in Int : t = ttl => Cardinality(Hop(t)') = N
    <2> SUFFICES ASSUME NEW t \in Int, t = ttl PROVE Cardinality(Hop(t)') = N OBVIOUS
    <2>1. Hop(t) = Block(t) \cap (1 .. L) BY <1>1, <1>5, <1>6, HopIsBlock
    <2>2. Block(t) = base + 1 .. base + N BY <1>b DEF base
    <2>3. L + 1 = base + N BY <1>16, <1>1, <1>2, <1>3, <1>4
    <2>4. Hop(t)' = base + 1 .. base + N
      <3>1. Hop(t)' = ((base + 1 .. base + N) \cap (1 .. L)) \cup {L + 1}
        BY <2>1, <2>2, <1>6, <1>10
      <3> QED BY <3>1, <2>3, <1>2, <1>3, <1>6
    <2>5. Cardinality(base + 1 .. base + N) = N BY <1>2, <1>3, FS_Interval
    <2> QED BY <2>4, <2>5
  <1>17. CASE /\ probe + 1 = N /\ probe' = 0 /\ got_there' = 0 /\ unreachable' = 0
              /\ ends(there, un) \/ ttl = opt.max_ttl
              /\ pc' = "done" /\ ttl' = ttl
    <2>1. Counted'
      <3>1. Len(result') = (ttl' - f) * N + N
        BY <1>17, <1>1, <1>2, <1>3, <1>4, <1>5, <1>6 DEF base
      <3> QED BY <1>17, <3>1, <1>o DEF Counted, N, f
    <2>2. Complete'
      <3>1. \A t \in f .. ttl : t = ttl \/ t \in f .. ttl - 1 BY <1>1, <1>2
      <3>2. \A t \in f .. ttl : Cardinality(Hop(t)') = N
        BY <3>1, <1>6, <1>16, <1>17, <1>p
      <3> QED BY <1>17, <3>2 DEF Complete, N, f
    <2>3. Passed' BY <1>17, <1>p DEF Passed, N, f
    <2>4. Reason'
      <3>1. ends(there, un) => Over(ttl)' BY <1>6, <1>11, <1>13, <1>17 DEF ends, N
      <3> QED BY <1>17, <3>1 DEF Reason
    <2> QED BY <2>1, <2>2, <2>3, <2>4
  <1>18. CASE /\ probe + 1 = N /\ probe' = 0 /\ got_there' = 0 /\ unreachable' = 0
              /\ ~ ends(there, un)
              /\ pc' = "send" /\ ttl' = ttl + 1
    <2>1. Counted'
      <3>1. (ttl + 1 - f) * N = base + N BY <1>2, <1>6, Z3 DEF base
      <3>2. Len(result') = (ttl' - f) * N + probe'
        BY <1>18, <3>1, <1>1, <1>2, <1>3, <1>4, <1>5, <1>6
      <3>3. ASSUME NEW t \in Int, t = ttl + 1, NEW j PROVE Shown(t, j)' = 0
        <4>1. Hop(t) = Block(t) \cap (1 .. L) BY <1>1, <1>5, <1>6, HopIsBlock
        <4>2. Block(t) = base + N + 1 .. base + N + N
          <5>0. t - f = ttl + 1 - f BY <3>3, <1>2, <1>6
          <5>1. (t - f) * N = base + N BY <3>1, <5>0, Zenon
          <5>2. Block(t) = (t - f) * N + 1 .. (t - f) * N + N BY <1>b
          <5> QED BY <5>1, <5>2
        <4>3. L < base + N BY <1>18, <1>1, <1>2, <1>3, <1>4
        <4>4. Hop(t)' = {} BY <4>1, <4>2, <4>3, <1>2, <1>3, <1>6, <1>9, <3>3
        <4>5. Shown(t, j)' = Cardinality({}) BY <4>4 DEF Shown
        <4> QED BY <4>5, FS_EmptySet
      <3>4. got_there' = Shown(ttl, "reached")' /\ unreachable' = Shown(ttl, "unreachable")'
        BY <1>18, <1>6, <1>11, <3>3
      <3> QED BY <1>18, <3>2, <3>4, <1>o DEF Counted, N, f
    <2>a. \A t \in f .. ttl : t = ttl \/ t \in f .. ttl - 1 BY <1>1, <1>2
    <2>b. f .. ttl' - 1 = f .. ttl BY <1>18, <1>1, <1>2
    <2>2. Complete'
      <3>2. \A t \in f .. ttl : Cardinality(Hop(t)') = N
        BY <2>a, <1>6, <1>16, <1>18, <1>p
      <3> QED BY <1>18, <2>b, <3>2 DEF Complete, N, f
    <2>3. Passed'
      <3>1. \A t \in Int : t = ttl => ~ Over(t)' BY <1>13, <1>18 DEF ends, N
      <3>2. \A t \in f .. ttl : ~ Over(t)' BY <2>a, <3>1, <1>6, <1>p
      <3> QED BY <1>18, <2>b, <3>2 DEF Passed, N, f
    <2> QED BY <1>18, <2>1, <2>2, <2>3 DEF Reason
  <1> QED BY <1>15, <1>17, <1>18 DEF NextProbe, there, un, N
\* What the counting rests on.
StopIInv == Counted /\ Complete /\ Passed /\ Reason

\* A step that prints nothing changes none of it.
LEMMA SilentStops ==
  ASSUME StopIInv, pc # "done", pc' # "done",
         UNCHANGED <<opt, ttl, probe, got_there, unreachable, result>>
  PROVE  StopIInv'
  <1>1. Counted' BY DEF StopIInv, Counted, Shown, Hop
  <1>2. Complete' BY DEF StopIInv, Complete, Hop
  <1>3. Passed' BY DEF StopIInv, Passed, Over, Shown, Hop
  <1> QED BY <1>1, <1>2, <1>3 DEF StopIInv, Reason

\* Nothing is printed at first.
LEMMA InitStops == Init => StopIInv
  <1> SUFFICES ASSUME Init PROVE StopIInv OBVIOUS
  <1>1. /\ opt \in Options /\ pc = "send" /\ ttl = opt.first_ttl /\ probe = 0
        /\ got_there = 0 /\ unreachable = 0 /\ result = <<>>
    BY DEF Init
  <1>2. opt.first_ttl \in Nat /\ opt.nprobes \in Nat BY <1>1, Constants
  <1>3. DOMAIN result = {} /\ Len(result) = 0 BY <1>1
  <1>4. \A k : Shown(ttl, k) = 0
    <2> SUFFICES ASSUME NEW k PROVE Shown(ttl, k) = 0 OBVIOUS
    <2>1. Hop(ttl) = {} BY <1>3 DEF Hop
    <2>2. Shown(ttl, k) = Cardinality({}) BY <2>1 DEF Shown
    <2> QED BY <2>2, FS_EmptySet
  <1>5. Counted
    <2>1. (ttl - opt.first_ttl) * opt.nprobes = 0
      <3>1. ttl - opt.first_ttl = 0 BY <1>1, <1>2
      <3>2. 0 * opt.nprobes = 0 BY <1>2
      <3> QED BY <3>1, <3>2
    <2> QED BY <1>1, <1>3, <1>4, <2>1 DEF Counted
  <1>6. opt.first_ttl .. ttl - 1 = {} BY <1>1, <1>2
  <1> QED BY <1>1, <1>5, <1>6 DEF StopIInv, Complete, Passed, Reason

\* A trace goes past a ttl only when all its probes were sent and neither the
\* destination nor almost only "unreachable" was shown, and it ends before max_ttl only
\* when one of these was: the loops over ttl and probe in main(), for any number of
\* probes and any ttls.
THEOREM StopsWhereItShould == Spec => []StopsRight
  <1>1. Init => StopIInv BY InitStops
  <1>2. IInv /\ StopIInv /\ [Next]_vars => StopIInv'
    <2> SUFFICES ASSUME IInv, StopIInv, [Next]_vars PROVE StopIInv' OBVIOUS
    <2>0. TypeOK BY DEF IInv
    <2>1. CASE Send BY <2>1, SilentStops DEF Send
    <2>2. CASE Timeout
      <3>1. StopIInv' BY <2>0, <2>2, NextProbeStops DEF Timeout, StopIInv
      <3> QED BY <3>1
    <2>3. ASSUME NEW n \in net, Read(n) PROVE StopIInv'
      <3>1. n \in Nat BY <2>0 DEF TypeOK
      <3>2. CASE check(Field(n)) /\ \E k \in Kinds : NextProbe(k, n)
        <4>1. PICK k \in Kinds \cup {"*"} : NextProbe(k, n) BY <3>2
        <4> QED BY <2>0, <2>3, <3>1, <4>1, NextProbeStops DEF Read, StopIInv
      <3>3. CASE /\ ~ check(Field(n))
                 /\ UNCHANGED <<pc, ttl, probe, got_there, unreachable, result>>
        BY <2>3, <3>3, SilentStops DEF Read
      <3> QED BY <2>3, <3>2, <3>3 DEF Read
    <2>4. CASE UNCHANGED vars
      <3>1. Counted' BY <2>4 DEF vars, StopIInv, Counted, Shown, Hop
      <3>2. Complete' BY <2>4 DEF vars, StopIInv, Complete, Hop
      <3>3. Passed' BY <2>4 DEF vars, StopIInv, Passed, Over, Shown, Hop
      <3>4. Reason' BY <2>4 DEF vars, StopIInv, Reason, Over, Shown, Hop
      <3> QED BY <3>1, <3>2, <3>3, <3>4 DEF StopIInv
    <2> QED BY <2>1, <2>2, <2>3, <2>4 DEF Next
  <1>3. IInv /\ StopIInv => StopsRight BY StopsRightParts DEF IInv, StopIInv
  <1> QED BY <1>1, <1>2, <1>3, Invariance, PTL DEF Spec
=============================================================================
