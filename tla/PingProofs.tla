----------------------------- MODULE PingProofs -----------------------------
(***************************************************************************)
(* What ping counts, reports missing and expects of a reply is right for   *)
(* any size of the table and of the sequence numbers, any options, and any *)
(* number of requests, duplicates and refused sends.                       *)
(*                                                                         *)
(* The table is used again and again, and says something only of the       *)
(* requests whose bit no later one has cleared: of those, the bit is set   *)
(* exactly if a reply was read.                                            *)
(***************************************************************************)
EXTENDS Ping, Numbers, TLAPS, FiniteSetTheorems

\* A refused send has cleared the bit of a request that is not counted.
ahead(nb) == IF nb < MaxNoBufs THEN 1 ELSE 0

\* The counters s after replies to A were read, with nb refusals to come.
Fits(s, A, nb) ==
  /\ s.nreceived = Cardinality(A)
  /\ \A k \in 0 .. s.ntransmitted - 1 :
       k + mx_dup_ck >= s.ntransmitted + ahead(nb)
         => (k % mx_dup_ck \in s.rcvd_tbl <=> k \in A)

\* The bits of requests sent that a reply could still set.  A request frees one
\* at most, and a reply that is counted takes one.
open(s) == {k % mx_dup_ck : k \in 0 .. s.ntransmitted - 1} \ s.rcvd_tbl
Balanced(s) == s.nreceived + Cardinality(open(s)) <= s.ntransmitted

Named(s, n) == n = -1 \/ n \in 0 .. s.ntransmitted - 2

IInv ==
  /\ TypeOK /\ nobufs <= MaxNoBufs /\ IsFiniteSet(answered)
  /\ ~ late => Fits(st, answered, nobufs)
  /\ nobufs = MaxNoBufs => Balanced(st)
  /\ pc = "start" => st.rcvd_tbl = {} /\ answered = {} /\ reported = -1 /\ st.nreceived = 0

-----------------------------------------------------------------------------
(* The counters *)

\* The constants and the options have their types.
LEMMA Constants ==
  /\ mx_dup_ck \in Nat \ {0} /\ SeqSpace \in Nat \ {0} /\ SeqSpace % mx_dup_ck = 0
  /\ MaxDups \in Nat /\ MaxNoBufs \in Nat
BY TableAssumption, BoundsAssumption DEF TableAssumption, BoundsAssumption

\* The options, and what the program works out from them, are numbers.
LEMMA OptionTypes ==
  ASSUME opt \in Options
  PROVE  /\ opt.sweepmin \in Nat /\ opt.sweepmax \in Nat /\ opt.sweepincr \in Nat
         /\ npackets \in Nat /\ snpackets \in Nat /\ preload \in Nat
<1>1. opt.sweepmin \in Nat /\ opt.sweepmax \in Nat /\ opt.sweepincr \in Nat /\ opt.count \in Nat
      /\ opt.preload \in Nat
  BY OptionsAssumption DEF OptionsAssumption
<1> QED BY <1>1 DEF npackets, snpackets, preload

\* The numbers among the counters.
LEMMA Fields ==
  ASSUME NEW s \in Counters
  PROVE  /\ s.ntransmitted \in Nat /\ s.sntransmitted \in Nat /\ s.nreceived \in Nat
         /\ s.nrepeats \in Nat /\ s.nmissedmax \in Nat /\ s.datalen \in Nat
         /\ s.rcvd_tbl \in SUBSET (0 .. mx_dup_ck - 1)
BY DEF Counters

\* The part of the counters that Fits is about.
Same(s, t) == /\ t.ntransmitted = s.ntransmitted /\ t.nreceived = s.nreceived
              /\ t.rcvd_tbl = s.rcvd_tbl

\* Counters that agree in that part fit alike.
LEMMA SameFits ==
  ASSUME NEW s, NEW t, NEW A, NEW nb, Same(s, t), Fits(s, A, nb)
  PROVE  Fits(t, A, nb)
BY DEF Same, Fits

\* A request keeps the types and is counted.
LEMMA PingerType ==
  ASSUME NEW s \in Counters
  PROVE  pinger(s) \in Counters /\ pinger(s).ntransmitted = s.ntransmitted + 1
<1> DEFINE a == s.ntransmitted + 1
           b == s.sntransmitted + 1
           c == s.rcvd_tbl \ {s.ntransmitted % mx_dup_ck}
<1>1. a \in Nat /\ b \in Nat /\ c \in SUBSET (0 .. mx_dup_ck - 1)
  BY Fields
<1>2. pinger(s) = [s EXCEPT !.rcvd_tbl = c, !.ntransmitted = a, !.sntransmitted = b]
  BY DEF pinger
<1>3. pinger(s).ntransmitted = a
  BY <1>2 DEF Counters
<1> HIDE DEF a, b, c
<1>4. pinger(s) \in Counters
  BY <1>1, <1>2 DEF Counters
<1> QED BY <1>3, <1>4 DEF a

\* A request: its own bit is cleared, which is the bit of no request that still
\* matters.
LEMMA PingerFits ==
  ASSUME NEW s \in Counters, NEW A \in SUBSET (0 .. s.ntransmitted - 1), NEW nb,
         Fits(s, A, nb)
  PROVE  Fits(pinger(s), A, nb)
<1> DEFINE n == s.ntransmitted
           t == pinger(s)
<1>1. n \in Nat /\ mx_dup_ck \in Nat \ {0} /\ ahead(nb) \in 0 .. 1
  BY Fields, Constants DEF ahead
<1>2. t.ntransmitted = n + 1 /\ t.nreceived = s.nreceived
      /\ t.rcvd_tbl = s.rcvd_tbl \ {n % mx_dup_ck}
  BY DEF pinger, Counters
<1> HIDE DEF t
<1>3. ASSUME NEW k \in 0 .. n, k + mx_dup_ck >= n + 1 + ahead(nb)
      PROVE  k % mx_dup_ck \in t.rcvd_tbl <=> k \in A
  <2>1. CASE k = n
    BY <1>1, <1>2, <2>1
  <2>2. CASE k # n
    <3>1. k \in Nat /\ k <= n /\ n - k < mx_dup_ck /\ k \in 0 .. n - 1
          /\ k + mx_dup_ck >= n + ahead(nb)
      BY <1>1, <1>3, <2>2
    <3>2. k % mx_dup_ck # n % mx_dup_ck
      BY <1>1, <2>2, <3>1, ModUnique
    <3>3. k % mx_dup_ck \in s.rcvd_tbl <=> k \in A
      BY <3>1 DEF Fits
    <3> QED BY <1>2, <3>2, <3>3
  <2> QED BY <2>1, <2>2
<1>4. t.ntransmitted - 1 = n
  BY <1>1, <1>2
<1>5. s.nreceived = Cardinality(A)
  BY DEF Fits
<1> HIDE DEF n
<1>6. Fits(t, A, nb)
  BY <1>2, <1>3, <1>4, <1>5 DEF Fits
<1> QED BY <1>6 DEF t

\* A refused send clears a bit without counting a request.
LEMMA BackoffFits ==
  ASSUME NEW s \in Counters, NEW A, NEW nb \in 1 .. MaxNoBufs, Fits(s, A, nb)
  PROVE  Fits(backoff(s), A, nb - 1)
<1> DEFINE n == s.ntransmitted
           t == backoff(s)
<1>1. n \in Nat /\ mx_dup_ck \in Nat \ {0} /\ ahead(nb) \in 0 .. 1 /\ ahead(nb - 1) = 1
  BY Fields, Constants DEF ahead
<1>2. t.ntransmitted = n /\ t.nreceived = s.nreceived
      /\ t.rcvd_tbl = s.rcvd_tbl \ {n % mx_dup_ck}
  BY DEF backoff, Counters
<1> HIDE DEF t
<1>3. ASSUME NEW k \in 0 .. n - 1, k + mx_dup_ck >= n + ahead(nb - 1)
      PROVE  k % mx_dup_ck \in t.rcvd_tbl <=> k \in A
  <2>1. k \in Nat /\ k <= n /\ n - k < mx_dup_ck /\ k # n /\ k + mx_dup_ck >= n + ahead(nb)
    BY <1>1, <1>3
  <2>2. k % mx_dup_ck # n % mx_dup_ck
    BY <1>1, <2>1, ModUnique
  <2>3. k % mx_dup_ck \in s.rcvd_tbl <=> k \in A
    BY <1>3, <2>1 DEF Fits
  <2> QED BY <1>2, <2>2, <2>3
<1>4. s.nreceived = Cardinality(A)
  BY DEF Fits
<1> HIDE DEF n
<1>5. Fits(t, A, nb - 1)
  BY <1>2, <1>3, <1>4 DEF Fits
<1> QED BY <1>5 DEF t

\* A reply to a request whose bit is still its own is counted once.
LEMMA PackFits ==
  ASSUME NEW s \in Counters, NEW A, IsFiniteSet(A), NEW nb, Fits(s, A, nb),
         NEW k \in 0 .. s.ntransmitted - 1,
         k + mx_dup_ck >= s.ntransmitted + ahead(nb)
  PROVE  Fits(pr_pack(s, k), A \cup {k}, nb)
<1> DEFINE n == s.ntransmitted
           bit == (k % SeqSpace) % mx_dup_ck
           t == pr_pack(s, k)
<1>1. n \in Nat /\ mx_dup_ck \in Nat \ {0} /\ ahead(nb) \in 0 .. 1 /\ k \in Nat
  BY Fields, Constants DEF ahead
<1>2. bit = k % mx_dup_ck
  BY <1>1, Constants, ModMod
<1>3. bit \in s.rcvd_tbl <=> k \in A
  BY <1>2 DEF Fits
<1>4. t = IF bit \in s.rcvd_tbl THEN [s EXCEPT !.nrepeats = s.nrepeats + 1]
          ELSE [s EXCEPT !.nreceived = s.nreceived + 1, !.rcvd_tbl = s.rcvd_tbl \cup {bit}]
  BY DEF pr_pack
<1>5. s.nreceived = Cardinality(A) /\ Cardinality(A) \in Nat
  BY FS_CardinalityType DEF Fits
<1>6. Cardinality(A \cup {k}) = IF k \in A THEN Cardinality(A) ELSE Cardinality(A) + 1
  BY FS_AddElement
<1> HIDE DEF bit, t
<1>7. CASE bit \in s.rcvd_tbl
  <2>1. Same(s, t)
    BY <1>4, <1>7 DEF Same, Counters
  <2>2. A \cup {k} = A
    BY <1>3, <1>7
  <2> QED BY <2>1, <2>2, SameFits DEF t
<1>8. CASE bit \notin s.rcvd_tbl
  <2>1. t.ntransmitted = n /\ t.nreceived = s.nreceived + 1 /\ t.rcvd_tbl = s.rcvd_tbl \cup {bit}
    BY <1>4, <1>8 DEF Counters
  <2>2. t.nreceived = Cardinality(A \cup {k})
    BY <1>3, <1>5, <1>6, <1>8, <2>1
  <2>3. ASSUME NEW j \in 0 .. n - 1, j + mx_dup_ck >= n + ahead(nb)
        PROVE  j % mx_dup_ck \in t.rcvd_tbl <=> j \in A \cup {k}
    <3>1. j % mx_dup_ck \in s.rcvd_tbl <=> j \in A
      BY <2>3 DEF Fits
    <3>2. j % mx_dup_ck = bit => j = k
      <4>1. j \in Nat /\ (j <= k \/ k <= j) /\ j - k < mx_dup_ck /\ k - j < mx_dup_ck
        BY <1>1, <2>3
      <4> QED BY <1>1, <1>2, <4>1, ModUnique
    <3> QED BY <1>2, <2>1, <3>1, <3>2
  <2> HIDE DEF n
  <2>4. Fits(t, A \cup {k}, nb)
    BY <2>1, <2>2, <2>3 DEF Fits
  <2> QED BY <2>4 DEF t
<1> QED BY <1>7, <1>8

\* The open bits are a finite set.
LEMMA OpenFinite ==
  ASSUME NEW s \in Counters
  PROVE  IsFiniteSet(open(s)) /\ Cardinality(open(s)) \in Nat
<1>1. open(s) \subseteq 0 .. mx_dup_ck - 1
  BY Fields, Constants DEF open
<1>2. IsFiniteSet(0 .. mx_dup_ck - 1)
  BY Constants, FS_Interval
<1> QED BY <1>1, <1>2, FS_Subset, FS_CardinalityType

\* Balanced is about that part too.
LEMMA SameBalanced ==
  ASSUME NEW s, NEW t, Same(s, t), Balanced(s)
  PROVE  Balanced(t)
BY DEF Same, Balanced, open

\* A request frees one bit at most, and is one request more.
LEMMA PingerBalanced ==
  ASSUME NEW s \in Counters, Balanced(s)
  PROVE  Balanced(pinger(s))
<1> DEFINE n == s.ntransmitted
           t == pinger(s)
<1>1. n \in Nat /\ s.nreceived \in Nat
  BY Fields
<1>2. t.ntransmitted = n + 1 /\ t.nreceived = s.nreceived
      /\ t.rcvd_tbl = s.rcvd_tbl \ {n % mx_dup_ck}
  BY DEF pinger, Counters
<1> HIDE DEF t
<1>3. open(t) = open(s) \cup {n % mx_dup_ck}
  <2>1. t.ntransmitted - 1 = n /\ 0 .. n = (0 .. n - 1) \cup {n}
    BY <1>1, <1>2
  <2>2. {k % mx_dup_ck : k \in 0 .. n} = {k % mx_dup_ck : k \in 0 .. n - 1} \cup {n % mx_dup_ck}
    BY <2>1
  <2> QED BY <1>2, <2>1, <2>2 DEF open
<1>4. IsFiniteSet(open(s)) /\ Cardinality(open(s)) \in Nat
  BY OpenFinite
<1>5. Cardinality(open(t)) \in {Cardinality(open(s)), Cardinality(open(s)) + 1}
  BY <1>3, <1>4, FS_AddElement
<1>6. s.nreceived + Cardinality(open(s)) <= n
  BY DEF Balanced
<1> HIDE DEF n
<1>7. Balanced(t)
  BY <1>1, <1>2, <1>4, <1>5, <1>6 DEF Balanced
<1> QED BY <1>7 DEF t

\* A reply that is counted takes an open bit.
LEMMA PackBalanced ==
  ASSUME NEW s \in Counters, NEW k \in 0 .. s.ntransmitted - 1, Balanced(s)
  PROVE  Balanced(pr_pack(s, k))
<1> DEFINE bit == (k % SeqSpace) % mx_dup_ck
           t == pr_pack(s, k)
<1>1. s.ntransmitted \in Nat /\ s.nreceived \in Nat /\ k \in Nat
  BY Fields
<1>2. bit = k % mx_dup_ck
  BY <1>1, Constants, ModMod
<1>3. t = IF bit \in s.rcvd_tbl THEN [s EXCEPT !.nrepeats = s.nrepeats + 1]
          ELSE [s EXCEPT !.nreceived = s.nreceived + 1, !.rcvd_tbl = s.rcvd_tbl \cup {bit}]
  BY DEF pr_pack
<1> HIDE DEF bit, t
<1>4. CASE bit \in s.rcvd_tbl
  <2>1. Same(s, t)
    BY <1>3, <1>4 DEF Same, Counters
  <2> QED BY <2>1, SameBalanced DEF t
<1>5. CASE bit \notin s.rcvd_tbl
  <2>1. t.ntransmitted = s.ntransmitted /\ t.nreceived = s.nreceived + 1
        /\ t.rcvd_tbl = s.rcvd_tbl \cup {bit}
    BY <1>3, <1>5 DEF Counters
  <2>2. bit \in open(s) /\ open(t) = open(s) \ {bit}
    BY <1>2, <1>5, <2>1 DEF open
  <2>3. IsFiniteSet(open(s)) /\ Cardinality(open(s)) \in Nat
    BY OpenFinite
  <2>4. Cardinality(open(t)) = Cardinality(open(s)) - 1
    BY <2>2, <2>3, FS_RemoveElement
  <2>5. Balanced(t)
    BY <1>1, <2>1, <2>3, <2>4 DEF Balanced
  <2> QED BY <2>5 DEF t
<1> QED BY <1>4, <1>5

-----------------------------------------------------------------------------
(* One turn of the loop *)

\* The state after a turn that began with the counters s, the replies n in
\* flight and replies read to the requests A.
After(s, A) ==
  /\ st' \in Counters /\ pc' \in {"loop", "done"}
  /\ net' \subseteq 0 .. st'.ntransmitted - 1 /\ A \subseteq 0 .. st'.ntransmitted - 1
  /\ nobufs' \in 0 .. MaxNoBufs /\ Named(st', reported')
  /\ Fits(s, A, nobufs) => Fits(st', A, nobufs')
  /\ nobufs' = MaxNoBufs => nobufs = MaxNoBufs /\ (Balanced(s) => Balanced(st'))

\* The next size of a sweep, and the count of the missing, leave alone what
\* Fits is about.
LEMMA NextSizeSame ==
  ASSUME opt \in Options, NEW s \in Counters
  PROVE  nextSize(s) \in Counters /\ Same(s, nextSize(s))
<1> DEFINE d == s.datalen + opt.sweepincr
<1>1. d \in Nat
  BY OptionTypes, Fields
<1>2. \/ nextSize(s) = s
      \/ nextSize(s) = [s EXCEPT !.datalen = d]
      \/ nextSize(s) = [s EXCEPT !.datalen = d, !.sntransmitted = 0]
  BY DEF nextSize
<1> HIDE DEF d
<1>3. [s EXCEPT !.datalen = d] \in Counters /\ Same(s, [s EXCEPT !.datalen = d])
  BY <1>1 DEF Counters, Same
<1>4. /\ [s EXCEPT !.datalen = d, !.sntransmitted = 0] \in Counters
      /\ Same(s, [s EXCEPT !.datalen = d, !.sntransmitted = 0])
  BY <1>1 DEF Counters, Same
<1>5. Same(s, s)
  BY DEF Same
<1> QED BY <1>2, <1>3, <1>4, <1>5

\* The count of the missing leaves that part alone.
LEMMA NoteMissedSame ==
  ASSUME NEW s \in Counters
  PROVE  noteMissed(s) \in Counters /\ Same(s, noteMissed(s))
<1>1. missed(s) > s.nmissedmax => missed(s) \in Nat
  BY Fields DEF missed
<1> QED BY <1>1 DEF noteMissed, Same, Counters

\* The line printed at the end of a turn names a request that was sent.
LEMMA EndTurnNamed ==
  ASSUME NEW s \in Counters, Named(s, reported), EndTurn(s)
  PROVE  /\ st' \in Counters /\ Same(s, st') /\ pc' = "loop" /\ Named(st', reported')
<1>1. st' \in Counters /\ Same(s, st') /\ pc' = "loop"
  BY NoteMissedSame DEF EndTurn
<1>2. st'.ntransmitted = s.ntransmitted
  BY <1>1 DEF Same
<1>3. reported' = reported \/ (reported' = s.ntransmitted - 2 /\ missed(s) > s.nmissedmax)
  BY DEF EndTurn
<1>4. missed(s) > s.nmissedmax => s.ntransmitted - 2 \in 0 .. s.ntransmitted - 2
  BY Fields DEF missed
<1> QED BY <1>1, <1>2, <1>3, <1>4 DEF Named

\* More requests make no name invalid.
LEMMA NamedMore ==
  ASSUME NEW s \in Counters, NEW t \in Counters, NEW n, Named(s, n),
         t.ntransmitted >= s.ntransmitted
  PROVE  Named(t, n)
BY Fields DEF Named

\* A turn in which a request was due, whichever way it ends.
LEMMA TransmitAfter ==
  ASSUME opt \in Options, nobufs \in 0 .. MaxNoBufs, NEW s \in Counters, Named(s, reported),
         NEW n \in SUBSET (0 .. s.ntransmitted - 1), NEW A \in SUBSET (0 .. s.ntransmitted - 1),
         Transmit(s, n)
  PROVE  After(s, A)
<1> DEFINE w == nextSize(s)
<1>1. w \in Counters /\ Same(s, w)
  BY NextSizeSame
<1>2. w.ntransmitted = s.ntransmitted /\ Named(w, reported)
      /\ (Fits(s, A, nobufs) => Fits(w, A, nobufs)) /\ w.ntransmitted \in Nat
  BY <1>1, SameFits, Fields DEF Same, Named
<1>3. \/ st' = w /\ pc' = "done" /\ net' = n /\ UNCHANGED <<nobufs, reported>>
      \/ EndTurn(pinger(w)) /\ net' = n \cup {w.ntransmitted} /\ UNCHANGED nobufs
      \/ nobufs > 0 /\ EndTurn(backoff(w)) /\ net' = n /\ nobufs' = nobufs - 1
      \/ EndTurn([w EXCEPT !.almost_done = TRUE]) /\ net' = n /\ UNCHANGED nobufs
  BY DEF Transmit
<1> HIDE DEF w
<1>b. Balanced(s) => Balanced(w)
  BY <1>1, SameBalanced
<1>4. CASE st' = w /\ pc' = "done" /\ net' = n /\ UNCHANGED <<nobufs, reported>>
  BY <1>1, <1>2, <1>4, <1>b DEF After
<1>5. CASE EndTurn(pinger(w)) /\ net' = n \cup {w.ntransmitted} /\ UNCHANGED nobufs
  <2>1. pinger(w) \in Counters /\ pinger(w).ntransmitted = w.ntransmitted + 1
    BY <1>1, PingerType
  <2>2. Named(pinger(w), reported)
    BY <1>1, <1>2, <2>1, NamedMore
  <2>3. st' \in Counters /\ Same(pinger(w), st') /\ pc' = "loop" /\ Named(st', reported')
    BY <1>5, <2>1, <2>2, EndTurnNamed
  <2>4. st'.ntransmitted = s.ntransmitted + 1
    BY <1>2, <2>1, <2>3 DEF Same
  <2>5. net' \subseteq 0 .. st'.ntransmitted - 1 /\ A \subseteq 0 .. st'.ntransmitted - 1
    <3>1. s.ntransmitted \in Nat /\ st'.ntransmitted - 1 = s.ntransmitted
      BY <1>2, <2>4
    <3>2. n \subseteq 0 .. s.ntransmitted /\ A \subseteq 0 .. s.ntransmitted
          /\ s.ntransmitted \in 0 .. s.ntransmitted
      BY <3>1
    <3> QED BY <1>2, <1>5, <3>1, <3>2
  <2>6. Fits(w, A, nobufs) => Fits(pinger(w), A, nobufs)
    BY <1>1, <1>2, PingerFits
  <2>7. Fits(s, A, nobufs) => Fits(st', A, nobufs')
    BY <1>2, <1>5, <2>3, <2>6, SameFits
  <2>8. Balanced(s) => Balanced(st')
    BY <1>1, <1>b, <2>3, PingerBalanced, SameBalanced
  <2> QED BY <1>5, <2>3, <2>5, <2>7, <2>8 DEF After
<1>6. CASE nobufs > 0 /\ EndTurn(backoff(w)) /\ net' = n /\ nobufs' = nobufs - 1
  <2>1. backoff(w) \in Counters /\ backoff(w).ntransmitted = w.ntransmitted
    BY <1>1, <1>2 DEF backoff, Counters
  <2>2. st' \in Counters /\ Same(backoff(w), st') /\ pc' = "loop" /\ Named(st', reported')
    BY <1>2, <1>6, <2>1, EndTurnNamed DEF Named
  <2>3. st'.ntransmitted = s.ntransmitted
    BY <1>2, <2>1, <2>2 DEF Same
  <2>4. nobufs \in 1 .. MaxNoBufs /\ nobufs' \in 0 .. MaxNoBufs
    BY <1>6, Constants
  <2>5. Fits(w, A, nobufs) => Fits(backoff(w), A, nobufs - 1)
    BY <1>1, <2>4, BackoffFits
  <2>6. Fits(s, A, nobufs) => Fits(st', A, nobufs')
    BY <1>2, <1>6, <2>2, <2>5, SameFits
  <2>7. nobufs' # MaxNoBufs
    BY <1>6, <2>4, Constants
  <2> QED BY <1>6, <2>2, <2>3, <2>4, <2>6, <2>7 DEF After
<1>7. CASE EndTurn([w EXCEPT !.almost_done = TRUE]) /\ net' = n /\ UNCHANGED nobufs
  <2> DEFINE d == [w EXCEPT !.almost_done = TRUE]
  <2>1. d \in Counters /\ Same(w, d)
    BY <1>1 DEF Counters, Same
  <2>2. EndTurn(d)
    BY <1>7
  <2> HIDE DEF d
  <2>3. d.ntransmitted = w.ntransmitted
    BY <2>1 DEF Same
  <2>4. st' \in Counters /\ Same(d, st') /\ pc' = "loop" /\ Named(st', reported')
    BY <1>2, <2>1, <2>2, <2>3, EndTurnNamed DEF Named
  <2>5. st'.ntransmitted = s.ntransmitted
    BY <1>2, <2>3, <2>4 DEF Same
  <2>6. Fits(s, A, nobufs) => Fits(st', A, nobufs')
    BY <1>2, <1>7, <2>1, <2>4, SameFits
  <2>7. Balanced(s) => Balanced(st')
    BY <1>b, <2>1, <2>4, SameBalanced
  <2> QED BY <1>7, <2>4, <2>5, <2>6, <2>7 DEF After
<1> QED BY <1>3, <1>4, <1>5, <1>6, <1>7

\* A turn in which a packet was read.
LEMMA AfterPacketAfter ==
  ASSUME opt \in Options, nobufs \in 0 .. MaxNoBufs, NEW s \in Counters, Named(s, reported),
         NEW n \in SUBSET (0 .. s.ntransmitted - 1), NEW A \in SUBSET (0 .. s.ntransmitted - 1),
         AfterPacket(s, n)
  PROVE  After(s, A)
<1>1. CASE Transmit(s, n)
  BY <1>1, TransmitAfter
<1>2. CASE st' = s /\ pc' \in {"loop", "done"} /\ net' = n /\ UNCHANGED <<nobufs, reported>>
  BY <1>2 DEF After
<1> QED BY <1>1, <1>2 DEF AfterPacket

\* A reply keeps the types, and the number of requests.
LEMMA PackType ==
  ASSUME NEW s \in Counters, NEW k \in Nat
  PROVE  pr_pack(s, k) \in Counters /\ pr_pack(s, k).ntransmitted = s.ntransmitted
<1> DEFINE bit == (k % SeqSpace) % mx_dup_ck
           a == s.nrepeats + 1
           b == s.nreceived + 1
           c == s.rcvd_tbl \cup {bit}
<1>1. bit \in 0 .. mx_dup_ck - 1
  BY Constants
<1>2. a \in Nat /\ b \in Nat /\ c \in SUBSET (0 .. mx_dup_ck - 1)
  BY <1>1, Fields
<1>3. pr_pack(s, k) = [s EXCEPT !.nrepeats = a]
      \/ pr_pack(s, k) = [s EXCEPT !.nreceived = b, !.rcvd_tbl = c]
  BY DEF pr_pack
<1> HIDE DEF a, b, c
<1> QED BY <1>2, <1>3 DEF Counters

-----------------------------------------------------------------------------
(* The inductive invariant *)

\* Nothing has been sent or read at first.
LEMMA InitIInv == Init => IInv
<1> SUFFICES ASSUME Init PROVE IInv
  OBVIOUS
<1>1. opt \in Options /\ opt.sweepmin \in Nat
  BY OptionTypes DEF Init
<1>2. st \in Counters /\ st.ntransmitted = 0 /\ st.nreceived = 0 /\ st.rcvd_tbl = {}
  BY <1>1 DEF Init, Zero, Counters
<1>3. TypeOK
  BY <1>1, <1>2, Constants DEF Init, TypeOK
<1>4. IsFiniteSet({}) /\ Cardinality({}) = 0
  BY FS_EmptySet
<1>5. Fits(st, answered, nobufs)
  BY <1>2, <1>4 DEF Init, Fits
<1>6. nobufs <= MaxNoBufs
  BY Constants DEF Init
<1>7. open(st) = {}
  BY <1>2 DEF open
<1>8. Balanced(st)
  BY <1>2, <1>4, <1>7 DEF Balanced
<1> QED BY <1>2, <1>3, <1>4, <1>5, <1>6, <1>8 DEF IInv, Init

\* The preload sets all its bits free at once.
LEMMA StartIInv ==
  ASSUME IInv, Start
  PROVE  IInv'
<1>1. PICK refused \in 0 .. (IF opt.flood THEN nobufs ELSE 0) :
       /\ refused <= preload
       /\ nobufs' = nobufs - refused
       /\ st' = [st EXCEPT !.ntransmitted = preload - refused,
                           !.sntransmitted = preload - refused]
       /\ net' = 0 .. preload - refused - 1
  BY DEF Start
<1> DEFINE m == preload - refused
<1>2. nobufs \in Nat /\ nobufs <= MaxNoBufs /\ MaxNoBufs \in Nat /\ refused \in 0 .. nobufs
      /\ opt \in Options /\ st \in Counters
  BY Constants DEF IInv, TypeOK
<1>3. m \in Nat
  BY <1>1, <1>2, OptionTypes
<1>4. nobufs' \in Nat /\ nobufs' <= MaxNoBufs
  BY <1>1, <1>2
<1>5. st' = [st EXCEPT !.ntransmitted = m, !.sntransmitted = m] /\ net' = 0 .. m - 1
  BY <1>1
<1> HIDE DEF m
<1>6. st' \in Counters /\ st'.ntransmitted = m /\ st'.nreceived = st.nreceived
      /\ st'.rcvd_tbl = st.rcvd_tbl
  BY <1>2, <1>3, <1>5 DEF Counters
<1>7. st.rcvd_tbl = {} /\ answered = {} /\ reported = -1 /\ st.nreceived = 0
      /\ IsFiniteSet(answered)
  BY DEF IInv, Start
<1>8. pc' = "loop" /\ UNCHANGED <<opt, finish_up, dups, answered, late, reported>>
  BY DEF Start
<1>9. TypeOK'
  BY <1>4, <1>5, <1>6, <1>7, <1>8 DEF IInv, TypeOK
<1>10. Fits(st', answered', nobufs')
  BY <1>6, <1>7, <1>8, FS_EmptySet DEF Fits
<1>11. Balanced(st')
  <2> DEFINE f == [k \in 0 .. m - 1 |-> k % mx_dup_ck]
  <2>1. open(st') = {f[k] : k \in 0 .. m - 1}
    BY <1>6, <1>7 DEF open
  <2>2. IsFiniteSet(0 .. m - 1) /\ Cardinality(0 .. m - 1) = m
    BY <1>3, FS_Interval
  <2>3. f \in Surjection(0 .. m - 1, open(st'))
    BY <2>1 DEF Surjection
  <2> HIDE DEF f
  <2>4. Cardinality(open(st')) <= m
    BY <2>2, <2>3, FS_Surjection
  <2>5. Cardinality(open(st')) \in Nat
    BY <1>6, OpenFinite
  <2> QED BY <1>3, <1>6, <1>7, <2>4, <2>5 DEF Balanced
<1> QED BY <1>4, <1>7, <1>8, <1>9, <1>10, <1>11 DEF IInv

\* A turn that leaves the loop's other variables alone.
LEMMA TurnIInv ==
  ASSUME IInv, After(st, answered), UNCHANGED <<opt, finish_up, answered, late>>, dups' \in Nat
  PROVE  IInv'
<1>1. TypeOK'
  BY Constants DEF IInv, TypeOK, After, Named
<1>2. nobufs' <= MaxNoBufs /\ pc' # "start"
  BY Constants DEF After
<1>3. ~ late' => Fits(st', answered', nobufs')
  BY DEF After, IInv
<1>4. nobufs' = MaxNoBufs => Balanced(st')
  BY DEF After, IInv
<1> QED BY <1>1, <1>2, <1>3, <1>4 DEF IInv

\* A reply, and the turn it is part of.
LEMMA ReceiveIInv ==
  ASSUME IInv, NEW k \in net, Receive(k)
  PROVE  IInv'
<1> DEFINE s == pr_pack(st, k)
           A == answered \cup {k}
<1>1. /\ opt \in Options /\ st \in Counters /\ nobufs \in 0 .. MaxNoBufs
      /\ k \in 0 .. st.ntransmitted - 1 /\ st.ntransmitted \in Nat /\ k \in Nat
      /\ net \in SUBSET (0 .. st.ntransmitted - 1)
      /\ answered \in SUBSET (0 .. st.ntransmitted - 1) /\ Named(st, reported)
      /\ IsFiniteSet(answered)
  BY Constants, Fields DEF IInv, TypeOK, Named
<1>2. s \in Counters /\ s.ntransmitted = st.ntransmitted
  BY <1>1, PackType
<1>3. IsFiniteSet(A)
  BY <1>1, FS_AddElement
<1>4. ~ late' => Fits(s, A, nobufs)
  <2> SUFFICES ASSUME ~ late' PROVE Fits(s, A, nobufs)
    OBVIOUS
  <2>1. ~ late /\ ~ cleared(k)
    BY DEF Receive
  <2>2. k + mx_dup_ck >= st.ntransmitted + ahead(nobufs)
    BY <1>1, <2>1, Constants DEF cleared, ahead
  <2>3. Fits(st, answered, nobufs)
    BY <2>1 DEF IInv
  <2> QED BY <1>1, <2>2, <2>3, PackFits
<1>b. nobufs = MaxNoBufs => Balanced(s)
  BY <1>1, PackBalanced DEF IInv
<1>5. /\ AfterPacket(s, net \ {k}) \/ AfterPacket(s, net)
      /\ answered' = A /\ UNCHANGED <<opt, finish_up>> /\ late' \in BOOLEAN
  BY DEF Receive, IInv, TypeOK
<1>6. dups' \in Nat
  BY DEF Receive, IInv, TypeOK
<1> HIDE DEF s
<1>7. Named(s, reported) /\ A \in SUBSET (0 .. s.ntransmitted - 1)
      /\ net \in SUBSET (0 .. s.ntransmitted - 1) /\ net \ {k} \in SUBSET (0 .. s.ntransmitted - 1)
  BY <1>1, <1>2 DEF Named
<1> HIDE DEF A
<1>8. After(s, A)
  BY <1>1, <1>2, <1>5, <1>7, AfterPacketAfter
<1>9. TypeOK'
  BY <1>5, <1>6, <1>8, Constants DEF IInv, TypeOK, After, Named
<1>10. nobufs' <= MaxNoBufs /\ pc' # "start"
  BY <1>8, Constants DEF After
<1>11. ~ late' => Fits(st', answered', nobufs')
  BY <1>4, <1>5, <1>8 DEF After
<1>12. nobufs' = MaxNoBufs => Balanced(st')
  BY <1>b, <1>8 DEF After
<1> QED BY <1>3, <1>5, <1>9, <1>10, <1>11, <1>12 DEF IInv

\* Every step keeps the invariant.
LEMMA NextIInv == IInv /\ [Next]_vars => IInv'
<1> SUFFICES ASSUME IInv, [Next]_vars PROVE IInv'
  OBVIOUS
<1>1. /\ opt \in Options /\ st \in Counters /\ nobufs \in 0 .. MaxNoBufs
      /\ net \in SUBSET (0 .. st.ntransmitted - 1)
      /\ answered \in SUBSET (0 .. st.ntransmitted - 1) /\ Named(st, reported)
  BY Constants DEF IInv, TypeOK, Named
<1>2. CASE Start
  BY <1>2, StartIInv
<1>3. CASE Loop
  BY <1>3 DEF Loop, IInv, TypeOK
<1>4. CASE Timeout
  <2>1. After(st, answered)
    BY <1>1, <1>4, TransmitAfter DEF Timeout
  <2>2. UNCHANGED <<opt, finish_up, answered, late>> /\ dups' \in Nat
    BY <1>4 DEF Timeout, IInv, TypeOK
  <2> QED BY <2>1, <2>2, TurnIInv
<1>5. CASE Other
  <2>1. After(st, answered)
    BY <1>1, <1>5, AfterPacketAfter DEF Other
  <2>2. UNCHANGED <<opt, finish_up, answered, late>> /\ dups' \in Nat
    BY <1>5 DEF Other, IInv, TypeOK
  <2> QED BY <2>1, <2>2, TurnIInv
<1>6. CASE Status
  BY <1>6 DEF Status, IInv, TypeOK
<1>7. CASE Signal
  BY <1>7 DEF Signal, IInv, TypeOK
<1>8. CASE \E k \in net : Receive(k)
  BY <1>8, ReceiveIInv
<1>9. CASE UNCHANGED vars
  BY <1>9 DEF vars, IInv, TypeOK
<1> QED BY <1>2, <1>3, <1>4, <1>5, <1>6, <1>7, <1>8, <1>9 DEF Next

-----------------------------------------------------------------------------
(* "Request timeout for icmp_seq" *)

\* nmissedmax is never below the number of requests before the last that no
\* reply was read to.  So when the count of the missing passes it, the request
\* before the last is one of them.
Known(s, A) == Cardinality((0 .. s.ntransmitted - 2) \ A) <= s.nmissedmax

Noted == ~ opt.flood /\ opt.preload <= 1 /\ ~ late => Known(st, answered)

\* Of n requests, all but those answered are missing.
LEMMA Missing ==
  ASSUME NEW n \in Nat, NEW A \in SUBSET (0 .. n - 1), IsFiniteSet(A)
  PROVE  /\ Cardinality((0 .. n - 1) \ A) = n - Cardinality(A)
         /\ IsFiniteSet((0 .. n - 1) \ A) /\ Cardinality(A) \in Nat
<1>1. IsFiniteSet(0 .. n - 1) /\ Cardinality(0 .. n - 1) = n
  BY FS_Interval
<1>2. (0 .. n - 1) \cap A = A
  OBVIOUS
<1> DEFINE I == 0 .. n - 1
<1> HIDE DEF I
<1>3. /\ IsFiniteSet(I \ A)
      /\ Cardinality(I \ A) = Cardinality(I) - Cardinality(I \cap A)
  BY <1>1, FS_Difference DEF I
<1>4. Cardinality(A) \in Nat
  BY FS_CardinalityType
<1> QED BY <1>1, <1>2, <1>3, <1>4 DEF I

\* The last request is missing too, or it is not: one more at most.
LEMMA MissingBefore ==
  ASSUME NEW n \in Nat \ {0}, NEW A, NEW S, S = (0 .. n - 1) \ A
  PROVE  LET T == (0 .. n - 2) \ A
         IN  /\ IsFiniteSet(T) /\ Cardinality(T) \in Nat /\ Cardinality(S) \in Nat
             /\ Cardinality(S) <= Cardinality(T) + 1
             /\ n - 1 \in A => Cardinality(S) = Cardinality(T)
<1> DEFINE T == (0 .. n - 2) \ A
<1>1. IsFiniteSet(0 .. n - 2) /\ T \subseteq 0 .. n - 2
  BY FS_Interval
<1>2. IsFiniteSet(T) /\ Cardinality(T) \in Nat
  BY <1>1, FS_Subset, FS_CardinalityType
<1>3. CASE n - 1 \in A
  <2>1. S = T BY <1>3
  <2> QED BY <1>2, <2>1
<1>4. CASE n - 1 \notin A
  <2>1. S = T \cup {n - 1} /\ n - 1 \notin T BY <1>4
  <2>2. Cardinality(S) = Cardinality(T) + 1 BY <1>2, <2>1, FS_AddElement
  <2> QED BY <1>2, <1>4, <2>2
<1> QED BY <1>3, <1>4

\* The end of a turn in which a request was sent.  If the number of the missing
\* has grown, the request before the one just sent is not answered.
LEMMA SentKnown ==
  ASSUME NEW s \in Counters, NEW A \in SUBSET (0 .. s.ntransmitted - 1), IsFiniteSet(A),
         s.nreceived = Cardinality(A), Known(s, A), EndTurn(pinger(s))
  PROVE  Known(st', A) /\ (reported' = reported \/ reported' \notin A)
<1> DEFINE n == s.ntransmitted
           S == (0 .. n - 1) \ A
           p == pinger(s)
<1>1. n \in Nat /\ s.nreceived \in Nat /\ s.nmissedmax \in Nat
  BY Fields
<1>2. p.ntransmitted = n + 1 /\ p.nreceived = s.nreceived /\ p.nmissedmax = s.nmissedmax
  BY DEF pinger, Counters
<1>3. p \in Counters
  BY PingerType
<1>4. missed(p) = n - s.nreceived
  BY <1>1, <1>2 DEF missed
<1>5. Cardinality(S) = missed(p) /\ Cardinality(A) \in Nat
  BY <1>1, <1>4, Missing
<1>6. st' = noteMissed(p)
      /\ reported' = IF missed(p) > s.nmissedmax THEN n - 1 ELSE reported
  <2>1. p.ntransmitted - 2 = n - 1
    BY <1>1, <1>2
  <2> QED BY <1>2, <2>1 DEF EndTurn
<1> HIDE DEF p
<1>7. st'.nmissedmax >= missed(p) /\ st'.ntransmitted = n + 1
  <2>1. missed(p) \in Int
    BY <1>1, <1>4
  <2>2. CASE missed(p) > s.nmissedmax
    BY <1>2, <1>3, <1>6, <2>1, <2>2 DEF noteMissed, Counters
  <2>3. CASE ~ (missed(p) > s.nmissedmax)
    BY <1>1, <1>2, <1>3, <1>6, <2>1, <2>3 DEF noteMissed
  <2> QED BY <2>2, <2>3
<1>8. Known(st', A)
  <2>1. st'.ntransmitted - 2 = n - 1
    BY <1>1, <1>7
  <2> QED BY <1>5, <1>7, <2>1 DEF Known
<1>9. ASSUME missed(p) > s.nmissedmax PROVE n - 1 \notin A
  <2> SUFFICES ASSUME n - 1 \in A PROVE FALSE
    OBVIOUS
  <2>1. n # 0
    BY <1>1
  <2>2. Cardinality(S) = Cardinality((0 .. n - 2) \ A) /\ Cardinality(S) \in Nat
    BY <1>1, <2>1, MissingBefore
  <2>3. Cardinality((0 .. n - 2) \ A) <= s.nmissedmax
    BY DEF Known
  <2> QED BY <1>1, <1>5, <1>9, <2>2, <2>3
<1> QED BY <1>6, <1>8, <1>9

\* The end of the turn that begins the last wait: nothing is printed.
LEMMA WaitKnown ==
  ASSUME NEW s \in Counters, NEW A \in SUBSET (0 .. s.ntransmitted - 1), IsFiniteSet(A),
         s.nreceived = Cardinality(A), Known(s, A), EndTurn(s)
  PROVE  Known(st', A) /\ reported' = reported
<1> DEFINE n == s.ntransmitted
           S == (0 .. n - 1) \ A
<1>1. n \in Nat /\ s.nreceived \in Nat /\ s.nmissedmax \in Nat
  BY Fields
<1>2. missed(s) = n - s.nreceived - 1
  BY DEF missed
<1>3. Cardinality(S) = missed(s) + 1 /\ Cardinality(A) \in Nat
  BY <1>1, <1>2, Missing
<1>4. missed(s) <= s.nmissedmax
  <2>1. CASE n = 0
    BY <1>1, <1>2, <2>1
  <2>2. CASE n # 0
    <3>1. Cardinality(S) <= Cardinality((0 .. n - 2) \ A) + 1 /\ Cardinality(S) \in Nat
          /\ Cardinality((0 .. n - 2) \ A) \in Nat
      BY <1>1, <2>2, MissingBefore
    <3>2. Cardinality((0 .. n - 2) \ A) <= s.nmissedmax
      BY DEF Known
    <3> QED BY <1>1, <1>2, <1>3, <3>1, <3>2
  <2> QED BY <2>1, <2>2
<1>5. ~ (missed(s) > s.nmissedmax)
  BY <1>1, <1>2, <1>4
<1> QED BY <1>5 DEF EndTurn, noteMissed

\* One turn of the loop in which a request was due, without -f.
LEMMA TransmitKnown ==
  ASSUME opt \in Options, NEW s \in Counters, NEW A \in SUBSET (0 .. s.ntransmitted - 1),
         IsFiniteSet(A), s.nreceived = Cardinality(A), Known(s, A), ~ opt.flood,
         NEW n, Transmit(s, n)
  PROVE  Known(st', A) /\ (reported' = reported \/ reported' \notin A)
<1> DEFINE w == nextSize(s)
           d == [w EXCEPT !.almost_done = TRUE]
<1>1. w \in Counters /\ Same(s, w)
  BY NextSizeSame
<1>2. w.nmissedmax = s.nmissedmax
  BY DEF nextSize, Counters
<1>3. \/ st' = w /\ reported' = reported
      \/ EndTurn(pinger(w))
      \/ EndTurn(d)
  BY DEF Transmit
<1>4. d \in Counters /\ Same(w, d) /\ d.nmissedmax = w.nmissedmax
  BY <1>1 DEF Counters, Same
<1> HIDE DEF w, d
<1>5. w.ntransmitted = s.ntransmitted /\ w.nreceived = s.nreceived
      /\ d.ntransmitted = s.ntransmitted /\ d.nreceived = s.nreceived
  BY <1>1, <1>4 DEF Same
<1>6. Known(w, A) /\ Known(d, A)
  BY <1>2, <1>4, <1>5 DEF Known
<1>7. CASE st' = w /\ reported' = reported
  BY <1>6, <1>7
<1>8. CASE EndTurn(pinger(w))
  BY <1>1, <1>5, <1>6, <1>8, SentKnown
<1>9. CASE EndTurn(d)
  BY <1>4, <1>5, <1>6, <1>9, WaitKnown
<1> QED BY <1>3, <1>7, <1>8, <1>9

\* A reply more: fewer requests are missing.
LEMMA PackKnown ==
  ASSUME NEW s \in Counters, NEW A, NEW k \in Nat, Known(s, A)
  PROVE  Known(pr_pack(s, k), A \cup {k})
<1> DEFINE T == (0 .. s.ntransmitted - 2) \ A
           U == (0 .. s.ntransmitted - 2) \ (A \cup {k})
           p == pr_pack(s, k)
<1>1. s.ntransmitted - 2 \in Int /\ s.nmissedmax \in Nat
  BY Fields
<1>2. \A j \in Int : IsFiniteSet(0 .. j)
  BY FS_Interval
<1>3. IsFiniteSet(T)
  <2>1. IsFiniteSet(0 .. s.ntransmitted - 2)
    BY <1>1, <1>2
  <2> QED BY <2>1, FS_Subset
<1>4. Cardinality(U) <= Cardinality(T) /\ IsFiniteSet(U)
  BY <1>3, FS_Subset
<1>5. Cardinality(U) \in Nat /\ Cardinality(T) \in Nat
  BY <1>3, <1>4, FS_CardinalityType
<1>6. p.ntransmitted = s.ntransmitted /\ p.nmissedmax = s.nmissedmax
  BY DEF pr_pack, Counters
<1>7. Cardinality(T) <= s.nmissedmax
  BY DEF Known
<1> HIDE DEF p
<1>8. Known(p, A \cup {k})
  BY <1>1, <1>4, <1>5, <1>6, <1>7 DEF Known
<1> QED BY <1>8 DEF p

\* What a step does to the line that was printed last.
LineTrue == ~ late' /\ ~ opt.flood /\ opt.preload <= 1
              => reported' = reported \/ reported' \notin answered'

\* No request is missing at first.
LEMMA InitNoted == Init => Noted
<1> SUFFICES ASSUME Init PROVE Known(st, answered)
  BY DEF Noted
<1>1. st.ntransmitted = 0 /\ st.nmissedmax = 0
  BY DEF Init, Zero
<1>2. (0 .. st.ntransmitted - 2) \ answered = {}
  BY <1>1
<1> QED BY <1>1, <1>2, FS_EmptySet DEF Known

\* Every step keeps nmissedmax up to date, and prints nothing false.
LEMMA NextNoted == IInv /\ Noted /\ [Next]_vars => Noted' /\ LineTrue
<1> SUFFICES ASSUME IInv, Noted, [Next]_vars PROVE Noted' /\ LineTrue
  OBVIOUS
<1>0. opt' = opt
  BY DEF Next, vars, Start, Loop, Timeout, Other, Status, Signal, Receive
<1> SUFFICES ASSUME ~ late', ~ opt.flood, opt.preload <= 1
             PROVE  /\ Known(st', answered')
                    /\ reported' = reported \/ reported' \notin answered'
  BY <1>0 DEF Noted, LineTrue
<1>1. /\ opt \in Options /\ st \in Counters /\ IsFiniteSet(answered)
      /\ net \subseteq 0 .. st.ntransmitted - 1
      /\ answered \in SUBSET (0 .. st.ntransmitted - 1)
  BY DEF IInv, TypeOK
<1>2. ~ late
  BY DEF Next, vars, Start, Loop, Timeout, Other, Status, Signal, Receive
<1>3. st.nreceived = Cardinality(answered)
  BY <1>2 DEF IInv, Fits
<1>4. Known(st, answered)
  BY <1>2 DEF Noted
<1>5. CASE Start
  <2>1. opt.preload \in Nat /\ opt.count \in Nat
    BY <1>1, OptionsAssumption DEF OptionsAssumption
  <2>2. preload = 1
    <3>1. opt.preload = 0 \/ opt.preload = 1
      BY <2>1
    <3>2. npackets # 0 => ~ (1 > npackets)
      BY <1>1, OptionTypes
    <3> QED BY <3>1, <3>2 DEF preload
  <2>3. st' = [st EXCEPT !.ntransmitted = 1, !.sntransmitted = 1]
        /\ answered' = answered /\ reported' = reported
    <3>1. PICK refused \in 0 .. 0 :
            st' = [st EXCEPT !.ntransmitted = preload - refused,
                             !.sntransmitted = preload - refused]
      BY <1>5 DEF Start
    <3>2. refused = 0 /\ 1 - 0 = 1
      OBVIOUS
    <3> QED BY <1>5, <2>2, <3>1, <3>2 DEF Start
  <2>4. st'.ntransmitted = 1 /\ st'.nmissedmax = st.nmissedmax /\ st.nmissedmax \in Nat
    BY <1>1, <2>3, Fields DEF Counters
  <2>5. (0 .. st'.ntransmitted - 2) \ answered' = {}
    BY <2>4
  <2>6. Known(st', answered')
    BY <2>4, <2>5, FS_EmptySet DEF Known
  <2> QED BY <2>3, <2>6
<1>6. CASE Timeout
  <2>1. Transmit(st, net) /\ answered' = answered
    BY <1>6 DEF Timeout
  <2> QED BY <1>1, <1>3, <1>4, <2>1, TransmitKnown
<1>7. CASE \E k \in net : Receive(k)
  <2>1. PICK k \in net : Receive(k)
    BY <1>7
  <2>2. st' = pr_pack(st, k) /\ reported' = reported
    BY <2>1 DEF Receive, AfterPacket
  <2>3. answered' = answered \cup {k} /\ k \in Nat
    BY <1>1, <2>1 DEF Receive
  <2> QED BY <1>1, <1>4, <2>2, <2>3, PackKnown
<1>8. CASE Other
  <2>1. st' = st /\ reported' = reported
    BY <1>8 DEF Other, AfterPacket
  <2> QED BY <1>4, <1>8, <2>1 DEF Other
<1>9. CASE Loop \/ Status \/ Signal \/ UNCHANGED vars
  BY <1>4, <1>9 DEF Loop, Status, Signal, vars
<1> QED BY <1>5, <1>6, <1>7, <1>8, <1>9 DEF Next

-----------------------------------------------------------------------------
(* The lengths of a sweep *)

\* A sweep whose first size holds the requests of the preload.
Sweeping == opt.sweepmax > 0 /\ opt.preload <= snpackets

\* The counters in round r of the sweep.
InRound(s, r) ==
  /\ s.ntransmitted = snpackets * r + s.sntransmitted
  /\ s.sntransmitted <= snpackets
  /\ s.datalen = opt.sweepmin + r * opt.sweepincr

Sized == Sweeping => /\ pc # "done" => \E r \in Nat : InRound(st, r)
                     /\ pc = "start" => st.datalen = opt.sweepmin

\* What pr_pack expects is the length that request k goes out with.
LengthTrue == Sweeping =>
  \A k \in st.ntransmitted .. st'.ntransmitted - 1 :
     k < SeqSpace => st'.datalen = seq_datalen(k)

\* A round has a request at least.
LEMMA RoundType ==
  ASSUME opt \in Options
  PROVE  snpackets \in Nat \ {0} /\ opt.preload \in Nat
<1>1. opt.count \in Nat /\ opt.preload \in Nat
  BY OptionsAssumption DEF OptionsAssumption
<1> QED BY <1>1 DEF snpackets

\* The length expected of a request in round r.
LEMMA RoundLength ==
  ASSUME opt \in Options, NEW r \in Nat, NEW i \in 0 .. snpackets - 1, NEW k \in Nat,
         k = snpackets * r + i, k < SeqSpace
  PROVE  seq_datalen(k) = opt.sweepmin + r * opt.sweepincr
<1>1. k % SeqSpace = k
  BY Constants, ModSmall
<1>2. k \div snpackets = r
  BY RoundType, DivShift
<1> QED BY <1>1, <1>2 DEF seq_datalen

\* The next size of a sweep that goes on: a round that is not full.
LEMMA NextSizeRound ==
  ASSUME opt \in Options, NEW s \in Counters, NEW r \in Nat, InRound(s, r), opt.sweepmax > 0,
         ~ (roundOver(s) /\ nextSize(s).datalen > opt.sweepmax)
  PROVE  \E q \in Nat : InRound(nextSize(s), q) /\ nextSize(s).sntransmitted < snpackets
<1> DEFINE w == nextSize(s)
<1>1. /\ s.ntransmitted \in Nat /\ s.sntransmitted \in Nat /\ s.datalen \in Nat
      /\ snpackets \in Nat \ {0} /\ opt.sweepmin \in Nat /\ opt.sweepincr \in Nat
  BY Fields, RoundType, OptionTypes
<1>2. CASE ~ roundOver(s)
  <2>1. w = s
    BY <1>2 DEF nextSize
  <2>2. s.sntransmitted < snpackets
    BY <1>1, <1>2 DEF roundOver, InRound
  <2> QED BY <2>1, <2>2
<1>3. CASE roundOver(s)
  <2> DEFINE d == s.datalen + opt.sweepincr
  <2>1. w = [s EXCEPT !.datalen = d, !.sntransmitted = 0]
    <3>1. [s EXCEPT !.datalen = d].datalen = d
      BY DEF Counters
    <3>2. ~ (d > opt.sweepmax)
      BY <1>3, <3>1 DEF nextSize
    <3> QED BY <1>3, <3>2 DEF nextSize
  <2>2. w.datalen = d /\ w.sntransmitted = 0 /\ w.ntransmitted = s.ntransmitted
    BY <2>1 DEF Counters
  <2>3. snpackets * (r + 1) = snpackets * r + snpackets
        /\ (r + 1) * opt.sweepincr = r * opt.sweepincr + opt.sweepincr
    BY <1>1, Z3
  <2>4. snpackets * r \in Nat /\ r * opt.sweepincr \in Nat
    BY <1>1
  <2>5. w.ntransmitted = snpackets * (r + 1) + w.sntransmitted
    BY <1>1, <1>3, <2>2, <2>3, <2>4 DEF InRound, roundOver
  <2>6. w.datalen = opt.sweepmin + (r + 1) * opt.sweepincr
    BY <1>1, <2>2, <2>3, <2>4 DEF InRound
  <2> HIDE DEF w
  <2>7. InRound(w, r + 1) /\ w.sntransmitted < snpackets
    BY <1>1, <2>2, <2>5, <2>6 DEF InRound
  <2> QED BY <2>7 DEF w
<1> QED BY <1>2, <1>3

\* The count of the missing leaves the sweep alone.
LEMMA NoteMissedSizes ==
  ASSUME NEW s \in Counters
  PROVE  LET t == noteMissed(s)
         IN  /\ t.ntransmitted = s.ntransmitted /\ t.sntransmitted = s.sntransmitted
             /\ t.datalen = s.datalen
BY DEF noteMissed, Counters

\* One turn of the loop in which a request was due.
LEMMA TransmitRound ==
  ASSUME opt \in Options, NEW s \in Counters, NEW r \in Nat, InRound(s, r), opt.sweepmax > 0,
         NEW n, Transmit(s, n)
  PROVE  /\ pc' # "done" => \E q \in Nat : InRound(st', q)
         /\ \A k \in s.ntransmitted .. st'.ntransmitted - 1 :
              k < SeqSpace => st'.datalen = seq_datalen(k)
         /\ pc' # "start"
<1> DEFINE w == nextSize(s)
           over == roundOver(s) /\ w.datalen > opt.sweepmax
<1>1. w \in Counters /\ w.ntransmitted = s.ntransmitted
  BY NextSizeSame DEF Same
<1>2. npackets = 0
  BY DEF npackets
<1>3. \/ st' = w /\ pc' = "done"
      \/ ~ over /\ EndTurn(pinger(w))
      \/ ~ over /\ EndTurn(backoff(w))
  BY <1>2 DEF Transmit
<1>4. /\ s.ntransmitted \in Nat /\ w.sntransmitted \in Nat /\ snpackets \in Nat \ {0}
  BY <1>1, Fields, RoundType
<1>5. ASSUME ~ over
      PROVE  \E q \in Nat : InRound(w, q) /\ w.sntransmitted < snpackets
  BY <1>5, NextSizeRound
<1> HIDE DEF w, over
<1>6. CASE st' = w /\ pc' = "done"
  BY <1>1, <1>4, <1>6
<1>7. CASE ~ over /\ EndTurn(pinger(w))
  <2>1. PICK q \in Nat : InRound(w, q) /\ w.sntransmitted < snpackets
    BY <1>5, <1>7
  <2>2. pinger(w) \in Counters
    BY <1>1, PingerType
  <2>3. /\ pinger(w).ntransmitted = w.ntransmitted + 1
        /\ pinger(w).sntransmitted = w.sntransmitted + 1
        /\ pinger(w).datalen = w.datalen
    BY <1>1 DEF pinger, Counters
  <2>4. st' = noteMissed(pinger(w)) /\ pc' = "loop"
    BY <1>7 DEF EndTurn
  <2>5. st'.ntransmitted = s.ntransmitted + 1 /\ st'.sntransmitted = w.sntransmitted + 1
        /\ st'.datalen = w.datalen
    BY <1>1, <2>2, <2>3, <2>4, NoteMissedSizes
  <2>6. snpackets * q \in Nat
    BY <1>4
  <2>7. InRound(st', q)
    BY <1>1, <1>4, <2>1, <2>5, <2>6 DEF InRound
  <2>8. ASSUME NEW k \in s.ntransmitted .. st'.ntransmitted - 1, k < SeqSpace
        PROVE  st'.datalen = seq_datalen(k)
    <3>1. k = s.ntransmitted
      BY <1>4, <2>5
    <3>2. k = snpackets * q + w.sntransmitted /\ w.sntransmitted \in 0 .. snpackets - 1
          /\ k \in Nat
      BY <1>1, <1>4, <2>1, <3>1 DEF InRound
    <3>3. seq_datalen(k) = opt.sweepmin + q * opt.sweepincr
      BY <2>8, <3>2, RoundLength
    <3> QED BY <2>1, <2>5, <3>3 DEF InRound
  <2> QED BY <2>4, <2>7, <2>8
<1>8. CASE ~ over /\ EndTurn(backoff(w))
  <2>1. PICK q \in Nat : InRound(w, q)
    BY <1>5, <1>8
  <2>2. /\ backoff(w) \in Counters
        /\ backoff(w).ntransmitted = w.ntransmitted
        /\ backoff(w).sntransmitted = w.sntransmitted /\ backoff(w).datalen = w.datalen
    BY <1>1 DEF backoff, Counters
  <2>3. st' = noteMissed(backoff(w)) /\ pc' = "loop"
    BY <1>8 DEF EndTurn
  <2>4. st'.ntransmitted = w.ntransmitted /\ st'.sntransmitted = w.sntransmitted
        /\ st'.datalen = w.datalen
    BY <2>2, <2>3, NoteMissedSizes
  <2>5. InRound(st', q)
    BY <2>1, <2>4 DEF InRound
  <2> QED BY <1>1, <1>4, <2>3, <2>4, <2>5
<1> QED BY <1>3, <1>6, <1>7, <1>8

\* A reply leaves the sweep alone.
LEMMA PackRound ==
  ASSUME NEW s \in Counters, NEW k \in Nat, NEW r, InRound(s, r)
  PROVE  InRound(pr_pack(s, k), r)
<1> DEFINE p == pr_pack(s, k)
<1>1. p.ntransmitted = s.ntransmitted /\ p.sntransmitted = s.sntransmitted
      /\ p.datalen = s.datalen
  BY DEF pr_pack, Counters
<1> HIDE DEF p
<1>2. InRound(p, r)
  BY <1>1 DEF InRound
<1> QED BY <1>2 DEF p

\* A packet was read, then perhaps a request sent at once.
LEMMA PacketRound ==
  ASSUME opt \in Options, NEW s \in Counters, NEW r \in Nat, InRound(s, r), opt.sweepmax > 0,
         NEW n, AfterPacket(s, n)
  PROVE  /\ pc' # "done" => \E q \in Nat : InRound(st', q)
         /\ \A k \in s.ntransmitted .. st'.ntransmitted - 1 :
              k < SeqSpace => st'.datalen = seq_datalen(k)
         /\ pc' # "start"
<1>1. CASE Transmit(s, n)
  BY <1>1, TransmitRound
<1>2. CASE st' = s /\ pc' \in {"loop", "done"}
  BY <1>2, Fields
<1> QED BY <1>1, <1>2 DEF AfterPacket

\* The preload is part of the first round.
LEMMA StartRound ==
  ASSUME IInv, Sized, Start, Sweeping
  PROVE  /\ InRound(st', 0) /\ pc' = "loop"
         /\ \A k \in st.ntransmitted .. st'.ntransmitted - 1 :
              k < SeqSpace => st'.datalen = seq_datalen(k)
<1>1. opt \in Options /\ st \in Counters
  BY DEF IInv, TypeOK
<1>2. snpackets \in Nat \ {0} /\ opt.preload \in Nat /\ opt.sweepmin \in Nat
      /\ opt.sweepincr \in Nat /\ st.ntransmitted \in Nat
  BY <1>1, RoundType, OptionTypes, Fields
<1>3. preload \in Nat /\ preload <= snpackets
  <2>1. npackets = 0
    BY DEF npackets, Sweeping
  <2>2. preload = IF opt.preload = 0 THEN 1 ELSE opt.preload
    BY <2>1 DEF preload
  <2> QED BY <1>2, <2>2 DEF Sweeping
<1>4. PICK m \in 0 .. preload : st' = [st EXCEPT !.ntransmitted = m, !.sntransmitted = m]
  <2>1. PICK refused \in 0 .. (IF opt.flood THEN nobufs ELSE 0) :
          /\ refused <= preload
          /\ st' = [st EXCEPT !.ntransmitted = preload - refused,
                              !.sntransmitted = preload - refused]
    BY DEF Start
  <2>2. nobufs \in Nat
    BY DEF IInv, TypeOK
  <2>3. refused \in Nat
    BY <2>2
  <2>4. preload - refused \in 0 .. preload
    BY <1>3, <2>1, <2>3
  <2> QED BY <2>1, <2>4
<1>5. st'.ntransmitted = m /\ st'.sntransmitted = m /\ st'.datalen = opt.sweepmin
  BY <1>1, <1>4 DEF Counters, Sized, Start
<1>6. snpackets * 0 = 0 /\ 0 * opt.sweepincr = 0
  BY <1>2, Z3
<1>7. m \in Nat /\ m <= snpackets
  BY <1>2, <1>3
<1>8. InRound(st', 0)
  BY <1>2, <1>5, <1>6, <1>7 DEF InRound
<1>9. ASSUME NEW k \in st.ntransmitted .. st'.ntransmitted - 1, k < SeqSpace
      PROVE  st'.datalen = seq_datalen(k)
  <2>1. k \in Nat /\ k \in 0 .. snpackets - 1 /\ k = snpackets * 0 + k
    BY <1>2, <1>5, <1>6, <1>7
  <2>2. seq_datalen(k) = opt.sweepmin + 0 * opt.sweepincr
    BY <1>1, <1>9, <2>1, RoundLength
  <2> QED BY <1>2, <1>5, <1>6, <2>2
<1> QED BY <1>8, <1>9 DEF Start

\* A sweep begins with its smallest size.
LEMMA InitSized == Init => Sized
<1> SUFFICES ASSUME Init PROVE InRound(st, 0) /\ st.datalen = opt.sweepmin
  BY DEF Sized
<1>1. opt \in Options
  BY DEF Init
<1>2. opt.sweepmin \in Nat /\ opt.sweepincr \in Nat /\ snpackets \in Nat
  BY <1>1, OptionTypes
<1>3. st.ntransmitted = 0 /\ st.sntransmitted = 0 /\ st.datalen = opt.sweepmin
  BY DEF Init, Zero
<1>4. snpackets * 0 = 0 /\ 0 * opt.sweepincr = 0
  BY <1>2, Z3
<1> QED BY <1>2, <1>3, <1>4 DEF InRound

\* Every step keeps the counters in a round, and sends its length.
LEMMA NextSized == IInv /\ Sized /\ [Next]_vars => Sized' /\ LengthTrue
<1> SUFFICES ASSUME IInv, Sized, [Next]_vars PROVE Sized' /\ LengthTrue
  OBVIOUS
<1>1. opt' = opt
  BY DEF Next, vars, Start, Loop, Timeout, Other, Status, Signal, Receive
<1> SUFFICES ASSUME Sweeping
             PROVE  /\ pc' # "done" => \E r \in Nat : InRound(st', r)
                    /\ pc' = "start" => st'.datalen = opt.sweepmin
                    /\ \A k \in st.ntransmitted .. st'.ntransmitted - 1 :
                         k < SeqSpace => st'.datalen = seq_datalen(k)
  BY <1>1 DEF Sized, LengthTrue, Sweeping, InRound, snpackets
<1>2. /\ opt \in Options /\ st \in Counters /\ st.ntransmitted \in Nat
      /\ net \subseteq 0 .. st.ntransmitted - 1 /\ opt.sweepmax > 0
  BY Fields DEF IInv, TypeOK, Sweeping
<1>3. CASE Start
  BY <1>3, StartRound
<1>4. CASE Timeout
  <2>1. Transmit(st, net) /\ pc # "done"
    BY <1>4 DEF Timeout
  <2>2. PICK r \in Nat : InRound(st, r)
    BY <2>1 DEF Sized
  <2> QED BY <1>2, <2>1, <2>2, TransmitRound
<1>5. CASE Other
  <2>1. AfterPacket(st, net) /\ pc # "done"
    BY <1>5 DEF Other
  <2>2. PICK r \in Nat : InRound(st, r)
    BY <2>1 DEF Sized
  <2> QED BY <1>2, <2>1, <2>2, PacketRound
<1>6. CASE \E k \in net : Receive(k)
  <2>1. PICK k \in net : Receive(k)
    BY <1>6
  <2>2. pc # "done" /\ k \in Nat
    BY <1>2, <2>1 DEF Receive
  <2>3. PICK r \in Nat : InRound(st, r)
    BY <2>2 DEF Sized
  <2> DEFINE p == pr_pack(st, k)
  <2>4. p \in Counters /\ p.ntransmitted = st.ntransmitted /\ InRound(p, r)
    BY <1>2, <2>2, <2>3, PackType, PackRound
  <2>5. PICK n : AfterPacket(p, n)
    BY <2>1 DEF Receive
  <2> HIDE DEF p
  <2> QED BY <1>2, <2>4, <2>5, PacketRound
<1>7. CASE Loop \/ Status \/ Signal \/ UNCHANGED vars
  <2>1. st' = st
    BY <1>7 DEF Loop, Status, Signal, vars
  <2>2. (pc' # "done" => pc # "done") /\ (pc' = "start" => pc = "start")
    BY <1>7 DEF Loop, Status, Signal, vars
  <2> QED BY <1>2, <2>1, <2>2 DEF Sized
<1> QED BY <1>3, <1>4, <1>5, <1>6, <1>7 DEF Next

-----------------------------------------------------------------------------
(* The theorems *)

\* The counters of ping keep their types, and only requests that were sent are
\* in flight, answered, or named in a "Request timeout" line.
THEOREM TypeCorrect == Spec => []TypeOK
<1>1. IInv => TypeOK
  BY DEF IInv
<1> QED BY <1>1, InitIInv, NextIInv, PTL DEF Spec

\* "packets received" is the number of requests answered, however the replies
\* are ordered and doubled and the bits of rcvd_tbl used again, unless a reply
\* came after its bit had been cleared for another request.
THEOREM CountsRight == Spec => []Exact
<1>1. IInv => Exact
  BY DEF IInv, Exact, Fits
<1> QED BY <1>1, InitIInv, NextIInv, PTL DEF Spec

\* finish() never has more packets received than transmitted to report, late
\* replies included, unless a send was refused.
THEOREM NoneInvented == Spec => []NeverMore
<1>1. IInv => NeverMore
  <2> SUFFICES ASSUME IInv, nobufs = MaxNoBufs PROVE st.nreceived <= st.ntransmitted
    BY DEF NeverMore
  <2>1. st \in Counters /\ st.nreceived + Cardinality(open(st)) <= st.ntransmitted
    BY DEF IInv, TypeOK, Balanced
  <2>2. Cardinality(open(st)) \in Nat /\ st.nreceived \in Nat /\ st.ntransmitted \in Nat
    BY <2>1, OpenFinite, Fields
  <2> QED BY <2>1, <2>2
<1> QED BY <1>1, InitIInv, NextIInv, PTL DEF Spec


\* "Request timeout for icmp_seq n" is true: with one request per interval it
\* is printed for a request no reply to which has been read, for any options
\* and table, unless a reply came after its bit had been cleared.
THEOREM TimeoutLinesAreTrue == Spec => ReportTrue
<1>1. IInv /\ Noted /\ [Next]_vars
        => [~ late' /\ ~ opt.flood /\ opt.preload <= 1
              => reported' = reported \/ reported' \notin answered']_vars
  BY NextNoted DEF LineTrue
<1> QED BY <1>1, InitIInv, NextIInv, InitNoted, NextNoted, PTL DEF Spec, ReportTrue


\* In a sweep pr_pack works out, from the 16-bit number of a reply alone, the
\* length its request was sent with, for any options and refused sends, until
\* the numbers wrap: the rounds hold snpackets requests each, none left out.
THEOREM LengthsAreRight == Spec => ExpectedLength
<1>1. IInv /\ Sized /\ [Next]_vars
        => [opt.sweepmax > 0 /\ opt.preload <= snpackets =>
              \A k \in st.ntransmitted .. st'.ntransmitted - 1 :
                 k < SeqSpace => st'.datalen = seq_datalen(k)]_vars
  BY NextSized DEF LengthTrue, Sweeping
<1> QED BY <1>1, InitIInv, NextIInv, InitSized, NextSized, PTL DEF Spec, ExpectedLength
=============================================================================
