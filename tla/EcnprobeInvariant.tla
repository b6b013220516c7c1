-------------------------- MODULE EcnprobeInvariant --------------------------
(***************************************************************************)
(* The invariant of ecnprobe, for any width of the sequence numbers, any    *)
(* initial numbers, any number of segments, repeats and packets queued, and *)
(* the proof that the server and the network keep it, with the lemmas about *)
(* sequence numbers, packets and verdicts that EcnprobeProofs needs for the *)
(* client.                                                                  *)
(*                                                                          *)
(* The properties are about the client; what makes them true is which       *)
(* packets can be in flight at each point (ClientPacket, ServerPacket).     *)
(* Numbers are told apart by their distance from the client's first byte,   *)
(* At(j), which the number of requests bounds (Session).                    *)
(***************************************************************************)
EXTENDS Ecnprobe, Numbers, TLAPS

Seqs == 0 .. SeqSpace - 1

Flags == {"SYN", "ACK", "ECE", "CWR", "PSH", "RST", "FIN", "404"}

Packet == [from : {"c", "s"}, flags : SUBSET Flags, seq : Seqs, ack : Seqs, len : 0 .. 1,
           ce : BOOLEAN]

SessionType ==
  [attempt : 1 .. 2, tries : 0 .. Tries, first : {"unknown", "rst", "none"}, iss : Seqs, irs : Seqs,
   snd_nxt : Seqs, snd_una : Seqs, rcv_nxt : Seqs, last : 0 .. ShortSpace - 1,
   got : SUBSET (0 .. Segments), send_cwr : 0 .. 2, send_ece : 0 .. 2]

Verdict == [sr : BOOLEAN, se : 0 .. 2, ar : BOOLEAN, ae : BOOLEAN, we : 0 .. 2, ee : 0 .. 2]

ServerType ==
  [mode : Modes, conn : {"listen", "open"}, irs : Seqs, rcv_nxt : Seqs, ecn : BOOLEAN,
   started : BOOLEAN, sent : 0 .. Segments, again : 0 .. MaxAgain, una : 0 .. Segments,
   ece : BOOLEAN, cwr : BOOLEAN, sawCWR : BOOLEAN, sentCWR : BOOLEAN]

Exits == {"running", "EARLY_RST", "NO_CONNECTION", "ECN_SYN_DROP", "SUCCESS", "HTTP",
          "NO_DATA_RCVD", "crash"}

TypeOK ==
  /\ pc \in {"syn", "data", "rcv", "end"} /\ exit \in Exits /\ s \in SessionType
  /\ seen \in Verdict /\ cap \in Seq(Packet) /\ net \in SUBSET Packet /\ srv \in ServerType
  /\ late \in BOOLEAN

-----------------------------------------------------------------------------
(* The invariant *)
\* The number of the j-th byte after the client's SYN, and whether `mine' in DataRead
\* can hold: lastSeqSent has only the low bits.
At(j) == plus(plus(s.iss, 1), j)

Low == plus(s.iss, 1) < SeqSpace \div 2

Extra == IF s.send_cwr = 0 THEN 0 ELSE 1

IsSyn(p) == p.flags \in {SynFlags(1), SynFlags(2)} /\ p.seq = s.iss /\ p.len = 0

IsRequest(p) == /\ p.flags = {"PSH", "ACK"} /\ p.ce
                /\ \E j \in 0 .. Tries - 1 : p.seq = At(j) /\ (j = 0 \/ Low)

IsCwr(p) == /\ p.flags = {"PSH", "ACK", "CWR"} /\ s.send_cwr # 0 /\ srv.started
            /\ \E j \in 0 .. Tries : p.seq = At(j)

IsAck(p) == p.flags \in {{"ACK"}, {"ACK", "ECE"}} /\ p.len = 0

\* The client's packets.
ClientPacket(p) == p.from = "c" => IsSyn(p) \/ IsRequest(p) \/ IsCwr(p) \/ IsAck(p)

IsRst(p) == p.flags = {"RST", "ACK"} /\ p.len = 0 /\ srv.mode \in {"closed", "rstecn"}

IsSynAck(p) == /\ {"SYN", "ACK"} \subseteq p.flags /\ p.flags \subseteq {"SYN", "ACK", "ECE"}
               /\ p.seq = srv.irs /\ p.len = 0 /\ srv.conn = "open"

IsSegment(p) == /\ "SYN" \notin p.flags /\ srv.conn = "open" /\ pc # "syn"
                /\ p.len = 0 \/ \E k \in 1 .. srv.sent : p.seq = plus(srv.irs, k)

\* The server's packets.  One without ECE, where ECN was agreed on and no CWR seen,
\* answers a request that came before the first.
ServerPacket(p) ==
  p.from = "s" =>
    /\ "ACK" \in p.flags
    /\ \E j \in 0 .. Tries + Extra : p.ack = At(j) /\ (j = 0 \/ srv.started)
    /\ "ECE" \in p.flags => srv.ecn
    /\ "CWR" \in p.flags => srv.sentCWR
    /\ srv.ecn /\ ~ srv.sawCWR /\ "ECE" \notin p.flags => p.ack = At(0) /\ Low
    /\ IsRst(p) \/ IsSynAck(p) \/ IsSegment(p)

PacketsOK ==
  /\ \A p \in net : ClientPacket(p) /\ ServerPacket(p)
  /\ \A p \in Elements(cap) : (p.from = "c" => IsRequest(p)) /\ ServerPacket(p)

ServerOK ==
  /\ srv.conn = "listen" => ~ srv.ecn
  /\ srv.ecn => Supports(srv.mode)
  /\ srv.started => srv.conn = "open" /\ pc # "syn"
  /\ ~ srv.started => srv.sent = 0 /\ (srv.conn = "open" => srv.rcv_nxt = At(0))
  /\ srv.conn = "open" => \E j \in 0 .. Tries + Extra : srv.rcv_nxt = At(j)
  /\ srv.ece => srv.ecn
  /\ srv.ecn /\ srv.started /\ ~ srv.sawCWR => srv.ece

\* Requests of the client that wait in the capture queue, and that there are k at most:
\* they can be numbered, in their order, with 1 .. k.
Mine(q) == {i \in DOMAIN q : q[i].from = "c"}

Fits(q, k) ==
  /\ k \in Nat
  /\ \E f \in [Mine(q) -> 1 .. k] : \A i, j \in Mine(q) : i < j => f[i] < f[j]

Synching ==
  pc = "syn" => /\ s.snd_nxt = s.iss /\ s.got = {0} /\ s.send_cwr = 0 /\ seen.we = 0
                /\ \A p \in net : p.from = "c" => IsSyn(p)
                /\ \A p \in Elements(cap) : p.from = "s"

Asking ==
  pc = "data" =>
    /\ s.snd_una = At(0) /\ s.rcv_nxt = plus(s.irs, 1) /\ s.irs = srv.irs /\ s.got = {0}
    /\ s.send_cwr = 0 /\ seen.we = 0 /\ srv.conn = "open"
    /\ \E i \in 0 .. Tries : /\ s.snd_nxt = At(i) /\ Fits(cap, s.tries - i)
                             /\ (i = 0 /\ s.last = At(0) % ShortSpace) \/ Low

Receiving ==
  pc = "rcv" =>
    /\ s.irs = srv.irs /\ srv.started
    /\ \E j \in 1 .. Tries + Extra : s.snd_una = At(j)
    /\ \E j \in 0 .. Tries + Extra : s.snd_nxt = At(j)
    /\ s.got \subseteq 0 .. srv.sent
    /\ \E n \in 1 .. srv.sent + 1 : /\ s.rcv_nxt = plus(s.irs, n)
                                    /\ 0 .. n - 1 \subseteq s.got /\ n \notin s.got

SeenOK == PassMeans /\ (seen.we = 1 => srv.ecn)

Ended == pc = "end" => net = {} /\ cap = <<>>

\* When nothing is late.
Waiting == net \cup Elements(cap)

Alone == \/ net = {} /\ Len(cap) = 1
         \/ cap = <<>> /\ \E p \in net : net = {p}

Open == Supports(srv.mode) \/ srv.mode = "plain"

Connecting ==
  /\ s.attempt = 1 => \A p \in net : p.from = "c" => p.flags = SynFlags(1)
  /\ Open => /\ s.attempt = 1 /\ InFlight
             /\ \A p \in Waiting : p.from = "c" \/ IsSynAck(p)
  /\ srv.mode = "closed" => /\ InFlight /\ (s.attempt = 2 => s.first = "rst")
                            /\ \A p \in Waiting : p.from = "c" \/ IsRst(p)
  /\ srv.mode = "rstecn" =>
       IF s.attempt = 1 THEN Alone /\ \A p \in Waiting : p.from = "c" \/ IsRst(p)
       ELSE /\ InFlight
            /\ \A p \in Waiting : (p.from = "c" /\ p.flags = SynFlags(2)) \/ IsSynAck(p)
  /\ srv.mode = "dropecn" =>
       IF s.attempt = 1 THEN \A p \in Waiting : p.from = "c"
       ELSE /\ \A p \in Waiting : p.from = "c" \/ IsSynAck(p)
            /\ \E p \in Waiting : ~ (p.from = "c" /\ p.flags = SynFlags(1))
  /\ srv.mode = "dead" => \A p \in Waiting : p.from = "c"

VerdictOK ==
  /\ VerdictRight
  /\ pc # "end" => exit = "running"
  /\ ~ late /\ pc = "syn" => Connecting
  /\ ~ late /\ pc \in {"data", "rcv"} => Open

IInv == /\ TypeOK /\ PacketsOK /\ ServerOK /\ Synching /\ Asking /\ Receiving /\ SeenOK
        /\ Ended /\ VerdictOK

-----------------------------------------------------------------------------
(* Sequence numbers *)
Half == SeqSpace \div 2

\* What the assumptions say of the sizes.
LEMMA Sizes ==
  /\ Half \in Nat \ {0} /\ SeqSpace = 2 * Half /\ SeqSpace \in Nat \ {0}
  /\ ShortSpace \in Nat \ {0} /\ ShortSpace <= Half /\ Half % ShortSpace = 0
  /\ Segments \in Nat \ {0} /\ Segments + 4 < Half
  /\ Tries \in Nat \ {0} /\ Tries + 1 < Half
  /\ InitSeqs \subseteq Seqs
  <1>1. /\ SeqSpace \in Nat /\ SeqSpace % 2 = 0 /\ Segments + 4 < Half
        /\ ShortSpace \in Nat \ {0} /\ Segments \in Nat \ {0} /\ Half % ShortSpace = 0
    BY SeqAssumption DEF Half
  <1>2. Half \in Nat /\ SeqSpace = 2 * Half
    <2>1. SeqSpace % 2 \in 0 .. 1 /\ Half \in Nat /\ SeqSpace = 2 * Half + (SeqSpace % 2)
      BY <1>1, DivMod DEF Half
    <2> QED BY <1>1, <2>1
  <1>3. ShortSpace <= Half
    <2> SUFFICES ASSUME Half < ShortSpace PROVE FALSE BY <1>1, <1>2
    <2>1. Half % ShortSpace = Half BY <1>1, <1>2, ModSmall
    <2> QED BY <1>1, <1>2, <2>1
  <1> QED BY <1>1, <1>2, <1>3, SeqAssumption, BoundAssumption DEF Half, Seqs

\* Adding less than the size of the space.
LEMMA PlusIs ==
  ASSUME NEW a \in Seqs, NEW b \in 0 .. SeqSpace
  PROVE  /\ plus(a, b) \in Seqs
         /\ plus(a, b) = IF a + b < SeqSpace THEN a + b ELSE a + b - SeqSpace
  <1>1. SeqSpace \in Nat \ {0} BY Sizes
  <1>2. CASE a + b < SeqSpace
    <2>1. (a + b) % SeqSpace = a + b BY <1>1, <1>2, ModSmall DEF Seqs
    <2> QED BY <1>1, <1>2, <2>1 DEF plus, Seqs
  <1>3. CASE a + b >= SeqSpace
    <2>1. a + b - SeqSpace \in 0 .. SeqSpace - 1 /\ a + b \in Nat BY <1>1, <1>3 DEF Seqs
    <2>2. a + b = SeqSpace * 1 + (a + b - SeqSpace) BY <1>1 DEF Seqs
    <2>3. (a + b) % SeqSpace = a + b - SeqSpace
      <3> HIDE DEF Seqs
      <3> DEFINE r == a + b - SeqSpace
                 x == a + b
      <3>1. r \in 0 .. SeqSpace - 1 /\ x \in Nat /\ x = SeqSpace * 1 + r BY <2>1, <2>2
      <3> HIDE DEF r, x
      <3>2. x % SeqSpace = r BY <1>1, <3>1, ModShift
      <3> QED BY <3>2 DEF r, x
    <2> QED BY <1>1, <1>3, <2>1, <2>3 DEF plus, Seqs
  <1> QED BY <1>1, <1>2, <1>3 DEF Seqs

\* One byte further.
LEMMA OneFurther ==
  ASSUME NEW x \in Seqs, NEW j \in 0 .. SeqSpace - 1
  PROVE  plus(plus(x, j), 1) = plus(x, j + 1)
  <1>1. /\ plus(x, j) \in Seqs
        /\ plus(x, j) = IF x + j < SeqSpace THEN x + j ELSE x + j - SeqSpace
        /\ plus(x, j + 1) = IF x + (j + 1) < SeqSpace THEN x + (j + 1) ELSE x + (j + 1) - SeqSpace
    BY Sizes, PlusIs
  <1> DEFINE y == plus(x, j)
  <1>2. y \in Seqs BY <1>1
  <1> HIDE DEF y
  <1>3. plus(y, 1) = IF y + 1 < SeqSpace THEN y + 1 ELSE y + 1 - SeqSpace
    BY <1>2, Sizes, PlusIs
  <1> QED BY <1>1, <1>2, <1>3, Sizes DEF Seqs, y

\* The numbers of the client are in range; the first is the one after the SYN.
LEMMA AtType ==
  ASSUME TypeOK
  PROVE  /\ plus(s.iss, 1) \in Seqs /\ At(0) = plus(s.iss, 1)
         /\ \A j \in 0 .. Tries + 1 : At(j) \in Seqs
  <1>1. s.iss \in Seqs BY DEF TypeOK, SessionType
  <1> DEFINE x == plus(s.iss, 1)
  <1>2. x \in Seqs BY <1>1, Sizes, PlusIs
  <1> HIDE DEF x
  <1>3. plus(x, 0) = x BY <1>2, Sizes, PlusIs DEF Seqs
  <1>4. \A j \in 0 .. Tries + 1 : plus(x, j) \in Seqs
    <2> SUFFICES ASSUME NEW j \in 0 .. Tries + 1 PROVE plus(x, j) \in Seqs OBVIOUS
    <2>1. j \in 0 .. SeqSpace BY Sizes
    <2> QED BY <1>2, <2>1, PlusIs
  <1> QED BY <1>2, <1>3, <1>4 DEF x, At

-----------------------------------------------------------------------------
(* Packets *)
\* The packets the client builds.
LEMMA AckType ==
  ASSUME NEW t \in SessionType, NEW flags \in SUBSET Flags, NEW p, p = Ack(t, flags)
  PROVE  p \in Packet /\ p.from = "c" /\ p.flags = flags /\ p.len = 0
  <1>1. 0 \in Seqs BY Sizes DEF Seqs
  <1>2. t.rcv_nxt \in Seqs BY DEF SessionType
  <1> QED BY <1>1, <1>2 DEF Ack, Pkt, Packet

\* The request.
LEMMA RequestType ==
  ASSUME NEW t \in SessionType, NEW p, p = Own(t, {"PSH", "ACK"}, 1, TRUE)
  PROVE  /\ p \in Packet /\ p.from = "c" /\ p.flags = {"PSH", "ACK"} /\ p.seq = t.snd_nxt
         /\ p.len = 1 /\ p.ce
  <1>1. t.snd_nxt \in Seqs /\ t.rcv_nxt \in Seqs BY DEF SessionType
  <1> QED BY <1>1 DEF Own, Pkt, Packet, Flags

\* The request with CWR.
LEMMA CwrType ==
  ASSUME NEW t \in SessionType, NEW p, p = Own(t, {"PSH", "ACK", "CWR"}, 1, FALSE)
  PROVE  /\ p \in Packet /\ p.from = "c" /\ p.flags = {"PSH", "ACK", "CWR"}
         /\ p.seq = t.snd_nxt /\ p.len = 1
  <1>1. t.snd_nxt \in Seqs /\ t.rcv_nxt \in Seqs BY DEF SessionType
  <1> QED BY <1>1 DEF Own, Pkt, Packet, Flags

\* The SYN.
LEMMA SynType ==
  ASSUME NEW t \in SessionType, NEW p, p = Syn(t)
  PROVE  /\ p \in Packet /\ p.from = "c" /\ p.flags = SynFlags(t.attempt)
         /\ p.seq = t.snd_nxt /\ p.len = 0
  <1>1. t.snd_nxt \in Seqs /\ t.rcv_nxt \in Seqs BY DEF SessionType
  <1>2. SynFlags(t.attempt) \in SUBSET Flags BY DEF SynFlags, Flags
  <1> QED BY <1>1, <1>2 DEF Syn, Own, Pkt, Packet

\* The first SYN asks for ECN, which opens the question whether the server agrees.
LEMMA FirstSyn ==
  ASSUME NEW v, v.se = 0, v.we = 0, v.ee = 0,
         NEW p, p.from = "c", p.flags = {"SYN", "ECE", "CWR"}, p.len = 0
  PROVE  checkECN(v, p).se = 0 /\ checkECN(v, p).we = 0 /\ checkECN(v, p).ee = 1
  BY DEF checkECN

\* What a packet adds to the verdict has the verdict's type.
LEMMA CheckType ==
  ASSUME NEW v \in Verdict, NEW p \in Packet PROVE checkECN(v, p) \in Verdict
  BY DEF checkECN, Verdict, Packet

\* The packets of a sequence.
LEMMA SeqElements == ASSUME NEW q \in Seq(Packet) PROVE Elements(q) \subseteq Packet
  BY DEF Elements

\* The flags of a request tell it from our other packets.
LEMMA RequestFlags ==
  ASSUME NEW f, f = {"PSH", "ACK"}
  PROVE  /\ f \notin {SynFlags(1), SynFlags(2)} /\ f # {"PSH", "ACK", "CWR"}
         /\ f \notin {{"ACK"}, {"ACK", "ECE"}}
  BY DEF SynFlags

\* No packets.
LEMMA NoElements == <<>> \in Seq(Packet) /\ Elements(<<>>) = {}
  BY DEF Elements

-----------------------------------------------------------------------------
(* Packets in flight *)
\* Adding a packet at the end.
LEMMA AppendElements ==
  ASSUME NEW q \in Seq(Packet), NEW p \in Packet
  PROVE  /\ Append(q, p) \in Seq(Packet) /\ Len(Append(q, p)) = Len(q) + 1
         /\ Append(q, p) # <<>> /\ Elements(Append(q, p)) = Elements(q) \cup {p}
  <1> DEFINE t == Append(q, p)
  <1>1. /\ t \in Seq(Packet) /\ Len(t) = Len(q) + 1 /\ Len(q) \in Nat /\ t # <<>>
        /\ \A i \in 1 .. Len(q) : t[i] = q[i]
        /\ t[Len(q) + 1] = p
    OBVIOUS
  <1>2. DOMAIN t = 1 .. Len(q) + 1 /\ DOMAIN q = 1 .. Len(q) BY <1>1
  <1> HIDE DEF t
  <1>3. Elements(t) = Elements(q) \cup {p}
    <2>1. ASSUME NEW i \in DOMAIN t PROVE t[i] \in Elements(q) \cup {p}
      BY <1>1, <1>2 DEF Elements
    <2>2. ASSUME NEW i \in DOMAIN q PROVE q[i] \in Elements(t)
      BY <1>1, <1>2 DEF Elements
    <2>3. p \in Elements(t) BY <1>1, <1>2 DEF Elements
    <2> QED BY <2>1, <2>2, <2>3 DEF Elements
  <1> QED BY <1>1, <1>3 DEF t

\* What no step undoes.  ECN is agreed on with the first SYN only.
Evolves ==
  /\ s'.iss = s.iss /\ (s.send_cwr # 0 => s'.send_cwr # 0) /\ (pc # "syn" => pc' # "syn")
  /\ srv'.mode = srv.mode /\ srv'.irs = srv.irs /\ (srv.conn = "open" => srv'.conn = "open")
  /\ srv.started => srv'.started
  /\ srv.ecn => srv'.ecn
  /\ srv.sawCWR => srv'.sawCWR
  /\ srv.sentCWR => srv'.sentCWR
  /\ srv'.ecn => srv.ecn \/ (srv.conn # "open" /\ Supports(srv.mode))
  /\ srv.sent <= srv'.sent

\* The numbers of the client stay.
LEMMA NumbersStay ==
  ASSUME Evolves
  PROVE  /\ Low' = Low
         /\ \A j : At(j)' = At(j)
         /\ Extra \in 0 .. 1 /\ Extra' \in 0 .. 1 /\ Extra <= Extra'
  BY DEF Evolves, Low, At, Extra

\* What was said of a packet remains true.
LEMMA PacketsStay ==
  ASSUME TypeOK, TypeOK', Evolves, NEW p \in Packet
  PROVE  /\ IsSyn(p) => IsSyn(p)'
         /\ IsRequest(p) => IsRequest(p)'
         /\ ClientPacket(p) => ClientPacket(p)'
         /\ IsRst(p) => IsRst(p)'
         /\ IsSynAck(p) => IsSynAck(p)'
         /\ ServerPacket(p) => ServerPacket(p)'
  <1>1. /\ Low' = Low /\ \A j : At(j)' = At(j)
        /\ Extra \in 0 .. 1 /\ Extra' \in 0 .. 1 /\ Extra <= Extra'
    BY NumbersStay
  <1>2. IsSyn(p) => IsSyn(p)' BY DEF Evolves, IsSyn
  <1>3. IsRequest(p) => IsRequest(p)' BY <1>1 DEF IsRequest
  <1>4. IsCwr(p) => IsCwr(p)' BY <1>1 DEF IsCwr, Evolves
  <1>5. IsAck(p) => IsAck(p)' BY DEF IsAck
  <1>6. IsRst(p) => IsRst(p)' BY DEF IsRst, Evolves
  <1>7. IsSynAck(p) => IsSynAck(p)' BY DEF IsSynAck, Evolves
  <1>8. IsSegment(p) => IsSegment(p)'
    <2>1. srv.sent \in Nat /\ srv'.sent \in Nat /\ srv.sent <= srv'.sent
      BY DEF TypeOK, ServerType, Evolves
    <2>2. 1 .. srv.sent \subseteq 1 .. srv'.sent BY <2>1
    <2> QED BY <2>2 DEF IsSegment, Evolves
  <1>9. ClientPacket(p) => ClientPacket(p)' BY <1>2, <1>3, <1>4, <1>5 DEF ClientPacket
  <1>10. ASSUME ServerPacket(p), p.from = "s" PROVE ServerPacket(p)'
    <2>1. PICK j \in 0 .. Tries + Extra : p.ack = At(j) /\ (j = 0 \/ srv.started)
      BY <1>10 DEF ServerPacket
    <2>2. j \in 0 .. Tries + Extra' /\ p.ack = At(j)' /\ (j = 0 \/ srv'.started)
      <3>1. Tries \in Nat /\ Extra \in 0 .. 1 /\ Extra' \in 0 .. 1 /\ Extra <= Extra'
        BY <1>1, Sizes
      <3>2. j \in 0 .. Tries + Extra' BY <3>1 DEF Extra
      <3> QED BY <2>1, <3>2 DEF Evolves, At
    <2>3. (IsRst(p) \/ IsSynAck(p) \/ IsSegment(p))'
      BY <1>6, <1>7, <1>8, <1>10 DEF ServerPacket
    <2>4. srv'.ecn /\ ~ srv'.sawCWR /\ "ECE" \notin p.flags => p.ack = At(0)' /\ Low'
      <3>1. srv.ecn /\ ~ srv.sawCWR /\ "ECE" \notin p.flags => p.ack = At(0) /\ Low
        BY <1>10 DEF ServerPacket
      <3>2. srv.conn # "open" => ~ Supports(srv.mode)
        BY <1>10 DEF ServerPacket, IsRst, IsSynAck, IsSegment, Supports
      <3> QED BY <1>1, <3>1, <3>2 DEF Evolves
    <2>5. /\ "ACK" \in p.flags /\ ("ECE" \in p.flags => srv'.ecn)
          /\ ("CWR" \in p.flags => srv'.sentCWR)
      BY <1>10 DEF ServerPacket, Evolves
    <2> QED BY <2>2, <2>3, <2>4, <2>5 DEF ServerPacket
  <1>11. p.from # "s" => ServerPacket(p)' BY DEF ServerPacket
  <1> QED BY <1>2, <1>3, <1>6, <1>7, <1>9, <1>10, <1>11

\* What is said of a server that did not move remains true.
LEMMA ServerStays == ASSUME TypeOK, ServerOK, Evolves, srv' = srv PROVE ServerOK'
  <1>1. \A j : At(j)' = At(j) BY NumbersStay
  <1>2. srv.conn = "open" => \E j \in 0 .. Tries + Extra' : srv.rcv_nxt = At(j)'
    <2>1. Extra \in 0 .. 1 /\ Extra' \in 0 .. 1 /\ Extra <= Extra' /\ Tries \in Nat
      BY NumbersStay, Sizes
    <2>2. \A j \in 0 .. Tries + Extra : j \in 0 .. Tries + Extra' BY <2>1 DEF Extra
    <2> QED BY <1>1, <2>2 DEF ServerOK
  <1>3. srv.started => pc' # "syn" BY DEF ServerOK, Evolves
  <1> QED BY <1>1, <1>2, <1>3 DEF ServerOK

-----------------------------------------------------------------------------
(* The server and the network *)
\* What a step of the server has to show.
LEMMA ServerFrame ==
  ASSUME IInv, TypeOK', Evolves, pc # "end", UNCHANGED <<pc, exit, s, seen, cap, late>>, ServerOK',
         \A p \in net' : p \in net \/ (p.from = "s" /\ ServerPacket(p)'),
         pc = "syn" /\ ~ late => Connecting'
  PROVE  IInv'
  <1> USE DEF IInv
  <1>1. PacketsOK'
    <2>1. ASSUME NEW p \in net' PROVE ClientPacket(p)' /\ ServerPacket(p)'
      <3>1. CASE p \in net
        <4>1. p \in Packet /\ ClientPacket(p) /\ ServerPacket(p) BY <3>1 DEF TypeOK, PacketsOK
        <4> QED BY <4>1, PacketsStay
      <3>2. CASE p.from = "s" /\ ServerPacket(p)' BY <3>2 DEF ClientPacket
      <3> QED BY <3>1, <3>2
    <2>2. ASSUME NEW p \in Elements(cap')
          PROVE (p.from = "c" => IsRequest(p)') /\ ServerPacket(p)'
      <3>1. p \in Elements(cap) OBVIOUS
      <3>2. p \in Packet BY <3>1 DEF TypeOK, Elements
      <3>3. (p.from = "c" => IsRequest(p)) /\ ServerPacket(p) BY <3>1 DEF PacketsOK
      <3> QED BY <3>2, <3>3, PacketsStay
    <2> QED BY <2>1, <2>2 DEF PacketsOK
  <1>2. Synching'
    <2> SUFFICES ASSUME pc = "syn" PROVE Synching' BY DEF Synching
    <2>1. ASSUME NEW p \in net', p.from = "c" PROVE IsSyn(p)'
      <3>1. p \in net BY <2>1
      <3>2. IsSyn(p) BY <2>1, <3>1 DEF Synching
      <3> QED BY <3>2 DEF IsSyn
    <2> QED BY <2>1 DEF Synching
  <1>3. Low' = Low /\ (\A j : At(j)' = At(j)) /\ Extra' = Extra BY DEF Low, At, Extra
  <1>4. Asking' BY <1>3, Zenon DEF Asking, Evolves, Mine
  <1>5. Receiving'
    <2> SUFFICES ASSUME pc = "rcv" PROVE Receiving' BY DEF Receiving
    <2>1. srv.sent \in Nat /\ srv'.sent \in Nat /\ srv.sent <= srv'.sent
      BY DEF TypeOK, ServerType, Evolves
    <2>2. 0 .. srv.sent \subseteq 0 .. srv'.sent /\ 1 .. srv.sent + 1 \subseteq 1 .. srv'.sent + 1
      BY <2>1
    <2>3. s'.got \subseteq 0 .. srv'.sent BY <2>2 DEF Receiving
    <2>4. \E n \in 1 .. srv'.sent + 1 : /\ s'.rcv_nxt = plus(s'.irs, n)
                                        /\ 0 .. n - 1 \subseteq s'.got /\ n \notin s'.got
      BY <2>2 DEF Receiving
    <2>5. /\ s'.irs = srv'.irs /\ srv'.started
          /\ \E j \in 1 .. Tries + Extra : s.snd_una = At(j)
          /\ \E j \in 0 .. Tries + Extra : s.snd_nxt = At(j)
      BY DEF Receiving, Evolves
    <2> QED BY <1>3, <2>3, <2>4, <2>5 DEF Receiving
  <1>6. SeenOK' BY DEF SeenOK, PassMeans, Evolves
  <1>7. Ended' BY DEF Ended
  <1>8. VerdictOK'
    <2>1. VerdictRight' BY DEF VerdictRight, VerdictOK, Evolves
    <2>2. pc \in {"data", "rcv"} /\ ~ late => Open' BY DEF VerdictOK, Open, Evolves
    <2>3. exit' = "running" BY DEF VerdictOK
    <2> QED BY <2>1, <2>2, <2>3 DEF VerdictOK
  <1> QED BY <1>1, <1>2, <1>4, <1>5, <1>6, <1>7, <1>8

\* A segment of the response.
LEMMA ServerSendOK == IInv /\ ServerSend => IInv'
  <1> SUFFICES ASSUME IInv, ServerSend PROVE IInv' OBVIOUS
  <1> USE DEF IInv
  <1>1. /\ pc # "end" /\ srv.conn = "open" /\ srv.started /\ pc # "syn"
        /\ UNCHANGED <<pc, exit, s, seen, cap, late>>
    BY DEF ServerSend, ServerOK
  <1>2. PICK k \in srv.una + 1 .. srv.sent + 1 :
       /\ k <= Segments
       /\ LET data == k < Segments \/ srv.mode \notin {"finalone", "abort"}
              flags == {"ACK"} \cup Echo(srv) \cup (IF k = Segments THEN {End} ELSE {})
                       \cup (IF srv.cwr /\ data THEN {"CWR"} ELSE {})
                       \cup (IF srv.mode = "notfound" /\ k = 1 THEN {"404"} ELSE {})
              p == Pkt("s", flags, plus(srv.irs, k), srv.rcv_nxt, IF data THEN 1 ELSE 0, FALSE)
          IN  /\ p \notin net \cup Elements(cap)
              /\ net' = {q \in net : ~ (q.from = "s" /\ q.seq = p.seq /\ q.len = p.len)} \cup {p}
              /\ k > srv.sent \/ srv.again < MaxAgain
              /\ srv' = [srv EXCEPT !.sent = IF k > @ THEN k ELSE @,
                                    !.again = IF k > srv.sent THEN @ ELSE @ + 1,
                                    !.cwr = @ /\ ~ data,
                                    !.sentCWR = @ \/ "CWR" \in flags]
    BY Zenon DEF ServerSend
  <1>3. PICK data : data = (k < Segments \/ srv.mode \notin {"finalone", "abort"}) OBVIOUS
  <1>4. PICK flags : flags = {"ACK"} \cup Echo(srv) \cup (IF k = Segments THEN {End} ELSE {})
                       \cup (IF srv.cwr /\ data THEN {"CWR"} ELSE {})
                       \cup (IF srv.mode = "notfound" /\ k = 1 THEN {"404"} ELSE {})
    BY Zenon
  <1>5. PICK len : len = IF data THEN 1 ELSE 0 OBVIOUS
  <1>6. PICK p : p = Pkt("s", flags, plus(srv.irs, k), srv.rcv_nxt, len, FALSE) BY Zenon
  <1>7. PICK sent : sent = IF k > srv.sent THEN k ELSE srv.sent OBVIOUS
  <1>8. PICK again : again = IF k > srv.sent THEN srv.again ELSE srv.again + 1 OBVIOUS
  <1>9. PICK cwr : cwr = (srv.cwr /\ ~ data) OBVIOUS
  <1>10. PICK did : did = (srv.sentCWR \/ "CWR" \in flags) OBVIOUS
  <1>11. /\ net' \subseteq net \cup {p}
         /\ k > srv.sent \/ srv.again < MaxAgain
         /\ srv' = [srv EXCEPT !.sent = sent, !.again = again, !.cwr = cwr, !.sentCWR = did]
    BY <1>2, <1>3, <1>4, <1>5, <1>6, <1>7, <1>8, <1>9, <1>10, Zenon
  <1>12. /\ srv \in ServerType /\ srv.sent \in 0 .. Segments /\ srv.una \in 0 .. Segments
         /\ srv.again \in 0 .. MaxAgain /\ srv.irs \in Seqs /\ srv.rcv_nxt \in Seqs
    BY DEF TypeOK, ServerType
  <1>13. k \in 1 .. Segments /\ k \in 0 .. SeqSpace BY <1>2, <1>12, Sizes
  <1>14. sent \in 0 .. Segments /\ srv.sent <= sent /\ k \in 1 .. sent
    BY <1>7, <1>12, <1>13, Sizes
  <1>15. again \in 0 .. MaxAgain BY <1>8, <1>11, <1>12, BoundAssumption
  <1>16. cwr \in BOOLEAN /\ did \in BOOLEAN BY <1>9, <1>10
  <1>17. /\ srv' \in ServerType /\ srv'.mode = srv.mode /\ srv'.conn = srv.conn
         /\ srv'.irs = srv.irs /\ srv'.rcv_nxt = srv.rcv_nxt /\ srv'.ecn = srv.ecn
         /\ srv'.started = srv.started /\ srv'.sent = sent /\ srv'.ece = srv.ece
         /\ srv'.sawCWR = srv.sawCWR /\ srv'.sentCWR = did
    BY <1>11, <1>12, <1>14, <1>15, <1>16, Zenon DEF ServerType
  <1>18. plus(srv.irs, k) \in Seqs BY <1>12, <1>13, PlusIs
  <1>19. flags \in SUBSET Flags /\ "SYN" \notin flags /\ "ACK" \in flags
    BY <1>4 DEF Flags, Echo, End
  <1>20. "ECE" \in flags <=> srv.ece BY <1>4 DEF Echo, End
  <1>21. /\ p \in Packet /\ p.from = "s" /\ p.flags = flags /\ p.seq = plus(srv.irs, k)
         /\ p.ack = srv.rcv_nxt
    <2>1. len \in 0 .. 1 BY <1>5
    <2> QED BY <1>6, <1>12, <1>18, <1>19, <2>1 DEF Pkt, Packet
  <1>22. TypeOK'
    <2>1. net' \in SUBSET Packet BY <1>11, <1>21 DEF TypeOK
    <2> QED BY <1>1, <1>17, <2>1 DEF TypeOK
  <1>23. did <=> srv.sentCWR \/ "CWR" \in flags BY <1>10, Zenon
  <1>24. Evolves BY <1>1, <1>14, <1>17, <1>23 DEF Evolves
  <1>25. Low' = Low /\ (\A j : At(j)' = At(j)) /\ Extra' = Extra BY <1>1, Zenon DEF Low, At, Extra
  <1>26. ServerOK' BY <1>1, <1>17, <1>25 DEF ServerOK
  <1>27. ServerPacket(p)'
    <2>1. IsSegment(p)' BY <1>1, <1>14, <1>17, <1>19, <1>21 DEF IsSegment
    <2>2. \E j \in 0 .. Tries + Extra' : p.ack = At(j)' /\ (j = 0 \/ srv'.started)
      BY <1>1, <1>17, <1>21, <1>25 DEF ServerOK
    <2>3. srv'.ecn /\ ~ srv'.sawCWR => "ECE" \in p.flags BY <1>1, <1>17, <1>20, <1>21 DEF ServerOK
    <2>4. "ECE" \in p.flags => srv'.ecn BY <1>17, <1>20, <1>21 DEF ServerOK
    <2>5. "CWR" \in p.flags => srv'.sentCWR BY <1>17, <1>21, <1>23
    <2> QED BY <1>19, <1>21, <2>1, <2>2, <2>3, <2>4, <2>5 DEF ServerPacket
  <1>28. \A q \in net' : q \in net \/ (q.from = "s" /\ ServerPacket(q)') BY <1>11, <1>21, <1>27, Zenon
  <1> QED BY <1>1, <1>22, <1>24, <1>26, <1>28, ServerFrame

\* An acknowledgement of the client.
LEMMA ServerAckOK ==
  ASSUME IInv, NEW p \in net, p.from = "c", p.flags \in {{"ACK"}, {"ACK", "ECE"}}, ServerAck(p),
         UNCHANGED <<pc, exit, s, seen, cap, late>>
  PROVE  IInv'
  <1> USE DEF IInv
  <1>1. PICK n : n = (p.ack - plus(srv.irs, 1)) % SeqSpace OBVIOUS
  <1>2. PICK una : una = IF n \in srv.una + 1 .. srv.sent THEN n ELSE srv.una OBVIOUS
  <1>3. PICK cwr : cwr = (srv.ecn /\ (srv.cwr \/ "ECE" \in p.flags)) OBVIOUS
  <1>4. srv' = [srv EXCEPT !.una = una, !.cwr = cwr] /\ net' = net \ {p}
    BY <1>1, <1>2, <1>3 DEF ServerAck
  <1>5. srv \in ServerType /\ srv.sent \in 0 .. Segments /\ srv.una \in 0 .. Segments
    BY DEF TypeOK, ServerType
  <1>6. una \in 0 .. Segments BY <1>2, <1>5, Sizes
  <1>7. cwr \in BOOLEAN BY <1>3
  <1>8. /\ srv' \in ServerType /\ srv'.mode = srv.mode /\ srv'.conn = srv.conn
        /\ srv'.irs = srv.irs /\ srv'.rcv_nxt = srv.rcv_nxt /\ srv'.ecn = srv.ecn
        /\ srv'.started = srv.started /\ srv'.sent = srv.sent /\ srv'.ece = srv.ece
        /\ srv'.sawCWR = srv.sawCWR /\ srv'.sentCWR = srv.sentCWR
    BY <1>4, <1>5, <1>6, <1>7, Zenon DEF ServerType
  <1>9. TypeOK' BY <1>4, <1>8 DEF TypeOK
  <1>10. Evolves
    <2>1. srv.sent <= srv'.sent BY <1>5, <1>8
    <2> QED BY <1>8, <2>1 DEF Evolves
  <1>11. (\A j : At(j)' = At(j)) /\ Extra' = Extra BY DEF At, Extra
  <1>12. ServerOK' BY <1>8, <1>11 DEF ServerOK
  <1>13. pc # "end" /\ pc # "syn"
    <2>1. "ACK" \in p.flags /\ "SYN" \notin p.flags OBVIOUS
    <2>2. ~ IsSyn(p) BY <2>1 DEF IsSyn, SynFlags
    <2> QED BY <2>2 DEF Ended, Synching
  <1>14. \A q \in net' : q \in net BY <1>4
  <1> QED BY <1>9, <1>10, <1>12, <1>13, <1>14, ServerFrame

\* A request, in order or not.
LEMMA ServerDataOK ==
  ASSUME IInv, NEW p \in net, p.from = "c", "PSH" \in p.flags, ServerData(p),
         UNCHANGED <<pc, exit, s, seen, cap, late>>
  PROVE  IInv'
  <1> USE DEF IInv
  <1>1. IsRequest(p) \/ IsCwr(p)
    <2>1. ~ IsSyn(p) /\ ~ IsAck(p) BY DEF IsSyn, IsAck, SynFlags
    <2> QED BY <2>1 DEF PacketsOK, ClientPacket
  <1>2. pc # "end" /\ pc # "syn"
    <2>1. ~ IsSyn(p) BY DEF IsSyn, SynFlags
    <2> QED BY <2>1 DEF Ended, Synching
  <1>3. /\ srv \in ServerType /\ srv.irs \in Seqs /\ srv.rcv_nxt \in Seqs /\ srv.ece \in BOOLEAN
        /\ srv.ecn \in BOOLEAN /\ srv.sent \in 0 .. Segments /\ srv.sawCWR \in BOOLEAN
    BY DEF TypeOK, ServerType
  <1>4. PICK ece : ece = (srv.ecn /\ (p.ce \/ (srv.ece /\ "CWR" \notin p.flags))) OBVIOUS
  <1>5. PICK saw : saw = (srv.sawCWR \/ "CWR" \in p.flags) OBVIOUS
  <1>6. PICK q : q = [srv EXCEPT !.rcv_nxt = plus(srv.rcv_nxt, 1), !.started = TRUE,
                                 !.ece = ece, !.sawCWR = saw]
    OBVIOUS
  <1>7. PICK inOrder : inOrder = (srv.conn = "open" /\ p.seq = srv.rcv_nxt) OBVIOUS
  <1>8. PICK t : t = IF inOrder THEN q ELSE srv OBVIOUS
  <1>9. PICK r : r = Pkt("s", {"ACK"} \cup Echo(t), plus(t.irs, t.sent + 1), t.rcv_nxt, 0, FALSE)
    BY Zenon
  <1>10. srv' = t /\ net' = (net \ {p}) \cup (IF srv.conn # "open" THEN {} ELSE {r})
    BY <1>4, <1>5, <1>6, <1>7, <1>8, <1>9, Zenon DEF ServerData
  <1>11. plus(srv.rcv_nxt, 1) \in Seqs BY <1>3, Sizes, PlusIs
  <1>12. ece \in BOOLEAN /\ saw \in BOOLEAN BY <1>4, <1>5
  <1>13. /\ q \in ServerType /\ q.mode = srv.mode /\ q.conn = srv.conn /\ q.irs = srv.irs
         /\ q.rcv_nxt = plus(srv.rcv_nxt, 1) /\ q.ecn = srv.ecn /\ q.started = TRUE
         /\ q.sent = srv.sent /\ q.ece = ece /\ q.sawCWR = saw /\ q.sentCWR = srv.sentCWR
    BY <1>3, <1>6, <1>11, <1>12, Zenon DEF ServerType
  <1>14. /\ t \in ServerType /\ t.mode = srv.mode /\ t.conn = srv.conn /\ t.irs = srv.irs
         /\ t.ecn = srv.ecn /\ t.sent = srv.sent /\ t.sentCWR = srv.sentCWR
         /\ t.rcv_nxt \in Seqs
    BY <1>3, <1>8, <1>11, <1>13
  <1>15. q.started BY <1>13
  <1>16. inOrder => t = q /\ srv.conn = "open" /\ p.seq = srv.rcv_nxt BY <1>7, <1>8, Zenon
  <1>17. ~ inOrder => t = srv BY <1>8
  <1>18. (srv.started => t.started) /\ (srv.sawCWR => t.sawCWR)
    <2>1. srv.sawCWR => q.sawCWR BY <1>5, <1>13, Zenon
    <2> QED BY <1>15, <1>16, <1>17, <2>1
  <1>19. /\ r \in Packet /\ r.from = "s" /\ r.flags = {"ACK"} \cup Echo(t)
         /\ r.ack = t.rcv_nxt /\ r.len = 0
    <2>1. {"ACK"} \cup Echo(t) \in SUBSET Flags BY DEF Flags, Echo
    <2>2. plus(t.irs, t.sent + 1) \in Seqs
      <3>1. t.irs \in Seqs /\ t.sent + 1 \in 0 .. SeqSpace BY <1>3, <1>14, Sizes
      <3> QED BY <3>1, PlusIs
    <2>3. 0 \in 0 .. 1 OBVIOUS
    <2> QED BY <1>9, <1>14, <2>1, <2>2, <2>3 DEF Pkt, Packet
  <1>20. TypeOK' BY <1>10, <1>14, <1>19 DEF TypeOK
  <1>21. Evolves
    <2>1. srv.sent <= t.sent BY <1>3, <1>14
    <2> QED BY <1>10, <1>14, <1>18, <2>1 DEF Evolves
  <1>22. Low' = Low /\ (\A j : At(j)' = At(j)) /\ Extra' = Extra BY DEF Low, At, Extra
  <1>23. PICK ex : ex = Extra OBVIOUS
  <1>24. ex \in 0 .. 1 /\ Tries \in Nat /\ (s.send_cwr # 0 => ex = 1) BY <1>23, Sizes DEF Extra
  <1>25. ASSUME inOrder
         PROVE  /\ \E j \in 0 .. Tries + ex : q.rcv_nxt = At(j)
                /\ srv.ecn /\ ~ saw => ece
    <2>1. PICK j \in 0 .. Tries : p.seq = At(j) /\ j + 1 <= Tries + ex
      <3>1. CASE IsRequest(p)
        <4>1. PICK j \in 0 .. Tries - 1 : p.seq = At(j) BY <3>1 DEF IsRequest
        <4>2. j \in 0 .. Tries /\ j + 1 <= Tries + ex BY <1>24
        <4> QED BY <4>1, <4>2
      <3>2. CASE IsCwr(p)
        <4>1. PICK j \in 0 .. Tries : p.seq = At(j) BY <3>2 DEF IsCwr
        <4>2. ex = 1 BY <1>24, <3>2 DEF IsCwr
        <4>3. j + 1 <= Tries + ex BY <1>24, <4>2
        <4> QED BY <4>1, <4>3
      <3> QED BY <1>1, <3>1, <3>2
    <2>2. q.rcv_nxt = At(j + 1)
      <3>1. PICK x : x = plus(s.iss, 1) OBVIOUS
      <3>2. x \in Seqs BY <3>1, AtType
      <3>3. j \in 0 .. SeqSpace - 1 BY Sizes
      <3>4. plus(plus(x, j), 1) = plus(x, j + 1) BY <3>2, <3>3, OneFurther
      <3> QED BY <1>13, <1>16, <1>25, <2>1, <3>1, <3>4 DEF At
    <2>3. j + 1 \in 0 .. Tries + ex BY <1>24, <2>1
    <2>4. srv.ecn /\ ~ saw => ece
      <3> SUFFICES ASSUME srv.ecn, ~ saw PROVE ece OBVIOUS
      <3>1. "CWR" \notin p.flags BY <1>5, Zenon
      <3>2. ~ IsCwr(p) BY <3>1 DEF IsCwr
      <3>3. p.ce BY <1>1, <3>2 DEF IsRequest
      <3> QED BY <1>4, <3>3, Zenon
    <2> QED BY <2>2, <2>3, <2>4
  <1>26. ServerOK'
    <2>1. CASE inOrder
      <3>1. srv' = q /\ srv.conn = "open" BY <1>10, <1>16, <2>1
      <3>2. \E j \in 0 .. Tries + Extra' : srv'.rcv_nxt = At(j)' BY <1>22, <1>23, <1>25, <2>1, <3>1
      <3>3. srv'.ece => srv'.ecn BY <1>4, <1>13, <3>1, Zenon
      <3>4. srv'.ecn /\ ~ srv'.sawCWR => srv'.ece BY <1>13, <1>25, <2>1, <3>1
      <3>5. srv'.started /\ srv'.conn = "open" /\ (srv'.ecn => Supports(srv'.mode))
        BY <1>13, <1>15, <3>1, Zenon DEF ServerOK
      <3> QED BY <1>2, <3>2, <3>3, <3>4, <3>5 DEF ServerOK
    <2>2. CASE ~ inOrder
      <3>1. srv' = srv BY <1>10, <1>17, <2>2
      <3> QED BY <1>22, <3>1 DEF ServerOK
    <2> QED BY <2>1, <2>2
  <1>27. ASSUME srv.conn = "open" PROVE ServerPacket(r)'
    <2>1. IsSegment(r)'
      <3>1. "SYN" \notin r.flags BY <1>19 DEF Echo
      <3> QED BY <1>2, <1>10, <1>14, <1>19, <1>27, <3>1 DEF IsSegment
    <2>2. "ECE" \in r.flags <=> t.ece BY <1>19 DEF Echo
    <2>3. "ACK" \in r.flags /\ "CWR" \notin r.flags BY <1>19, Zenon DEF Echo
    <2>4. t.ece => t.ecn BY <1>10, <1>26 DEF ServerOK
    <2>5. \E j \in 0 .. Tries + Extra' : r.ack = At(j)' /\ (j = 0 \/ srv'.started)
      <3>1. CASE t.started
        BY <1>10, <1>14, <1>19, <1>26, <1>27, <3>1 DEF ServerOK
      <3>2. CASE ~ t.started
        <4>1. t.rcv_nxt = At(0)' BY <1>10, <1>14, <1>26, <1>27, <3>2 DEF ServerOK
        <4>2. 0 \in 0 .. Tries + ex BY <1>24
        <4> QED BY <1>19, <1>22, <1>23, <4>1, <4>2, Zenon
      <3> QED BY <3>1, <3>2, Zenon
    <2>6. t.ecn /\ ~ t.sawCWR /\ ~ t.ece => r.ack = At(0)' /\ Low'
      <3> SUFFICES ASSUME t.ecn, ~ t.sawCWR, ~ t.ece PROVE r.ack = At(0) /\ Low BY <1>22, Zenon
      <3>1. ~ t.started BY <1>10, <1>26 DEF ServerOK
      <3>2. ~ inOrder /\ t = srv BY <1>15, <1>16, <1>17, <3>1
      <3>3. srv.rcv_nxt = At(0) BY <1>27, <3>1, <3>2 DEF ServerOK
      <3>4. p.seq # srv.rcv_nxt BY <1>7, <1>27, <3>2, Zenon
      <3>5. ~ IsCwr(p) BY <3>1, <3>2 DEF IsCwr
      <3>6. Low BY <1>1, <3>3, <3>4, <3>5 DEF IsRequest
      <3> QED BY <1>19, <3>2, <3>3, <3>6
    <2> QED BY <1>10, <2>1, <2>2, <2>3, <2>4, <2>5, <2>6 DEF ServerPacket
  <1>28. \A m \in net' : m \in net \/ (m.from = "s" /\ ServerPacket(m)')
    BY <1>10, <1>19, <1>27
  <1> QED BY <1>2, <1>20, <1>21, <1>26, <1>28, ServerFrame

\* A SYN.  In each of its cases the verdict is the one the path deserves.
LEMMA ServerSynOK ==
  ASSUME IInv, NEW p \in net, p.from = "c", "SYN" \in p.flags, ServerSyn(p),
         UNCHANGED <<pc, exit, s, seen, cap, late>>
  PROVE  IInv'
  <1> USE DEF IInv
  <1>1. IsSyn(p) /\ p \in Packet
    <2>1. ~ IsRequest(p) /\ ~ IsCwr(p) /\ ~ IsAck(p) BY DEF IsRequest, IsCwr, IsAck
    <2> QED BY <2>1 DEF PacketsOK, ClientPacket, TypeOK
  <1>2. pc # "end" /\ p \in Waiting BY DEF Ended, Waiting
  <1>3. /\ srv \in ServerType /\ srv.irs \in Seqs /\ srv.rcv_nxt \in Seqs /\ srv.mode \in Modes
        /\ srv.ecn \in BOOLEAN /\ srv.sent \in Nat
    BY DEF TypeOK, ServerType
  <1>4. PICK x : x = plus(s.iss, 1) OBVIOUS
  <1>5. x \in Seqs /\ At(0) = x /\ plus(p.seq, 1) = x BY <1>1, <1>4, AtType DEF IsSyn
  <1>6. Low' = Low /\ (\A j : At(j)' = At(j)) /\ Extra' = Extra BY DEF Low, At, Extra
  <1>7. 0 \in 0 .. Tries + Extra'
    <2>1. PICK ex : ex = Extra' OBVIOUS
    <2>2. ex \in 0 .. 1 /\ Tries \in Nat BY <2>1, Sizes DEF Extra
    <2> QED BY <2>1, <2>2
  <1>8. PICK ecn : ecn = ("ECE" \in p.flags) OBVIOUS
  <1>9. ecn => p.flags = SynFlags(1)
    <2>1. p.flags = SynFlags(1) \/ p.flags = SynFlags(2) BY <1>1 DEF IsSyn
    <2>2. "ECE" \notin SynFlags(2) BY DEF SynFlags
    <2> QED BY <1>8, <2>1, <2>2, Zenon
  <1>10. ~ ecn => p.flags = SynFlags(2) /\ p.flags # SynFlags(1) BY <1>1, <1>8, Zenon
      DEF IsSyn, SynFlags
  <1>11. pc = "syn" /\ ~ late => Connecting BY Zenon DEF VerdictOK
  <1>12. ASSUME srv' = srv, TypeOK' PROVE Evolves /\ ServerOK'
    <2>1. srv.sent <= srv.sent BY <1>3
    <2> QED BY <1>6, <1>12, <2>1 DEF Evolves, ServerOK
  <1>13. Waiting' = net' \cup Elements(cap) BY DEF Waiting
  <1>14. ASSUME NEW m \in Waiting PROVE m \in Packet BY DEF Waiting, TypeOK, Elements
  <1>15. CASE /\ srv.mode = "closed" \/ (srv.mode = "rstecn" /\ ecn)
              /\ net' = (net \ {p}) \cup {Pkt("s", {"RST", "ACK"}, 0, plus(p.seq, 1), 0, FALSE)}
              /\ UNCHANGED srv
    <2>1. PICK r : r = Pkt("s", {"RST", "ACK"}, 0, x, 0, FALSE) BY Zenon
    <2>2. net' = (net \ {p}) \cup {r} BY <1>5, <1>15, <2>1, Zenon
    <2>3. /\ r \in Packet /\ r.from = "s" /\ r.flags = {"RST", "ACK"} /\ r.ack = x /\ r.len = 0
      <3>1. 0 \in Seqs BY Sizes DEF Seqs
      <3> QED BY <1>5, <2>1, <3>1 DEF Pkt, Packet, Flags
    <2>4. TypeOK' BY <1>15, <2>2, <2>3, Zenon DEF TypeOK
    <2>5. Evolves /\ ServerOK' BY <1>12, <1>15, <2>4
    <2>6. IsRst(r)' BY <1>15, <2>3 DEF IsRst
    <2>7. ServerPacket(r)'
      <3>1. ~ srv'.ecn BY <1>15 DEF ServerOK, Supports
      <3>2. "ECE" \notin r.flags /\ "CWR" \notin r.flags /\ "ACK" \in r.flags BY <2>3
      <3>3. r.ack = At(0)' BY <1>5, <1>6, <2>3
      <3> QED BY <1>7, <2>6, <3>1, <3>2, <3>3 DEF ServerPacket
    <2>8. \A m \in net' : m \in net \/ (m.from = "s" /\ ServerPacket(m)') BY <2>2, <2>3, <2>7
    <2>9. ASSUME pc = "syn", ~ late PROVE Connecting'
      <3>1. Connecting BY <1>11, <2>9
      <3>2. InFlight' BY <2>2, Zenon DEF InFlight
      <3>3. s.attempt = 1 => \A m \in net' : m.from = "c" => m.flags = SynFlags(1)
        BY <2>2, <2>3, <3>1 DEF Connecting
      <3>4. ~ Open' /\ srv'.mode = srv.mode BY <1>15, Zenon DEF Open, Supports
      <3>5. ASSUME \A m \in Waiting : m.from = "c" \/ IsRst(m)
            PROVE  \A m \in Waiting' : m.from = "c" \/ IsRst(m)'
        <4> SUFFICES ASSUME NEW m \in Waiting' PROVE m.from = "c" \/ IsRst(m)' OBVIOUS
        <4>1. CASE m = r BY <2>6, <4>1, Zenon
        <4>2. CASE m \in Waiting BY <1>14, <2>4, <2>5, <3>5, <4>2, PacketsStay
        <4> QED BY <1>13, <2>2, <4>1, <4>2, Zenon DEF Waiting
      <3>6. CASE srv.mode = "closed"
        <4>1. \A m \in Waiting : m.from = "c" \/ IsRst(m) BY <3>1, <3>6 DEF Connecting
        <4>2. s.attempt = 2 => s.first = "rst" BY <3>1, <3>6 DEF Connecting
        <4>3. \A m \in Waiting' : m.from = "c" \/ IsRst(m)' BY <3>5, <4>1, Zenon
        <4> QED BY <3>2, <3>3, <3>4, <3>6, <4>2, <4>3, Zenon DEF Connecting
      <3>7. CASE srv.mode = "rstecn" /\ ecn
        <4>1. s.attempt = 1
          <5> SUFFICES ASSUME s.attempt # 1 PROVE FALSE BY Zenon
          <5>1. p.flags = SynFlags(2) \/ IsSynAck(p) BY <1>2, <3>1, <3>7 DEF Connecting
          <5>2. p.flags = SynFlags(1) BY <1>9, <3>7
          <5> QED BY <5>1, <5>2 DEF SynFlags, IsSynAck
        <4>2. Alone /\ \A m \in Waiting : m.from = "c" \/ IsRst(m)
          BY <3>1, <3>7, <4>1 DEF Connecting
        <4>3. net = {p} /\ cap = <<>> BY <4>2 DEF Alone
        <4>4. net' = {r} BY <2>2, <4>3
        <4>5. Alone' BY <4>3, <4>4 DEF Alone
        <4>6. \A m \in Waiting' : m.from = "c" \/ IsRst(m)' BY <3>5, <4>2
        <4> QED BY <3>3, <3>4, <3>7, <4>1, <4>5, <4>6 DEF Connecting
      <3> QED BY <1>15, <3>6, <3>7
    <2> QED BY <1>2, <2>4, <2>5, <2>8, <2>9, ServerFrame
  <1>16. CASE /\ \/ srv.mode = "dead" \/ (srv.mode = "dropecn" /\ ecn)
                 \/ srv.started
              /\ net' = net \ {p}
              /\ UNCHANGED srv
    <2>1. TypeOK' BY <1>16 DEF TypeOK
    <2>2. Evolves /\ ServerOK' BY <1>12, <1>16, <2>1
    <2>3. \A m \in net' : m \in net BY <1>16
    <2>4. ASSUME pc = "syn", ~ late PROVE Connecting'
      <3>1. Connecting BY <1>11, <2>4
      <3>2. srv.mode = "dead" \/ (srv.mode = "dropecn" /\ ecn) BY <1>16, <2>4 DEF ServerOK
      <3>3. ~ Open' /\ srv'.mode = srv.mode BY <1>16, <3>2 DEF Open, Supports
      <3>4. Waiting' \subseteq Waiting BY <1>13, <1>16 DEF Waiting
      <3>5. s.attempt = 1 => \A m \in net' : m.from = "c" => m.flags = SynFlags(1)
        BY <2>3, <3>1 DEF Connecting
      <3>6. CASE srv.mode = "dead"
        <4>1. \A m \in Waiting : m.from = "c" BY <3>1, <3>6, Zenon DEF Connecting
        <4> QED BY <3>3, <3>4, <3>5, <3>6, <4>1 DEF Connecting
      <3>7. CASE srv.mode = "dropecn" /\ ecn /\ s.attempt = 1
        <4>1. \A m \in Waiting : m.from = "c" BY <3>1, <3>7, Zenon DEF Connecting
        <4> QED BY <3>3, <3>4, <3>5, <3>7, <4>1, Zenon DEF Connecting
      <3>8. CASE srv.mode = "dropecn" /\ ecn /\ s.attempt # 1
        <4>1. PICK m \in Waiting : ~ (m.from = "c" /\ m.flags = SynFlags(1))
          BY <3>1, <3>8 DEF Connecting
        <4>2. m \in Waiting' BY <1>9, <1>13, <1>16, <3>8, <4>1, Zenon DEF Waiting
        <4>3. \A n \in Waiting : n.from = "c" \/ IsSynAck(n) BY <3>1, <3>8 DEF Connecting
        <4>4. \A n \in Waiting : n.from = "c" \/ IsSynAck(n)'
          BY <1>14, <2>1, <2>2, <4>3, PacketsStay, Zenon
        <4> QED BY <3>3, <3>4, <3>8, <4>1, <4>2, <4>4, Zenon DEF Connecting
      <3> QED BY <3>2, <3>6, <3>7, <3>8, Zenon
    <2> QED BY <1>2, <2>1, <2>2, <2>3, <2>4, ServerFrame
  <1> DEFINE Opened == IF srv.conn = "open" THEN srv
                       ELSE [srv EXCEPT !.conn = "open", !.rcv_nxt = plus(p.seq, 1),
                                        !.ecn = ecn /\ Supports(srv.mode)]
  <1>17. CASE /\ Supports(srv.mode) \/ srv.mode = "plain"
                 \/ (srv.mode \in {"rstecn", "dropecn"} /\ ~ ecn)
              /\ ~ srv.started
              /\ srv' = Opened
              /\ net' = (net \ {p}) \cup
                   {Pkt("s", {"SYN", "ACK"} \cup (IF Opened.ecn THEN {"ECE"} ELSE {}),
                        Opened.irs, Opened.rcv_nxt, 0, FALSE)}
    <2>1. PICK o : o = Opened OBVIOUS
    <2>2. PICK agreed : agreed = (ecn /\ Supports(srv.mode)) OBVIOUS
    <2>3. agreed \in BOOLEAN /\ (agreed => Supports(srv.mode)) BY <2>2, Zenon
    <2>4. /\ o \in ServerType /\ o.mode = srv.mode /\ o.conn = "open" /\ o.irs = srv.irs
          /\ o.rcv_nxt = x /\ o.started = srv.started /\ o.sent = srv.sent /\ o.ece = srv.ece
          /\ o.sawCWR = srv.sawCWR /\ o.sentCWR = srv.sentCWR
          /\ (srv.conn = "open" => o.ecn = srv.ecn) /\ (srv.conn # "open" => o.ecn = agreed)
      <3>1. CASE srv.conn = "open"
        <4>1. o = srv BY <2>1, <3>1
        <4>2. srv.rcv_nxt = x BY <1>5, <1>17, <3>1 DEF ServerOK
        <4> QED BY <1>3, <3>1, <4>1, <4>2
      <3>2. CASE srv.conn # "open"
        <4>1. o = [srv EXCEPT !.conn = "open", !.rcv_nxt = x, !.ecn = agreed]
          BY <1>5, <2>1, <2>2, <3>2, Zenon
        <4> QED BY <1>3, <1>5, <2>3, <3>2, <4>1, Zenon DEF ServerType
      <3> QED BY <3>1, <3>2
    <2>5. srv.conn # "open" => ~ srv.ecn
      <3>1. srv.conn \in {"listen", "open"} BY <1>3, Zenon DEF ServerType
      <3> QED BY <3>1 DEF ServerOK
    <2>6. (srv.ecn => o.ecn) /\ (o.ecn => Supports(srv.mode))
      BY <2>3, <2>4, <2>5 DEF ServerOK
    <2>7. PICK flags : flags = {"SYN", "ACK"} \cup (IF o.ecn THEN {"ECE"} ELSE {}) BY Zenon
    <2>8. PICK r : r = Pkt("s", flags, o.irs, o.rcv_nxt, 0, FALSE) BY Zenon
    <2>9. srv' = o /\ net' = (net \ {p}) \cup {r} BY <1>17, <2>1, <2>7, <2>8
    <2>10. /\ flags \in SUBSET Flags /\ {"SYN", "ACK"} \subseteq flags
           /\ flags \subseteq {"SYN", "ACK", "ECE"} /\ ("ECE" \in flags <=> o.ecn)
      BY <2>7, Zenon DEF Flags
    <2>11. /\ r \in Packet /\ r.from = "s" /\ r.flags = flags /\ r.seq = srv.irs /\ r.ack = x
           /\ r.len = 0
      BY <1>3, <1>5, <2>4, <2>8, <2>10 DEF Pkt, Packet
    <2>12. TypeOK' BY <2>4, <2>9, <2>11, Zenon DEF TypeOK
    <2>13. Evolves
      <3>1. srv.sent <= o.sent BY <1>3, <2>4
      <3>2. o.ecn => srv.ecn \/ (srv.conn # "open" /\ Supports(srv.mode)) BY <2>4, <2>6, Zenon
      <3> QED BY <2>4, <2>6, <2>9, <3>1, <3>2 DEF Evolves
    <2>14. o.rcv_nxt = At(0)' BY <1>5, <1>6, <2>4
    <2>15. ServerOK'
      <3>1. ~ o.started /\ o.sent = 0 BY <1>17, <2>4 DEF ServerOK
      <3>2. o.ece => o.ecn BY <2>4, <2>6, Zenon DEF ServerOK
      <3> QED BY <1>7, <2>4, <2>6, <2>9, <2>14, <3>1, <3>2, Zenon DEF ServerOK
    <2>16. IsSynAck(r)' BY <2>4, <2>9, <2>10, <2>11, Zenon DEF IsSynAck
    <2>17. ServerPacket(r)'
      <3>1. "ACK" \in r.flags /\ "CWR" \notin r.flags BY <2>10, <2>11
      <3>2. "ECE" \in r.flags <=> srv'.ecn BY <2>9, <2>10, <2>11
      <3>3. r.ack = At(0)' BY <2>4, <2>11, <2>14
      <3> QED BY <1>7, <2>16, <3>1, <3>2, <3>3 DEF ServerPacket
    <2>18. \A m \in net' : m \in net \/ (m.from = "s" /\ ServerPacket(m)') BY <2>9, <2>11, <2>17
    <2>19. ASSUME pc = "syn", ~ late PROVE Connecting'
      <3>1. Connecting BY <1>11, <2>19
      <3>2. InFlight' BY <2>9, Zenon DEF InFlight
      <3>3. s.attempt = 1 => \A m \in net' : m.from = "c" => m.flags = SynFlags(1)
        BY <2>9, <2>11, <3>1 DEF Connecting
      <3>4. srv'.mode = srv.mode /\ Open' = Open BY <2>4, <2>9, Zenon DEF Open
      <3>5. Waiting' \subseteq Waiting \cup {r} /\ r \in Waiting' BY <1>13, <2>9 DEF Waiting
      <3>6. \A m \in Waiting : IsSynAck(m) => IsSynAck(m)' BY <1>14, <2>12, <2>13, PacketsStay,
          Zenon
      <3>7. CASE Open
        <4>1. s.attempt = 1 /\ \A m \in Waiting : m.from = "c" \/ IsSynAck(m)
          BY <3>1, <3>7 DEF Connecting
        <4>2. \A m \in Waiting' : m.from = "c" \/ IsSynAck(m)' BY <2>16, <3>5, <3>6, <4>1
        <4>3. srv'.mode \notin {"closed", "rstecn", "dropecn", "dead"}
          BY <3>4, <3>7 DEF Open, Supports
        <4> QED BY <3>2, <3>3, <4>1, <4>2, <4>3, Zenon DEF Connecting
      <3>8. CASE srv.mode \in {"rstecn", "dropecn"} /\ ~ ecn
        <4>1. s.attempt # 1 BY <1>10, <3>1, <3>8 DEF Connecting
        <4>2. ~ Open' /\ s' = s BY <3>4, <3>8, Zenon DEF Open, Supports
        <4>3. CASE srv.mode = "rstecn"
          <5>1. \A m \in Waiting : (m.from = "c" /\ m.flags = SynFlags(2)) \/ IsSynAck(m)
            BY <3>1, <4>1, <4>3, Zenon DEF Connecting
          <5>2. \A m \in Waiting' : (m.from = "c" /\ m.flags = SynFlags(2)) \/ IsSynAck(m)'
            BY <2>16, <3>5, <3>6, <5>1, Zenon
          <5> QED BY <3>2, <3>4, <4>1, <4>2, <4>3, <5>2, Zenon DEF Connecting
        <4>4. CASE srv.mode = "dropecn"
          <5>1. \A m \in Waiting : m.from = "c" \/ IsSynAck(m)
            BY <3>1, <4>1, <4>4, Zenon DEF Connecting
          <5>2. \A m \in Waiting' : m.from = "c" \/ IsSynAck(m)' BY <2>16, <3>5, <3>6, <5>1, Zenon
          <5>3. ~ (r.from = "c" /\ r.flags = SynFlags(1)) BY <2>11
          <5> QED BY <3>4, <3>5, <4>1, <4>2, <4>4, <5>2, <5>3, Zenon DEF Connecting
        <4> QED BY <3>8, <4>3, <4>4, Zenon
      <3> QED BY <1>17, <3>7, <3>8 DEF Open
    <2> QED BY <1>2, <2>12, <2>13, <2>15, <2>18, <2>19, ServerFrame, Zenon
  <1> QED BY <1>8, <1>15, <1>16, <1>17, Zenon DEF ServerSyn

\* A packet of the server's in the capture queue leaves our own requests there alone.
LEMMA MineOthers ==
  ASSUME NEW q \in Seq(Packet), NEW p \in Packet, p.from = "s"
  PROVE  Mine(Append(q, p)) = Mine(q)
  <1> DEFINE t == Append(q, p)
  <1>1. /\ t \in Seq(Packet) /\ Len(t) = Len(q) + 1 /\ Len(q) \in Nat
        /\ (\A i \in 1 .. Len(q) : t[i] = q[i]) /\ t[Len(q) + 1] = p
    OBVIOUS
  <1>2. DOMAIN t = 1 .. Len(q) + 1 /\ DOMAIN q = 1 .. Len(q) BY <1>1
  <1> HIDE DEF t
  <1>3. Mine(t) = Mine(q) BY <1>1, <1>2 DEF Mine
  <1> QED BY <1>3 DEF t

\* A packet of the server's reaches the interface: it waits elsewhere now.
LEMMA ArriveOK == ASSUME IInv, NEW p \in net, Arrive(p) PROVE IInv'
  <1> USE DEF IInv
  <1>1. /\ p.from = "s" /\ cap' = Append(cap, p) /\ net' = net \ {p}
        /\ UNCHANGED <<pc, exit, s, seen, srv, late>>
    BY DEF Arrive
  <1>2. p \in Packet /\ cap \in Seq(Packet) BY DEF TypeOK
  <1>3. /\ cap' \in Seq(Packet) /\ Len(cap') = Len(cap) + 1 /\ cap' # <<>>
        /\ Elements(cap') = Elements(cap) \cup {p}
    BY <1>1, <1>2, AppendElements
  <1>4. Mine(cap') = Mine(cap) BY <1>1, <1>2, MineOthers
  <1>5. TypeOK' BY <1>1, <1>3 DEF TypeOK
  <1>6. Evolves
    <2>1. srv.sent <= srv.sent BY DEF TypeOK, ServerType
    <2> QED BY <1>1, <2>1 DEF Evolves
  <1>7. Low' = Low /\ (\A j : At(j)' = At(j)) /\ Extra' = Extra BY <1>1 DEF Low, At, Extra
  <1>8. PacketsOK'
    <2>1. ASSUME NEW m \in net' PROVE ClientPacket(m)' /\ ServerPacket(m)'
      <3>1. m \in Packet /\ ClientPacket(m) /\ ServerPacket(m)
        BY <1>1, <2>1 DEF TypeOK, PacketsOK
      <3> QED BY <1>5, <1>6, <3>1, PacketsStay
    <2>2. ASSUME NEW m \in Elements(cap')
          PROVE (m.from = "c" => IsRequest(m)') /\ ServerPacket(m)'
      <3>1. m \in Packet /\ (m.from = "c" => IsRequest(m)) /\ ServerPacket(m)
        <4>1. CASE m = p
          <5>1. ServerPacket(p) BY DEF PacketsOK
          <5> QED BY <1>1, <1>2, <4>1, <5>1
        <4>2. CASE m \in Elements(cap)
          <5>1. m \in Packet BY <1>2, <4>2 DEF Elements
          <5> QED BY <4>2, <5>1 DEF PacketsOK
        <4> QED BY <1>3, <4>1, <4>2
      <3> QED BY <1>5, <1>6, <3>1, PacketsStay
    <2> QED BY <2>1, <2>2 DEF PacketsOK
  <1>9. ServerOK' BY <1>1, <1>7, Zenon DEF ServerOK
  <1>10. Synching'
    <2> SUFFICES ASSUME pc = "syn" PROVE Synching' BY <1>1, Zenon DEF Synching
    <2>1. \A m \in net' : m.from = "c" => IsSyn(m)' BY <1>1 DEF Synching, IsSyn
    <2>2. \A m \in Elements(cap') : m.from = "s" BY <1>1, <1>3, Zenon DEF Synching
    <2> QED BY <1>1, <2>1, <2>2, Zenon DEF Synching
  <1>11. Asking'
    <2>1. \A k : Fits(cap', k) <=> Fits(cap, k) BY <1>4 DEF Fits
    <2>2. s' = s /\ seen' = seen /\ srv' = srv /\ pc' = pc BY <1>1, Zenon
    <2> QED BY <1>7, <2>1, <2>2 DEF Asking, Low
  <1>12. Receiving' BY <1>1, <1>7 DEF Receiving
  <1>13. SeenOK' BY <1>1 DEF SeenOK, PassMeans
  <1>14. Ended' BY <1>1 DEF Ended
  <1>15. VerdictOK'
    <2>1. VerdictRight' BY <1>1 DEF VerdictRight, VerdictOK
    <2>2. Open' = Open BY <1>1, Zenon DEF Open
    <2>3. ASSUME pc = "syn", ~ late PROVE Connecting'
      <3>1. Connecting BY <2>3 DEF VerdictOK
      <3>2. Waiting' = Waiting BY <1>1, <1>3 DEF Waiting
      <3>3. InFlight' BY <1>3 DEF InFlight
      <3>4. Alone => Alone'
        <4> SUFFICES ASSUME Alone PROVE Alone' OBVIOUS
        <4>1. cap = <<>> /\ net = {p} BY DEF Alone
        <4>2. net' = {} /\ Len(cap') = 1 BY <1>1, <1>3, <4>1
        <4> QED BY <4>2 DEF Alone
      <3>5. \A m : (IsSynAck(m)' <=> IsSynAck(m)) /\ (IsRst(m)' <=> IsRst(m))
        BY <1>1, Zenon DEF IsSynAck, IsRst
      <3>6. s.attempt = 1 => \A m \in net' : m.from = "c" => m.flags = SynFlags(1)
        BY <1>1, <3>1 DEF Connecting
      <3> QED BY <1>1, <2>2, <3>1, <3>2, <3>3, <3>4, <3>5, <3>6 DEF Connecting
    <2> QED BY <1>1, <2>1, <2>2, <2>3 DEF VerdictOK
  <1> QED BY <1>5, <1>8, <1>9, <1>10, <1>11, <1>12, <1>13, <1>14, <1>15

-----------------------------------------------------------------------------
(* Sequence numbers *)
\* The distance from b to a.
LEMMA MinusIs ==
  ASSUME NEW a \in Seqs, NEW b \in Seqs
  PROVE  (a - b) % SeqSpace = IF a >= b THEN a - b ELSE a - b + SeqSpace
  <1>1. SeqSpace \in Nat \ {0} BY Sizes
  <1>2. CASE a >= b
    <2>1. a - b \in Nat /\ a - b < SeqSpace BY <1>1, <1>2 DEF Seqs
    <2> QED BY <1>1, <1>2, <2>1, ModSmall
  <1>3. CASE a < b
    <2>1. a - b \in -SeqSpace + 1 .. -1 BY <1>1, <1>3 DEF Seqs
    <2>2. (a - b) % SeqSpace = a - b + SeqSpace BY <1>1, <2>1
    <2> QED BY <1>3, <2>2 DEF Seqs
  <1> QED BY <1>2, <1>3, <1>1 DEF Seqs

\* The numbers of the client's bytes: in order, as long as they are few.
LEMMA Ahead ==
  ASSUME NEW x \in Seqs, NEW i \in 0 .. Tries + 1, NEW j \in 0 .. Tries + 1,
         SEQ_GT(plus(x, j), plus(x, i))
  PROVE  i < j
  <1>1. /\ plus(x, i) \in Seqs /\ plus(x, j) \in Seqs
        /\ plus(x, i) = IF x + i < SeqSpace THEN x + i ELSE x + i - SeqSpace
        /\ plus(x, j) = IF x + j < SeqSpace THEN x + j ELSE x + j - SeqSpace
    BY Sizes, PlusIs
  <1> DEFINE a == plus(x, j)
             b == plus(x, i)
  <1>2. (a - b) % SeqSpace = IF a >= b THEN a - b ELSE a - b + SeqSpace
    BY <1>1, MinusIs
  <1>3. a # b /\ ~ ((a - b) % SeqSpace >= Half) BY DEF SEQ_GT, negative, Half
  <1> HIDE DEF a, b
  <1> QED BY <1>1, <1>2, <1>3, Sizes DEF Seqs, a, b

\* In the lower half of the space, numbers do not wrap.
LEMMA NotBack ==
  ASSUME NEW x \in Seqs, x < Half, NEW j \in 1 .. Tries + 1
  PROVE  ~ (x >= plus(x, j))
  <1>1. plus(x, j) = IF x + j < SeqSpace THEN x + j ELSE x + j - SeqSpace BY Sizes, PlusIs
  <1> QED BY <1>1, Sizes DEF Seqs

\* The offset of a number from another.
LEMMA Offset ==
  ASSUME NEW a \in Seqs, NEW k \in Seqs
  PROVE  (plus(a, k) - a) % SeqSpace = k
  <1> DEFINE b == plus(a, k)
  <1>1. /\ b \in Seqs
        /\ b = IF a + k < SeqSpace THEN a + k ELSE a + k - SeqSpace
    BY Sizes, PlusIs DEF Seqs
  <1> HIDE DEF b
  <1>2. (b - a) % SeqSpace = IF b >= a THEN b - a ELSE b - a + SeqSpace BY <1>1, MinusIs
  <1>3. (b - a) % SeqSpace = k BY <1>1, <1>2, Sizes DEF Seqs
  <1> QED BY <1>3 DEF b

\* A number is past its own low bits only in the lower half.
LEMMA PastLowBits ==
  ASSUME NEW x \in Seqs, SEQ_GT(x, x % ShortSpace)
  PROVE  x < Half
  <1> DEFINE r == x % ShortSpace
             q == x \div ShortSpace
             c == Half \div ShortSpace
  <1>1. x \in Nat /\ Half \in Nat /\ ShortSpace \in Nat \ {0} BY Sizes DEF Seqs
  <1>2. r \in 0 .. ShortSpace - 1 /\ q \in Nat /\ x = ShortSpace * q + r BY <1>1, DivMod, Zenon
  <1>3. c \in Nat /\ Half = ShortSpace * c
    <2>1. c \in Nat /\ Half = ShortSpace * c + (Half % ShortSpace) BY <1>1, DivMod, Zenon
    <2>2. Half % ShortSpace = 0 /\ ShortSpace * c \in Int BY <2>1, Sizes
    <2> QED BY <2>1, <2>2
  <1>4. r \in Seqs BY <1>2, Sizes DEF Seqs
  <1>5. ~ ((x - r) % SeqSpace >= Half) BY DEF SEQ_GT, negative, Half
  <1> HIDE DEF r, q, c
  <1>6. ShortSpace * q \in Nat BY <1>1, <1>2
  <1>7. (x - r) % SeqSpace = x - r
    <2>1. (x - r) % SeqSpace = IF x >= r THEN x - r ELSE x - r + SeqSpace BY <1>4, MinusIs
    <2> QED BY <1>2, <1>6, <2>1
  <1>8. ShortSpace * q < ShortSpace * c BY <1>1, <1>2, <1>3, <1>5, <1>6, <1>7
  <1>9. q + 1 <= c
    <2> SUFFICES ASSUME q >= c PROVE FALSE BY <1>2, <1>3
    <2>1. ShortSpace * q >= ShortSpace * c BY <1>1, <1>2, <1>3
    <2> QED BY <1>1, <1>3, <1>6, <1>8, <2>1
  <1>10. ShortSpace * (q + 1) <= ShortSpace * c BY <1>1, <1>2, <1>3, <1>9
  <1>11. ShortSpace * (q + 1) = ShortSpace * q + ShortSpace BY <1>1, <1>2
  <1> QED BY <1>1, <1>2, <1>3, <1>6, <1>10, <1>11

-----------------------------------------------------------------------------
(* The history *)
\* Only a set that checkECN does not leave has to be shown: StorePackets stays in it.
LEMMA Stored ==
  ASSUME Induction, NEW V, NEW v \in V, NEW out, Len(out) \in Nat,
         \A i \in 1 .. Len(out) : \A x \in V : checkECN(x, out[i]) \in V
  PROVE  StorePackets(v, out) \in V
  <1> DEFINE k == Len(out)
             step == [i \in 1 .. k |-> [x \in V |-> checkECN(x, out[i])]]
             Def(g) == [i \in 0 .. k |-> IF i = 0 THEN v ELSE checkECN(g[i - 1], out[i])]
             after == CHOOSE g : g = Def(g)
  <1>1. step \in [1 .. k -> [V -> V]] OBVIOUS
  <1>2. \A i \in 1 .. k : \A x \in V : step[i][x] = checkECN(x, out[i]) OBVIOUS
  <1>3. PICK g \in [0 .. k -> V] : g[0] = v /\ \A n \in 1 .. k : g[n] = step[n][g[n - 1]]
    <2>1. k \in Nat OBVIOUS
    <2> HIDE DEF step, k
    <2> QED BY <1>1, <2>1, RecursionExists
  <1> HIDE DEF step
  <1>4. g = Def(g)
    <2>1. ASSUME NEW i \in 1 .. k PROVE g[i] = checkECN(g[i - 1], out[i])
      <3>1. i - 1 \in 0 .. k OBVIOUS
      <3>2. g[i - 1] \in V BY <3>1
      <3> QED BY <1>2, <1>3, <3>2, Zenon
    <2>2. \A i \in 0 .. k : g[i] = IF i = 0 THEN v ELSE checkECN(g[i - 1], out[i])
      BY <1>3, <2>1
    <2> QED BY <2>2
  <1>5. after = Def(after)
    <2> HIDE DEF Def
    <2> QED BY <1>4
  <1> DEFINE T == {i \in Nat : i <= k => after[i] \in V}
  <1>6. StorePackets(v, out) = after[k] BY DEF StorePackets
  <1>7. /\ after[0] = v
        /\ \A i \in 1 .. k : after[i] = checkECN(after[i - 1], out[i])
    <2> HIDE DEF after
    <2>1. \A i \in 0 .. k : after[i] = IF i = 0 THEN v ELSE checkECN(after[i - 1], out[i])
      BY <1>5, Zenon
    <2> QED BY <2>1
  <1> HIDE DEF after
  <1>8. 0 \in T BY <1>7
  <1>9. ASSUME NEW n \in Nat, n \in T PROVE n + 1 \in T
    <2> SUFFICES ASSUME n + 1 <= k PROVE after[n + 1] \in V OBVIOUS
    <2>1. after[n] \in V BY <1>9
    <2>2. PICK i \in 1 .. k : i = n + 1 /\ i - 1 = n OBVIOUS
    <2>3. after[i] = checkECN(after[n], out[i]) BY <1>7, <2>2
    <2> QED BY <2>1, <2>2, <2>3
  <1> HIDE DEF T
  <1>10. k \in T BY <1>8, <1>9 DEF Induction
  <1> QED BY <1>6, <1>10 DEF T

\* Our own packets show nothing of the server; one with data and CWR opens the question
\* whether the echo stops.
OwnOnly(v, cwr) == {x \in Verdict : /\ x.se = v.se /\ x.ae = v.ae /\ (x.ee = 2 => v.ee = 2)
                                    /\ x.we = v.we \/ (cwr /\ v.we # 2 /\ x.we = 1)}

\* store_packet over the packets we sent, whatever their number, leaves a verdict of OwnOnly.
LEMMA OwnStored ==
  ASSUME Induction, NEW v \in Verdict, NEW out \in Seq(Packet), NEW cwr \in BOOLEAN,
         \A p \in Elements(out) : /\ p.from = "c"
                                  /\ "CWR" \in p.flags /\ p.len > 0 => cwr
  PROVE  StorePackets(v, out) \in OwnOnly(v, cwr)
  <1> DEFINE V == OwnOnly(v, cwr)
  <1>1. v \in V /\ Len(out) \in Nat BY DEF OwnOnly
  <1>2. ASSUME NEW i \in 1 .. Len(out), NEW x \in V PROVE checkECN(x, out[i]) \in V
    <2>1. out[i] \in Packet /\ x \in Verdict /\ out[i] \in Elements(out) BY DEF OwnOnly, Elements
    <2>2. checkECN(x, out[i]) \in Verdict BY <2>1, CheckType
    <2>3. out[i].from = "c" /\ ("CWR" \in out[i].flags /\ out[i].len > 0 => cwr) BY <2>1
    <2> DEFINE y == checkECN(x, out[i])
    <2>4. /\ y.se = x.se /\ y.ae = x.ae
          /\ y.ee = IF x.ee # 2 /\ "ECE" \in out[i].flags THEN 1 ELSE x.ee
          /\ y.we = IF x.we # 2 /\ out[i].len > 0 /\ "CWR" \in out[i].flags THEN 1 ELSE x.we
      BY <2>1, <2>3, Zenon DEF checkECN, Verdict
    <2> HIDE DEF y
    <2>5. /\ x.se = v.se /\ x.ae = v.ae /\ (x.ee = 2 => v.ee = 2)
          /\ x.we = v.we \/ (cwr /\ v.we # 2 /\ x.we = 1)
      BY Zenon DEF OwnOnly
    <2>6. /\ y.se = v.se /\ y.ae = v.ae /\ (y.ee = 2 => v.ee = 2)
          /\ y.we = v.we \/ (cwr /\ v.we # 2 /\ y.we = 1)
      BY <2>3, <2>4, <2>5
    <2> QED BY <2>2, <2>6 DEF OwnOnly, y
  <1> HIDE DEF V
  <1>3. StorePackets(v, out) \in V BY <1>1, <1>2, Stored
  <1> QED BY <1>3 DEF V

-----------------------------------------------------------------------------
(* The capture queue *)
\* The packets of short sequences.
LEMMA FewElements ==
  ASSUME NEW p \in Packet, NEW q \in Packet
  PROVE  /\ <<>> \in Seq(Packet) /\ Elements(<<>>) = {}
         /\ <<p>> \in Seq(Packet) /\ Elements(<<p>>) = {p}
         /\ <<p, q>> \in Seq(Packet) /\ Elements(<<p, q>>) = {p, q}
  <1>1. <<>> \in Seq(Packet) /\ <<p>> \in Seq(Packet) /\ <<p, q>> \in Seq(Packet) OBVIOUS
  <1>2. DOMAIN <<p>> = {1} /\ <<p>>[1] = p OBVIOUS
  <1>3. DOMAIN <<p, q>> = {1, 2} /\ <<p, q>>[1] = p /\ <<p, q>>[2] = q OBVIOUS
  <1> QED BY <1>1, <1>2, <1>3 DEF Elements

\* Taking the first packet.
LEMMA TailElements ==
  ASSUME NEW q \in Seq(Packet), q # <<>>
  PROVE  /\ Head(q) \in Packet /\ Tail(q) \in Seq(Packet) /\ Len(Tail(q)) = Len(q) - 1
         /\ Elements(q) = Elements(Tail(q)) \cup {Head(q)}
  <1> DEFINE t == Tail(q)
  <1>1. /\ Head(q) \in Packet /\ t \in Seq(Packet) /\ Len(t) = Len(q) - 1
        /\ \A i \in 1 .. Len(t) : t[i] = q[i + 1]
    OBVIOUS
  <1>2. Head(q) = q[1] /\ Len(q) \in Nat \ {0} OBVIOUS
  <1>3. DOMAIN t = 1 .. Len(q) - 1 /\ DOMAIN q = 1 .. Len(q) BY <1>1
  <1> HIDE DEF t
  <1>4. ASSUME NEW i \in DOMAIN q PROVE q[i] \in Elements(t) \cup {Head(q)}
    <2>1. CASE i = 1 BY <1>2, <2>1
    <2>2. CASE i # 1
      <3>1. i - 1 \in DOMAIN t /\ t[i - 1] = q[i] BY <1>1, <1>2, <1>3, <2>2
      <3> QED BY <3>1 DEF Elements
    <2> QED BY <2>1, <2>2
  <1>5. ASSUME NEW i \in DOMAIN t PROVE t[i] \in Elements(q)
    <2>1. i + 1 \in DOMAIN q /\ t[i] = q[i + 1] BY <1>1, <1>2, <1>3
    <2> QED BY <2>1 DEF Elements
  <1>6. Head(q) \in Elements(q) BY <1>2, <1>3 DEF Elements
  <1>7. Elements(q) = Elements(t) \cup {Head(q)}
    BY <1>4, <1>5, <1>6 DEF Elements
  <1> QED BY <1>1, <1>7 DEF t

\* One sequence after another.
LEMMA ConcatElements ==
  ASSUME NEW a \in Seq(Packet), NEW b \in Seq(Packet)
  PROVE  a \o b \in Seq(Packet) /\ Elements(a \o b) = Elements(a) \cup Elements(b)
  <1> DEFINE c == a \o b
  <1>1. /\ c \in Seq(Packet) /\ Len(c) = Len(a) + Len(b) /\ Len(a) \in Nat /\ Len(b) \in Nat
        /\ \A i \in 1 .. Len(a) + Len(b) : c[i] = IF i <= Len(a) THEN a[i] ELSE b[i - Len(a)]
    OBVIOUS
  <1>2. DOMAIN a = 1 .. Len(a) /\ DOMAIN b = 1 .. Len(b) /\ DOMAIN c = 1 .. Len(a) + Len(b)
    BY <1>1
  <1> HIDE DEF c
  <1>3. ASSUME NEW i \in DOMAIN c PROVE c[i] \in Elements(a) \cup Elements(b)
    <2>1. CASE i <= Len(a) BY <1>1, <1>2, <2>1 DEF Elements
    <2>2. CASE i > Len(a)
      <3>1. i - Len(a) \in DOMAIN b /\ c[i] = b[i - Len(a)] BY <1>1, <1>2, <2>2
      <3> QED BY <3>1 DEF Elements
    <2> QED BY <1>1, <1>2, <2>1, <2>2
  <1>4. ASSUME NEW i \in DOMAIN a PROVE a[i] \in Elements(c)
    BY <1>1, <1>2 DEF Elements
  <1>5. ASSUME NEW i \in DOMAIN b PROVE b[i] \in Elements(c)
    <2>1. PICK j \in DOMAIN c : j = i + Len(a) /\ j > Len(a) /\ j - Len(a) = i BY <1>1, <1>2
    <2>2. c[j] = b[i] BY <1>1, <1>2, <2>1
    <2> QED BY <2>2 DEF Elements
  <1>6. Elements(c) = Elements(a) \cup Elements(b) BY <1>3, <1>4, <1>5 DEF Elements
  <1> QED BY <1>1, <1>6 DEF c

\* None of our own requests is in the queue.
LEMMA FitsNone ==
  ASSUME NEW q \in Seq(Packet), \A p \in Elements(q) : p.from = "s"
  PROVE  Fits(q, 0)
  <1>1. Mine(q) = {} BY DEF Mine, Elements
  <1>2. [i \in {} |-> 1] \in [{} -> 1 .. 0] OBVIOUS
  <1> QED BY <1>1, <1>2, Zenon DEF Fits

\* Taking the first packet: one less, when it is one of ours.
LEMMA FitsTail ==
  ASSUME NEW q \in Seq(Packet), q # <<>>, NEW k, Fits(q, k)
  PROVE  Fits(Tail(q), k) /\ (Head(q).from = "c" => Fits(Tail(q), k - 1))
  <1> DEFINE t == Tail(q)
  <1>1. /\ t \in Seq(Packet) /\ Len(t) = Len(q) - 1 /\ Len(q) \in Nat \ {0}
        /\ \A i \in 1 .. Len(t) : t[i] = q[i + 1]
    OBVIOUS
  <1>2. DOMAIN t = 1 .. Len(q) - 1 /\ DOMAIN q = 1 .. Len(q) /\ Head(q) = q[1] BY <1>1
  <1> HIDE DEF t
  <1>3. PICK M : M = Mine(q) OBVIOUS
  <1>4. PICK A : A = Mine(t) OBVIOUS
  <1>5. /\ \A i \in A : i \in Nat \ {0} /\ i + 1 \in M
        /\ Head(q).from = "c" => 1 \in M
    BY <1>1, <1>2, <1>3, <1>4 DEF Mine
  <1>6. k \in Nat BY DEF Fits
  <1>7. PICK f \in [M -> 1 .. k] : \A i, j \in M : i < j => f[i] < f[j]
    BY <1>3 DEF Fits
  <1>8. Fits(t, k)
    <2> DEFINE g == [i \in A |-> f[i + 1]]
    <2>1. g \in [A -> 1 .. k] BY <1>5, <1>7
    <2>2. ASSUME NEW i \in A, NEW j \in A, i < j PROVE g[i] < g[j] BY <1>5, <1>7, <2>2
    <2> HIDE DEF g
    <2> QED BY <1>4, <1>6, <2>1, <2>2 DEF Fits
  <1>9. ASSUME Head(q).from = "c" PROVE Fits(t, k - 1)
    <2> DEFINE g == [i \in A |-> f[i + 1] - 1]
    <2>1. 1 \in M /\ f[1] \in 1 .. k BY <1>5, <1>7, <1>9
    <2>2. k - 1 \in Nat BY <1>6, <2>1
    <2>3. ASSUME NEW i \in A PROVE f[i + 1] - 1 \in 1 .. k - 1
      <3>1. i + 1 \in M /\ 1 < i + 1 BY <1>5
      <3>2. f[i + 1] \in 1 .. k /\ f[1] < f[i + 1] BY <1>7, <2>1, <3>1
      <3> QED BY <1>6, <2>1, <3>2
    <2>4. g \in [A -> 1 .. k - 1] BY <2>3
    <2>5. ASSUME NEW i \in A, NEW j \in A, i < j PROVE g[i] < g[j]
      <3>1. i + 1 \in M /\ j + 1 \in M /\ i + 1 < j + 1 BY <1>5, <2>5
      <3>2. f[i + 1] < f[j + 1] /\ f[i + 1] \in 1 .. k /\ f[j + 1] \in 1 .. k BY <1>7, <3>1
      <3> QED BY <1>6, <3>2
    <2> HIDE DEF g
    <2> QED BY <1>4, <2>2, <2>4, <2>5 DEF Fits
  <1> QED BY <1>8, <1>9 DEF t

\* Adding a packet at the end.
LEMMA FitsAppend ==
  ASSUME NEW q \in Seq(Packet), NEW p \in Packet, NEW k, Fits(q, k)
  PROVE  Fits(Append(q, p), k + 1)
  <1> DEFINE t == Append(q, p)
  <1>1. /\ t \in Seq(Packet) /\ Len(t) = Len(q) + 1 /\ Len(q) \in Nat
        /\ \A i \in 1 .. Len(q) : t[i] = q[i]
    OBVIOUS
  <1>2. DOMAIN t = 1 .. Len(q) + 1 /\ DOMAIN q = 1 .. Len(q) BY <1>1
  <1> HIDE DEF t
  <1>3. PICK M : M = Mine(q) OBVIOUS
  <1>4. PICK A : A = Mine(t) OBVIOUS
  <1>5. PICK n \in Nat : n = Len(q) BY <1>1
  <1>6. \A i \in A : i \in 1 .. n + 1 /\ (i # n + 1 => i \in M)
    BY <1>1, <1>2, <1>3, <1>4, <1>5 DEF Mine
  <1>7. k \in Nat BY DEF Fits
  <1>8. PICK f \in [M -> 1 .. k] : \A i, j \in M : i < j => f[i] < f[j]
    BY <1>3 DEF Fits
  <1> DEFINE g == [i \in A |-> IF i = n + 1 THEN k + 1 ELSE f[i]]
  <1>9. g \in [A -> 1 .. k + 1] BY <1>6, <1>7, <1>8
  <1>10. ASSUME NEW i \in A, NEW j \in A, i < j PROVE g[i] < g[j]
    <2>1. i # n + 1 /\ i \in M /\ f[i] \in 1 .. k BY <1>6, <1>8, <1>10
    <2>2. CASE j = n + 1 BY <1>7, <2>1, <2>2
    <2>3. CASE j # n + 1
      <3>1. j \in M BY <1>6, <2>3
      <3>2. f[i] < f[j] BY <1>8, <1>10, <2>1, <3>1
      <3> QED BY <2>1, <2>3, <3>2
    <2> QED BY <2>2, <2>3
  <1> HIDE DEF g
  <1> QED BY <1>4, <1>7, <1>9, <1>10 DEF Fits, t

-----------------------------------------------------------------------------
(* The client's steps in general *)
\* SeenOK, of a verdict that is not stored yet.
SeenGood(v) == /\ v.se = 1 => srv.ecn
               /\ v.ae => srv.ecn
               /\ v.we = 2 => srv.sawCWR
               /\ v.ee = 2 => srv.sentCWR
               /\ v.we = 1 => srv.ecn

\* Our own packets: CWR is only sent where ECN was agreed on.
Sends(out) == \A p \in Elements(out) : p.from = "c" /\ ("CWR" \in p.flags /\ p.len > 0 => srv.ecn)

\* Our own packets add no pass that is not true.
LEMMA OwnGood ==
  ASSUME Induction, NEW v \in Verdict, SeenGood(v), NEW out \in Seq(Packet), Sends(out),
         srv.ecn \in BOOLEAN
  PROVE  StorePackets(v, out) \in Verdict /\ SeenGood(StorePackets(v, out))
  <1> DEFINE w == StorePackets(v, out)
  <1>1. w \in OwnOnly(v, srv.ecn) BY OwnStored DEF Sends
  <1> HIDE DEF w
  <1>2. w \in Verdict /\ SeenGood(w) BY <1>1 DEF OwnOnly, SeenGood
  <1> QED BY <1>2 DEF w

\* A client's new session t.
Renews(t) == t \in SessionType /\ t.iss = s.iss /\ (s.send_cwr # 0 => t.send_cwr # 0)

\* What holds after a step that does not end the program.
LEMMA StepFrame ==
  ASSUME Induction, IInv, NEW next \in {"syn", "data", "rcv"}, NEW t, NEW v \in Verdict,
         NEW rest \in Seq(Packet), NEW out \in Seq(Packet),
         Step(next, exit, t, v, rest, out), late' \in BOOLEAN,
         Renews(t), SeenGood(v), Sends(out), pc # "syn" => next # "syn",
         Elements(rest) \subseteq Elements(cap), \A p \in Elements(out) : ClientPacket(p)'
  PROVE  /\ TypeOK' /\ Evolves /\ PacketsOK' /\ ServerOK' /\ SeenOK' /\ Ended'
         /\ \A p \in Elements(cap') : \/ p \in Elements(rest)
                                      \/ p \in Elements(out) /\ p.flags = {"PSH", "ACK"}
         /\ net' \subseteq net \cup Elements(out) /\ Elements(out) \subseteq net'
  <1> USE DEF IInv
  <1>1. /\ pc' = next /\ exit' = exit /\ s' = t /\ seen' = StorePackets(v, out) /\ srv' = srv
        /\ cap' = IF Queued(out) = {} THEN rest ELSE Append(rest, CHOOSE p \in Queued(out) : TRUE)
        /\ net' = Elements(out) \cup
             IF \E p \in Elements(out) : PureAck(p) THEN {p \in net : ~ PureAck(p)} ELSE net
    BY DEF Step
  <1>2. Elements(out) \subseteq Packet BY SeqElements
  <1>3. net' \subseteq net \cup Elements(out) /\ Elements(out) \subseteq net' BY <1>1
  <1>4. /\ cap' \in Seq(Packet)
        /\ \A p \in Elements(cap') : \/ p \in Elements(rest)
                                     \/ p \in Elements(out) /\ p.flags = {"PSH", "ACK"}
    <2>1. CASE Queued(out) = {} BY <1>1, <2>1, Zenon
    <2>2. CASE Queued(out) # {}
      <3> DEFINE r == CHOOSE p \in Queued(out) : TRUE
      <3>1. r \in Queued(out) BY <2>2
      <3> HIDE DEF r
      <3>2. r \in Elements(out) /\ r.flags = {"PSH", "ACK"} /\ r \in Packet
        BY <1>2, <3>1, Zenon DEF Queued
      <3>3. cap' = Append(rest, r) BY <1>1, <2>2 DEF r
      <3>4. /\ Append(rest, r) \in Seq(Packet)
            /\ Elements(Append(rest, r)) = Elements(rest) \cup {r}
        BY <3>2, AppendElements, Zenon
      <3>5. \A p \in Elements(rest) \cup {r} : p \in Elements(rest) \/ p = r BY Zenon
      <3> QED BY <3>2, <3>3, <3>4, <3>5, Zenon
    <2> QED BY <2>1, <2>2, Zenon
  <1>5. srv \in ServerType /\ srv.ecn \in BOOLEAN BY DEF TypeOK, ServerType
  <1>6. seen' \in Verdict /\ SeenGood(seen') BY <1>1, <1>5, OwnGood
  <1>7. TypeOK'
    <2>1. net' \in SUBSET Packet BY <1>2, <1>3 DEF TypeOK
    <2>2. exit' \in Exits /\ s' \in SessionType /\ srv' \in ServerType BY <1>1 DEF TypeOK, Renews
    <2> QED BY <1>1, <1>4, <1>6, <2>1, <2>2, Zenon DEF TypeOK
  <1>8. Evolves
    <2>1. srv.sent <= srv.sent BY <1>5 DEF ServerType
    <2> QED BY <1>1, <2>1, Zenon DEF Evolves, Renews
  <1>9. PacketsOK'
    <2>1. ASSUME NEW p \in net' PROVE ClientPacket(p)' /\ ServerPacket(p)'
      <3>1. CASE p \in net
        <4>1. p \in Packet /\ ClientPacket(p) /\ ServerPacket(p) BY <3>1 DEF TypeOK, PacketsOK
        <4> QED BY <1>7, <1>8, <4>1, PacketsStay
      <3>2. CASE p \in Elements(out) BY <3>2, Zenon DEF ServerPacket, Sends
      <3> QED BY <1>3, <3>1, <3>2
    <2>2. ASSUME NEW p \in Elements(cap')
          PROVE (p.from = "c" => IsRequest(p)') /\ ServerPacket(p)'
      <3>1. CASE p \in Elements(rest)
        <4>1. p \in Packet /\ (p.from = "c" => IsRequest(p)) /\ ServerPacket(p)
          <5>1. p \in Elements(cap) BY <3>1, Zenon
          <5>2. p \in Packet BY <5>1 DEF TypeOK, Elements
          <5> QED BY <5>1, <5>2 DEF PacketsOK
        <4> QED BY <1>7, <1>8, <4>1, PacketsStay
      <3>2. CASE p \in Elements(out) /\ p.flags = {"PSH", "ACK"}
        <4>1. p.from = "c" /\ ClientPacket(p)' BY <3>2, Zenon DEF Sends
        <4>2. ~ IsSyn(p)' /\ ~ IsCwr(p)' /\ ~ IsAck(p)'
          BY <3>2, RequestFlags, Zenon DEF IsSyn, IsCwr, IsAck
        <4>3. IsRequest(p)' BY <4>1, <4>2, Zenon DEF ClientPacket
        <4> QED BY <4>1, <4>3, Zenon DEF ServerPacket
      <3> QED BY <1>4, <3>1, <3>2, Zenon
    <2> QED BY <2>1, <2>2 DEF PacketsOK
  <1>10. ServerOK' BY <1>1, <1>8, ServerStays, Zenon
  <1>11. SeenOK' BY <1>1, <1>6 DEF SeenOK, SeenGood, PassMeans
  <1> QED BY <1>1, <1>3, <1>4, <1>7, <1>8, <1>9, <1>10, <1>11, Zenon DEF Ended

\* What holds after a step that ends it: all but the verdict.
LEMMA QuitFrame ==
  ASSUME Induction, IInv, pc # "end", NEW code \in Exits, NEW t, NEW v \in Verdict,
         NEW out \in Seq(Packet),
         Quit(code, t, v, out), late' \in BOOLEAN, Renews(t), SeenGood(v), Sends(out),
         VerdictRight'
  PROVE  IInv'
  <1> USE DEF IInv
  <1>1. /\ pc' = "end" /\ exit' = code /\ s' = t /\ seen' = StorePackets(v, out) /\ srv' = srv
        /\ cap' = <<>> /\ net' = {}
    BY DEF Quit
  <1>2. srv \in ServerType /\ srv.ecn \in BOOLEAN BY DEF TypeOK, ServerType
  <1>3. seen' \in Verdict /\ SeenGood(seen') BY <1>1, <1>2, OwnGood
  <1>4. TypeOK'
    <2>1. s' \in SessionType /\ cap' \in Seq(Packet) /\ net' \in SUBSET Packet
      BY <1>1, NoElements, Zenon DEF Renews
    <2> QED BY <1>1, <1>2, <1>3, <2>1 DEF TypeOK
  <1>5. Evolves
    <2>1. srv.sent <= srv.sent BY <1>2 DEF ServerType
    <2> QED BY <1>1, <2>1, Zenon DEF Evolves, Renews
  <1>6. ServerOK' BY <1>1, <1>5, ServerStays, Zenon
  <1>7. SeenOK' BY <1>1, <1>3 DEF SeenOK, SeenGood, PassMeans
  <1>8. PacketsOK' BY <1>1, NoElements, Zenon DEF PacketsOK
  <1>9. (Synching /\ Asking /\ Receiving /\ Ended)'
    BY <1>1, Zenon DEF Synching, Asking, Receiving, Ended
  <1>10. VerdictOK' BY <1>1 DEF VerdictOK
  <1> QED BY <1>4, <1>6, <1>7, <1>8, <1>9, <1>10

\* A packet of the server that is read while the verdict about CWR is open is not an
\* answer to the SYN only.
LEMMA ReadGood ==
  ASSUME IInv, NEW p \in Packet, ServerPacket(p), p.from = "s",
         seen.we = 1 => ~ (p.ack = At(0) /\ Low)
  PROVE  /\ checkECN(seen, p) \in Verdict /\ SeenGood(checkECN(seen, p))
         /\ seen.we = 0 => checkECN(seen, p).we = 0
  <1> DEFINE v == checkECN(seen, p)
             ece == "ECE" \in p.flags
             cwr == "CWR" \in p.flags
  <1>1. v \in Verdict /\ seen \in Verdict BY CheckType DEF IInv, TypeOK
  <1>2. /\ v.se = 1 => seen.se = 1 \/ ece
        /\ v.ae => seen.ae \/ ece
        /\ v.we = IF seen.we = 1 /\ ~ ece THEN 2 ELSE seen.we
        /\ v.ee = 2 => seen.ee = 2 \/ cwr
    BY <1>1, Zenon DEF checkECN, Verdict
  <1>3. /\ ece => srv.ecn
        /\ cwr => srv.sentCWR
        /\ srv.ecn /\ ~ srv.sawCWR /\ ~ ece => p.ack = At(0) /\ Low
    BY Zenon DEF ServerPacket
  <1>4. SeenGood(seen) BY DEF IInv, SeenOK, SeenGood, PassMeans
  <1> HIDE DEF v, ece, cwr
  <1>5. SeenGood(v) BY <1>2, <1>3, <1>4 DEF SeenGood
  <1> QED BY <1>1, <1>2, <1>5 DEF v

=============================================================================
