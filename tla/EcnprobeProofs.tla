--------------------------- MODULE EcnprobeProofs ---------------------------
(***************************************************************************)
(* Proofs about ecnprobe: the steps of the client keep the invariant of     *)
(* EcnprobeInvariant, from which the theorems follow.                       *)
(***************************************************************************)
EXTENDS EcnprobeInvariant

\* The request that follows the handshake.
LEMMA EstablishedOK ==
  ASSUME Induction, IInv, pc = "syn", cap # <<>>, NEW p, p = Head(cap),
         p.from = "s", {"SYN", "ACK"} \subseteq p.flags, Established(p), OnTime
  PROVE  IInv'
  <1> USE DEF IInv
  <1>1. p \in Packet /\ Tail(cap) \in Seq(Packet) /\ Elements(cap) = Elements(Tail(cap)) \cup {p}
    BY TailElements DEF TypeOK
  <1>2. ServerPacket(p) BY <1>1 DEF PacketsOK
  <1>3. p.seq = srv.irs /\ srv.conn = "open" /\ IsSynAck(p)
    BY <1>2 DEF ServerPacket, IsRst, IsSynAck, IsSegment
  <1>4. /\ s \in SessionType /\ srv \in ServerType /\ late \in BOOLEAN /\ late' = late
        /\ s.got = {0} /\ s.send_cwr = 0 /\ seen.we = 0 /\ exit = "running"
    BY DEF TypeOK, Synching, VerdictOK, OnTime
  <1>a. \A q \in Elements(cap) : q.from = "s" BY DEF Synching
  <1>5. PICK v : v = checkECN(seen, p) OBVIOUS
  <1>b. v \in Verdict /\ SeenGood(v) /\ v.we = 0
    <2>1. seen.we = 0 BY <1>4
    <2>2. seen.we = 1 => ~ (p.ack = At(0) /\ Low) BY <2>1
    <2> QED BY <1>1, <1>2, <1>4, <1>5, <2>1, <2>2, ReadGood
  <1>c. PICK x : x = plus(s.iss, 1) OBVIOUS
  <1>d. PICK y : y = plus(p.seq, 1) OBVIOUS
  <1>e. PICK t : t = [s EXCEPT !.irs = p.seq, !.rcv_nxt = y, !.snd_nxt = x, !.snd_una = x] OBVIOUS
  <1>f. PICK third : third = Ack(t, {"ACK"}) OBVIOUS
  <1>6. x \in Seqs /\ At(0) = x BY <1>c, AtType
  <1>7. y \in Seqs /\ p.seq \in Seqs
    <2>1. p.seq \in Seqs BY <1>1 DEF Packet
    <2> QED BY <1>d, <2>1, Sizes, PlusIs
  <1>8. /\ t \in SessionType /\ t.iss = s.iss /\ t.snd_nxt = x /\ t.snd_una = x /\ t.rcv_nxt = y
        /\ t.irs = p.seq /\ t.got = {0} /\ t.send_cwr = 0
    BY <1>4, <1>6, <1>7, <1>e, Zenon DEF SessionType
  <1>9. /\ IF s.attempt = 1
           THEN Step("data", exit, [t EXCEPT !.tries = 1, !.last = t.snd_nxt % ShortSpace], v,
                     Tail(cap), <<third, Own(t, {"PSH", "ACK"}, 1, TRUE)>>)
           ELSE Quit("ECN_SYN_DROP", t, v, <<third>>)
    BY <1>5, <1>c, <1>d, <1>e, <1>f DEF Established
  <1>g. {"ACK"} \in SUBSET Flags /\ {"PSH", "ACK"} \in SUBSET Flags BY DEF Flags
  <1>10. third \in Packet /\ third.from = "c" /\ third.flags = {"ACK"} /\ third.len = 0
    BY <1>8, <1>f, <1>g, AckType
  <1>11. ~ late => Connecting BY DEF VerdictOK
  <1>12. CASE s.attempt = 1
    <2>a. PICK u : u = [t EXCEPT !.tries = 1, !.last = t.snd_nxt % ShortSpace] OBVIOUS
    <2>b. PICK r : r = Own(t, {"PSH", "ACK"}, 1, TRUE) BY Zenon
    <2>c. PICK out : out = <<third, r>> BY Zenon
    <2>1. Step("data", exit, u, v, Tail(cap), out) BY <1>9, <1>12, <2>a, <2>b, <2>c
    <2>2. x % ShortSpace \in 0 .. ShortSpace - 1
      <3>1. x \in Nat /\ ShortSpace \in Nat \ {0} BY <1>6, Sizes DEF Seqs
      <3> QED BY <3>1, DivMod
    <2>3. /\ u \in SessionType /\ u.iss = s.iss /\ u.snd_nxt = x /\ u.snd_una = x
          /\ u.rcv_nxt = y /\ u.irs = p.seq /\ u.got = {0} /\ u.send_cwr = 0 /\ u.tries = 1
          /\ u.last = x % ShortSpace
      <3>1. 1 \in 0 .. Tries BY Sizes
      <3> QED BY <1>8, <2>2, <2>a, <3>1, Zenon DEF SessionType
    <2>4. /\ r \in Packet /\ r.from = "c" /\ r.flags = {"PSH", "ACK"} /\ r.seq = x /\ r.ce
      BY <1>8, <2>b, RequestType, Zenon
    <2>5. out \in Seq(Packet) /\ Elements(out) = {third, r} BY <1>10, <2>4, <2>c, FewElements, Zenon
    <2>6. s' = u /\ pc' = "data" /\ exit' = exit /\ srv' = srv BY <2>1 DEF Step
    <2>7. At(0)' = x BY <1>6, <2>3, <2>6 DEF At
    <2>8. ClientPacket(third)' /\ ClientPacket(r)'
      <3>1. IsAck(third)' BY <1>10 DEF IsAck
      <3>2. IsRequest(r)' 
        <4>1. 0 \in 0 .. Tries - 1 BY Sizes
        <4> QED BY <2>4, <2>7, <4>1 DEF IsRequest
      <3> QED BY <3>1, <3>2 DEF ClientPacket
    <2>9. Sends(out) BY <1>10, <2>4, <2>5 DEF Sends
    <2>10. Renews(u) BY <1>4, <2>3 DEF Renews
    <2>11. \A q \in Elements(out) : ClientPacket(q)' BY <2>5, <2>8
    <2>12. /\ TypeOK' /\ Evolves /\ PacketsOK' /\ ServerOK' /\ SeenOK' /\ Ended'
      BY <1>1, <1>4, <1>b, <2>1, <2>5, <2>9, <2>10, <2>11, StepFrame, Zenon
    <2>13. cap' = Append(Tail(cap), r)
      <3>1. third.flags # {"PSH", "ACK"} BY <1>10
      <3>2. Queued(out) = {r} BY <2>4, <2>5, <3>1 DEF Queued
      <3>3. (CHOOSE q \in Queued(out) : TRUE) = r BY <3>2
      <3> QED BY <2>1, <3>2, <3>3, Zenon DEF Step
    <2>14. Fits(cap', 1)
      <3>1. Fits(Tail(cap), 0) BY <1>1, <1>a, FitsNone, Zenon
      <3>2. Tail(cap) \in Seq(Packet) BY <1>1
      <3>3. PICK q : q = Tail(cap) BY Zenon
      <3>4. q \in Seq(Packet) /\ r \in Packet /\ Fits(q, 0) BY <2>4, <3>1, <3>2, <3>3
      <3>5. Fits(Append(q, r), 0 + 1) BY <3>4, FitsAppend
      <3> QED BY <2>13, <3>3, <3>5
    <2>15. seen'.we = 0
      <3>1. \A q \in Elements(out) : q.from = "c" /\ ("CWR" \in q.flags /\ q.len > 0 => FALSE)
        BY <1>10, <2>4, <2>5
      <3>2. StorePackets(v, out) \in OwnOnly(v, FALSE) BY <1>b, <2>5, <3>1, OwnStored, Zenon
      <3> QED BY <1>b, <2>1, <3>2 DEF Step, OwnOnly
    <2>16. Asking'
      <3>1. Fits(cap', u.tries - 0) BY <2>3, <2>14
      <3>2. 0 \in 0 .. Tries BY Sizes
      <3>3. u.rcv_nxt = plus(u.irs, 1) BY <1>d, <2>3
      <3> QED BY <1>3, <2>3, <2>6, <2>7, <2>15, <3>1, <3>2, <3>3 DEF Asking
    <2>17. ~ late' => Open'
      <3> SUFFICES ASSUME ~ late PROVE Open' BY <1>4
      <3>1. p \in Waiting /\ srv.mode \in Modes BY <1>1, <1>4 DEF Waiting, ServerType
      <3>2. ~ IsRst(p) BY <1>3 DEF IsRst, IsSynAck
      <3>3. Open
        BY <1>4, <1>a, <1>11, <1>12, <3>1, <3>2, ModesAssumption, Zenon
          DEF Connecting, Open, Supports
      <3> QED BY <2>6, <3>3 DEF Open
    <2>18. VerdictOK' BY <1>4, <2>6, <2>17 DEF VerdictOK, VerdictRight
    <2>19. Synching' /\ Receiving' BY <2>6 DEF Synching, Receiving
    <2> QED BY <2>12, <2>16, <2>18, <2>19
  <1>13. CASE s.attempt # 1
    <2>1. Quit("ECN_SYN_DROP", t, v, <<third>>) BY <1>9, <1>13
    <2>2. <<third>> \in Seq(Packet) /\ Elements(<<third>>) = {third} BY <1>10, FewElements, Zenon
    <2>3. Sends(<<third>>) BY <1>10, <2>2 DEF Sends
    <2>4. Renews(t) BY <1>4, <1>8 DEF Renews
    <2>5. VerdictRight'
      <3>1. exit' = "ECN_SYN_DROP" /\ srv' = srv BY <2>1 DEF Quit
      <3> SUFFICES ASSUME ~ late PROVE srv.mode \in {"rstecn", "dropecn"}
        BY <1>4, <3>1 DEF VerdictRight
      <3>2. p \in Waiting /\ srv.mode \in Modes BY <1>1, <1>4 DEF Waiting, ServerType
      <3>3. ~ IsRst(p) BY <1>3 DEF IsRst, IsSynAck
      <3> QED BY <1>4, <1>a, <1>11, <1>13, <3>2, <3>3, ModesAssumption, Zenon
          DEF Connecting, Open, Supports
    <2>6. "ECN_SYN_DROP" \in Exits BY DEF Exits
    <2> QED BY <1>4, <1>b, <2>1, <2>2, <2>3, <2>4, <2>5, <2>6, QuitFrame, Zenon
  <1> QED BY <1>12, <1>13

\* A step while connecting, which sends SYNs or nothing.
LEMMA SynStep ==
  ASSUME Induction, IInv, pc = "syn", NEW t, NEW rest \in Seq(Packet), NEW out \in Seq(Packet),
         Step("syn", exit, t, seen, rest, out), late' \in BOOLEAN,
         Renews(t), t.snd_nxt = s.iss, t.got = {0}, t.send_cwr = 0,
         Elements(rest) \subseteq Elements(cap),
         \A p \in Elements(out) : /\ p.from = "c" /\ p.flags \in {SynFlags(1), SynFlags(2)}
                                  /\ p.seq = s.iss /\ p.len = 0
  PROVE  /\ TypeOK' /\ Evolves /\ PacketsOK' /\ ServerOK' /\ SeenOK' /\ Ended' /\ Synching'
         /\ Asking' /\ Receiving' /\ VerdictRight'
         /\ cap' = rest /\ net' = net \cup Elements(out)
         /\ pc' = "syn" /\ exit' = "running" /\ s' = t /\ srv' = srv
  <1> USE DEF IInv
  <1>1. /\ pc' = "syn" /\ exit' = exit /\ s' = t /\ seen' = StorePackets(seen, out) /\ srv' = srv
        /\ exit = "running" /\ seen \in Verdict /\ seen.we = 0
    BY DEF Step, VerdictOK, TypeOK, Synching
  <1>2. SeenGood(seen) BY Zenon DEF SeenOK, SeenGood, PassMeans
  <1>3. \A p \in Elements(out) : "ACK" \notin p.flags BY DEF SynFlags
  <1>4. Sends(out) BY DEF Sends
  <1>5. \A p \in Elements(out) : ClientPacket(p)' /\ IsSyn(p)'
    <2>1. s'.iss = s.iss BY <1>1 DEF Renews
    <2> QED BY <2>1 DEF ClientPacket, IsSyn
  <1>6. /\ TypeOK' /\ Evolves /\ PacketsOK' /\ ServerOK' /\ SeenOK' /\ Ended'
    BY <1>1, <1>2, <1>4, <1>5, StepFrame, Zenon
  <1>7. cap' = rest
    <2>1. Queued(out) = {} BY <1>3 DEF Queued
    <2> QED BY <2>1 DEF Step
  <1>8. net' = net \cup Elements(out)
    <2>1. ~ \E p \in Elements(out) : PureAck(p) BY <1>3 DEF PureAck
    <2> QED BY <2>1 DEF Step
  <1>9. seen'.we = 0
    <2>1. \A q \in Elements(out) : q.from = "c" /\ ("CWR" \in q.flags /\ q.len > 0 => FALSE)
      OBVIOUS
    <2>2. StorePackets(seen, out) \in OwnOnly(seen, FALSE) BY <1>1, <2>1, OwnStored, Zenon
    <2> QED BY <1>1, <2>2 DEF OwnOnly
  <1>10. Synching'
    <2>1. \A p \in net' : p.from = "c" => IsSyn(p)'
      <3>1. \A p \in net : p \in Packet /\ (p.from = "c" => IsSyn(p)) BY DEF Synching, TypeOK
      <3>2. \A p \in net : p.from = "c" => IsSyn(p)' BY <1>6, <3>1, PacketsStay, Zenon
      <3> QED BY <1>5, <1>8, <3>2
    <2>2. \A p \in Elements(cap') : p.from = "s" BY <1>7 DEF Synching
    <2>3. s'.snd_nxt = s'.iss BY <1>1 DEF Renews
    <2> QED BY <1>1, <1>9, <2>1, <2>2, <2>3 DEF Synching
  <1>11. Asking' /\ Receiving' BY <1>1, Zenon DEF Asking, Receiving
  <1>12. VerdictRight' BY <1>1, Zenon DEF VerdictRight
  <1> QED BY <1>1, <1>6, <1>7, <1>8, <1>10, <1>11, <1>12, Zenon

\* A packet that says nothing while connecting is a late one.
LEMMA SynPass ==
  ASSUME Induction, IInv, pc = "syn", cap # <<>>, Pass(Tail(cap)), OnTime,
         ~ ({"SYN", "ACK"} \subseteq Head(cap).flags), "RST" \notin Head(cap).flags
  PROVE  IInv'
  <1> USE DEF IInv
  <1>1. PICK p : p = Head(cap) OBVIOUS
  <1>2. p \in Packet /\ Tail(cap) \in Seq(Packet) /\ Elements(cap) = Elements(Tail(cap)) \cup {p}
    BY <1>1, TailElements DEF TypeOK
  <1>3. PICK out : out = <<>> OBVIOUS
  <1>4. out \in Seq(Packet) /\ Elements(out) = {} BY <1>2, <1>3, FewElements, Zenon
  <1>5. /\ s \in SessionType /\ late \in BOOLEAN /\ late' = late /\ srv.mode \in Modes
        /\ s.got = {0} /\ s.send_cwr = 0 /\ s.snd_nxt = s.iss
    BY DEF TypeOK, Synching, OnTime, ServerType
  <1>6. PICK t : t = s OBVIOUS
  <1>7. Renews(t) /\ t.snd_nxt = s.iss /\ t.got = {0} /\ t.send_cwr = 0 BY <1>5, <1>6 DEF Renews
  <1>8. Step("syn", exit, t, seen, Tail(cap), out) BY <1>3, <1>6 DEF Pass
  <1>9. /\ TypeOK' /\ PacketsOK' /\ ServerOK' /\ SeenOK' /\ Ended' /\ Synching'
        /\ Asking' /\ Receiving' /\ VerdictRight' /\ pc' = "syn" /\ exit' = "running"
    BY <1>2, <1>4, <1>5, <1>7, <1>8, SynStep, Zenon
  <1>10. late
    <2> SUFFICES ASSUME ~ late PROVE FALSE BY <1>5
    <2>1. p \in Waiting /\ p.from = "s" BY <1>2 DEF Waiting, Synching
    <2>2. ~ IsRst(p) /\ ~ IsSynAck(p) BY <1>1 DEF IsRst, IsSynAck
    <2>3. Connecting BY DEF VerdictOK
    <2> QED BY <1>5, <2>1, <2>2, <2>3, ModesAssumption, Zenon DEF Connecting, Open, Supports
  <1>11. VerdictOK' BY <1>5, <1>9, <1>10 DEF VerdictOK
  <1> QED BY <1>9, <1>11

\* The session of the second attempt.
Second(rc) == [s EXCEPT !.attempt = 2, !.tries = 0, !.first = rc]

\* The second attempt, with a SYN that does not ask for ECN.
LEMMA SecondType ==
  ASSUME IInv, pc = "syn", NEW rc \in {"rst", "none"}, NEW t, t = Second(rc)
  PROVE  /\ Renews(t) /\ t.snd_nxt = s.iss /\ t.got = {0} /\ t.send_cwr = 0 /\ t.attempt = 2
         /\ t.first = rc
  <1>1. s \in SessionType /\ s.got = {0} /\ s.send_cwr = 0 /\ s.snd_nxt = s.iss
    BY DEF IInv, TypeOK, Synching
  <1>2. 0 \in 0 .. Tries BY Sizes
  <1>3. 2 \in 1 .. 2 OBVIOUS
  <1>4. rc \in {"unknown", "rst", "none"} OBVIOUS
  <1>5. t \in SessionType
    <2>1. PICK x : x = [s EXCEPT !.attempt = 2] BY Zenon
    <2>2. x \in SessionType BY <1>1, <1>3, <2>1 DEF SessionType
    <2>3. PICK y : y = [x EXCEPT !.tries = 0] BY Zenon
    <2>4. y \in SessionType BY <1>2, <2>2, <2>3 DEF SessionType
    <2>5. [y EXCEPT !.first = rc] \in SessionType BY <1>4, <2>4 DEF SessionType
    <2>6. t = [y EXCEPT !.first = rc] BY <2>1, <2>3 DEF Second
    <2> QED BY <2>5, <2>6, Zenon
  <1>6. /\ t.snd_nxt = s.snd_nxt /\ t.got = s.got /\ t.send_cwr = s.send_cwr /\ t.attempt = 2
        /\ t.first = rc /\ t.iss = s.iss
    BY <1>1 DEF SessionType, Second
  <1> QED BY <1>1, <1>5, <1>6, Zenon DEF Renews

\* A reset: once more without ECN, or the end.
LEMMA ResetOK ==
  ASSUME Induction, IInv, pc = "syn", cap # <<>>, Failed("rst", Tail(cap), <<>>), OnTime,
         Head(cap).from = "s", ~ ({"SYN", "ACK"} \subseteq Head(cap).flags),
         "RST" \in Head(cap).flags
  PROVE  IInv'
  <1> USE DEF IInv
  <1>1. PICK p : p = Head(cap) OBVIOUS
  <1>2. /\ p \in Packet /\ Tail(cap) \in Seq(Packet) /\ Elements(cap) = Elements(Tail(cap)) \cup {p}
        /\ Len(Tail(cap)) = Len(cap) - 1
    BY <1>1, TailElements DEF TypeOK
  <1>a. s.attempt \in 1 .. 2 /\ srv.mode \in Modes BY DEF TypeOK, ServerType, SessionType
  <1>3. s \in SessionType /\ seen \in Verdict /\ late \in BOOLEAN /\ late' = late
    BY DEF TypeOK, OnTime, ServerType, SessionType
  <1>4. ~ late => Connecting BY DEF VerdictOK
  <1>5. p \in Waiting /\ ~ IsSynAck(p) /\ p.from = "s" BY <1>1, <1>2 DEF Waiting, IsSynAck
  <1>6. CASE s.attempt = 1
    <2>1. PICK t : t = Second("rst") OBVIOUS
    <2>2. PICK syn : syn = Syn(t) OBVIOUS
    <2>3. PICK out : out = <<syn>> BY Zenon
    <2>4. /\ Renews(t) /\ t.snd_nxt = s.iss /\ t.got = {0} /\ t.send_cwr = 0 /\ t.attempt = 2
          /\ t.first = "rst"
      BY <2>1, SecondType
    <2>5. /\ syn \in Packet /\ syn.from = "c" /\ syn.flags = SynFlags(2) /\ syn.seq = s.iss
          /\ syn.len = 0
      BY <2>2, <2>4, SynType DEF Renews
    <2>6. out \in Seq(Packet) /\ Elements(out) = {syn} BY <2>3, <2>5, FewElements, Zenon
    <2>7. Step("syn", exit, t, seen, Tail(cap), out)
      <3>1. Append(<<>>, syn) = <<syn>> BY <2>5
      <3> QED BY <1>6, <2>1, <2>2, <2>3, <3>1 DEF Failed, Second
    <2>8. /\ TypeOK' /\ Evolves /\ PacketsOK' /\ ServerOK' /\ SeenOK' /\ Ended' /\ Synching'
          /\ Asking' /\ Receiving' /\ VerdictRight'
          /\ cap' = Tail(cap) /\ net' = net \cup {syn}
          /\ pc' = "syn" /\ exit' = "running" /\ s' = t /\ srv' = srv
      BY <1>2, <1>3, <2>4, <2>5, <2>6, <2>7, SynStep, Zenon
    <2>9. ASSUME ~ late PROVE Connecting'
      <3>1. srv.mode \in {"closed", "rstecn"} /\ ~ Open
        BY <1>a, <1>4, <1>5, <1>6, <2>9, ModesAssumption, Zenon DEF Connecting, Open, Supports
      <3>2. InFlight' BY <2>8 DEF InFlight
      <3>3. CASE srv.mode = "closed"
        <4>1. ASSUME NEW q \in Waiting' PROVE q.from = "c" \/ IsRst(q)'
          <5>1. CASE q = syn BY <2>5, <5>1, Zenon
          <5>2. CASE q \in Waiting
            <6>1. q \in Packet BY <5>2 DEF Waiting, TypeOK, Elements
            <6>2. q.from = "c" \/ IsRst(q) BY <1>4, <2>9, <3>3, <5>2 DEF Connecting
            <6> QED BY <2>8, <6>1, <6>2, PacketsStay
          <5> QED BY <1>2, <2>8, <5>1, <5>2 DEF Waiting
        <4>2. s'.attempt = 2 /\ s'.first = "rst" /\ srv'.mode = "closed" /\ ~ Open'
          BY <2>4, <2>8, <3>1, <3>3 DEF Open
        <4> QED BY <3>2, <4>1, <4>2 DEF Connecting
      <3>4. CASE srv.mode = "rstecn"
        <4>1. Alone BY <1>4, <1>6, <2>9, <3>4 DEF Connecting
        <4>2. net = {} /\ Len(cap) = 1 BY <4>1 DEF Alone
        <4>3. Elements(Tail(cap)) = {}
          <5>1. cap \in Seq(Packet) BY <1>2 DEF TypeOK
          <5>2. Tail(cap) \in Seq(Packet) /\ Len(Tail(cap)) = 0 BY <4>2, <5>1
          <5>3. PICK q : q = Tail(cap) BY Zenon
          <5>4. q = <<>> BY <5>2, <5>3
          <5>5. Elements(q) = {} BY <5>4 DEF Elements
          <5> QED BY <5>3, <5>5
        <4>4. Waiting' = {syn} BY <2>8, <4>2, <4>3 DEF Waiting
        <4>5. s'.attempt = 2 /\ srv'.mode = "rstecn" /\ ~ Open'
          BY <2>4, <2>8, <3>1, <3>4 DEF Open
        <4> QED BY <2>5, <3>2, <4>4, <4>5 DEF Connecting
      <3> QED BY <3>1, <3>3, <3>4
    <2>10. VerdictOK' BY <1>3, <2>8, <2>9 DEF VerdictOK
    <2> QED BY <2>8, <2>10
  <1>7. CASE s.attempt = 2
    <2>1. PICK code : code = IF s.first = "rst" THEN "EARLY_RST" ELSE "NO_CONNECTION" OBVIOUS
    <2>2. Quit(code, s, seen, <<>>) /\ code \in Exits BY <1>7, <2>1 DEF Failed, Exits
    <2>3. <<>> \in Seq(Packet) /\ Elements(<<>>) = {} BY <1>2, FewElements, Zenon
    <2>4. Sends(<<>>) /\ Renews(s) /\ SeenGood(seen)
      BY <1>3, <2>3 DEF Sends, Renews, SeenOK, SeenGood, PassMeans
    <2>5. VerdictRight'
      <3>1. exit' = code /\ srv' = srv BY <2>2 DEF Quit
      <3>2. ~ late => srv.mode = "closed" /\ s.first = "rst"
        <4> SUFFICES ASSUME ~ late PROVE srv.mode = "closed" /\ s.first = "rst" OBVIOUS
        <4>1. Connecting BY <1>4
        <4>2. s.attempt # 1 BY <1>7
        <4>3. ~ Open BY <4>1, <4>2 DEF Connecting
        <4>4. srv.mode # "rstecn" BY <1>5, <4>1, <4>2 DEF Connecting
        <4>5. srv.mode # "dropecn" /\ srv.mode # "dead" BY <1>5, <4>1, <4>2 DEF Connecting
        <4>6. srv.mode = "closed"
          BY <1>a, <4>3, <4>4, <4>5, ModesAssumption, Zenon DEF Open, Supports
        <4> QED BY <1>7, <4>1, <4>6 DEF Connecting
      <3> QED BY <1>3, <2>1, <3>1, <3>2 DEF VerdictRight
    <2> QED BY <1>3, <2>2, <2>3, <2>4, <2>5, QuitFrame, Zenon
  <1> QED BY <1>a, <1>6, <1>7

\* SynRead: a packet taken from the queue while the SYN waits for its answer.
LEMMA SynReadOK == ASSUME Induction, IInv, SynRead PROVE IInv'
  <1>1. pc = "syn" /\ cap # <<>> /\ OnTime BY DEF SynRead
  <1>2. PICK p : p = Head(cap) OBVIOUS
  <1>3. p.from = "s"
    <2>1. p \in Elements(cap) BY <1>1, <1>2, TailElements DEF IInv, TypeOK
    <2> QED BY <1>1, <2>1 DEF IInv, Synching
  <1>4. CASE {"SYN", "ACK"} \subseteq p.flags
    <2>1. Established(p) BY <1>2, <1>3, <1>4 DEF SynRead
    <2> QED BY <1>1, <1>2, <1>3, <1>4, <2>1, EstablishedOK
  <1>5. CASE ~ ({"SYN", "ACK"} \subseteq p.flags) /\ "RST" \in p.flags
    <2>1. Failed("rst", Tail(cap), <<>>) BY <1>2, <1>3, <1>5 DEF SynRead
    <2> QED BY <1>1, <1>2, <1>3, <1>5, <2>1, ResetOK
  <1>6. CASE ~ ({"SYN", "ACK"} \subseteq p.flags) /\ "RST" \notin p.flags
    <2>1. Pass(Tail(cap)) BY <1>2, <1>6 DEF SynRead
    <2> QED BY <1>1, <1>2, <1>6, <2>1, SynPass
  <1> QED BY <1>4, <1>5, <1>6

\* The timer of the SYN.  If nothing is late, it runs out only where the SYN was dropped.
LEMMA SynTimeoutOK == ASSUME Induction, IInv, SynTimeout PROVE IInv'
  <1> USE DEF IInv
  <1>1. pc = "syn" BY DEF SynTimeout
  <1>2. /\ s \in SessionType /\ s.tries \in 0 .. Tries /\ s.attempt \in 1 .. 2 /\ seen \in Verdict
        /\ cap \in Seq(Packet) /\ srv.mode \in Modes
        /\ s.snd_nxt = s.iss /\ s.got = {0} /\ s.send_cwr = 0
    BY <1>1 DEF TypeOK, ServerType, SessionType, Synching
  <1>3. late' \in BOOLEAN /\ (~ late' => ~ late /\ ~ InFlight)
    BY Zenon DEF TypeOK, SynTimeout, Expires, InFlight
  <1>4. ASSUME ~ late'
        PROVE  /\ net = {} /\ Elements(cap) = {}
               /\ ~ Open /\ srv.mode \in {"dropecn", "dead"} /\ (s.attempt # 1 => srv.mode = "dead")
    <2>1. net = {} /\ cap = <<>> BY <1>3, <1>4 DEF InFlight
    <2>2. Elements(cap) = {} BY <2>1 DEF Elements
    <2>3. Connecting /\ ~ InFlight BY <1>1, <1>3, <1>4 DEF VerdictOK
    <2>4. ~ Open /\ srv.mode # "closed" BY <2>3 DEF Connecting
    <2>5. ~ Alone BY <2>1 DEF Alone
    <2>6. srv.mode # "rstecn" BY <2>3, <2>5 DEF Connecting
    <2>7. s.attempt # 1 => srv.mode # "dropecn" BY <2>1, <2>2, <2>3 DEF Connecting, Waiting
    <2>8. srv.mode \in {"dropecn", "dead"}
      BY <1>2, <2>4, <2>6, ModesAssumption, Zenon DEF Open, Supports
    <2> QED BY <2>1, <2>2, <2>4, <2>7, <2>8
  <1>5. PICK first : first = Syn(s) OBVIOUS
  <1>6. /\ first \in Packet /\ first.from = "c" /\ first.flags = SynFlags(s.attempt)
        /\ first.seq = s.iss /\ first.len = 0
    BY <1>2, <1>5, SynType
  <1>7. first.flags \in {SynFlags(1), SynFlags(2)} BY <1>2, <1>6
  <1>8. PICK one : one = <<first>> BY Zenon
  <1>9. one \in Seq(Packet) /\ Elements(one) = {first} BY <1>6, <1>8, FewElements, Zenon
  <1>10. PICK again : again = [s EXCEPT !.tries = @ + 1] BY Zenon
  <1>11. again.tries = s.tries + 1 BY <1>2, <1>10 DEF SessionType
  <1>12. CASE ~ (s.tries + 1 >= Tries)
    <2>1. Step("syn", exit, again, seen, cap, one)
      BY <1>5, <1>8, <1>10, <1>11, <1>12 DEF SynTimeout
    <2>2. s.tries + 1 \in 0 .. Tries BY <1>2, <1>12, Sizes
    <2>3. /\ Renews(again) /\ again.snd_nxt = s.iss /\ again.got = {0} /\ again.send_cwr = 0
          /\ again.attempt = s.attempt
      BY <1>2, <1>10, <2>2 DEF SessionType, Renews
    <2>4. /\ TypeOK' /\ PacketsOK' /\ ServerOK' /\ SeenOK' /\ Ended' /\ Synching'
          /\ Asking' /\ Receiving' /\ VerdictRight'
          /\ cap' = cap /\ net' = net \cup {first}
          /\ pc' = "syn" /\ exit' = "running" /\ s' = again /\ srv' = srv
      BY <1>1, <1>2, <1>3, <1>6, <1>7, <1>9, <2>1, <2>3, SynStep, Zenon
    <2>5. ASSUME ~ late' PROVE Connecting'
      <3>1. Waiting' = {first} /\ net' = {first} BY <1>4, <2>4, <2>5 DEF Waiting
      <3>2. ~ Open' /\ srv'.mode \in {"dropecn", "dead"} /\ (s'.attempt # 1 => srv'.mode = "dead")
        BY <1>4, <2>3, <2>4, <2>5 DEF Open
      <3>3. s'.attempt = 1 => first.flags = SynFlags(1) BY <1>6, <2>3, <2>4
      <3> QED BY <1>6, <3>1, <3>2, <3>3, Zenon DEF Connecting
    <2>6. VerdictOK' BY <2>4, <2>5 DEF VerdictOK
    <2> QED BY <2>4, <2>6
  <1>13. CASE s.tries + 1 >= Tries
    <2>1. Failed("none", cap, one) BY <1>5, <1>8, <1>10, <1>11, <1>13 DEF SynTimeout
    <2>2. CASE s.attempt = 1
      <3>1. PICK t : t = Second("none") OBVIOUS
      <3>2. PICK syn : syn = Syn(t) OBVIOUS
      <3>3. PICK out : out = Append(one, syn) BY Zenon
      <3>4. /\ Renews(t) /\ t.snd_nxt = s.iss /\ t.got = {0} /\ t.send_cwr = 0 /\ t.attempt = 2
        BY <1>1, <3>1, SecondType
      <3>5. /\ syn \in Packet /\ syn.from = "c" /\ syn.flags = SynFlags(2) /\ syn.seq = s.iss
            /\ syn.len = 0
        BY <3>2, <3>4, SynType DEF Renews
      <3>6. out \in Seq(Packet) /\ Elements(out) = {first, syn}
        <4>1. out \in Seq(Packet) /\ Elements(out) = {first} \cup {syn}
          BY <1>9, <3>3, <3>5, AppendElements
        <4> QED BY <4>1
      <3>7. Step("syn", exit, t, seen, cap, out) BY <2>1, <2>2, <3>1, <3>2, <3>3 DEF Failed, Second
      <3>8. /\ TypeOK' /\ PacketsOK' /\ ServerOK' /\ SeenOK' /\ Ended' /\ Synching'
            /\ Asking' /\ Receiving' /\ VerdictRight'
            /\ cap' = cap /\ net' = net \cup {first, syn}
            /\ pc' = "syn" /\ exit' = "running" /\ s' = t /\ srv' = srv
        <4>1. \A p \in Elements(out) : /\ p.from = "c" /\ p.flags \in {SynFlags(1), SynFlags(2)}
                                       /\ p.seq = s.iss /\ p.len = 0
          BY <1>6, <1>7, <3>5, <3>6
        <4> QED BY <1>1, <1>2, <1>3, <3>4, <3>6, <3>7, <4>1, SynStep, Zenon
      <3>9. ASSUME ~ late' PROVE Connecting'
        <4>1. Waiting' = {first, syn} BY <1>4, <3>8, <3>9 DEF Waiting
        <4>2. ~ Open' /\ srv'.mode \in {"dropecn", "dead"} /\ s'.attempt = 2
          BY <1>4, <3>4, <3>8, <3>9 DEF Open
        <4>3. syn.flags # SynFlags(1) BY <3>5 DEF SynFlags
        <4> QED BY <1>6, <3>5, <4>1, <4>2, <4>3 DEF Connecting
      <3>10. VerdictOK' BY <3>8, <3>9, Zenon DEF VerdictOK
      <3> QED BY <3>8, <3>10
    <2>3. CASE s.attempt # 1
      <3>1. Quit("NO_CONNECTION", s, seen, one) BY <2>1, <2>3 DEF Failed
      <3>2. Sends(one) BY <1>6, <1>9 DEF Sends
      <3>3. Renews(s) /\ SeenGood(seen) /\ "NO_CONNECTION" \in Exits
        BY <1>2 DEF Renews, SeenOK, SeenGood, PassMeans, Exits
      <3>4. VerdictRight'
        <4>1. exit' = "NO_CONNECTION" /\ srv' = srv BY <3>1 DEF Quit
        <4>2. ~ late' => srv.mode = "dead" BY <1>4, <2>3, Zenon
        <4> QED BY <4>1, <4>2 DEF VerdictRight
      <3> QED BY <1>1, <1>2, <1>3, <1>9, <3>1, <3>2, <3>3, <3>4, QuitFrame
    <2> QED BY <2>2, <2>3
  <1> QED BY <1>12, <1>13

-----------------------------------------------------------------------------
(* The request *)
\* A step of DataPkt that stays in it.
LEMMA DataStep ==
  ASSUME Induction, IInv, pc = "data", NEW t, NEW rest \in Seq(Packet), NEW out \in Seq(Packet),
         Step("data", exit, t, seen, rest, out), late' \in BOOLEAN, ~ late' => ~ late,
         Renews(t), t.snd_una = s.snd_una, t.rcv_nxt = s.rcv_nxt, t.irs = s.irs,
         t.got = s.got, t.send_cwr = s.send_cwr, Elements(rest) \subseteq Elements(cap),
         \A p \in Elements(out) : p.from = "c" /\ p.flags = {"PSH", "ACK"} /\ ClientPacket(p)',
         \E i \in 0 .. Tries : /\ t.snd_nxt = At(i) /\ Fits(cap', t.tries - i)
                               /\ (i = 0 /\ t.last = At(0) % ShortSpace) \/ Low
  PROVE  IInv'
  <1> USE DEF IInv
  <1>1. /\ pc' = "data" /\ exit' = exit /\ s' = t /\ seen' = StorePackets(seen, out) /\ srv' = srv
        /\ exit = "running" /\ seen \in Verdict
    BY DEF Step, VerdictOK, TypeOK
  <1>2. /\ s.snd_una = At(0) /\ s.rcv_nxt = plus(s.irs, 1) /\ s.irs = srv.irs /\ s.got = {0}
        /\ s.send_cwr = 0 /\ seen.we = 0 /\ srv.conn = "open"
    BY Zenon DEF Asking
  <1>3. SeenGood(seen) BY Zenon DEF SeenOK, SeenGood, PassMeans
  <1>4. \A p \in Elements(out) : p.from = "c" /\ "CWR" \notin p.flags OBVIOUS
  <1>5. Sends(out) BY <1>4 DEF Sends
  <1>6. /\ TypeOK' /\ Evolves /\ PacketsOK' /\ ServerOK' /\ SeenOK' /\ Ended'
    BY <1>1, <1>3, <1>5, StepFrame, Zenon
  <1>7. seen'.we = 0
    <2>1. \A q \in Elements(out) : q.from = "c" /\ ("CWR" \in q.flags /\ q.len > 0 => FALSE)
      BY <1>4
    <2>2. StorePackets(seen, out) \in OwnOnly(seen, FALSE) BY <1>1, <2>1, OwnStored, Zenon
    <2> QED BY <1>1, <1>2, <2>2, Zenon DEF OwnOnly
  <1>8. Asking'
    <2>1. Low' = Low /\ \A j : At(j)' = At(j) BY <1>6, NumbersStay
    <2> QED BY <1>1, <1>2, <1>7, <2>1, Zenon DEF Asking
  <1>9. Synching' /\ Receiving' BY <1>1, Zenon DEF Synching, Receiving
  <1>10. VerdictOK'
    <2>1. VerdictRight' BY <1>1 DEF VerdictRight
    <2>2. ~ late => Open BY Zenon DEF VerdictOK
    <2>3. ~ late' => Open' BY <1>1, <2>2 DEF Open
    <2> QED BY <1>1, <2>1, <2>3, Zenon DEF VerdictOK
  <1> QED BY <1>6, <1>8, <1>9, <1>10, Zenon

\* Giving up ends well: that there was no data is no verdict about ECN.
LEMMA GiveUpOK ==
  ASSUME Induction, IInv, pc = "data", GiveUp, late' \in BOOLEAN, ~ late' => ~ late
  PROVE  IInv'
  <1> USE DEF IInv
  <1>1. Quit("SUCCESS", s, seen, <<>>) BY DEF GiveUp
  <1>2. <<>> \in Seq(Packet) /\ Elements(<<>>) = {} BY DEF Elements
  <1>3. s \in SessionType /\ seen \in Verdict BY DEF TypeOK
  <1>4. Sends(<<>>) /\ Renews(s) /\ SeenGood(seen) /\ "SUCCESS" \in Exits
    BY <1>2, <1>3 DEF Sends, Renews, SeenOK, SeenGood, PassMeans, Exits
  <1>5. VerdictRight'
    <2>1. exit' = "SUCCESS" /\ srv' = srv BY <1>1 DEF Quit
    <2>2. ~ late => Open BY DEF VerdictOK
    <2> QED BY <2>1, <2>2 DEF VerdictRight, Open
  <1> QED BY <1>1, <1>2, <1>3, <1>4, <1>5, QuitFrame, Zenon

\* The request is sent once more, or given up.
LEMMA DataTimeoutOK == ASSUME Induction, IInv, DataTimeout PROVE IInv'
  <1>1. pc = "data" BY DEF DataTimeout
  <1>2. late' \in BOOLEAN /\ (~ late' => ~ late) BY DEF IInv, TypeOK, DataTimeout, Expires, InFlight
  <1>3. CASE s.tries >= Tries
    <2>1. GiveUp BY <1>3 DEF DataTimeout
    <2> QED BY <1>1, <1>2, <2>1, GiveUpOK
  <1>4. CASE ~ (s.tries >= Tries)
    <2>1. /\ s \in SessionType /\ s.tries \in 0 .. Tries /\ cap \in Seq(Packet) /\ TypeOK
      BY DEF IInv, TypeOK, SessionType
    <2>2. PICK t : t = [s EXCEPT !.tries = @ + 1] BY Zenon
    <2>3. PICK r : r = Own(s, {"PSH", "ACK"}, 1, TRUE) BY Zenon
    <2>4. PICK out : out = <<r>> BY Zenon
    <2>5. Step("data", exit, t, seen, cap, out) BY <1>4, <2>2, <2>3, <2>4 DEF DataTimeout
    <2>6. s.tries + 1 \in 0 .. Tries BY <1>4, <2>1, Sizes
    <2>7. /\ Renews(t) /\ t.snd_una = s.snd_una /\ t.rcv_nxt = s.rcv_nxt /\ t.irs = s.irs
          /\ t.got = s.got /\ t.send_cwr = s.send_cwr /\ t.snd_nxt = s.snd_nxt
          /\ t.tries = s.tries + 1 /\ t.last = s.last
      BY <2>1, <2>2, <2>6 DEF SessionType, Renews
    <2>8. /\ r \in Packet /\ r.from = "c" /\ r.flags = {"PSH", "ACK"} /\ r.seq = s.snd_nxt /\ r.ce
      BY <2>1, <2>3, RequestType, Zenon
    <2>9. out \in Seq(Packet) /\ Elements(out) = {r} BY <2>4, <2>8, FewElements, Zenon
    <2>10. PICK i \in 0 .. Tries : /\ s.snd_nxt = At(i) /\ Fits(cap, s.tries - i)
                                   /\ (i = 0 /\ s.last = At(0) % ShortSpace) \/ Low
      BY <1>1 DEF IInv, Asking
    <2>11. s.tries - i \in Nat BY <2>10 DEF Fits
    <2>12. i \in 0 .. Tries - 1 BY <1>4, <2>1, <2>11, Sizes
    <2>13. s' = t BY <2>5 DEF Step
    <2>14. At(i)' = At(i) /\ Low' = Low BY <2>7, <2>13 DEF Renews, At, Low
    <2>15. ClientPacket(r)'
      <3>1. IsRequest(r)' BY <2>8, <2>10, <2>12, <2>14 DEF IsRequest
      <3> QED BY <3>1 DEF ClientPacket
    <2>16. cap' = Append(cap, r)
      <3>1. Queued(out) = {r} BY <2>8, <2>9 DEF Queued
      <3>2. (CHOOSE q \in Queued(out) : TRUE) = r BY <3>1
      <3> QED BY <2>5, <3>1, <3>2 DEF Step
    <2>17. Fits(cap', t.tries - i)
      <3>1. Fits(Append(cap, r), (s.tries - i) + 1) BY <2>1, <2>8, <2>10, FitsAppend
      <3>2. (s.tries - i) + 1 = t.tries - i BY <2>1, <2>7
      <3> QED BY <2>16, <3>1, <3>2
    <2>18. \A p \in Elements(out) : p.from = "c" /\ p.flags = {"PSH", "ACK"} /\ ClientPacket(p)'
      BY <2>8, <2>9, <2>15
    <2>19. \E k \in 0 .. Tries : /\ t.snd_nxt = At(k) /\ Fits(cap', t.tries - k)
                                 /\ (k = 0 /\ t.last = At(0) % ShortSpace) \/ Low
      BY <2>7, <2>10, <2>17
    <2> QED BY <1>1, <1>2, <2>1, <2>5, <2>7, <2>9, <2>18, <2>19, DataStep, Zenon
  <1> QED BY <1>3, <1>4

\* Our own request, seen again: snd_nxt moves past it, once for each request sent.
LEMMA MineOK ==
  ASSUME Induction, IInv, pc = "data", cap # <<>>, OnTime, NEW p, p = Head(cap), p.from = "c",
         SEQ_GT(p.seq, s.last),
         Step("data", exit, [s EXCEPT !.snd_nxt = plus(@, 1), !.last = p.seq % ShortSpace],
              seen, Tail(cap), <<>>)
  PROVE  IInv'
  <1>1. p \in Packet /\ Tail(cap) \in Seq(Packet) /\ Elements(cap) = Elements(Tail(cap)) \cup {p}
    BY TailElements DEF IInv, TypeOK
  <1>2. late' \in BOOLEAN /\ (~ late' => ~ late) BY DEF IInv, TypeOK, OnTime
  <1>3. /\ s \in SessionType /\ s.tries \in 0 .. Tries /\ cap \in Seq(Packet) /\ TypeOK
    BY DEF IInv, TypeOK, SessionType
  <1>4. PICK i \in 0 .. Tries : /\ s.snd_nxt = At(i) /\ Fits(cap, s.tries - i)
                                /\ (i = 0 /\ s.last = At(0) % ShortSpace) \/ Low
    BY DEF IInv, Asking
  <1>5. IsRequest(p) BY <1>1 DEF IInv, PacketsOK
  <1>6. PICK x : x = plus(s.iss, 1) OBVIOUS
  <1>7. x \in Seqs /\ At(0) = x BY <1>3, <1>6, AtType
  <1>8. Low
    <2> SUFFICES ASSUME ~ Low PROVE FALSE OBVIOUS
    <2>1. p.seq = At(0) BY <1>5 DEF IsRequest
    <2>2. SEQ_GT(x, x % ShortSpace) BY <1>4, <1>7, <2>1
    <2>3. x < Half BY <1>7, <2>2, PastLowBits
    <2> QED BY <1>6, <2>3 DEF Low, Half
  <1>9. plus(s.snd_nxt, 1) = At(i + 1) /\ At(i + 1) \in Seqs
    <2>1. i \in 0 .. SeqSpace - 1 /\ i + 1 \in 0 .. Tries + 1 BY Sizes
    <2>2. plus(plus(x, i), 1) = plus(x, i + 1) BY <1>7, <2>1, OneFurther
    <2>3. At(i + 1) \in Seqs BY <1>3, <2>1, AtType
    <2> QED BY <1>4, <1>6, <2>2, <2>3 DEF At
  <1>10. Fits(Tail(cap), (s.tries - i) - 1) BY <1>3, <1>4, FitsTail
  <1>11. (s.tries - i) - 1 = s.tries - (i + 1) BY <1>3
  <1>12. i + 1 \in 0 .. Tries /\ Fits(Tail(cap), s.tries - (i + 1))
    <2>1. s.tries - (i + 1) \in Nat BY <1>10, <1>11 DEF Fits
    <2>2. s.tries \in 0 .. Tries /\ Tries \in Nat BY <1>3, Sizes
    <2>3. i + 1 \in 0 .. Tries BY <2>1, <2>2
    <2> QED BY <1>10, <1>11, <2>3
  <1>13. p.seq % ShortSpace \in 0 .. ShortSpace - 1
    <2>1. p.seq \in Seqs BY <1>1 DEF Packet
    <2>2. p.seq \in Nat /\ ShortSpace \in Nat \ {0} BY <2>1, Sizes DEF Seqs
    <2> QED BY <2>2, DivMod, Zenon
  <1>14. PICK t : t = [s EXCEPT !.snd_nxt = plus(@, 1), !.last = p.seq % ShortSpace] OBVIOUS
  <1>15. PICK out : out = <<>> OBVIOUS
  <1>16. Step("data", exit, t, seen, Tail(cap), out) BY <1>14, <1>15
  <1>17. out \in Seq(Packet) /\ Elements(out) = {} BY <1>1, <1>15, FewElements, Zenon
  <1>18. /\ Renews(t) /\ t.snd_una = s.snd_una /\ t.rcv_nxt = s.rcv_nxt /\ t.irs = s.irs
         /\ t.got = s.got /\ t.send_cwr = s.send_cwr /\ t.snd_nxt = At(i + 1)
         /\ t.tries = s.tries
    BY <1>3, <1>9, <1>13, <1>14, Zenon DEF SessionType, Renews
  <1>19. cap' = Tail(cap)
    <2>1. Queued(out) = {} BY <1>17 DEF Queued
    <2> QED BY <1>16, <2>1 DEF Step
  <1>20. \E k \in 0 .. Tries : /\ t.snd_nxt = At(k) /\ Fits(cap', t.tries - k)
                               /\ (k = 0 /\ t.last = At(0) % ShortSpace) \/ Low
    BY <1>8, <1>12, <1>18, <1>19
  <1> QED BY <1>1, <1>2, <1>16, <1>17, <1>18, <1>20, DataStep, Zenon

\* A packet that is not looked at.
LEMMA DataPass ==
  ASSUME Induction, IInv, pc = "data", cap # <<>>, OnTime, Pass(Tail(cap))
  PROVE  IInv'
  <1>1. /\ Tail(cap) \in Seq(Packet) /\ Elements(Tail(cap)) \subseteq Elements(cap)
        /\ Head(cap) \in Packet
    BY TailElements DEF IInv, TypeOK
  <1>2. late' \in BOOLEAN /\ (~ late' => ~ late) BY DEF IInv, TypeOK, OnTime
  <1>3. s \in SessionType /\ s.tries \in 0 .. Tries /\ cap \in Seq(Packet)
    BY DEF IInv, TypeOK, SessionType
  <1>4. PICK i \in 0 .. Tries : /\ s.snd_nxt = At(i) /\ Fits(cap, s.tries - i)
                                /\ (i = 0 /\ s.last = At(0) % ShortSpace) \/ Low
    BY DEF IInv, Asking
  <1>7. Fits(Tail(cap), s.tries - i) BY <1>3, <1>4, FitsTail
  <1>8. PICK t : t = s OBVIOUS
  <1>9. PICK out : out = <<>> OBVIOUS
  <1>10. Step("data", exit, t, seen, Tail(cap), out) BY <1>8, <1>9 DEF Pass
  <1>11. out \in Seq(Packet) /\ Elements(out) = {} BY <1>1, <1>9, FewElements, Zenon
  <1>12. Renews(t) BY <1>3, <1>8 DEF Renews
  <1>13. cap' = Tail(cap)
    <2>1. Queued(out) = {} BY <1>11 DEF Queued
    <2> QED BY <1>10, <2>1 DEF Step
  <1>14. \E k \in 0 .. Tries : /\ t.snd_nxt = At(k) /\ Fits(cap', t.tries - k)
                               /\ (k = 0 /\ t.last = At(0) % ShortSpace) \/ Low
    BY <1>4, <1>7, <1>8, <1>13
  <1> QED BY <1>1, <1>2, <1>8, <1>10, <1>11, <1>12, <1>14, DataStep, Zenon

\* The answer acknowledges something, so a request has arrived.
LEMMA AnswerOK ==
  ASSUME Induction, IInv, pc = "data", cap # <<>>, OnTime, NEW p, p = Head(cap), p.from = "s",
         SEQ_GT(p.ack, s.snd_una),
         Step("rcv", exit, [s EXCEPT !.snd_una = p.ack, !.snd_nxt = p.ack],
              checkECN(seen, p), Tail(cap), <<>>)
  PROVE  IInv'
  <1> USE DEF IInv
  <1>1. p \in Packet /\ Tail(cap) \in Seq(Packet) /\ Elements(cap) = Elements(Tail(cap)) \cup {p}
    BY TailElements DEF TypeOK
  <1>2. late' \in BOOLEAN /\ (~ late' => ~ late) BY DEF TypeOK, OnTime
  <1>3. /\ s.snd_una = At(0) /\ s.rcv_nxt = plus(s.irs, 1) /\ s.irs = srv.irs /\ s.got = {0}
        /\ s.send_cwr = 0 /\ seen.we = 0
    BY DEF Asking
  <1>4. s \in SessionType /\ srv \in ServerType /\ srv.sent \in Nat
    BY DEF TypeOK, ServerType
  <1>5. ServerPacket(p) BY <1>1 DEF PacketsOK
  <1>6. Extra = 0 BY <1>3 DEF Extra
  <1>7. PICK j \in 0 .. Tries + Extra : p.ack = At(j) /\ (j = 0 \/ srv.started)
    BY <1>5 DEF ServerPacket
  <1>8. j \in 0 .. Tries /\ j # 0
    <2>1. j \in 0 .. Tries BY <1>6, Sizes
    <2>2. PICK x : x = plus(s.iss, 1) OBVIOUS
    <2>3. x \in Seqs BY <2>2, AtType
    <2>4. SEQ_GT(plus(x, j), plus(x, 0)) BY <1>3, <1>7, <2>2 DEF At
    <2>5. 0 \in 0 .. Tries + 1 /\ j \in 0 .. Tries + 1 BY <2>1, Sizes
    <2>6. 0 < j BY <2>3, <2>4, <2>5, Ahead
    <2> QED BY <2>1, <2>6
  <1>9. p.ack \in Seqs BY <1>1 DEF Packet
  <1>10. PICK v : v = checkECN(seen, p) OBVIOUS
  <1>11. v \in Verdict /\ SeenGood(v)
    <2>1. seen.we = 1 => ~ (p.ack = At(0) /\ Low) BY <1>3
    <2> QED BY <1>1, <1>5, <1>10, <2>1, ReadGood
  <1>12. PICK t : t = [s EXCEPT !.snd_una = p.ack, !.snd_nxt = p.ack] OBVIOUS
  <1>13. /\ Renews(t) /\ t.snd_una = p.ack /\ t.snd_nxt = p.ack /\ t.rcv_nxt = s.rcv_nxt
         /\ t.irs = s.irs /\ t.got = s.got
    BY <1>4, <1>9, <1>12, Zenon DEF SessionType, Renews
  <1>14. PICK out : out = <<>> OBVIOUS
  <1>15. out \in Seq(Packet) /\ Elements(out) = {} BY <1>1, <1>14, FewElements, Zenon
  <1>16. Step("rcv", exit, t, v, Tail(cap), out) BY <1>10, <1>12, <1>14
  <1>17. Sends(out) BY <1>15 DEF Sends
  <1>18. TypeOK' /\ Evolves /\ PacketsOK' /\ ServerOK' /\ SeenOK' /\ Ended'
    <2>1. Elements(Tail(cap)) \subseteq Elements(cap) /\ \A q \in Elements(out) : ClientPacket(q)'
      BY <1>1, <1>15
    <2> QED BY <1>1, <1>2, <1>11, <1>13, <1>15, <1>16, <1>17, <2>1, StepFrame, Zenon
  <1>19. pc' = "rcv" /\ exit' = exit /\ exit = "running" /\ s' = t /\ srv' = srv
    BY <1>16 DEF Step, VerdictOK
  <1>20. Receiving'
    <2>1. At(j)' = At(j) /\ Extra' \in 0 .. 1 BY <1>18, NumbersStay
    <2>2. j \in 1 .. Tries + Extra' /\ j \in 0 .. Tries + Extra' BY <1>8, <2>1, Sizes
    <2>3. 1 \in 1 .. srv.sent + 1 /\ {0} \subseteq 0 .. srv.sent BY <1>4
    <2>4. 0 .. 1 - 1 \subseteq {0} /\ 1 \notin {0} OBVIOUS
    <2>5. srv.started BY <1>7, <1>8
    <2>6. s'.irs = srv'.irs /\ srv'.started /\ s'.got \subseteq 0 .. srv'.sent
      BY <1>3, <1>13, <1>19, <2>3, <2>5
    <2>7. \E n \in 1 .. srv'.sent + 1 : /\ s'.rcv_nxt = plus(s'.irs, n)
                                        /\ 0 .. n - 1 \subseteq s'.got /\ n \notin s'.got
      <3>1. s'.rcv_nxt = plus(s'.irs, 1) /\ s'.got = {0} BY <1>3, <1>13, <1>19
      <3> QED BY <1>19, <2>3, <2>4, <3>1
    <2>8. s'.snd_una = At(j)' /\ s'.snd_nxt = At(j)' BY <1>7, <1>13, <1>19, <2>1
    <2> QED BY <2>2, <2>6, <2>7, <2>8 DEF Receiving
  <1>21. Synching' /\ Asking' BY <1>19 DEF Synching, Asking
  <1>22. VerdictOK'
    <2>1. VerdictRight' BY <1>19 DEF VerdictRight
    <2>2. ~ late => Open BY DEF VerdictOK
    <2>3. ~ late' => Open' BY <1>2, <1>19, <2>2 DEF Open
    <2> QED BY <1>19, <2>1, <2>3 DEF VerdictOK
  <1> QED BY <1>18, <1>20, <1>21, <1>22

\* DataRead: a packet taken from the queue while the request waits for its answer.
LEMMA DataReadOK == ASSUME Induction, IInv, DataRead PROVE IInv'
  <1>1. pc = "data" /\ cap # <<>> /\ OnTime BY DEF DataRead
  <1>2. late' \in BOOLEAN /\ (~ late' => ~ late) BY <1>1 DEF IInv, TypeOK, OnTime
  <1>3. PICK p : p = Head(cap) OBVIOUS
  <1>4. \/ /\ p.from = "c" /\ SEQ_GT(p.seq, s.last)
           /\ Step("data", exit, [s EXCEPT !.snd_nxt = plus(@, 1), !.last = p.seq % ShortSpace],
                   seen, Tail(cap), <<>>)
        \/ /\ p.from = "s" /\ SEQ_GT(p.ack, s.snd_una)
           /\ Step("rcv", exit, [s EXCEPT !.snd_una = p.ack, !.snd_nxt = p.ack],
                   checkECN(seen, p), Tail(cap), <<>>)
        \/ GiveUp
        \/ Pass(Tail(cap))
    BY <1>3 DEF DataRead
  <1> QED BY <1>1, <1>2, <1>3, <1>4, MineOK, AnswerOK, GiveUpOK, DataPass, Zenon

-----------------------------------------------------------------------------
(* The response *)
\* AckHonest for a session t: the first byte missing is the n-th.
Honest(t) == /\ t.got \subseteq 0 .. srv.sent
             /\ \E n \in 1 .. srv.sent + 1 : /\ t.rcv_nxt = plus(t.irs, n)
                                             /\ 0 .. n - 1 \subseteq t.got /\ n \notin t.got

\* ECNAckData takes only bytes the server has sent, and stops at the first hole.
LEMMA TakenOK ==
  ASSUME Induction, IInv, pc = "rcv", NEW p \in Packet, ServerPacket(p), p.from = "s",
         NEW t, t = Taken(s, p)
  PROVE  /\ t \in SessionType /\ Honest(t) /\ t.irs = s.irs /\ t.iss = s.iss
         /\ t.snd_nxt = s.snd_nxt /\ t.snd_una = s.snd_una /\ t.send_cwr = s.send_cwr
  <1>1. s \in SessionType /\ s.irs = srv.irs /\ s.irs \in Seqs /\ srv.sent \in 0 .. Segments
    BY DEF IInv, TypeOK, SessionType, ServerType, Receiving
  <1>2. Honest(s) BY DEF IInv, Receiving, Honest
  <1>3. PICK n \in 1 .. srv.sent + 1 : /\ s.rcv_nxt = plus(s.irs, n)
                                       /\ 0 .. n - 1 \subseteq s.got /\ n \notin s.got
    BY <1>2 DEF Honest
  <1>4. n \in Seqs /\ srv.sent \in Nat /\ n \in Nat BY <1>1, Sizes DEF Seqs
  <1>5. (s.rcv_nxt - s.irs) % SeqSpace = n BY <1>1, <1>3, <1>4, Offset, Zenon
  <1>6. PICK K : K = {(p.seq + i - s.irs) % SeqSpace : i \in 0 .. p.len - 1} BY Zenon
  <1>7. K \subseteq 0 .. srv.sent
    <2> SUFFICES ASSUME NEW i \in 0 .. p.len - 1
                 PROVE (p.seq + i - s.irs) % SeqSpace \in 0 .. srv.sent
      BY <1>6
    <2>1. p.len \in 0 .. 1 /\ p.seq \in Seqs BY DEF Packet
    <2>2. i = 0 /\ p.len = 1 BY <2>1
    <2>3. PICK k \in 1 .. srv.sent : p.seq = plus(srv.irs, k)
      BY <2>2 DEF ServerPacket, IsRst, IsSynAck, IsSegment
    <2>4. k \in Seqs BY <1>1, Sizes DEF Seqs
    <2>5. (plus(s.irs, k) - s.irs) % SeqSpace = k BY <1>1, <2>4, Offset, Zenon
    <2>6. p.seq + i - s.irs = p.seq - s.irs BY <1>1, <2>1, <2>2 DEF Seqs
    <2> QED BY <1>1, <1>4, <2>3, <2>5, <2>6
  <1>8. PICK got : got = s.got \cup K BY Zenon
  <1>9. got \subseteq 0 .. srv.sent BY <1>2, <1>7, <1>8, Zenon DEF Honest
  <1>10. PICK missing : missing = CHOOSE m \in n .. Segments + 2 :
                                    m \notin got /\ n .. m - 1 \subseteq got
    OBVIOUS
  <1>11. missing \in n .. Segments + 2 /\ missing \notin got /\ n .. missing - 1 \subseteq got
    <2>1. PICK T : T = {m \in n .. Segments + 2 : m \notin got} BY Zenon
    <2>2. Segments + 1 \in T BY <1>1, <1>4, <1>9, <2>1, Sizes
    <2>3. T \in SUBSET Nat BY <1>4, <2>1, Sizes
    <2>4. PICK m \in T : \A k \in T : m <= k BY <2>2, <2>3, SmallestElement
    <2>5. n .. m - 1 \subseteq got
      <3> SUFFICES ASSUME NEW k \in n .. m - 1, k \notin got PROVE FALSE OBVIOUS
      <3>1. m \in n .. Segments + 2 BY <2>1
      <3>2. k \in n .. Segments + 2 /\ k < m BY <1>4, <3>1, Sizes
      <3>3. k \in T BY <2>1, <3>2
      <3> QED BY <1>4, <2>4, <3>1, <3>2, <3>3, Sizes
    <2>6. m \in n .. Segments + 2 /\ m \notin got BY <2>1
    <2> QED BY <1>10, <2>5, <2>6
  <1>12. missing \in Nat /\ missing >= n BY <1>4, <1>11, Sizes
  <1>13. 0 .. missing - 1 \subseteq got
    <2> SUFFICES ASSUME NEW k \in 0 .. missing - 1 PROVE k \in got OBVIOUS
    <2>1. CASE k < n BY <1>3, <1>4, <1>8, <2>1
    <2>2. CASE k >= n BY <1>4, <1>11, <1>12, <2>2
    <2> QED BY <1>4, <2>1, <2>2
  <1>14. missing \in 1 .. srv.sent + 1
    <2>1. missing - 1 \in 0 .. missing - 1 BY <1>3, <1>4, <1>12
    <2>2. missing - 1 \in 0 .. srv.sent BY <1>9, <1>13, <2>1
    <2> QED BY <1>3, <1>4, <1>12, <2>2
  <1>15. plus(s.irs, missing) \in Seqs
    <2>1. missing \in 0 .. SeqSpace BY <1>1, <1>14, Sizes
    <2> QED BY <1>1, <2>1, PlusIs
  <1>16. PICK u : u = [s EXCEPT !.got = got, !.rcv_nxt = plus(s.irs, missing)] OBVIOUS
  <1>17. t = u \/ t = s
    BY <1>5, <1>6, <1>8, <1>10, <1>16, Zenon DEF Taken
  <1>18. got \in SUBSET (0 .. Segments) BY <1>1, <1>9, Sizes
  <1>19. /\ u \in SessionType /\ u.got = got /\ u.rcv_nxt = plus(s.irs, missing)
         /\ u.irs = s.irs /\ u.iss = s.iss
         /\ u.snd_nxt = s.snd_nxt /\ u.snd_una = s.snd_una /\ u.send_cwr = s.send_cwr
    BY <1>1, <1>15, <1>16, <1>18, Zenon DEF SessionType
  <1>20. Honest(u) BY <1>9, <1>11, <1>13, <1>14, <1>19 DEF Honest
  <1> QED BY <1>1, <1>2, <1>17, <1>19, <1>20

\* The session after the answers to p have been decided on.
LEMMA ProbedOK ==
  ASSUME NEW t \in SessionType, NEW p \in Packet, NEW a, a = Acked(t, p),
         NEW u, u = Probed(a, p), plus(t.snd_nxt, 1) \in Seqs
  PROVE  /\ a \in SessionType /\ u \in SessionType /\ a.snd_nxt = t.snd_nxt
         /\ a.send_cwr = t.send_cwr
         /\ u.snd_nxt = (IF CwrSent(a, p) THEN plus(t.snd_nxt, 1) ELSE t.snd_nxt)
         /\ (CwrSent(a, p) => u.send_cwr # 0 /\ t.send_cwr = 0)
         /\ (t.send_cwr # 0 => u.send_cwr # 0)
         /\ u.iss = t.iss /\ u.irs = t.irs /\ u.got = t.got /\ u.rcv_nxt = t.rcv_nxt
         /\ u.snd_una = t.snd_una
  <1>1. /\ a \in SessionType /\ a.snd_nxt = t.snd_nxt /\ a.send_cwr = t.send_cwr
        /\ a.iss = t.iss /\ a.irs = t.irs /\ a.got = t.got /\ a.rcv_nxt = t.rcv_nxt
        /\ a.snd_una = t.snd_una
    <2>1. PICK b : b = [t EXCEPT !.send_ece = 1] BY Zenon
    <2>2. 1 \in 0 .. 2 OBVIOUS
    <2>3. /\ b \in SessionType /\ b.snd_nxt = t.snd_nxt /\ b.send_cwr = t.send_cwr
          /\ b.iss = t.iss /\ b.irs = t.irs /\ b.got = t.got /\ b.rcv_nxt = t.rcv_nxt
          /\ b.snd_una = t.snd_una
      BY <2>1, <2>2 DEF SessionType
    <2>4. a = b \/ a = t BY <2>1 DEF Acked
    <2> QED BY <2>3, <2>4
  <1>2. PICK nxt : nxt = IF CwrSent(a, p) THEN plus(a.snd_nxt, 1) ELSE a.snd_nxt OBVIOUS
  <1>3. PICK cwr : cwr = IF CwrSent(a, p) THEN 1
                         ELSE IF a.send_cwr = 1 /\ "ECE" \notin p.flags THEN 2 ELSE a.send_cwr
    OBVIOUS
  <1>4. PICK ece : ece = IF a.send_ece = 1 /\ "CWR" \in p.flags THEN 2 ELSE a.send_ece OBVIOUS
  <1>5. nxt \in Seqs /\ cwr \in 0 .. 2 /\ ece \in 0 .. 2
    <2>1. a.snd_nxt \in Seqs /\ a.send_cwr \in 0 .. 2 /\ a.send_ece \in 0 .. 2
      BY <1>1 DEF SessionType
    <2>2. nxt \in Seqs BY <1>1, <1>2, <2>1
    <2>3. cwr \in 0 .. 2 BY <1>3, <2>1
    <2>4. ece \in 0 .. 2 BY <1>4, <2>1
    <2> QED BY <2>2, <2>3, <2>4
  <1>6. u = [a EXCEPT !.snd_nxt = nxt, !.send_cwr = cwr, !.send_ece = ece]
    BY <1>2, <1>3, <1>4 DEF Probed
  <1>7. /\ u \in SessionType /\ u.snd_nxt = nxt /\ u.send_cwr = cwr /\ u.iss = t.iss
        /\ u.irs = t.irs /\ u.got = t.got /\ u.rcv_nxt = t.rcv_nxt /\ u.snd_una = t.snd_una
    BY <1>1, <1>5, <1>6, Zenon DEF SessionType
  <1>8. CwrSent(a, p) => cwr = 1 /\ t.send_cwr = 0 BY <1>1, <1>3 DEF CwrSent
  <1>9. t.send_cwr # 0 => cwr # 0 BY <1>1, <1>3
  <1> QED BY <1>1, <1>2, <1>7, <1>8, <1>9

\* What an acknowledgement moves: snd_una, and snd_nxt when that is behind.
LEMMA AdvancedOK ==
  ASSUME NEW t \in SessionType, NEW p \in Packet, NEW u, u = Advanced(t, p)
  PROVE  /\ u \in SessionType /\ u.iss = t.iss /\ u.irs = t.irs /\ u.got = t.got
         /\ u.rcv_nxt = t.rcv_nxt /\ u.send_cwr = t.send_cwr
         /\ u.snd_una = (IF SEQ_GT(p.ack, t.snd_una) THEN p.ack ELSE t.snd_una)
         /\ u.snd_nxt \in {t.snd_nxt, u.snd_una}
  <1>1. PICK una : una = IF SEQ_GT(p.ack, t.snd_una) THEN p.ack ELSE t.snd_una OBVIOUS
  <1>2. PICK nxt : nxt = IF SEQ_LT(t.snd_nxt, una) THEN una ELSE t.snd_nxt OBVIOUS
  <1>3. una \in Seqs /\ nxt \in Seqs BY <1>1, <1>2 DEF SessionType, Packet
  <1>4. u = [t EXCEPT !.snd_una = una, !.snd_nxt = nxt] BY <1>1, <1>2 DEF Advanced
  <1>5. /\ u \in SessionType /\ u.snd_una = una /\ u.snd_nxt = nxt /\ u.iss = t.iss
        /\ u.irs = t.irs /\ u.got = t.got /\ u.rcv_nxt = t.rcv_nxt /\ u.send_cwr = t.send_cwr
    BY <1>3, <1>4, Zenon DEF SessionType
  <1> QED BY <1>1, <1>2, <1>5

\* What the acknowledgement, the request with CWR and the new numbers make of a session.
Moves(p, t, a, u) ==
  /\ a \in SessionType /\ a.snd_nxt = t.snd_nxt
  /\ u \in SessionType /\ u.iss = t.iss /\ u.irs = t.irs /\ u.got = t.got
  /\ u.rcv_nxt = t.rcv_nxt
  /\ (CwrSent(a, p) => u.send_cwr # 0 /\ t.send_cwr = 0)
  /\ (t.send_cwr # 0 => u.send_cwr # 0)
  /\ u.snd_una = (IF SEQ_GT(p.ack, t.snd_una) THEN p.ack ELSE t.snd_una)
  /\ u.snd_nxt \in {u.snd_una, IF CwrSent(a, p) THEN plus(t.snd_nxt, 1) ELSE t.snd_nxt}

\* The fields of the session that ECNAckData changes after it has taken the data.
LEMMA MovedOK ==
  ASSUME NEW t \in SessionType, NEW p \in Packet, plus(t.snd_nxt, 1) \in Seqs,
         NEW a, a = Acked(t, p), NEW u, u = Advanced(Probed(a, p), p)
  PROVE  Moves(p, t, a, u)
  <1>1. PICK b : b = Probed(a, p) OBVIOUS
  <1>2. /\ a \in SessionType /\ b \in SessionType /\ a.snd_nxt = t.snd_nxt
        /\ b.snd_nxt = (IF CwrSent(a, p) THEN plus(t.snd_nxt, 1) ELSE t.snd_nxt)
        /\ (CwrSent(a, p) => b.send_cwr # 0 /\ t.send_cwr = 0)
        /\ (t.send_cwr # 0 => b.send_cwr # 0)
        /\ b.iss = t.iss /\ b.irs = t.irs /\ b.got = t.got /\ b.rcv_nxt = t.rcv_nxt
        /\ b.snd_una = t.snd_una
    BY <1>1, ProbedOK
  <1>3. /\ u \in SessionType /\ u.iss = b.iss /\ u.irs = b.irs /\ u.got = b.got
        /\ u.rcv_nxt = b.rcv_nxt /\ u.send_cwr = b.send_cwr
        /\ u.snd_una = (IF SEQ_GT(p.ack, b.snd_una) THEN p.ack ELSE b.snd_una)
        /\ u.snd_nxt \in {b.snd_nxt, u.snd_una}
    BY <1>1, <1>2, AdvancedOK
  <1> QED BY <1>2, <1>3 DEF Moves

\* Nothing sent, an acknowledgement, or the request with CWR, where ECN was agreed on.
LEMMA NoneSent == <<>> \in Seq(Packet) /\ Sends(<<>>) /\ Elements(<<>>) = {}
  BY DEF Sends, Elements

\* The acknowledgement ECNAckData sends.
LEMMA AckSent ==
  ASSUME NEW t \in SessionType, NEW u, NEW p, NEW q, q = <<Ack(t, AckFlags(u, p))>>
  PROVE  q \in Seq(Packet) /\ Sends(q) /\ \A r \in Elements(q) : IsAck(r)
  <1>1. PICK flags : flags = AckFlags(u, p) OBVIOUS
  <1>2. flags \in {{"ACK"}, {"ACK", "ECE"}} /\ flags \in SUBSET Flags BY <1>1 DEF AckFlags, Flags
  <1>3. PICK r : r = Ack(t, flags) OBVIOUS
  <1>4. r \in Packet /\ r.from = "c" /\ r.flags = flags /\ r.len = 0 BY <1>2, <1>3, AckType
  <1>5. q \in Seq(Packet) /\ Elements(q) = {r} BY <1>1, <1>3, <1>4, FewElements, Zenon
  <1>6. IsAck(r) /\ "CWR" \notin r.flags BY <1>2, <1>4 DEF IsAck
  <1> QED BY <1>4, <1>5, <1>6 DEF Sends

\* The request with CWR, as a sequence of packets.
LEMMA CwrIsSent ==
  ASSUME NEW a \in SessionType, srv.ecn, NEW q, q = <<Own(a, {"PSH", "ACK", "CWR"}, 1, FALSE)>>
  PROVE  /\ q \in Seq(Packet) /\ Sends(q)
         /\ \A r \in Elements(q) : r.flags = {"PSH", "ACK", "CWR"} /\ r.seq = a.snd_nxt
  <1>1. PICK r : r = Own(a, {"PSH", "ACK", "CWR"}, 1, FALSE) BY Zenon
  <1>2. r \in Packet /\ r.from = "c" /\ r.flags = {"PSH", "ACK", "CWR"} /\ r.seq = a.snd_nxt
    BY <1>1, CwrType, Zenon
  <1>3. q \in Seq(Packet) /\ Elements(q) = {r} BY <1>1, <1>2, FewElements, Zenon
  <1> QED BY <1>2, <1>3, Zenon DEF Sends

\* One after the other.
LEMMA BothSent ==
  ASSUME NEW q \in Seq(Packet), NEW r \in Seq(Packet), Sends(q), Sends(r)
  PROVE  /\ q \o r \in Seq(Packet) /\ Elements(q \o r) = Elements(q) \cup Elements(r)
         /\ Sends(q \o r)
  <1>1. q \o r \in Seq(Packet) /\ Elements(q \o r) = Elements(q) \cup Elements(r)
    BY ConcatElements
  <1> QED BY <1>1 DEF Sends

\* What ECNAckData sends: an acknowledgement of data, and the request with CWR for an echo.
LEMMA AckOK ==
  ASSUME NEW t \in SessionType, NEW p,
         NEW ack, ack = IF p.len > 0 THEN <<Ack(t, AckFlags(t, p))>> ELSE <<>>
  PROVE  ack \in Seq(Packet) /\ Sends(ack) /\ \A q \in Elements(ack) : IsAck(q)
  <1>1. CASE p.len > 0
    <2>1. ack = <<Ack(t, AckFlags(t, p))>> BY <1>1
    <2> QED BY <2>1, AckSent
  <1>2. CASE ~ (p.len > 0)
    <2>1. ack = <<>> BY <1>2
    <2> QED BY <2>1, NoneSent
  <1> QED BY <1>1, <1>2

\* The request with CWR is one the client may have in flight.
LEMMA CwrOK ==
  ASSUME NEW a \in SessionType, NEW p, ServerPacket(p), p.from = "s",
         NEW cwr, cwr = IF CwrSent(a, p) THEN <<Own(a, {"PSH", "ACK", "CWR"}, 1, FALSE)>> ELSE <<>>
  PROVE  /\ cwr \in Seq(Packet) /\ Sends(cwr)
         /\ \A q \in Elements(cwr) : /\ q.flags = {"PSH", "ACK", "CWR"} /\ q.seq = a.snd_nxt
                                     /\ CwrSent(a, p)
  <1>1. CASE CwrSent(a, p)
    <2>1. srv.ecn BY <1>1 DEF CwrSent, ServerPacket
    <2>2. cwr = <<Own(a, {"PSH", "ACK", "CWR"}, 1, FALSE)>> BY <1>1, Zenon
    <2>3. /\ cwr \in Seq(Packet) /\ Sends(cwr)
          /\ \A q \in Elements(cwr) : q.flags = {"PSH", "ACK", "CWR"} /\ q.seq = a.snd_nxt
      BY <2>1, <2>2, CwrIsSent, Zenon
    <2> QED BY <1>1, <2>3, Zenon
  <1>2. CASE ~ CwrSent(a, p)
    <2>1. cwr = <<>> BY <1>2
    <2> QED BY <2>1, NoneSent, Zenon
  <1> QED BY <1>1, <1>2, Zenon

\* The session t after p was taken, a after it was acknowledged, and u in the end.  One more
\* request, that with CWR, moves the numbers once.
More(u) == IF u.send_cwr = 0 THEN 0 ELSE 1

GoesOn(p, t, a, u) ==
  /\ t \in SessionType /\ a \in SessionType /\ a.snd_nxt = s.snd_nxt
  /\ Renews(u) /\ Honest(u) /\ u.irs = s.irs
  /\ \E m \in 1 .. Tries + More(u) : u.snd_una = At(m)
  /\ \E m \in 0 .. Tries + More(u) : u.snd_nxt = At(m)
  /\ CwrSent(a, p) => u.send_cwr # 0 /\ \E m \in 0 .. Tries : s.snd_nxt = At(m)

\* The session after a packet of the response.
LEMMA SessionOK ==
  ASSUME Induction, IInv, pc = "rcv", NEW p \in Packet, ServerPacket(p), p.from = "s",
         NEW t, t = Taken(s, p), NEW a, a = Acked(t, p), NEW u, u = Advanced(Probed(a, p), p)
  PROVE  GoesOn(p, t, a, u)
  <1>1. PICK ex, ey : ex = Extra /\ ey = More(u) BY Zenon
  <1>2. TypeOK /\ s \in SessionType /\ ex \in 0 .. 1 /\ Tries \in Nat
    BY <1>1, Sizes DEF IInv, TypeOK, Extra
  <1>3. PICK x : x = plus(s.iss, 1) OBVIOUS
  <1>4. x \in Seqs BY <1>2, <1>3, AtType
  <1>5. PICK j \in 1 .. Tries + ex : s.snd_una = plus(x, j) BY <1>1, <1>3, Zenon
      DEF IInv, Receiving, At
  <1>6. PICK i \in 0 .. Tries + ex : s.snd_nxt = plus(x, i) BY <1>1, <1>3, Zenon
      DEF IInv, Receiving, At
  <1>7. PICK k \in 0 .. Tries + ex : p.ack = plus(x, k) BY <1>1, <1>3, Zenon DEF ServerPacket, At
  <1>8. i \in 0 .. Tries + 1 /\ j \in 1 .. Tries + 1 /\ k \in 0 .. Tries + 1 BY <1>2
  <1>9. /\ t \in SessionType /\ Honest(t) /\ t.irs = s.irs /\ t.iss = s.iss
        /\ t.snd_nxt = s.snd_nxt /\ t.snd_una = s.snd_una /\ t.send_cwr = s.send_cwr
    BY TakenOK
  <1>10. plus(t.snd_nxt, 1) \in Seqs /\ plus(t.snd_nxt, 1) = plus(x, i + 1)
    <2>1. i \in 0 .. SeqSpace - 1 /\ i + 1 \in 0 .. SeqSpace BY <1>8, Sizes
    <2>2. plus(x, i + 1) \in Seqs /\ plus(plus(x, i), 1) = plus(x, i + 1)
      BY <1>4, <2>1, OneFurther, PlusIs
    <2> QED BY <1>6, <1>9, <2>2, Zenon
  <1>11. /\ a \in SessionType /\ a.snd_nxt = t.snd_nxt
         /\ u \in SessionType /\ u.iss = t.iss /\ u.irs = t.irs /\ u.got = t.got
         /\ u.rcv_nxt = t.rcv_nxt
         /\ (CwrSent(a, p) => u.send_cwr # 0 /\ t.send_cwr = 0)
         /\ (t.send_cwr # 0 => u.send_cwr # 0)
         /\ u.snd_una = (IF SEQ_GT(p.ack, t.snd_una) THEN p.ack ELSE t.snd_una)
         /\ u.snd_nxt \in {u.snd_una, IF CwrSent(a, p) THEN plus(t.snd_nxt, 1) ELSE t.snd_nxt}
    <2>1. Moves(p, t, a, u) BY <1>9, <1>10, MovedOK, Zenon
    <2> QED BY <2>1, Zenon DEF Moves
  <1>12. Renews(u) /\ Honest(u) /\ u.irs = s.irs
    <2>1. Renews(u) /\ u.irs = s.irs BY <1>9, <1>11, Zenon DEF Renews
    <2> QED BY <1>9, <1>11, <2>1, Zenon DEF Honest
  <1>13. ey \in 0 .. 1 /\ ex <= ey /\ (CwrSent(a, p) => ex = 0 /\ ey = 1)
    <2>1. /\ ex = IF s.send_cwr = 0 THEN 0 ELSE 1
          /\ ey = IF u.send_cwr = 0 THEN 0 ELSE 1
      BY <1>1 DEF Extra, More
    <2>2. /\ (CwrSent(a, p) => u.send_cwr # 0 /\ s.send_cwr = 0)
          /\ (s.send_cwr # 0 => u.send_cwr # 0)
      BY <1>9, <1>11, Zenon
    <2> QED BY <2>1, <2>2
  <1>14. \E m \in 1 .. Tries + ey : u.snd_una = plus(x, m)
    <2>1. CASE SEQ_GT(p.ack, s.snd_una)
      <3>1. j < k BY <1>4, <1>5, <1>7, <1>8, <2>1, Ahead
      <3>2. k \in 1 .. Tries + ey BY <1>2, <1>13, <3>1
      <3> QED BY <1>7, <1>9, <1>11, <2>1, <3>2, Zenon
    <2>2. CASE ~ SEQ_GT(p.ack, s.snd_una)
      <3>1. j \in 1 .. Tries + ey BY <1>2, <1>13
      <3> QED BY <1>5, <1>9, <1>11, <2>2, <3>1, Zenon
    <2> QED BY <2>1, <2>2
  <1>15. \E m \in 0 .. Tries + ey : u.snd_nxt = plus(x, m)
    <2>1. CwrSent(a, p) => i + 1 \in 0 .. Tries + ey BY <1>2, <1>13
    <2>2. ~ CwrSent(a, p) => i \in 0 .. Tries + ey BY <1>2, <1>13
    <2>3. \E m \in 0 .. Tries + ey :
             plus(x, m) = IF CwrSent(a, p) THEN plus(t.snd_nxt, 1) ELSE t.snd_nxt
      BY <1>6, <1>9, <1>10, <2>1, <2>2, Zenon
    <2>4. \A m \in 1 .. Tries + ey : m \in 0 .. Tries + ey BY <1>2, <1>13
    <2> QED BY <1>11, <1>14, <2>3, <2>4, Zenon
  <1>16. CwrSent(a, p) => \E m \in 0 .. Tries : s.snd_nxt = plus(x, m)
    <2>1. CwrSent(a, p) => i \in 0 .. Tries BY <1>2, <1>13
    <2> QED BY <1>6, <2>1
  <1> QED BY <1>1, <1>3, <1>9, <1>11, <1>12, <1>14, <1>15, <1>16, Zenon DEF At, GoesOn

\* A packet of the response after which rcvData goes on.
LEMMA GoesOnOK ==
  ASSUME Induction, IInv, pc = "rcv", cap # <<>>, OnTime, NEW p \in Packet,
         NEW t, NEW a, NEW u, GoesOn(p, t, a, u),
         NEW out \in Seq(Packet), Sends(out),
         \A q \in Elements(out) : \/ IsAck(q)
                                  \/ /\ q.flags = {"PSH", "ACK", "CWR"} /\ q.seq = s.snd_nxt
                                     /\ CwrSent(a, p),
         NEW v \in Verdict, SeenGood(v), Step("rcv", exit, u, v, Tail(cap), out)
  PROVE  IInv'
  <1>1. Tail(cap) \in Seq(Packet) /\ Elements(Tail(cap)) \subseteq Elements(cap)
    BY TailElements, Zenon DEF IInv, TypeOK
  <1>2. late' \in BOOLEAN /\ (~ late' => ~ late) BY Zenon DEF IInv, TypeOK, OnTime
  <1>3. s' = u /\ srv' = srv /\ pc' = "rcv" /\ exit' = exit /\ exit = "running"
    BY Zenon DEF Step, IInv, VerdictOK
  <1>4. (\A m : At(m)' = At(m)) /\ Extra' = More(u) BY <1>3, Zenon
      DEF At, Extra, More, GoesOn, Renews
  <1>5. s.irs = srv.irs /\ srv.started BY Zenon DEF IInv, Receiving
  <1>6. \A q \in Elements(out) : ClientPacket(q)'
    <2> SUFFICES ASSUME NEW q \in Elements(out) PROVE ClientPacket(q)' BY Zenon
    <2>1. CASE IsAck(q) BY <2>1, Zenon DEF ClientPacket, IsAck
    <2>2. CASE q.flags = {"PSH", "ACK", "CWR"} /\ q.seq = s.snd_nxt /\ CwrSent(a, p)
      BY <1>3, <1>4, <1>5, <2>2, Zenon DEF ClientPacket, IsCwr, GoesOn
    <2> QED BY <2>1, <2>2, Zenon
  <1>7. TypeOK' /\ Evolves /\ PacketsOK' /\ ServerOK' /\ SeenOK' /\ Ended'
    <2>1. Renews(u) BY Zenon DEF GoesOn
    <2> QED BY <1>1, <1>2, <1>6, <2>1, StepFrame, Zenon
  <1>8. Receiving' BY <1>3, <1>4, <1>5, Zenon DEF Receiving, Honest, GoesOn
  <1>9. Synching' /\ Asking' BY <1>3, Zenon DEF Synching, Asking
  <1>10. VerdictOK'
    <2>1. VerdictRight' BY <1>3, Zenon DEF VerdictRight
    <2>2. ~ late => Open BY Zenon DEF IInv, VerdictOK
    <2>3. ~ late' => Open' BY <1>2, <1>3, <2>2, Zenon DEF Open
    <2> QED BY <1>3, <2>1, <2>3, Zenon DEF VerdictOK
  <1> QED BY <1>7, <1>8, <1>9, <1>10, Zenon DEF IInv

\* A packet of the response.
LEMMA ECNAckDataOK ==
  ASSUME Induction, IInv, pc = "rcv", cap # <<>>, OnTime, NEW p, p = Head(cap), p.from = "s",
         p.ack >= s.snd_una, ECNAckData(p)
  PROVE  IInv'
  <1>1. p \in Packet /\ p \in Elements(cap) /\ TypeOK BY TailElements DEF IInv, TypeOK
  <1>2. late' \in BOOLEAN /\ (~ late' => ~ late) BY DEF IInv, TypeOK, OnTime
  <1>3. ServerPacket(p) BY <1>1 DEF IInv, PacketsOK
  <1>4. PICK v : v = checkECN(seen, p) OBVIOUS
  <1>5. v \in Verdict /\ SeenGood(v)
    <2>1. PICK x : x = plus(s.iss, 1) OBVIOUS
    <2>2. PICK ex : ex = Extra OBVIOUS
    <2>3. x \in Seqs /\ ex \in 0 .. 1 /\ Tries \in Nat BY <1>1, <2>1, <2>2, AtType, Sizes DEF Extra
    <2>4. PICK j \in 1 .. Tries + ex : s.snd_una = plus(x, j)
      BY <2>1, <2>2 DEF IInv, Receiving, At
    <2>5. ~ (p.ack = At(0) /\ Low)
      <3> SUFFICES ASSUME p.ack = x, x < Half PROVE FALSE BY <1>1, <2>1, AtType DEF Low, Half
      <3>1. j \in 1 .. Tries + 1 BY <2>3
      <3>2. ~ (x >= plus(x, j)) BY <2>3, <3>1, NotBack
      <3> QED BY <2>4, <3>2
    <2> QED BY <1>1, <1>3, <1>4, <2>5, ReadGood
  <1>6. PICK t : t = Taken(s, p) OBVIOUS
  <1>7. PICK a : a = Acked(t, p) OBVIOUS
  <1>8. PICK u : u = Advanced(Probed(a, p), p) OBVIOUS
  <1>9. GoesOn(p, t, a, u) BY <1>1, <1>3, <1>6, <1>7, <1>8, SessionOK, Zenon
  <1>10. t \in SessionType /\ a \in SessionType /\ a.snd_nxt = s.snd_nxt /\ Renews(u)
    BY <1>9, Zenon DEF GoesOn
  <1>11. PICK e : e = [u EXCEPT !.rcv_nxt = plus(@, 1)] BY Zenon
  <1>12. Renews(e) /\ e \in SessionType
    <2>1. u.rcv_nxt \in Seqs BY <1>10, Zenon DEF Renews, SessionType
    <2>2. plus(u.rcv_nxt, 1) \in Seqs BY <2>1, Sizes, PlusIs
    <2> QED BY <1>10, <1>11, <2>2 DEF Renews, SessionType
  <1>13. PICK ack : ack = IF p.len > 0 THEN <<Ack(t, AckFlags(t, p))>> ELSE <<>> BY Zenon
  <1>14. PICK cwr : cwr = IF CwrSent(a, p) THEN <<Own(a, {"PSH", "ACK", "CWR"}, 1, FALSE)>>
                          ELSE <<>>
    BY Zenon
  <1>15. PICK out : out = ack \o cwr BY Zenon
  <1>16. PICK fin : fin = <<Ack(e, AckFlags(t, p))>> BY Zenon
  <1>17. /\ cwr \in Seq(Packet) /\ Sends(cwr) /\ out \in Seq(Packet) /\ Sends(out)
         /\ out \o fin \in Seq(Packet) /\ Sends(out \o fin)
         /\ \A q \in Elements(out) : \/ IsAck(q)
                                     \/ /\ q.flags = {"PSH", "ACK", "CWR"} /\ q.seq = s.snd_nxt
                                        /\ CwrSent(a, p)
    <2>1. ack \in Seq(Packet) /\ Sends(ack) /\ \A q \in Elements(ack) : IsAck(q)
      BY <1>10, <1>13, AckOK, Zenon
    <2>2. /\ cwr \in Seq(Packet) /\ Sends(cwr)
          /\ \A q \in Elements(cwr) : /\ q.flags = {"PSH", "ACK", "CWR"} /\ q.seq = a.snd_nxt
                                      /\ CwrSent(a, p)
      <3>1. a \in SessionType BY <1>10, Zenon
      <3> QED BY <1>3, <1>14, <3>1, CwrOK, Zenon
    <2>3. out \in Seq(Packet) /\ Sends(out) /\ Elements(out) = Elements(ack) \cup Elements(cwr)
      BY <1>15, <2>1, <2>2, BothSent
    <2>4. fin \in Seq(Packet) /\ Sends(fin) BY <1>12, <1>16, AckSent
    <2>5. out \o fin \in Seq(Packet) /\ Sends(out \o fin) BY <2>3, <2>4, BothSent
    <2> QED BY <1>10, <2>1, <2>2, <2>3, <2>5, Zenon
  <1>18. \/ Quit("HTTP", s, v, <<>>)
         \/ Quit("crash", e, v, cwr)
         \/ Quit("SUCCESS", e, v, out \o fin)
         \/ Quit("SUCCESS", e, v, out)
         \/ Step("rcv", exit, u, v, Tail(cap), out)
    BY <1>4, <1>6, <1>7, <1>8, <1>11, <1>13, <1>14, <1>15, <1>16 DEF ECNAckData
  <1>19. CASE Step("rcv", exit, u, v, Tail(cap), out)
    BY <1>1, <1>5, <1>9, <1>17, <1>19, GoesOnOK, Zenon
  <1>20. ASSUME NEW code \in {"HTTP", "crash", "SUCCESS"}, NEW r, Renews(r),
                NEW last \in Seq(Packet), Sends(last), Quit(code, r, v, last)
         PROVE  IInv'
    <2>1. ~ late => Open BY DEF IInv, VerdictOK
    <2>2. exit' = code /\ srv' = srv BY <1>20 DEF Quit
    <2>3. VerdictRight' BY <1>2, <2>1, <2>2 DEF VerdictRight, Open
    <2>4. code \in Exits /\ pc # "end" BY DEF Exits
    <2> QED BY <1>2, <1>5, <1>20, <2>3, <2>4, QuitFrame
  <1>21. Renews(s) /\ <<>> \in Seq(Packet) /\ Sends(<<>>)
    BY <1>1, FewElements, Zenon DEF Renews, TypeOK, Sends
  <1> QED BY <1>12, <1>17, <1>18, <1>19, <1>20, <1>21, Zenon

\* A packet that acknowledges less than the last is not looked at.
LEMMA RcvPass ==
  ASSUME Induction, IInv, pc = "rcv", cap # <<>>, OnTime, Pass(Tail(cap))
  PROVE  IInv'
  <1>1. /\ Tail(cap) \in Seq(Packet) /\ Elements(Tail(cap)) \subseteq Elements(cap)
        /\ Head(cap) \in Packet
    BY TailElements DEF IInv, TypeOK
  <1>2. late' \in BOOLEAN /\ (~ late' => ~ late) BY DEF IInv, TypeOK, OnTime
  <1>3. s \in SessionType /\ seen \in Verdict BY DEF IInv, TypeOK
  <1>4. PICK out : out = <<>> OBVIOUS
  <1>5. Step("rcv", exit, s, seen, Tail(cap), out) BY <1>4 DEF Pass
  <1>6. out \in Seq(Packet) /\ Elements(out) = {} BY <1>1, <1>4, FewElements, Zenon
  <1>7. Renews(s) /\ Sends(out) /\ SeenGood(seen)
    BY <1>3, <1>6 DEF Renews, Sends, IInv, SeenOK, SeenGood, PassMeans
  <1>8. TypeOK' /\ Evolves /\ PacketsOK' /\ ServerOK' /\ SeenOK' /\ Ended'
    BY <1>1, <1>2, <1>3, <1>5, <1>6, <1>7, StepFrame, Zenon
  <1>9. s' = s /\ srv' = srv /\ pc' = "rcv" /\ exit' = exit /\ exit = "running"
    BY <1>5, Zenon DEF Step, IInv, VerdictOK
  <1>10. Receiving' BY <1>9 DEF IInv, Receiving, At, Extra
  <1>11. Synching' /\ Asking' BY <1>9 DEF Synching, Asking
  <1>12. VerdictOK'
    <2>1. VerdictRight' BY <1>9 DEF VerdictRight
    <2>2. ~ late => Open BY DEF IInv, VerdictOK
    <2>3. ~ late' => Open' BY <1>2, <1>9, <2>2 DEF Open
    <2> QED BY <1>9, <2>1, <2>3 DEF VerdictOK
  <1> QED BY <1>8, <1>10, <1>11, <1>12 DEF IInv

\* RcvRead: a packet of the response.
LEMMA RcvReadOK == ASSUME Induction, IInv, RcvRead PROVE IInv'
  <1>1. pc = "rcv" /\ cap # <<>> /\ OnTime BY DEF RcvRead
  <1>2. PICK p : p = Head(cap) OBVIOUS
  <1>3. \/ p.from = "s" /\ p.ack >= s.snd_una /\ ECNAckData(p)
        \/ Pass(Tail(cap))
    BY <1>2 DEF RcvRead
  <1> QED BY <1>1, <1>2, <1>3, ECNAckDataOK, RcvPass

\* The response stops: no verdict about ECN.
LEMMA RcvTimeoutOK == ASSUME Induction, IInv, RcvTimeout PROVE IInv'
  <1>1. pc = "rcv" /\ Quit("NO_DATA_RCVD", s, seen, <<>>) BY DEF RcvTimeout
  <1>2. late' \in BOOLEAN /\ (~ late' => ~ late) BY DEF IInv, TypeOK, RcvTimeout, Expires, InFlight
  <1>3. s \in SessionType /\ seen \in Verdict BY DEF IInv, TypeOK
  <1>4. <<>> \in Seq(Packet) /\ Sends(<<>>) BY DEF Sends, Elements
  <1>5. Renews(s) /\ SeenGood(seen) /\ "NO_DATA_RCVD" \in Exits
    BY <1>3 DEF Renews, IInv, SeenOK, SeenGood, PassMeans, Exits
  <1>6. VerdictRight'
    <2>1. ~ late => Open BY <1>1 DEF IInv, VerdictOK
    <2>2. exit' = "NO_DATA_RCVD" /\ srv' = srv BY <1>1 DEF Quit
    <2> QED BY <1>2, <2>1, <2>2 DEF VerdictRight, Open
  <1> QED BY <1>1, <1>2, <1>3, <1>4, <1>5, <1>6, QuitFrame, Zenon

-----------------------------------------------------------------------------
(* The theorems *)
\* ecnprobe starts with one SYN in flight that asks for ECN.
LEMMA InitOK == Init => IInv
  <1> SUFFICES ASSUME Init PROVE IInv OBVIOUS
  <1>1. PICK iss \in InitSeqs :
          /\ s = [attempt |-> 1, tries |-> 0, first |-> "unknown", iss |-> iss, irs |-> 0,
                  snd_nxt |-> iss, snd_una |-> 0, rcv_nxt |-> 0, last |-> 0, got |-> {0},
                  send_cwr |-> 0, send_ece |-> 0]
          /\ net = {Pkt("c", SynFlags(1), iss, 0, 0, FALSE)}
    BY Zenon DEF Init
  <1>2. PICK mode \in Modes :
          srv = [mode |-> mode, conn |-> "listen", irs |-> s.iss, rcv_nxt |-> 0, ecn |-> FALSE,
                 started |-> FALSE, sent |-> 0, again |-> 0, una |-> 0, ece |-> FALSE,
                 cwr |-> FALSE, sawCWR |-> FALSE, sentCWR |-> FALSE]
    BY Zenon DEF Init
  <1>3. pc = "syn" /\ exit = "running" /\ cap = <<>> /\ late = FALSE BY Zenon DEF Init
  <1>4. PICK p : p = Pkt("c", SynFlags(1), iss, 0, 0, FALSE) BY Zenon
  <1>5. net = {p} BY <1>1, <1>4
  <1>6. iss \in Seqs /\ 0 \in Seqs /\ 0 \in 0 .. Tries /\ 0 \in 0 .. ShortSpace - 1
        /\ 0 \in 0 .. Segments /\ 0 \in 0 .. MaxAgain
    BY Sizes, BoundAssumption DEF Seqs
  <1>7. /\ p \in Packet /\ p.from = "c" /\ p.flags = SynFlags(1) /\ p.seq = iss /\ p.len = 0
    BY <1>4, <1>6 DEF Pkt, Packet, SynFlags, Flags
  <1>8. seen \in Verdict /\ seen.se = 0 /\ ~ seen.ae /\ seen.we = 0 /\ seen.ee = 1
    <2>1. PICK q : q = Pkt("c", SynFlags(1), 0, 0, 0, FALSE) BY Zenon
    <2>2. q \in Packet /\ q.from = "c" /\ q.flags = {"SYN", "ECE", "CWR"} /\ q.len = 0
      BY <1>6, <2>1 DEF Pkt, Packet, SynFlags, Flags
    <2>3. PICK v : v = Nothing OBVIOUS
    <2>4. v \in Verdict /\ v.se = 0 /\ ~ v.ae /\ v.we = 0 /\ v.ee = 0
      BY <2>3 DEF Nothing, Verdict
    <2>5. seen = checkECN(v, q) BY <2>1, <2>3, Zenon DEF Init
    <2>6. seen \in Verdict BY <2>2, <2>4, <2>5, CheckType, Zenon
    <2>7. "ECE" \in q.flags /\ q.from # "s" /\ ~ (q.len > 0) BY <2>2
    <2>8. seen.se = 0 /\ seen.we = 0 /\ seen.ee = 1 BY <2>2, <2>4, <2>5, FirstSyn, Zenon
    <2>9. ~ seen.ae BY <2>4, <2>5, <2>7, Zenon DEF checkECN
    <2> QED BY <2>6, <2>8, <2>9
  <1>9. cap \in Seq(Packet) /\ Elements(cap) = {} BY <1>3, <1>7, FewElements, Zenon
  <1>10. IsSyn(p) BY <1>1, <1>7, Zenon DEF IsSyn
  <1>11. TypeOK
    <2>1. s \in SessionType
      <3>1. /\ 1 \in 1 .. 2 /\ 0 \in 0 .. 2 /\ {0} \in SUBSET (0 .. Segments)
            /\ "unknown" \in {"unknown", "rst", "none"}
        BY <1>6
      <3> QED BY <1>1, <1>6, <3>1 DEF SessionType
    <2>2. srv \in ServerType BY <1>1, <1>2, <1>6, Zenon DEF ServerType
    <2> QED BY <1>3, <1>5, <1>7, <1>8, <1>9, <2>1, <2>2, Zenon DEF TypeOK, Exits
  <1>12. PacketsOK BY <1>5, <1>7, <1>9, <1>10, Zenon DEF PacketsOK, ClientPacket, ServerPacket
  <1>13. ServerOK BY <1>2 DEF ServerOK
  <1>14. Synching BY <1>1, <1>5, <1>8, <1>9, <1>10, Zenon DEF Synching
  <1>15. Asking /\ Receiving /\ Ended BY <1>3 DEF Asking, Receiving, Ended
  <1>16. SeenOK BY <1>8 DEF SeenOK, PassMeans
  <1>17. Connecting
    <2>1. Waiting = {p} /\ InFlight /\ Alone BY <1>3, <1>5, <1>9, Zenon DEF Waiting, InFlight, Alone
    <2>2. s.attempt = 1 BY <1>1
    <2> QED BY <1>5, <1>7, <2>1, <2>2 DEF Connecting
  <1>18. VerdictOK BY <1>3, <1>17 DEF VerdictOK, VerdictRight
  <1> QED BY <1>11, <1>12, <1>13, <1>14, <1>15, <1>16, <1>18 DEF IInv

\* No step of the client, the server or the network breaks it.
LEMMA NextOK == ASSUME Induction, IInv, [Next]_vars PROVE IInv'
  <1>1. CASE Client
    BY <1>1, SynTimeoutOK, SynReadOK, DataTimeoutOK, DataReadOK, RcvTimeoutOK, RcvReadOK DEF Client
  <1>2. CASE ServerSend BY <1>2, ServerSendOK, Zenon
  <1>3. ASSUME NEW p \in net, Server(p), p.from = "c" PROVE IInv'
    BY <1>3, ServerSynOK, ServerDataOK, ServerAckOK DEF Server
  <1>4. ASSUME NEW p \in net, Arrive(p) PROVE IInv' BY <1>4, ArriveOK
  <1>5. CASE UNCHANGED vars
    <2>1. UNCHANGED <<pc, exit, s, seen, cap, net, srv, late>> BY <1>5 DEF vars
    <2>2. TypeOK' BY <2>1 DEF IInv, TypeOK
    <2>3. Low' = Low /\ (\A j : At(j)' = At(j)) /\ Extra' = Extra BY <2>1 DEF Low, At, Extra
    <2>4. Evolves
      <3>1. srv.sent <= srv.sent BY DEF IInv, TypeOK, ServerType
      <3> QED BY <2>1, <3>1 DEF Evolves
    <2>5. ServerOK' BY <2>1, <2>3 DEF IInv, ServerOK
    <2>6. CASE pc # "end"
      <3>1. pc = "syn" /\ ~ late => Connecting'
        BY <2>1, Zenon DEF IInv, VerdictOK, Connecting, Open, InFlight, Alone, Waiting, IsSynAck,
            IsRst
      <3> QED BY <2>1, <2>2, <2>4, <2>5, <2>6, <3>1, ServerFrame
    <2>7. CASE pc = "end"
      <3>1. net' = {} /\ cap' = <<>> /\ pc' = "end" BY <2>1, <2>7 DEF IInv, Ended
      <3>2. PacketsOK' BY <3>1, NoElements, Zenon DEF PacketsOK
      <3>3. (Synching /\ Asking /\ Receiving /\ Ended)'
        BY <3>1, Zenon DEF Synching, Asking, Receiving, Ended
      <3>4. SeenOK' BY <2>1, Zenon DEF IInv, SeenOK, PassMeans
      <3>5. VerdictOK' BY <2>1, <3>1 DEF IInv, VerdictOK, VerdictRight
      <3> QED BY <2>2, <2>5, <3>2, <3>3, <3>4, <3>5, Zenon DEF IInv
    <2> QED BY <2>6, <2>7
  <1> QED BY <1>1, <1>2, <1>3, <1>4, <1>5 DEF Next

-----------------------------------------------------------------------------
(* Induction.  The library comes in here only: every fact in sight slows the    *)
(* steps above down.                                                            *)
INSTANCE WellFoundedInduction

\* Induction over the packets an answer consists of (store_packet for each), and
\* over the bytes received (the first one missing, in ECNAckData).
LEMMA InductionHolds == Induction
  <1> SUFFICES ASSUME NEW S, 0 \in S, \A n \in Nat : n \in S => n + 1 \in S, Nat \ S # {}
               PROVE  FALSE
    BY DEF Induction
  <1> DEFINE O == {r \in Nat \X Nat : r[1] < r[2]}
  <1>1. IsWellFoundedOn(O, Nat) BY NatLessThanWellFounded DEF OpToRel
  <1> HIDE DEF O
  <1>2. PICK n \in Nat \ S : \A m \in Nat \ S : ~ (<<m, n>> \in O) BY <1>1, WFMin, Zenon
  <1>3. n # 0 /\ n - 1 \in Nat OBVIOUS
  <1>4. <<n - 1, n>> \in O BY <1>3 DEF O
  <1>5. n - 1 \in S BY <1>2, <1>3, <1>4
  <1> QED BY <1>3, <1>5

\* The packets in flight and the state of the two ends always fit together.
THEOREM AlwaysConsistent == Spec => []IInv
  <1>1. IInv /\ [Next]_vars => IInv' BY InductionHolds, NextOK
  <1> QED BY <1>1, InitOK, PTL DEF Spec

\* The numbers of the session stay numbers of the header's field, and the bytes
\* received stay within the response (rcvData, DataPkt and ECNAckData).
THEOREM TypeCorrect == Spec => []TypeOK
  <1>1. IInv => TypeOK BY DEF IInv
  <1> QED BY <1>1, AlwaysConsistent, PTL

\* ECNAckData acknowledges exactly the bytes it has, however the segments come and
\* wherever the numbers wrap.
THEOREM AcksAreHonest == Spec => []AckHonest
  <1>1. ASSUME IInv PROVE AckHonest
    <2> SUFFICES ASSUME pc = "rcv" PROVE AckHonest BY Zenon DEF AckHonest
    <2>1. PICK n \in 1 .. srv.sent + 1 : /\ s.rcv_nxt = plus(s.irs, n)
                                         /\ 0 .. n - 1 \subseteq s.got /\ n \notin s.got
      BY <1>1 DEF IInv, Receiving
    <2>2. srv.sent \in 0 .. Segments /\ s.irs \in Seqs
      BY <1>1 DEF IInv, TypeOK, ServerType, SessionType
    <2>3. n \in Seqs BY <2>2, Sizes DEF Seqs
    <2>4. (s.rcv_nxt - s.irs) % SeqSpace = n BY <2>1, <2>2, <2>3, Offset, Zenon
    <2>5. n <= srv.sent + 1 BY <2>2
    <2> QED BY <2>1, <2>4, <2>5 DEF AckHonest
  <1> QED BY <1>1, AlwaysConsistent, PTL

\* What checkECN reports as passed did happen at the server.
THEOREM PassesAreTrue == Spec => []PassMeans
  <1>1. IInv => PassMeans BY DEF IInv, SeenOK
  <1> QED BY <1>1, AlwaysConsistent, PTL

\* When nothing is late, the exit code of ECNTest tells what the path does with a
\* SYN that asks for ECN.
THEOREM VerdictsAreRight == Spec => []VerdictRight
  <1>1. IInv => VerdictRight BY DEF IInv, VerdictOK
  <1> QED BY <1>1, AlwaysConsistent, PTL
=============================================================================
