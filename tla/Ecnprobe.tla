------------------------------ MODULE Ecnprobe ------------------------------
(***************************************************************************)
(* ecnprobe: a TCP client in user space that opens a connection with ECN,   *)
(* or without when that fails, sends one request marked as if it had met    *)
(* congestion, and judges the server by the ECN flags of what comes back.   *)
(* It sees all packets, its own included, through the capture queue `cap'.  *)
(*                                                                          *)
(* The server and the network are external: the network delays, reorders,   *)
(* loses (a packet may stay in `net' for ever) and, when a segment is sent  *)
(* again, duplicates.  Sequence numbers are taken modulo SeqSpace; a        *)
(* request or a segment of the response is one byte.  The history of        *)
(* packets is kept as the verdict that checkECN() derives from it.          *)
(***************************************************************************)
EXTENDS Integers, Sequences

CONSTANTS SeqSpace,     \* sequence numbers (2^32 in the code)
          ShortSpace,   \* values of lastSeqSent, a u_int16_t (2^16 in the code)
          InitSeqs,   \* the initial sequence numbers considered, of both sides
          Modes,      \* what the path does with a SYN, see Server
          Segments,   \* packets of the response
          Tries,      \* times a SYN is repeated and a request is sent (3 in the code)
          MaxAgain,   \* bound: segments of the response sent again
          CapMax      \* bound: packets of the server waiting in the capture queue

ASSUME SeqAssumption == /\ SeqSpace \in Nat /\ ShortSpace \in Nat \ {0}
                        /\ SeqSpace % 2 = 0 /\ (SeqSpace \div 2) % ShortSpace = 0
                        /\ Segments \in Nat \ {0} /\ Segments + 4 < SeqSpace \div 2
                        /\ InitSeqs \subseteq 0 .. SeqSpace - 1
ASSUME BoundAssumption == /\ CapMax \in Nat /\ MaxAgain \in Nat
                          /\ Tries \in Nat \ {0} /\ Tries + 1 < SeqSpace \div 2
ASSUME ModesAssumption == Modes \subseteq {"ecn", "plain", "rstecn", "dropecn", "closed", "dead",
                                           "notfound", "finalone", "abort"}

VARIABLES pc,      \* "syn", "data" (DataPkt), "rcv" (rcvData), "end"
          exit,    \* the code given to Quit(), or "crash"
          s,       \* the session, see Session
          seen,    \* what checkECN() finds in the history
          cap,     \* the capture queue
          net,     \* packets in flight
          srv,     \* the server
          late     \* history: a timer of the client ran out over a packet in flight

vars == <<pc, exit, s, seen, cap, net, srv, late>>

-----------------------------------------------------------------------------
(* Packets and sequence numbers *)

\* from "c" or "s"; flags: a set; len: bytes of data; ce: marked on the way
Pkt(from, flags, seq, ack, len, ce) ==
  [from |-> from, flags |-> flags, seq |-> seq, ack |-> ack, len |-> len, ce |-> ce]

plus(a, b) == (a + b) % SeqSpace
\* the distance from b to a as the code's (int)((a)-(b)) sees it
negative(a, b) == (a - b) % SeqSpace >= SeqSpace \div 2
SEQ_LT(a, b) == negative(a, b)
SEQ_GT(a, b) == a # b /\ ~ negative(a, b)
SEQ_LEQ(a, b) == a = b \/ negative(a, b)

checkECNUnasked(v, p) ==
  LET synack == p.from = "s" /\ {"SYN", "ACK"} \subseteq p.flags
      ack == p.from = "s" /\ "ACK" \in p.flags /\ "SYN" \notin p.flags
  IN  [v EXCEPT !.sr = @ \/ synack, !.ar = @ \/ ack,
                !.we = IF p.from = "s" /\ "ECE" \notin p.flags THEN 2 ELSE @]

\* What the last loops of checkECN() make of one more packet of the history.
checkECN(v, p) ==
  LET ece == "ECE" \in p.flags
      cwr == "CWR" \in p.flags
      synack == p.from = "s" /\ {"SYN", "ACK"} \subseteq p.flags
      ack == p.from = "s" /\ "ACK" \in p.flags /\ "SYN" \notin p.flags
  IN  [sr |-> v.sr \/ synack,
       se |-> IF synack /\ ece THEN (IF cwr THEN 2 ELSE 1) ELSE v.se,
       ar |-> v.ar \/ ack,
       ae |-> v.ae \/ (ack /\ ece),
       we |-> IF v.we # 2 /\ p.from = "c" /\ p.len > 0 /\ cwr THEN 1
              ELSE IF v.we = 1 /\ p.from = "s" /\ ~ ece THEN 2 ELSE v.we,
       ee |-> IF v.ee # 2 /\ p.from = "c" /\ ece THEN 1
              ELSE IF v.ee = 1 /\ p.from = "s" /\ p.len > 0 /\ cwr THEN 2 ELSE v.ee]

Nothing == [sr |-> FALSE, se |-> 0, ar |-> FALSE, ae |-> FALSE, we |-> 0, ee |-> 0]

\* SendSessionPacket: the numbers come from the session.
Own(t, flags, len, ce) == Pkt("c", flags, t.snd_nxt, t.rcv_nxt, len, ce)

\* An acknowledgement without data; the server does not look at its seq.
Ack(t, flags) == Pkt("c", flags, 0, t.rcv_nxt, 0, FALSE)
PureAck(p) == p.from = "c" /\ p.len = 0 /\ "ACK" \in p.flags

-----------------------------------------------------------------------------
(* The client.  A step takes at most one packet from the capture queue and   *)
(* leaves session t, verdict v and the packets `out' it has sent.  Own       *)
(* packets are queued when a loop looks at them: requests without CWR, of    *)
(* which a step sends one at most.  An acknowledgement replaces the one      *)
(* before it if that is still in flight.                                     *)

Elements(q) == {q[i] : i \in DOMAIN q}
Queued(out) == {p \in Elements(out) : p.flags = {"PSH", "ACK"}}
StorePackets(v, out) ==
  LET after[i \in 0 .. Len(out)] == IF i = 0 THEN v ELSE checkECN(after[i - 1], out[i])
  IN  after[Len(out)]

Step(next, code, t, v, rest, out) ==
  /\ pc' = next
  /\ exit' = code
  /\ s' = t
  /\ seen' = StorePackets(v, out)
  /\ cap' = IF Queued(out) = {} THEN rest ELSE Append(rest, CHOOSE p \in Queued(out) : TRUE)
  /\ net' = Elements(out) \cup
       IF \E p \in Elements(out) : PureAck(p) THEN {p \in net : ~ PureAck(p)} ELSE net
  /\ UNCHANGED srv

\* Quit: the resets it sends and what is in flight then matter to nobody.
Quit(code, t, v, out) ==
  /\ pc' = "end"
  /\ exit' = code
  /\ s' = t
  /\ seen' = StorePackets(v, out)
  /\ cap' = <<>>
  /\ net' = {}
  /\ UNCHANGED srv

InFlight == net # {} \/ cap # <<>>
OnTime == UNCHANGED late
Expires == late' = (late \/ InFlight)

SynFlags(attempt) == IF attempt = 1 THEN {"SYN", "ECE", "CWR"} ELSE {"SYN"}
Syn(t) == Own(t, SynFlags(t.attempt), 0, FALSE)

\* EstablishTcpConnection has failed with rc: once more without ECN, or the
\* verdict of ECNTest.
Failed(rc, rest, out) ==
  IF s.attempt = 1
  THEN LET t == [s EXCEPT !.attempt = 2, !.tries = 0, !.first = rc]
       IN  Step("syn", exit, t, seen, rest, Append(out, Syn(t)))
  ELSE Quit(IF s.first = "rst" /\ rc = "rst" THEN "EARLY_RST" ELSE "NO_CONNECTION",
            s, seen, out)

EstablishedRegardless(p) ==
  LET t == [s EXCEPT !.irs = p.seq, !.rcv_nxt = plus(p.seq, 1),
                     !.snd_nxt = plus(s.iss, 1), !.snd_una = plus(s.iss, 1)]
  IN  Step("data", exit, [t EXCEPT !.tries = 1, !.last = t.snd_nxt % ShortSpace],
           checkECN(seen, p), Tail(cap), <<Ack(t, {"ACK"}), Own(t, {"PSH", "ACK"}, 1, TRUE)>>)

\* The SYN/ACK p, whatever it acknowledges: the third ACK, and the request if
\* this was the attempt with ECN.
Established(p) ==
  LET t == [s EXCEPT !.irs = p.seq, !.rcv_nxt = plus(p.seq, 1),
                     !.snd_nxt = plus(s.iss, 1), !.snd_una = plus(s.iss, 1)]
      third == Ack(t, {"ACK"})
      v == checkECN(seen, p)
  IN  IF s.attempt = 1
      THEN Step("data", exit, [t EXCEPT !.tries = 1, !.last = t.snd_nxt % ShortSpace], v,
                Tail(cap), <<third, Own(t, {"PSH", "ACK"}, 1, TRUE)>>)
      ELSE Quit("ECN_SYN_DROP", t, v, <<third>>)

Pass(rest) == Step(pc, exit, s, seen, rest, <<>>)

SynRead ==
  /\ pc = "syn" /\ cap # <<>>
  /\ LET p == Head(cap)
     IN  IF p.from = "s" /\ {"SYN", "ACK"} \subseteq p.flags THEN Established(p)
         ELSE IF p.from = "s" /\ "RST" \in p.flags THEN Failed("rst", Tail(cap), <<>>)
         ELSE Pass(Tail(cap))
  /\ OnTime

\* One second without an answer: the SYN again, and no wait after the third time.
SynTimeout ==
  /\ pc = "syn"
  /\ LET t == [s EXCEPT !.tries = @ + 1]
     IN  IF t.tries >= Tries THEN Failed("none", cap, <<Syn(s)>>)
         ELSE Step("syn", exit, t, seen, cap, <<Syn(s)>>)
  /\ Expires

\* DataPkt.  A captured request of ours moves snd_nxt past it; the answer must
\* be next in order and acknowledge something.  After the third request one
\* packet is looked at.
GiveUp == Quit("SUCCESS", s, seen, <<>>)
DataRead ==
  /\ pc = "data" /\ cap # <<>>
  /\ LET p == Head(cap)
         mine == p.from = "c" /\ SEQ_GT(p.seq, s.last) /\ SEQ_LEQ(p.ack, s.rcv_nxt)
         answer == /\ p.from = "s" /\ "ACK" \in p.flags
                   /\ p.seq = s.rcv_nxt /\ SEQ_GT(p.ack, s.snd_una)
     IN  IF mine
         THEN Step("data", exit, [s EXCEPT !.snd_nxt = plus(@, 1), !.last = p.seq % ShortSpace],
                   seen, Tail(cap), <<>>)
         ELSE IF answer
         THEN Step("rcv", exit, [s EXCEPT !.snd_una = p.ack, !.snd_nxt = p.ack],
                   checkECN(seen, p), Tail(cap), <<>>)
         ELSE IF s.tries >= Tries THEN GiveUp
         ELSE Pass(Tail(cap))
  /\ OnTime
DataTimeout ==
  /\ pc = "data"
  /\ IF s.tries >= Tries THEN cap = <<>> /\ GiveUp
     ELSE Step("data", exit, [s EXCEPT !.tries = @ + 1], seen, cap,
               <<Own(s, {"PSH", "ACK"}, 1, TRUE)>>)
  /\ Expires

\* ECNAckData: the bytes of p, when in the window, and the first byte that is
\* still missing, counted from irs.
rcv_wnd == 5
TakenPastHoles(t, p) ==
  [t EXCEPT !.got = @ \cup {(p.seq + i - t.irs) % SeqSpace : i \in 0 .. p.len - 1},
            !.rcv_nxt = IF SEQ_LEQ(@, p.seq) THEN plus(p.seq, p.len) ELSE @]

Taken(t, p) ==
  LET inWindow == /\ SEQ_LEQ(t.rcv_nxt, p.seq)
                  /\ SEQ_LT(p.seq, plus(t.rcv_nxt, rcv_wnd))
                  /\ SEQ_LT(plus(p.seq, p.len - 1), plus(t.rcv_nxt, rcv_wnd))
      got == t.got \cup {(p.seq + i - t.irs) % SeqSpace : i \in 0 .. p.len - 1}
      missing == CHOOSE n \in (t.rcv_nxt - t.irs) % SeqSpace .. Segments + 2 :
                   n \notin got /\ (t.rcv_nxt - t.irs) % SeqSpace .. n - 1 \subseteq got
  IN  IF inWindow THEN [t EXCEPT !.got = got, !.rcv_nxt = plus(t.irs, missing)] ELSE t

\* The acknowledgement: with ECE for a packet marked on the way, or to make the
\* server send CWR once ours has been obeyed.
Acked(t, p) == IF p.len > 0 /\ t.send_cwr = 2 /\ t.send_ece < 2 THEN [t EXCEPT !.send_ece = 1] ELSE t
AckFlags(t, p) == IF p.ce \/ (t.send_cwr = 2 /\ t.send_ece < 2) THEN {"ACK", "ECE"} ELSE {"ACK"}

\* The first ECE is answered by a request with CWR; then the end of ECE and the
\* CWR of the server are waited for.
CwrSent(t, p) == t.send_cwr = 0 /\ "ECE" \in p.flags
Probed(t, p) ==
  [t EXCEPT !.snd_nxt = IF CwrSent(t, p) THEN plus(@, 1) ELSE @,
            !.send_cwr = IF CwrSent(t, p) THEN 1
                         ELSE IF @ = 1 /\ "ECE" \notin p.flags THEN 2 ELSE @,
            !.send_ece = IF @ = 1 /\ "CWR" \in p.flags THEN 2 ELSE @]
Advanced(t, p) ==
  LET una == IF SEQ_GT(p.ack, t.snd_una) THEN p.ack ELSE t.snd_una
  IN  [t EXCEPT !.snd_una = una, !.snd_nxt = IF SEQ_LT(@, una) THEN una ELSE @]

ECNAckData(p) ==
  LET taken  == Taken(s, p)
      ack    == IF p.len > 0 THEN <<Ack(taken, AckFlags(taken, p))>> ELSE <<>>
      acked  == Acked(taken, p)
      cwr    == IF CwrSent(acked, p)
                THEN <<Own(acked, {"PSH", "ACK", "CWR"}, 1, FALSE)>> ELSE <<>>
      t      == Advanced(Probed(acked, p), p)
      v      == checkECN(seen, p)
      ended  == [t EXCEPT !.rcv_nxt = plus(@, 1)]
  IN  IF p.len > 0 /\ p.seq = plus(s.irs, 1) /\ "404" \in p.flags
      THEN Quit("HTTP", s, v, <<>>)
      ELSE IF "FIN" \in p.flags /\ p.len = 0
      THEN Quit("crash", ended, v, cwr)   \* ackpkt is NULL
      ELSE IF "FIN" \in p.flags
      THEN Quit("SUCCESS", ended, v,
                ack \o cwr \o <<Ack(ended, AckFlags(taken, p))>>)
      ELSE IF "RST" \in p.flags
      THEN Quit("SUCCESS", ended, v, ack \o cwr)
      ELSE Step("rcv", exit, t, v, Tail(cap), ack \o cwr)

\* rcvData: any packet of theirs that acknowledges as much as the last, compared
\* without regard to the wrapping of the numbers.
RcvRead ==
  /\ pc = "rcv" /\ cap # <<>>
  /\ LET p == Head(cap)
     IN  IF p.from = "s" /\ "ACK" \in p.flags /\ p.ack >= s.snd_una
         THEN ECNAckData(p)
         ELSE Pass(Tail(cap))
  /\ OnTime

RcvTimeoutAfterPacket ==
  /\ pc = "rcv" /\ cap # <<>>
  /\ Quit("NO_DATA_RCVD", s, seen, <<>>)
  /\ Expires

\* Twelve seconds without such a packet.
RcvTimeout ==
  /\ pc = "rcv"
  /\ Quit("NO_DATA_RCVD", s, seen, <<>>)
  /\ Expires

-----------------------------------------------------------------------------
(* The server and the network *)

\* What the path and the server do with a SYN: "ecn" and "plain" servers,
\* a path that resets ("rstecn") or drops ("dropecn") those with ECN, a closed
\* port, no answer at all ("dead"); and servers with ECN that refuse the request,
\* send the FIN without data, or reset the connection in its place.
Supports(mode) == mode \in {"ecn", "notfound", "finalone", "abort"}
Echo(q) == IF q.ece THEN {"ECE"} ELSE {}
ServerSyn(p) ==
  LET ecn == "ECE" \in p.flags
      opened == IF srv.conn = "open" THEN srv
                ELSE [srv EXCEPT !.conn = "open", !.rcv_nxt = plus(p.seq, 1),
                                 !.ecn = ecn /\ Supports(srv.mode)]
      answer == {"SYN", "ACK"} \cup (IF opened.ecn THEN {"ECE"} ELSE {})
  IN  \/ /\ srv.mode = "closed" \/ (srv.mode = "rstecn" /\ ecn)
         /\ net' = (net \ {p}) \cup {Pkt("s", {"RST", "ACK"}, 0, plus(p.seq, 1), 0, FALSE)}
         /\ UNCHANGED srv
      \/ /\ \/ srv.mode = "dead" \/ (srv.mode = "dropecn" /\ ecn)
            \/ srv.started
         /\ net' = net \ {p}
         /\ UNCHANGED srv
      \/ /\ Supports(srv.mode) \/ srv.mode = "plain"
            \/ (srv.mode \in {"rstecn", "dropecn"} /\ ~ ecn)
         /\ ~ srv.started
         /\ srv' = opened
         /\ net' = (net \ {p}) \cup {Pkt("s", answer, opened.irs, opened.rcv_nxt, 0, FALSE)}

\* A request, in order or not: congestion is echoed until CWR comes.
ServerData(p) ==
  LET inOrder == srv.conn = "open" /\ p.seq = srv.rcv_nxt
      q == [srv EXCEPT !.rcv_nxt = plus(@, 1), !.started = TRUE,
                       !.ece = srv.ecn /\ (p.ce \/ (@ /\ "CWR" \notin p.flags)),
                       !.sawCWR = @ \/ "CWR" \in p.flags]
      t == IF inOrder THEN q ELSE srv
  IN  /\ srv' = t
      /\ net' = (net \ {p}) \cup
           IF srv.conn # "open" THEN {}
           ELSE {Pkt("s", {"ACK"} \cup Echo(t), plus(t.irs, t.sent + 1), t.rcv_nxt, 0, FALSE)}

ServerAck(p) ==
  LET n == (p.ack - plus(srv.irs, 1)) % SeqSpace
  IN  /\ srv' = [srv EXCEPT !.una = IF n \in @ + 1 .. srv.sent THEN n ELSE @,
                            !.cwr = srv.ecn /\ (@ \/ "ECE" \in p.flags)]
      /\ net' = net \ {p}

Server(p) ==
  /\ \/ "SYN" \in p.flags /\ ServerSyn(p)
     \/ "PSH" \in p.flags /\ ServerData(p)
     \/ p.flags \in {{"ACK"}, {"ACK", "ECE"}} /\ ServerAck(p)
  /\ UNCHANGED <<pc, exit, s, seen, cap, late>>

\* A segment of the response, for the first time or again; the last has the FIN
\* and data, or is an RST or FIN alone.
End == IF srv.mode = "abort" THEN "RST" ELSE "FIN"
ServerSend ==
  /\ pc # "end" /\ srv.conn = "open" /\ srv.started
  /\ \E k \in srv.una + 1 .. srv.sent + 1 :
       /\ k <= Segments
       /\ LET data == k < Segments \/ srv.mode \notin {"finalone", "abort"}
              flags == {"ACK"} \cup Echo(srv) \cup (IF k = Segments THEN {End} ELSE {})
                       \cup (IF srv.cwr /\ data THEN {"CWR"} ELSE {})
                       \cup (IF srv.mode = "notfound" /\ k = 1 THEN {"404"} ELSE {})
              p == Pkt("s", flags, plus(srv.irs, k), srv.rcv_nxt, IF data THEN 1 ELSE 0, FALSE)
          IN  /\ p \notin net \cup Elements(cap)
              /\ net' = {q \in net : ~ (q.from = "s" /\ q.seq = p.seq /\ q.len = p.len)} \cup {p}
              /\ k > srv.sent \/ srv.again < MaxAgain
              /\ srv' = [srv EXCEPT !.sent = IF k > @ THEN k ELSE @,
                                    !.again = IF k > srv.sent THEN @ ELSE @ + 1,
                                    !.cwr = @ /\ ~ data,
                                    !.sentCWR = @ \/ "CWR" \in flags]
  /\ UNCHANGED <<pc, exit, s, seen, cap, late>>

Arrive(p) ==
  /\ p.from = "s" /\ Len(cap) < CapMax
  /\ cap' = Append(cap, p)
  /\ net' = net \ {p}
  /\ UNCHANGED <<pc, exit, s, seen, srv, late>>

-----------------------------------------------------------------------------
Init ==
  /\ \E iss \in InitSeqs :
       /\ s = [attempt |-> 1, tries |-> 0, first |-> "unknown", iss |-> iss, irs |-> 0,
               snd_nxt |-> iss, snd_una |-> 0, rcv_nxt |-> 0, last |-> 0, got |-> {0},
               send_cwr |-> 0, send_ece |-> 0]
       /\ net = {Pkt("c", SynFlags(1), iss, 0, 0, FALSE)}
  /\ \E mode \in Modes :
       srv = [mode |-> mode, conn |-> "listen", irs |-> s.iss, rcv_nxt |-> 0, ecn |-> FALSE,
              started |-> FALSE, sent |-> 0, again |-> 0, una |-> 0, ece |-> FALSE, cwr |-> FALSE,
              sawCWR |-> FALSE, sentCWR |-> FALSE]
  /\ pc = "syn" /\ exit = "running"
  /\ seen = checkECN(Nothing, Pkt("c", SynFlags(1), 0, 0, 0, FALSE))
  /\ cap = <<>> /\ late = FALSE

Client == SynTimeout \/ SynRead \/ DataTimeout \/ DataRead \/ RcvTimeout \/ RcvRead
Next == \/ Client \/ ServerSend
        \/ \E p \in net : Server(p) /\ p.from = "c"
        \/ \E p \in net : Arrive(p)

\* The client's loops run, and time passes.
Spec == Init /\ [][Next]_vars /\ WF_vars(Client)

-----------------------------------------------------------------------------
(* Properties *)

\* ECNAckData acknowledges exactly the bytes it has: all that are in order and
\* none the server has not sent, also when the numbers wrap.
AckHonest ==
  pc = "rcv" => LET n == (s.rcv_nxt - s.irs) % SeqSpace
                IN  0 .. n - 1 \subseteq s.got /\ n \notin s.got /\ n <= srv.sent + 1

\* What checkECN reports as passed did happen at the server: ECN was agreed on,
\* the mark was echoed, the echo stopped because CWR came, CWR came for an echo.
PassMeans ==
  /\ seen.se = 1 => srv.ecn
  /\ seen.ae => srv.ecn
  /\ seen.we = 2 => srv.sawCWR
  /\ seen.ee = 2 => srv.sentCWR

\* When no packet is lost and none is late, the exit code tells what the path
\* does with a SYN that asks for ECN.
VerdictRight ==
  ~ late =>
    /\ exit = "ECN_SYN_DROP" => srv.mode \in {"rstecn", "dropecn"}
    /\ exit = "EARLY_RST" => srv.mode = "closed"
    /\ exit = "NO_CONNECTION" => srv.mode = "dead"
    /\ exit \in {"SUCCESS", "NO_DATA_RCVD", "HTTP"} => Supports(srv.mode) \/ srv.mode = "plain"

\* ecnprobe comes to an end.
Ends == <>(pc = "end")
=============================================================================
