----------------------------- MODULE KdumpProofs -----------------------------
(***************************************************************************)
(* Proofs about kdumpd, for every dump and every bound: its receive loop,  *)
(* the daemon that spawns it, and the netascii conversion of its data.     *)
(*                                                                         *)
(* None of the safety properties is inductive alone.  For the receive loop *)
(* IInv adds what ties them together: which packets can be in flight       *)
(* (PacketsInv), how the acknowledgement in ackbuf relates to the block    *)
(* expected (AckInv), and the two shapes the pair of buffers can have      *)
(* (BufferInv).  SpawnInv and AsciiInv, further down, do it for the        *)
(* others.  The temporal theorems come last.                               *)
(***************************************************************************)
EXTENDS KdumpSession, KdumpSpawn, KdumpNetascii, Numbers, TLAPS

\* Both buffers are free: dp is the one allocated and the next in line.
Idle ==
    /\ bfs[current].counter = "ALLOC"
    /\ bfs[1 - current].counter = "FREE"
    /\ nextone = current

\* The block acknowledged last waits in the other buffer.
Pending ==
    /\ bfs[current].counter = "ALLOC"
    /\ bfs[1 - current].counter = "FULL"
    /\ nextone = 1 - current
    /\ block - 1 \in 1..Len(Ops)
    /\ bfs[1 - current].pkt = Packet(block - 1)
    /\ Ops[block - 1].op = "DATA"

BufferInv ==
    /\ Idle \/ (Pending /\ pc \in {"send_ack", "write_behind", "done"})
    /\ pc \in {"send_ack", "write_behind", "recv"} =>
          \A b \in 0..1 : bfs[b].pkt.op # "KDP_EOF"

AckInv ==
    /\ \/ ack = block - 1
       \/ ack = block /\ block = EofBlock /\ pc \in {"flushfile", "linger", "done"} /\ Idle
    /\ pc = "final_ack" => block = EofBlock

PacketsInv ==
    \A m \in net : \/ m.op = "ACK" /\ m.blk <= ack
                   \/ m = Error
                   \/ m.blk \in 1..cblock /\ m = Packet(m.blk)

ClientInv ==
    /\ cblock <= block
    /\ cstate = "ok" => ack = block

TimerInv == timeout = MaxTimeout => pc \in {"flushfile", "linger", "done"}

IInv == TypeOK /\ BufferInv /\ AckInv /\ PacketsInv /\ ClientInv /\ TimerInv

----------------------------------------------------------------------------
(* Packets *)

\* The dump's last block number, and its packets, are well typed.
LEMMA PacketType ==
    /\ EofBlock \in Nat \ {0}
    /\ \A k \in 1..EofBlock : /\ Packet(k) \in Packets
                              /\ Packet(k).blk = k
                              /\ Packet(k).op \in {"DATA", "KDP_SEEK", "KDP_EOF"}
                              /\ (Packet(k).op = "KDP_EOF") = (k = EofBlock)
                              /\ k # EofBlock => Packet(k).op = Ops[k].op /\ Packet(k).arg = Ops[k].arg
    /\ Error \in Packets
    /\ \A k \in Nat : Ack(k) \in Packets
<1>1. Len(Ops) \in Nat
  BY OpsAssumption DEF OpsAssumption
<1>2. \A k \in 1..Len(Ops) : Ops[k] \in Operations
  BY OpsAssumption DEF OpsAssumption
<1>3. QED
  BY <1>1, <1>2 DEF EofBlock, Operations, Packet, Packets, Error, Ack

----------------------------------------------------------------------------
(* Buffers *)

\* write_behind() does nothing when no buffer waits.
LEMMA WriteBehindIdle ==
    ASSUME TypeOK, Idle, NEW d \in write_behind(Disk), DiskBecomes(d)
    PROVE  UNCHANGED <<bfs, nextone, img, pos>>
BY DEF TypeOK, Idle, write_behind, Disk, DiskBecomes

\* write_behind() frees the buffer that waits, and writes what it holds unless
\* the disk is full.
LEMMA WriteBehindPending ==
    ASSUME TypeOK, Pending, NEW d \in write_behind(Disk), DiskBecomes(d)
    PROVE  /\ bfs' = [bfs EXCEPT ![1 - current].counter = "FREE"]
           /\ nextone' = current
           /\ \/ /\ img' = Transfer!Written(img, pos, Ops[block - 1].arg)
                 /\ pos' = pos + 1
              \/ DiskMayFill /\ UNCHANGED <<img, pos>>
<1> DEFINE freed == [Disk EXCEPT !.bfs[nextone].counter = "FREE", !.nextone = 1 - nextone]
           wrote == [freed EXCEPT !.img = Transfer!Written(img, pos, bfs[nextone].pkt.arg),
                                  !.pos = pos + 1]
<1>1. bfs[nextone].counter = "FULL" /\ nextone \in 0..1
  BY DEF Pending, TypeOK
<1>2. d = wrote \/ (DiskMayFill /\ d = freed)
  BY <1>1 DEF write_behind, Disk
<1>3. /\ freed.bfs = [bfs EXCEPT ![nextone].counter = "FREE"]
      /\ freed.nextone = 1 - nextone /\ freed.img = img /\ freed.pos = pos
  BY DEF Disk
<1>4. /\ wrote.bfs = freed.bfs /\ wrote.nextone = freed.nextone
      /\ wrote.img = Transfer!Written(img, pos, bfs[nextone].pkt.arg) /\ wrote.pos = pos + 1
  BY DEF Disk
<1>5. bfs[nextone].pkt.arg = Ops[block - 1].arg
  BY PacketType DEF Pending, EofBlock
<1>6. 1 - nextone = current /\ nextone = 1 - current
  BY DEF Pending, TypeOK
<1>7. QED
  BY <1>2, <1>3, <1>4, <1>5, <1>6, Zenon DEF DiskBecomes

\* writeit() switches buffers without touching the file: in the receive loop
\* the other buffer is always free.
LEMMA WriteitIdle ==
    ASSUME TypeOK, Idle, NEW m \in Packets, writeit(m)
    PROVE  /\ current' = 1 - current
           /\ UNCHANGED <<nextone, img, pos>>
           /\ bfs' = [bfs EXCEPT ![current] = [counter |-> "FULL", pkt |-> m],
                                 ![1 - current].counter = "ALLOC"]
<1> DEFINE full == [bfs EXCEPT ![current] = [counter |-> "FULL", pkt |-> m]]
           d == [Disk EXCEPT !.bfs = full]
           r == [d EXCEPT !.bfs[1 - current].counter = "ALLOC"]
<1>1. bfs[1 - current].counter = "FREE"
  BY DEF Idle
<1>2. current' = 1 - current /\ DiskBecomes(r)
  BY <1>1, Zenon DEF writeit
<1>3. /\ r.bfs = [full EXCEPT ![1 - current].counter = "ALLOC"]
      /\ r.nextone = nextone /\ r.img = img /\ r.pos = pos
  BY DEF Disk
<1>4. QED
  BY <1>2, <1>3 DEF DiskBecomes, TypeOK

\* A reception only removes packets from the network, but for the answer sent.
LEMMA ReceiveNet ==
    ASSUME TypeOK, NEW m, NEW sent, NEW flushed, Receive(m, sent, flushed)
    PROVE  /\ net' \subseteq net \cup sent
           /\ dups' \in 0..MaxDup
BY BoundAssumption DEF TypeOK, Receive, BoundAssumption

\* What recvfile() reads is a packet the client sent: an operation it has
\* reached, the end of file, or an error.
LEMMA FromClient ==
    ASSUME IInv, NEW m \in ToServer
    PROVE  /\ m \in Packets
           /\ m.op \in {"DATA", "KDP_SEEK"} => /\ m.blk \in 1..Len(Ops)
                                              /\ m = Packet(m.blk)
                                              /\ Ops[m.blk].op = m.op
                                              /\ Ops[m.blk].arg = m.arg
           /\ m.op = "KDP_EOF" => cblock = EofBlock
<1>1. m \in net /\ m \in Packets /\ m.op # "ACK"
  BY DEF ToServer, IInv, TypeOK
<1>2. m = Error \/ (m.blk \in 1..cblock /\ m = Packet(m.blk))
  BY <1>1 DEF IInv, PacketsInv
<1>3. cblock \in 0..EofBlock /\ Len(Ops) \in Nat /\ EofBlock = Len(Ops) + 1
  BY OpsAssumption DEF IInv, TypeOK, EofBlock, OpsAssumption
<1>4. QED
  BY <1>1, <1>2, <1>3, PacketType DEF Error

----------------------------------------------------------------------------
(* The invariant *)

\* The session starts in the invariant: dp allocated, nothing acknowledged.
LEMMA InitInv == Init => IInv
<1> SUFFICES ASSUME Init PROVE IInv
  OBVIOUS
<1>1. TypeOK
  BY PacketType, BoundAssumption DEF Init, TypeOK, Pcs, Packets, Nothing, BoundAssumption
<1>2. BufferInv
  BY DEF Init, BufferInv, Idle, Nothing
<1>3. AckInv /\ PacketsInv /\ ClientInv /\ TimerInv
  BY BoundAssumption DEF Init, AckInv, PacketsInv, ClientInv, TimerInv, BoundAssumption
<1>4. QED
  BY <1>1, <1>2, <1>3 DEF IInv

\* send() of ackbuf adds only the acknowledgement of the last block accepted.
LEMMA SendAckInv == IInv /\ SendAck => IInv'
<1> SUFFICES ASSUME IInv, SendAck PROVE IInv'
  OBVIOUS
<1> USE DEF SendAck, buffers, file, client
<1>1. Ack(ack) \in Packets /\ ack \in Nat
  BY PacketType DEF IInv, TypeOK
<1>2. TypeOK'
  BY <1>1 DEF IInv, TypeOK, Pcs
<1>3. BufferInv'
  BY DEF IInv, BufferInv, Idle, Pending
<1>4. AckInv'
  BY DEF IInv, AckInv, Idle
<1>5. PacketsInv'
  BY <1>1 DEF IInv, PacketsInv, Ack
<1>6. ClientInv' /\ TimerInv'
  BY DEF IInv, ClientInv, TimerInv
<1>7. QED
  BY <1>2, <1>3, <1>4, <1>5, <1>6 DEF IInv

\* write_behind(), in the loop and after it, leaves both buffers free.
LEMMA WriteBehindInv == IInv /\ (WriteBehind \/ FlushFile) => IInv'
<1> SUFFICES ASSUME IInv, WriteBehind \/ FlushFile PROVE IInv'
  OBVIOUS
<1> USE DEF client
<1>1. PICK d \in write_behind(Disk) : DiskBecomes(d)
  BY DEF WriteBehind, FlushFile
<1>2. /\ UNCHANGED <<current, block, ack, timeout, net, dups, client>>
      /\ pc \in {"write_behind", "flushfile"}
      /\ pc' = IF pc = "write_behind" THEN "recv" ELSE "linger"
  BY DEF WriteBehind, FlushFile
<1>3. CASE Idle
  <2>1. UNCHANGED <<bfs, nextone, img, pos>>
    BY <1>1, <1>3, WriteBehindIdle DEF IInv
  <2>2. TypeOK'
    BY <1>2, <2>1 DEF IInv, TypeOK, Pcs
  <2>3. BufferInv'
    BY <1>2, <1>3, <2>1 DEF IInv, BufferInv, Idle
  <2>4. AckInv' /\ PacketsInv' /\ ClientInv' /\ TimerInv'
    BY <1>2, <2>1 DEF IInv, AckInv, Idle, PacketsInv, ClientInv, TimerInv
  <2>5. QED
    BY <2>2, <2>3, <2>4 DEF IInv
<1>4. CASE Pending /\ pc = "write_behind"
  <2>1. /\ bfs' = [bfs EXCEPT ![1 - current].counter = "FREE"]
        /\ nextone' = current
        /\ \/ /\ img' = Transfer!Written(img, pos, Ops[block - 1].arg)
              /\ pos' = pos + 1
           \/ UNCHANGED <<img, pos>>
    BY <1>1, <1>4, WriteBehindPending DEF IInv
  <2>2. Ops[block - 1].arg \in Nat
    <3>1. block - 1 \in 1..EofBlock /\ block - 1 # EofBlock
      BY <1>4, PacketType DEF Pending, EofBlock, IInv, TypeOK
    <3>2. Packet(block - 1) \in Packets /\ Packet(block - 1).arg = Ops[block - 1].arg
      BY <3>1, PacketType
    <3>3. QED
      BY <3>2 DEF Packets
  <2>3. TypeOK'
    BY <1>2, <2>1, <2>2 DEF IInv, TypeOK, Pcs, Transfer!Written
  <2>4. BufferInv'
    BY <1>2, <1>4, <2>1 DEF IInv, TypeOK, BufferInv, Idle, Pending
  <2>5. AckInv' /\ PacketsInv' /\ ClientInv' /\ TimerInv'
    BY <1>2, <1>4 DEF IInv, AckInv, PacketsInv, ClientInv, TimerInv
  <2>6. QED
    BY <2>3, <2>4, <2>5 DEF IInv
<1>5. QED
  BY <1>2, <1>3, <1>4 DEF IInv, BufferInv

\* recv() changes the packet in dp and no counter.
LEMMA IntoBuffer ==
    ASSUME TypeOK, NEW m \in Packets
    PROVE  /\ Into(m) \in [0..1 -> [counter : {"ALLOC", "FREE", "FULL"}, pkt : Packets]]
           /\ \A b \in 0..1 : /\ Into(m)[b].counter = bfs[b].counter
                               /\ Into(m)[b].pkt = IF b = current THEN m ELSE bfs[b].pkt
BY DEF TypeOK, Into

\* A new DATA block fills dp and leaves the loop with one buffer waiting.
LEMMA RecvDataInv == ASSUME IInv, NEW m \in ToServer, RecvData(m) PROVE IInv'
<1> USE DEF client
<1>1. /\ pc = "recv" /\ m.op = "DATA" /\ m.blk = block /\ Receive(m, {}, {})
      /\ writeit(m) /\ UNCHANGED client
  BY DEF RecvData
<1>2. /\ m \in Packets /\ block \in 1..Len(Ops) /\ m = Packet(block)
      /\ Ops[block].op = "DATA"
  BY <1>1, FromClient
<1>3. Idle /\ TypeOK
  BY <1>1 DEF IInv, BufferInv
<1>4. /\ current' = 1 - current
      /\ UNCHANGED <<nextone, img, pos>>
      /\ bfs' = [bfs EXCEPT ![current] = [counter |-> "FULL", pkt |-> m],
                            ![1 - current].counter = "ALLOC"]
  BY <1>1, <1>2, <1>3, WriteitIdle
<1>5. /\ current \in 0..1 /\ 1 - current \in 0..1 /\ current # 1 - current
      /\ 1 - (1 - current) = current
  BY <1>3 DEF TypeOK
<1>6. /\ bfs'[current].counter = "FULL" /\ bfs'[current].pkt = m
      /\ bfs'[1 - current].counter = "ALLOC" /\ bfs'[1 - current].pkt = bfs[1 - current].pkt
  BY <1>3, <1>4, <1>5 DEF TypeOK
<1>7. bfs'[current'].pkt.op # "KDP_EOF"
  BY <1>1, <1>4, <1>5, <1>6 DEF IInv, BufferInv
<1>8. pc' = "send_ack" /\ timeout' = 0 /\ ack' = block /\ block' = block + 1
  BY <1>7 DEF RecvData, NextAck
<1>9. net' \subseteq net /\ dups' \in 0..MaxDup
  BY <1>1, <1>3, ReceiveNet
<1>10. Len(Ops) \in Nat /\ EofBlock = Len(Ops) + 1
  BY OpsAssumption DEF EofBlock, OpsAssumption
<1>11. TypeOK'
  <2>1. bfs' \in [0..1 -> [counter : {"ALLOC", "FREE", "FULL"}, pkt : Packets]]
    BY <1>2, <1>3, <1>4, <1>5, Zenon DEF TypeOK
  <2>2. current' \in 0..1 /\ UNCHANGED <<nextone, img, pos>>
    BY <1>4, <1>5
  <2>3. UNCHANGED <<cstate, cblock, retries>>
    BY <1>1
  <2>4. QED
    BY <1>2, <1>3, <1>8, <1>9, <1>10, <2>1, <2>2, <2>3, BoundAssumption
      DEF TypeOK, Pcs, BoundAssumption
<1>12. BufferInv'
  <2>1. Pending'
    BY <1>2, <1>3, <1>4, <1>5, <1>6, <1>8 DEF Idle, Pending
  <2>2. \A b \in 0..1 : bfs'[b].pkt.op # "KDP_EOF"
    BY <1>1, <1>5, <1>6 DEF IInv, BufferInv
  <2>3. QED
    BY <1>8, <2>1, <2>2 DEF BufferInv
<1>13. AckInv'
  BY <1>2, <1>8 DEF AckInv
<1>14. PacketsInv'
  <2>1. ack = block - 1 /\ \A p \in net : p.blk \in Nat
    BY <1>1, <1>3 DEF IInv, AckInv, TypeOK, Packets
  <2>2. QED
    BY <1>1, <1>2, <1>8, <1>9, <2>1 DEF IInv, PacketsInv
<1>15. ClientInv' /\ TimerInv'
  BY <1>1, <1>2, <1>3, <1>8, BoundAssumption DEF IInv, ClientInv, TimerInv, AckInv, TypeOK,
      BoundAssumption
<1>16. QED
  BY <1>11, <1>12, <1>13, <1>14, <1>15 DEF IInv

\* A new KDP_SEEK block moves the file offset with no buffer waiting.
LEMMA RecvSeekInv == ASSUME IInv, NEW m \in ToServer, RecvSeek(m) PROVE IInv'
<1> USE DEF client
<1>1. /\ pc = "recv" /\ m.op = "KDP_SEEK" /\ m.blk = block /\ Receive(m, {}, {})
      /\ bfs' = Into(m) /\ pos' = m.arg /\ pc' = "send_ack"
      /\ timeout' = 0 /\ ack' = block /\ block' = block + 1
      /\ UNCHANGED <<current, nextone, img, client>>
  BY DEF RecvSeek, NextAck
<1>2. m \in Packets /\ block \in 1..Len(Ops)
  BY <1>1, FromClient
<1>3. Idle /\ TypeOK
  BY <1>1 DEF IInv, BufferInv
<1>4. /\ bfs' \in [0..1 -> [counter : {"ALLOC", "FREE", "FULL"}, pkt : Packets]]
      /\ \A b \in 0..1 : /\ bfs'[b].counter = bfs[b].counter
                          /\ bfs'[b].pkt = IF b = current THEN m ELSE bfs[b].pkt
  BY <1>1, <1>2, <1>3, IntoBuffer
<1>5. net' \subseteq net /\ dups' \in 0..MaxDup
  BY <1>1, <1>3, ReceiveNet
<1>6. Len(Ops) \in Nat /\ EofBlock = Len(Ops) + 1
  BY OpsAssumption DEF EofBlock, OpsAssumption
<1>7. TypeOK'
  <2>1. m.arg \in Nat
    BY <1>2 DEF Packets
  <2>2. QED
    BY <1>1, <1>2, <1>3, <1>4, <1>5, <1>6, <2>1, BoundAssumption DEF TypeOK, Pcs, BoundAssumption
<1>8. BufferInv'
  <2>1. Idle'
    BY <1>1, <1>3, <1>4 DEF Idle, TypeOK
  <2>2. \A b \in 0..1 : bfs'[b].pkt.op # "KDP_EOF"
    BY <1>1, <1>4 DEF IInv, BufferInv
  <2>3. QED
    BY <2>1, <2>2 DEF BufferInv
<1>9. AckInv'
  BY <1>1, <1>2 DEF AckInv
<1>10. PacketsInv'
  BY <1>1, <1>2, <1>3, <1>5 DEF IInv, PacketsInv, AckInv, TypeOK, Packets
<1>11. ClientInv' /\ TimerInv'
  BY <1>1, <1>2, <1>3, BoundAssumption DEF IInv, ClientInv, TimerInv, AckInv, TypeOK,
      BoundAssumption
<1>12. QED
  BY <1>7, <1>8, <1>9, <1>10, <1>11 DEF IInv

\* Receptions that change neither the block expected nor the file.
LEMMA QuietReceiveInv ==
    ASSUME IInv, pc = "recv", NEW x \in Packets, bfs' = Into(x) \/ bfs' = bfs,
           pc' \in Pcs \ {"write_behind", "linger"},
           bfs' # bfs /\ pc' \in {"send_ack", "recv"} => x.op # "KDP_EOF",
           pc' = "final_ack" => block = EofBlock,
           timeout' \in 0..MaxTimeout,
           timeout' = MaxTimeout => pc' \in {"flushfile", "done"},
           net' \subseteq net, dups' \in 0..MaxDup,
           UNCHANGED <<block, ack, current, nextone, file, client>>
    PROVE  IInv'
<1> USE DEF client, file
<1>1. Idle /\ TypeOK /\ ack = block - 1
  BY DEF IInv, BufferInv, AckInv
<1> DEFINE Same(b) == /\ bfs'[b].counter = bfs[b].counter
                      /\ bfs'[b].pkt = bfs[b].pkt \/ (bfs'[b].pkt = x /\ bfs' # bfs)
<1>2. /\ bfs' \in [0..1 -> [counter : {"ALLOC", "FREE", "FULL"}, pkt : Packets]]
      /\ Same(current) /\ Same(1 - current)
      /\ \A b \in 0..1 : b = current \/ b = 1 - current
  <2>1. current \in 0..1 /\ 1 - current \in 0..1
    BY <1>1 DEF TypeOK
  <2>2. CASE bfs' = bfs
    BY <1>1, <2>1, <2>2 DEF TypeOK
  <2>3. CASE bfs' = Into(x) /\ bfs' # bfs
    BY <1>1, <2>1, <2>3, IntoBuffer
  <2>4. QED
    BY <2>2, <2>3
<1>3. TypeOK'
  BY <1>1, <1>2 DEF TypeOK
<1>4. BufferInv'
  <2>1. Idle'
    BY <1>1, <1>2 DEF Idle
  <2>2. ASSUME pc' \in {"send_ack", "write_behind", "recv"}, NEW b \in 0..1
        PROVE  bfs'[b].pkt.op # "KDP_EOF"
    BY <1>2, <2>2 DEF IInv, BufferInv
  <2>3. QED
    BY <2>1, <2>2 DEF BufferInv
<1>5. AckInv' /\ ClientInv' /\ TimerInv'
  BY <1>1 DEF IInv, AckInv, ClientInv, TimerInv
<1>6. PacketsInv'
  BY DEF IInv, PacketsInv
<1>7. QED
  BY <1>3, <1>4, <1>5, <1>6 DEF IInv

\* Old blocks, the end of file, errors, and a packet overtaken by the alarm.
LEMMA OtherReceiveInv ==
    ASSUME IInv, NEW m \in ToServer,
           RecvOther(m) \/ RecvEof(m) \/ RecvError(m) \/ TimerAfterRecv(m)
    PROVE  IInv'
<1> USE DEF client, file
<1>1. m \in Packets /\ TypeOK /\ pc = "recv" /\ timeout < MaxTimeout
  <2>1. m \in Packets
    BY FromClient, Zenon
  <2>2. pc = "recv"
    BY Zenon DEF RecvOther, RecvEof, RecvError, TimerAfterRecv
  <2>3. TypeOK /\ timeout # MaxTimeout
    BY <2>2 DEF IInv, TimerInv
  <2>4. timeout < MaxTimeout
    BY <2>3, BoundAssumption DEF TypeOK, BoundAssumption
  <2> QED
    BY <2>1, <2>2, <2>3, <2>4, Zenon
<1>2. net' \subseteq net /\ dups' \in 0..MaxDup
  <2>1. \E flushed : Receive(m, {}, flushed)
    BY DEF RecvOther, RecvEof, RecvError, TimerAfterRecv
  <2>2. QED
    BY <1>1, <2>1, ReceiveNet
<1>3. UNCHANGED <<block, ack, current, nextone, file, client>>
  BY DEF RecvOther, RecvEof, RecvError, TimerAfterRecv
<1>4. CASE RecvOther(m) \/ RecvEof(m) \/ RecvError(m)
  <2>1. /\ bfs' = Into(m) /\ pc' \in {"send_ack", "recv", "final_ack", "done"}
        /\ pc' \in {"send_ack", "recv"} => m.op # "KDP_EOF"
        /\ pc' = "final_ack" => m.op = "KDP_EOF"
        /\ UNCHANGED timeout
    BY <1>4 DEF RecvOther, RecvEof, RecvError
  <2>2. timeout' \in 0..MaxTimeout /\ timeout' # MaxTimeout
    BY <1>1, <2>1, BoundAssumption DEF TypeOK, BoundAssumption
  <2>3. pc' = "final_ack" => block = EofBlock
    BY <1>1, <2>1, FromClient DEF IInv, ClientInv, TypeOK
  <2>4. QED
    BY <1>1, <1>2, <1>3, <2>1, <2>2, <2>3, QuietReceiveInv, Zenon DEF Pcs
<1>5. CASE TimerAfterRecv(m)
  <2> DEFINE x == [m EXCEPT !.op = "NONE"]
  <2>1. bfs' = Into(x) /\ timeout' = timeout + 1
        /\ pc' = IF timeout + 1 >= MaxTimeout THEN "flushfile" ELSE "send_ack"
    BY <1>5 DEF TimerAfterRecv, longjmp
  <2>2. x \in Packets /\ x.op = "NONE"
    BY <1>1 DEF Packets
  <2>3. /\ timeout' \in 0..MaxTimeout
        /\ timeout' = MaxTimeout => pc' \in {"flushfile", "done"}
        /\ pc' \in {"send_ack", "flushfile"}
    BY <1>1, <2>1, BoundAssumption DEF TypeOK, BoundAssumption
  <2> HIDE DEF x
  <2>4. QED
    BY <1>1, <1>2, <1>3, <2>1, <2>2, <2>3, QuietReceiveInv DEF Pcs
<1>6. QED
  BY <1>4, <1>5

\* The alarm during recv(), and a failing recv().
LEMMA TimerInvariant == ASSUME IInv, Timer \/ RecvFails PROVE IInv'
<1> USE DEF client, file, buffers
<1>1. TypeOK /\ pc = "recv" /\ timeout < MaxTimeout
  BY BoundAssumption DEF IInv, Timer, RecvFails, TimerInv, TypeOK, BoundAssumption
<1>2. /\ timeout' \in 0..MaxTimeout
      /\ timeout' = MaxTimeout => pc' \in {"flushfile", "done"}
      /\ pc' \in {"send_ack", "flushfile", "done"}
      /\ UNCHANGED <<bfs, net, dups, block, ack, current, nextone, file, client>>
  BY <1>1, BoundAssumption DEF Timer, RecvFails, longjmp, TypeOK, BoundAssumption
<1>3. Error \in Packets /\ dups' \in 0..MaxDup /\ net' \subseteq net
  BY <1>1, <1>2, PacketType DEF TypeOK
<1>4. QED
  BY <1>1, <1>2, <1>3, QuietReceiveInv DEF Pcs

\* The final ack is sent with both buffers free and every block accepted.
LEMMA FinalAckInv == ASSUME IInv, FinalAck PROVE IInv'
<1> USE DEF client, file, buffers
<1>1. /\ pc = "final_ack" /\ ack' = block /\ net' \in {net, net \cup {Ack(block)}}
      /\ pc' = "flushfile"
      /\ UNCHANGED <<block, timeout, bfs, current, nextone, img, pos, dups, cstate, cblock, retries>>
  BY DEF FinalAck
<1>2. Idle /\ TypeOK /\ ack = block - 1 /\ block = EofBlock
  BY <1>1 DEF IInv, BufferInv, AckInv
<1>3. Ack(block) \in Packets /\ block \in Nat
  BY <1>2, PacketType DEF TypeOK
<1>4. net' \subseteq Packets
  BY <1>1, <1>2, <1>3 DEF TypeOK
<1>5. TypeOK'
  BY <1>1, <1>2, <1>4 DEF TypeOK, Pcs
<1>6. BufferInv' /\ AckInv'
  BY <1>1, <1>2 DEF BufferInv, Idle, AckInv
<1>7. PacketsInv'
  <2>1. \A p \in net : p.blk \in Nat
    BY <1>2 DEF TypeOK, Packets
  <2>2. QED
    BY <1>1, <1>2, <1>3, <2>1 DEF IInv, PacketsInv, Ack
<1>8. ClientInv' /\ TimerInv'
  BY <1>1, <1>2 DEF IInv, ClientInv, TimerInv
<1>9. QED
  BY <1>5, <1>6, <1>7, <1>8 DEF IInv

\* After its last recv() the session only re-sends an ack it has sent before.
LEMMA LingerInv ==
    ASSUME IInv, justquit \/ \E m \in ToServer : Linger(m)
    PROVE  IInv'
<1> USE DEF client, file, buffers
<1>1. /\ pc = "linger" /\ pc' = "done"
      /\ UNCHANGED <<block, ack, timeout, bfs, current, nextone, img, pos, cstate, cblock, retries>>
  BY DEF justquit, Linger
<1>2. TypeOK /\ ack \in Nat /\ Ack(ack) \in Packets
  BY PacketType DEF IInv, TypeOK
<1>3. net' \subseteq net \cup {Ack(ack)} /\ dups' \in 0..MaxDup
  <2>1. CASE justquit
    BY <1>2, <2>1 DEF justquit, TypeOK
  <2>2. CASE \E m \in ToServer : Linger(m)
    <3>1. PICK m \in ToServer, sent \in SUBSET {Ack(ack)} : Receive(m, sent, {})
      BY <2>2, Zenon DEF Linger
    <3>2. QED
      BY <1>2, <3>1, ReceiveNet
  <2>3. QED
    BY <2>1, <2>2
<1>4. TypeOK'
  BY <1>1, <1>2, <1>3 DEF TypeOK, Pcs
<1>5. BufferInv' /\ AckInv' /\ ClientInv' /\ TimerInv'
  BY <1>1 DEF IInv, BufferInv, Idle, AckInv, ClientInv, TimerInv
<1>6. PacketsInv'
  BY <1>1, <1>2, <1>3 DEF IInv, PacketsInv, Ack
<1>7. QED
  BY <1>4, <1>5, <1>6, Zenon DEF IInv

\* The server's part of the invariant does not depend on what the client and
\* the network do.
LEMMA ServerUnchanged ==
    ASSUME IInv, UNCHANGED <<pc, block, ack, timeout, bfs, current, nextone, img, pos>>
    PROVE  BufferInv' /\ AckInv' /\ TimerInv'
BY DEF IInv, BufferInv, Idle, Pending, AckInv, TimerInv

\* The client sends only packets of blocks it has reached, moves on only for
\* the acknowledgement of its block, and the network only loses packets.
LEMMA ClientInvariant == ASSUME IInv, Client \/ Lose PROVE IInv'
<1> USE DEF client, file, buffers
<1>1. UNCHANGED <<pc, block, ack, timeout, bfs, current, nextone, img, pos>>
  BY DEF Client, ClientSend, ClientGiveUp, ClientAck, Lose
<1>2. BufferInv' /\ AckInv' /\ TimerInv'
  BY <1>1, ServerUnchanged
<1>3. TypeOK /\ EofBlock \in Nat \ {0}
  BY PacketType DEF IInv
<1>4. CASE ClientSend
  <2>1. /\ cblock > 0 /\ net' = net \cup {Packet(cblock)}
        /\ retries' = retries + 1 /\ retries < MaxRetry
        /\ UNCHANGED <<dups, cstate, cblock>>
    BY <1>4 DEF ClientSend
  <2>2. cblock \in 1..EofBlock
    BY <1>3, <2>1 DEF TypeOK
  <2>3. Packet(cblock) \in Packets /\ Packet(cblock).blk = cblock
    BY <2>2, PacketType, Zenon
  <2>4. TypeOK'
    BY <1>1, <1>3, <2>1, <2>3, BoundAssumption DEF TypeOK, BoundAssumption
  <2>5. PacketsInv' /\ ClientInv'
    BY <1>1, <2>1, <2>2, <2>3 DEF IInv, PacketsInv, ClientInv
  <2>6. QED
    BY <1>2, <2>4, <2>5 DEF IInv
<1>5. CASE ClientGiveUp \/ Lose
  <2>1. /\ cstate' \in {cstate, "failed"} /\ net' \subseteq net \cup {Error}
        /\ UNCHANGED <<dups, cblock, retries>>
    BY <1>5, Zenon DEF ClientGiveUp, Lose
  <2>2. TypeOK'
    BY <1>1, <1>3, <2>1, PacketType DEF TypeOK
  <2>3. PacketsInv' /\ ClientInv'
    BY <1>1, <2>1 DEF IInv, PacketsInv, ClientInv
  <2>4. QED
    BY <1>2, <2>2, <2>3 DEF IInv
<1>6. ASSUME NEW m \in ToClient, ClientAck(m) PROVE IInv'
  <2>1. Receive(m, {}, {})
    BY <1>6 DEF ClientAck
  <2>2. net' \subseteq net /\ dups' \in 0..MaxDup
    BY <1>3, <2>1, ReceiveNet
  <2>3. m \in Packets /\ m.op = "ACK" /\ m.blk \in Nat
    BY <1>3, <1>6 DEF ToClient, TypeOK, Packets
  <2>4. m.blk <= ack
    <3>1. \A k \in 1..cblock : Packet(k).op # "ACK"
      BY <1>3, PacketType DEF TypeOK
    <3>2. QED
      BY <1>6, <2>3, <3>1 DEF ToClient, IInv, PacketsInv, Error
  <2>5. CASE m.blk # cblock \/ cblock = EofBlock
    <3>1. /\ UNCHANGED <<cblock, retries>>
          /\ cstate' = cstate \/ (cstate' = "ok" /\ m.blk = EofBlock /\ cblock = EofBlock)
      BY <1>6, <2>5 DEF ClientAck
    <3>2. TypeOK'
      BY <1>1, <1>3, <2>2, <3>1 DEF TypeOK
    <3>3. PacketsInv'
      BY <1>1, <2>2, <3>1 DEF IInv, PacketsInv
    <3>4. ClientInv'
      BY <1>1, <1>3, <2>4, <3>1 DEF IInv, ClientInv, AckInv, TypeOK
    <3>5. QED
      BY <1>2, <3>2, <3>3, <3>4 DEF IInv
  <2>6. CASE m.blk = cblock /\ cblock # EofBlock
    <3>1. cblock' = cblock + 1 /\ retries' = 0 /\ UNCHANGED cstate
      BY <1>6, <2>6 DEF ClientAck
    <3>2. cblock \in Nat /\ cblock' \in 0..EofBlock
      BY <1>3, <2>6, <3>1 DEF TypeOK
    <3>3. TypeOK'
      BY <1>1, <1>3, <2>2, <3>1, <3>2, BoundAssumption DEF TypeOK, BoundAssumption
    <3>4. PacketsInv'
      BY <1>1, <2>2, <3>1, <3>2 DEF IInv, PacketsInv
    <3>5. ClientInv'
      BY <1>1, <1>3, <2>4, <2>6, <3>1 DEF IInv, ClientInv, AckInv, TypeOK
    <3>6. QED
      BY <1>2, <3>3, <3>4, <3>5 DEF IInv
  <2>7. QED
    BY <2>5, <2>6
<1>7. QED
  BY <1>4, <1>5, <1>6 DEF Client

\* Every step of the session preserves the invariant.
LEMMA Inductive == IInv /\ [Next]_vars => IInv'
<1>1. ASSUME IInv, UNCHANGED vars PROVE IInv'
  <2>1. /\ UNCHANGED <<pc, block, ack, timeout, bfs, current, nextone, img, pos>>
        /\ UNCHANGED <<net, dups, cstate, cblock, retries>>
    BY <1>1 DEF vars, buffers, file, client
  <2>2. BufferInv' /\ AckInv' /\ TimerInv'
    BY <1>1, <2>1, ServerUnchanged
  <2>3. TypeOK' /\ PacketsInv' /\ ClientInv'
    BY <1>1, <2>1 DEF IInv, TypeOK, PacketsInv, ClientInv
  <2>4. QED
    BY <2>2, <2>3 DEF IInv
<1>2. ASSUME IInv, Server PROVE IInv'
  BY <1>2, SendAckInv, WriteBehindInv, FinalAckInv, TimerInvariant, LingerInv,
     RecvDataInv, RecvSeekInv, OtherReceiveInv DEF Server
<1>3. QED
  BY <1>1, <1>2, ClientInvariant DEF Next

----------------------------------------------------------------------------
(* Refinement: the file is written in order, each operation once *)

\* The number of operations the file shows, as KdumpSession's instance of
\* KdumpTransfer maps it.
Applied == IF \E b \in 0..1 : bfs[b].counter = "FULL" THEN block - 2 ELSE block - 1

\* With no buffer waiting, every block accepted is in the file.
LEMMA AppliedIdle == /\ TypeOK /\ Idle => Applied = block - 1
                     /\ TypeOK' /\ Idle' => Applied' = block' - 1
BY DEF TypeOK, Idle, Applied

\* With a buffer waiting, the block accepted last is not.
LEMMA AppliedPending == /\ TypeOK /\ Pending => Applied = block - 2
                        /\ TypeOK' /\ Pending' => Applied' = block' - 2
BY Zenon DEF TypeOK, Pending, Applied

\* A step that leaves the buffers' counters, the block and the file alone is a
\* stuttering step of the transfer.
LEMMA AppliedSame ==
    ASSUME UNCHANGED <<block, img, pos>>, \A b \in 0..1 : bfs'[b].counter = bfs[b].counter
    PROVE  UNCHANGED <<Applied, img, pos>>
BY DEF Applied

\* Without disk errors every step of a session is the next operation of the
\* dump, applied to the file, or leaves the file as it is.
LEMMA StepRefines ==
    ASSUME DiskMayFill = FALSE, IInv, IInv', [Next]_vars
    PROVE  [Transfer!Next]_(Transfer!vars)
<1> USE DEF buffers, file, client
<1> SUFFICES Transfer!Apply \/ UNCHANGED <<Applied, img, pos>>
  BY DEF Transfer!Next, Transfer!vars, Applied
<1>1. TypeOK /\ TypeOK' /\ Len(Ops) \in Nat /\ EofBlock = Len(Ops) + 1
  BY OpsAssumption DEF IInv, EofBlock, OpsAssumption
<1>2. CASE WriteBehind \/ FlushFile
  <2>1. PICK d \in write_behind(Disk) : DiskBecomes(d)
    BY <1>2 DEF WriteBehind, FlushFile
  <2>2. UNCHANGED <<block, current>>
    BY <1>2 DEF WriteBehind, FlushFile
  <2>3. CASE Idle
    <3>1. UNCHANGED <<bfs, img, pos>>
      BY <1>1, <2>1, <2>3, WriteBehindIdle
    <3>2. QED
      BY <2>2, <3>1, AppliedSame
  <2>4. CASE Pending
    <3>1. /\ bfs' = [bfs EXCEPT ![1 - current].counter = "FREE"]
          /\ nextone' = current
          /\ img' = Transfer!Written(img, pos, Ops[block - 1].arg)
          /\ pos' = pos + 1
      BY <1>1, <2>1, <2>4, WriteBehindPending, Zenon
    <3>2. Applied = block - 2 /\ block - 1 \in 1..Len(Ops) /\ Ops[block - 1].op = "DATA"
      BY <1>1, <2>4, AppliedPending DEF Pending
    <3>3. Idle'
      BY <1>1, <2>2, <2>4, <3>1, Zenon DEF TypeOK, Pending, Idle
    <3>4. Applied' = block - 1
      BY <1>1, <2>2, <3>3, AppliedIdle, Zenon
    <3>5. Applied + 1 = block - 1 /\ Applied < Len(Ops) /\ Applied' = Applied + 1
      BY <1>1, <3>2, <3>4 DEF TypeOK
    <3> HIDE DEF Applied
    <3>6. Transfer!Apply
      BY <3>1, <3>2, <3>5 DEF Transfer!Apply, Applied
    <3>7. QED
      BY <3>6
  <2>5. QED
    BY <2>3, <2>4 DEF IInv, BufferInv
<1>3. ASSUME NEW m \in ToServer, RecvData(m) PROVE UNCHANGED <<Applied, img, pos>>
  <2>1. pc = "recv" /\ m \in Packets /\ writeit(m)
    BY <1>3, FromClient DEF RecvData
  <2>2. Idle
    BY <2>1 DEF IInv, BufferInv
  <2>3. /\ current' = 1 - current
        /\ UNCHANGED <<nextone, img, pos>>
        /\ bfs' = [bfs EXCEPT ![current] = [counter |-> "FULL", pkt |-> m],
                              ![1 - current].counter = "ALLOC"]
    BY <1>1, <2>1, <2>2, WriteitIdle
  <2>4. ~Idle'
    BY <1>1, <2>2, <2>3, Zenon DEF TypeOK, Idle
  <2>5. Pending' /\ pc' = "send_ack" /\ block' = block + 1
    BY <1>3, <2>4 DEF IInv, BufferInv, RecvData, NextAck
  <2>6. Applied = block - 1 /\ Applied' = block' - 2
    BY <1>1, <2>2, <2>5, AppliedIdle, AppliedPending, Zenon
  <2>7. QED
    BY <1>1, <2>3, <2>5, <2>6 DEF TypeOK
<1>4. ASSUME NEW m \in ToServer, RecvSeek(m) PROVE Transfer!Apply
  <2>1. /\ pc = "recv" /\ m.op = "KDP_SEEK" /\ m.blk = block /\ bfs' = Into(m)
        /\ pos' = m.arg /\ pc' = "send_ack" /\ block' = block + 1
        /\ UNCHANGED <<current, nextone, img>>
    BY <1>4, Zenon DEF RecvSeek, NextAck
  <2>2. /\ m \in Packets /\ block \in 1..Len(Ops)
        /\ Ops[block].op = "KDP_SEEK" /\ Ops[block].arg = m.arg
    BY <2>1, FromClient, Zenon
  <2>3. Idle
    BY <2>1, Zenon DEF IInv, BufferInv
  <2>4. \A b \in 0..1 : bfs'[b].counter = bfs[b].counter
    BY <1>1, <2>1, <2>2, IntoBuffer
  <2>5. Idle'
    <3>1. current \in 0..1 /\ 1 - current \in 0..1
      BY <1>1 DEF TypeOK
    <3>2. UNCHANGED <<current, nextone>>
      BY <2>1
    <3>3. QED
      BY <2>3, <2>4, <3>1, <3>2 DEF Idle
  <2>6. Applied = block - 1 /\ Applied' = block' - 1
    BY <1>1, <2>3, <2>5, AppliedIdle
  <2>7. Applied + 1 = block /\ Applied < Len(Ops) /\ Applied' = Applied + 1
    BY <2>1, <2>2, <2>6
  <2>8. QED
    BY <2>1, <2>2, <2>7 DEF Transfer!Apply, Applied
<1>5. ASSUME NEW m \in ToServer,
             RecvOther(m) \/ RecvEof(m) \/ RecvError(m) \/ TimerAfterRecv(m)
      PROVE  UNCHANGED <<Applied, img, pos>>
  <2>1. m \in Packets /\ [m EXCEPT !.op = "NONE"] \in Packets
    BY FromClient DEF Packets
  <2>2. \E x \in Packets : bfs' = Into(x)
    BY <1>5, <2>1 DEF RecvOther, RecvEof, RecvError, TimerAfterRecv
  <2>3. \A b \in 0..1 : bfs'[b].counter = bfs[b].counter
    BY <1>1, <2>2, IntoBuffer
  <2>4. UNCHANGED <<block, img, pos>>
    BY <1>5 DEF RecvOther, RecvEof, RecvError, TimerAfterRecv
  <2>5. QED
    BY <2>3, <2>4, AppliedSame
<1>6. CASE \/ SendAck \/ FinalAck \/ Timer \/ RecvFails \/ justquit \/ Client \/ Lose
          \/ UNCHANGED vars \/ \E m \in ToServer : Linger(m)
  <2>1. UNCHANGED <<block, bfs, img, pos>>
    BY <1>6, Zenon DEF SendAck, FinalAck, Timer, RecvFails, justquit, Client, ClientSend, ClientAck,
                ClientGiveUp, Lose, Linger, vars
  <2>2. QED
    BY <2>1, AppliedSame, Zenon
<1>7. QED
  BY <1>2, <1>3, <1>4, <1>5, <1>6 DEF Next, Server

----------------------------------------------------------------------------
(* The whole dump *)

\* What a file can be, and what operation o makes of file f.
FileStates == [img : SUBSET (Nat \X Nat), pos : Nat]
After(f, o) ==
    IF o.op = "DATA"
    THEN [img |-> {p \in f.img : p[1] # f.pos} \cup {<<f.pos, o.arg>>}, pos |-> f.pos + 1]
    ELSE [img |-> f.img, pos |-> o.arg]

\* An operation makes a file of a file.
LEMMA AfterType == \A f \in FileStates, o \in Operations : After(f, o) \in FileStates
<1> SUFFICES ASSUME NEW f \in FileStates, NEW o \in Operations PROVE After(f, o) \in FileStates
  OBVIOUS
<1>1. f.img \in SUBSET (Nat \X Nat) /\ f.pos \in Nat /\ o.arg \in Nat
  BY DEF FileStates, Operations
<1>2. <<f.pos, o.arg>> \in Nat \X Nat
  BY <1>1
<1>3. {p \in f.img : p[1] # f.pos} \cup {<<f.pos, o.arg>>} \in SUBSET (Nat \X Nat)
  BY <1>1, <1>2
<1> DEFINE a == {p \in f.img : p[1] # f.pos} \cup {<<f.pos, o.arg>>}
<1> HIDE DEF a
<1>4. [img |-> a, pos |-> f.pos + 1] \in FileStates /\ [img |-> f.img, pos |-> o.arg] \in FileStates
  BY <1>1, <1>3 DEF FileStates, a
<1> QED
  BY <1>4 DEF After, a

\* The recursion that defines File has a solution, so File is one.
LEMMA FileSteps ==
    ASSUME Induction
    PROVE  /\ Transfer!File \in [0..Len(Ops) -> FileStates]
           /\ Transfer!File[0] = [img |-> {}, pos |-> 0]
           /\ \A n \in 1..Len(Ops) : Transfer!File[n] = After(Transfer!File[n - 1], Ops[n])
<1> DEFINE k == Len(Ops)
           empty == [img |-> {}, pos |-> 0]
           step == [n \in 1..k |-> [f \in FileStates |-> After(f, Ops[n])]]
           Def(g) == [n \in 0..k |-> IF n = 0 THEN empty ELSE After(g[n - 1], Ops[n])]
<1>1. k \in Nat /\ \A n \in 1..k : Ops[n] \in Operations
  BY OpsAssumption DEF OpsAssumption
<1>2. empty \in FileStates
  BY DEF FileStates
<1>3. step \in [1..k -> [FileStates -> FileStates]]
  BY <1>1, AfterType
<1>4. PICK f \in [0..k -> FileStates] : f[0] = empty /\ \A n \in 1..k : f[n] = step[n][f[n - 1]]
  <2>1. k \in Nat
    BY <1>1
  <2> HIDE DEF k, empty, step
  <2> QED
    BY <2>1, <1>2, <1>3, RecursionExists
<1>5. \A n \in 1..k : f[n] = After(f[n - 1], Ops[n])
  <2> SUFFICES ASSUME NEW n \in 1..k PROVE f[n] = After(f[n - 1], Ops[n])
    OBVIOUS
  <2>1. n - 1 \in 0..k /\ f[n - 1] \in FileStates
    BY <1>1
  <2> QED
    BY <1>4, <2>1, Zenon
<1>6. f = Def(f)
  <2>1. \A n \in 0..k : f[n] = Def(f)[n]
    <3> SUFFICES ASSUME NEW n \in 0..k PROVE f[n] = Def(f)[n]
      OBVIOUS
    <3>1. n = 0 \/ n \in 1..k
      BY <1>1
    <3>2. CASE n = 0
      BY <3>2, <1>4, Zenon
    <3>3. CASE n \in 1..k
      BY <3>3, <1>1, <1>5
    <3> QED
      BY <3>1, <3>2, <3>3, Zenon
  <2> HIDE DEF empty
  <2> QED
    BY <2>1, Zenon
<1>7. Transfer!File = CHOOSE g : g = Def(g)
  BY DEF Transfer!File, After
<1>8. Transfer!File = Def(Transfer!File)
  <2> HIDE DEF Def
  <2> QED
    BY <1>6, <1>7
<1>9. \A n \in 0..k : Transfer!File[n] = IF n = 0 THEN empty ELSE After(Transfer!File[n - 1], Ops[n])
  BY <1>8, Zenon
<1>10. DOMAIN Transfer!File = 0..k /\ Transfer!File = [n \in 0..k |-> Transfer!File[n]]
  BY <1>8
<1>11. Transfer!File[0] = empty /\ \A n \in 1..k : Transfer!File[n] = After(Transfer!File[n - 1], Ops[n])
  BY <1>1, <1>9
<1>12. \A n \in 0..k : Transfer!File[n] \in FileStates
  <2> DEFINE S == {n \in Nat : n <= k => Transfer!File[n] \in FileStates}
  <2>1. 0 \in S
    BY <1>2, <1>11
  <2>2. ASSUME NEW n \in Nat, n \in S PROVE n + 1 \in S
    <3> SUFFICES ASSUME n + 1 <= k PROVE Transfer!File[n + 1] \in FileStates
      OBVIOUS
    <3>1. n + 1 \in 1..k /\ Transfer!File[n] \in FileStates /\ Ops[n + 1] \in Operations
      BY <1>1, <2>2
    <3>2. Transfer!File[n + 1] = After(Transfer!File[n], Ops[n + 1])
      BY <1>11, <3>1
    <3> QED
      BY <3>1, <3>2, AfterType
  <2> HIDE DEF S
  <2>3. Nat \subseteq S
    BY <2>1, <2>2 DEF Induction
  <2> QED
    BY <1>1, <2>3 DEF S
<1> QED
  BY <1>10, <1>11, <1>12, Zenon

\* The same, counted forwards.
LEMMA FileNext ==
    ASSUME Induction
    PROVE  \A n \in 0..Len(Ops) :
              n < Len(Ops) => Transfer!File[n + 1] = After(Transfer!File[n], Ops[n + 1])
<1> SUFFICES ASSUME NEW n \in 0..Len(Ops), n < Len(Ops)
             PROVE  Transfer!File[n + 1] = After(Transfer!File[n], Ops[n + 1])
  OBVIOUS
<1>1. PICK i \in 1..Len(Ops) : i = n + 1 /\ i - 1 = n
  BY OpsAssumption DEF OpsAssumption
<1>2. Transfer!File[i] = After(Transfer!File[i - 1], Ops[i])
  BY FileSteps
<1> QED
  BY <1>1, <1>2

\* The file is what the operations applied so far make of it.
FileInv == /\ Applied \in 0..Len(Ops)
           /\ img = Transfer!File[Applied].img
           /\ pos = Transfer!File[Applied].pos

\* The operations of a dump can be counted.
LEMMA OpsLength == Len(Ops) \in Nat
BY OpsAssumption DEF OpsAssumption

\* The next operation leaves it so.
LEMMA ApplyFile == ASSUME Induction, FileInv, Transfer!Apply PROVE FileInv'
<1> DEFINE n == Applied
           o == Ops[n + 1]
           f == Transfer!File[n]
           Effect == \/ o.op = "DATA" /\ img' = Transfer!Written(img, pos, o.arg) /\ pos' = pos + 1
                     \/ o.op = "KDP_SEEK" /\ pos' = o.arg /\ img' = img
<1>a. n < Len(Ops) /\ Applied' = n + 1 /\ Effect
  BY Zenon DEF Transfer!Apply, Applied
<1>b. n \in 0..Len(Ops)
  BY DEF FileInv
<1>c. Len(Ops) \in Nat
  BY OpsLength, Zenon
<1>1. n \in 0..Len(Ops) /\ n < Len(Ops) /\ Applied' = n + 1 /\ Len(Ops) \in Nat /\ Effect
  BY <1>a, <1>b, <1>c
<1>2. img = f.img /\ pos = f.pos
  BY Zenon DEF FileInv
<1>3. Transfer!File[n + 1] = After(f, o)
  BY <1>1, FileNext, Zenon
<1>4. img' = After(f, o).img /\ pos' = After(f, o).pos
  BY <1>1, <1>2, Zenon DEF After, Transfer!Written
<1> QED
  BY <1>1, <1>3, <1>4 DEF FileInv

----------------------------------------------------------------------------
(* The instances: main(), the clients and the children up to a session *)

\* The assumption of KdumpSpawn.
SpawnBounds == MaxFaults \in Nat /\ MaxQueue \in Nat \ {0}

NoChild == {None}
ChildType == [pc : {"setup", "kdump", "stat", "open", "recvfile"}, req : Requests,
              old : SUBSET Files]

\* Files are never deleted by kdumpd, so those of the time of the fork() are
\* still there when the child looks.
OldIsThere == \A w \in Workers : kids[w] # None => kids[w].old \subseteq exists

SpawnInv == SpawnBounds /\ SpawnTypeOK /\ NoIdleInstance /\ OldFilesKept /\ OldIsThere

\* A child that has ended leaves the others as they were.
LEMMA ExitKeeps ==
    ASSUME NEW w \in Workers, SpawnTypeOK, OldFilesKept, OldIsThere,
           Exit(w), exists' = exists
    PROVE  /\ kids' \in [Workers -> NoChild \cup ChildType]
           /\ OldFilesKept' /\ OldIsThere'
<1>1. kids \in [Workers -> NoChild \cup ChildType]
  BY Zenon DEF SpawnTypeOK, NoChild, ChildType
<1>2. kids' \in [Workers -> NoChild \cup ChildType]
  BY <1>1 DEF Exit, NoChild
<1>3. \A v \in Workers : kids'[v] = None \/ kids'[v] = kids[v]
  BY <1>1 DEF Exit
<1> QED BY <1>2, <1>3 DEF OldFilesKept, OldIsThere

\* A refusal is a code of kdump.h or nothing.
LEMMA NakType ==
    ASSUME NEW w \in Workers, NEW error, SpawnTypeOK, nak(w, error)
    PROVE  replies' \in [Requests -> Codes \cup {Silent, Acked}]
<1>1. replies \in [Requests -> Codes \cup {Silent, Acked}]
  BY Zenon DEF SpawnTypeOK
<1>2. EUNDEF \in Codes
  BY DEF EUNDEF, Codes
<1> QED BY <1>1, <1>2, Zenon DEF nak

\* A failure is counted within its bound.
LEMMA FaultType ==
    ASSUME SpawnBounds, faults \in 0..MaxFaults, Fault
    PROVE  faults' \in 0..MaxFaults
BY DEF SpawnBounds, Fault

\* At the start nobody runs.
LEMMA SpawnInitially == ASSUME SpawnBounds, SpawnInit PROVE SpawnInv
<1>1. SpawnTypeOK
  <2>1. sock \in Seq(Requests) /\ Len(sock) <= MaxQueue
    BY DEF SpawnInit, SpawnBounds
  <2>2. replies \in [Requests -> Codes \cup {Silent, Acked}]
    BY DEF SpawnInit
  <2>3. faults \in 0..MaxFaults
    BY DEF SpawnInit, SpawnBounds
  <2> QED BY <2>1, <2>2, <2>3 DEF SpawnInit, SpawnTypeOK
<1>2. NoIdleInstance
  BY DEF SpawnInit, NoIdleInstance, None
<1> QED BY <1>1, <1>2, Zenon DEF SpawnInit, SpawnInv, OldFilesKept, OldIsThere

\* The queue of the socket.
LEMMA QueueType ==
    ASSUME SpawnBounds, SpawnTypeOK
    PROVE  /\ sock \in Seq(Requests) /\ Len(sock) \in Nat /\ Len(sock) <= MaxQueue
           /\ MaxQueue \in Nat
<1>1. sock \in Seq(Requests) /\ Len(sock) <= MaxQueue /\ MaxQueue \in Nat
  BY Zenon DEF SpawnBounds, SpawnTypeOK
<1> QED BY <1>1

\* What the clients and launchd do: launchd starts an instance only when a
\* request waits, and new requests are put behind it.
LEMMA OutsideInv ==
    ASSUME SpawnInv, Launchd \/ \E r \in Requests : ClientAsks(r)
    PROVE  SpawnInv'
<1> USE DEF SpawnInv
<1>1. CASE Launchd
  <2>1. SpawnTypeOK'
    BY <1>1, Zenon DEF Launchd, SpawnTypeOK, Counters
  <2> QED BY <1>1, <2>1, Zenon DEF Launchd, NoIdleInstance, OldFilesKept, OldIsThere
<1>2. ASSUME NEW r \in Requests, ClientAsks(r) PROVE SpawnInv'
  <2>a. sock' = Append(sock, r) /\ Len(sock) < MaxQueue /\ parent' = parent
    BY <1>2, Zenon DEF ClientAsks
  <2>1. sock' \in Seq(Requests) /\ Len(sock') = Len(sock) + 1 /\ Len(sock) \in Nat
    BY <2>a, QueueType
  <2>2. Len(sock') <= MaxQueue
    BY <2>a, <2>1, QueueType
  <2>3. SpawnTypeOK'
    BY <1>2, <2>1, <2>2, Zenon DEF ClientAsks, SpawnTypeOK
  <2>4. NoIdleInstance'
    <3>1. sock' # <<>>
      BY <2>1
    <3> QED BY <2>a, <3>1, Zenon DEF NoIdleInstance
  <2> QED BY <1>2, <2>3, <2>4, Zenon DEF ClientAsks, OldFilesKept, OldIsThere
<1> QED BY <1>1, <1>2

\* Taking the first request off the queue.
LEMMA TailType ==
    ASSUME SpawnBounds, SpawnTypeOK, sock # <<>>
    PROVE  /\ Head(sock) \in Requests /\ Tail(sock) \in Seq(Requests)
           /\ Len(Tail(sock)) <= MaxQueue
<1>1. Len(sock) \in Nat /\ Len(Tail(sock)) = Len(sock) - 1 /\ Head(sock) \in Requests
      /\ Tail(sock) \in Seq(Requests)
  BY QueueType
<1> QED BY <1>1, QueueType

\* main(): the parent is the only one that takes requests off the queue, and is
\* not at its recvfrom() afterwards.
LEMMA ParentInv ==
    ASSUME SpawnInv, Parent \/ ForkFails
    PROVE  SpawnInv'
<1> USE DEF SpawnInv
<1>1. CASE RecvFrom
  <2>1. sock # <<>>
    BY <1>1 DEF RecvFrom, NoIdleInstance
  <2>2. parent' \in [pc : {"fork", "flush"}, i : Counters, req : Requests]
    BY <1>1, <2>1, TailType DEF RecvFrom, Counters
  <2>3. sock' \in Seq(Requests) /\ Len(sock') <= MaxQueue
    BY <1>1, <2>1, TailType DEF RecvFrom
  <2> QED BY <1>1, <2>2, <2>3, Zenon DEF RecvFrom, SpawnTypeOK, NoIdleInstance,
      OldFilesKept, OldIsThere
<1>2. CASE Fork
  <2>1. parent \in [pc : {"fork", "flush"}, i : Counters, req : Requests]
    <3>1. parent # None /\ parent.pc = "fork"
      BY <1>2 DEF Fork, None
    <3>2. parent \in {None} \cup [pc : {"recvfrom"}, i : Counters]
                           \cup [pc : {"fork", "flush"}, i : Counters, req : Requests]
      BY Zenon DEF SpawnTypeOK
    <3> QED BY <3>1, <3>2
  <2>2. PICK w \in Workers :
          kids' = [kids EXCEPT ![w] = [pc |-> "setup", req |-> parent.req, old |-> exists]]
    BY <1>2, Zenon DEF Fork
  <2>3. [pc |-> "setup", req |-> parent.req, old |-> exists] \in ChildType
    BY <2>1, Zenon DEF ChildType, SpawnTypeOK
  <2>4. kids \in [Workers -> NoChild \cup ChildType]
    BY DEF SpawnTypeOK, NoChild, ChildType
  <2>5. kids' \in [Workers -> NoChild \cup ChildType]
    BY <2>2, <2>3, <2>4
  <2>6. SpawnTypeOK'
    BY <1>2, <2>5 DEF Fork, SpawnTypeOK, NoChild, ChildType
  <2>7. \A v \in Workers : v # w => kids'[v] = kids[v]
    BY <2>2, <2>4
  <2>8. kids'[w].pc = "setup" /\ kids'[w].old = exists
    BY <2>2, <2>4
  <2>9. exists' = exists /\ parent' = None
    BY <1>2, Zenon DEF Fork
  <2>10. OldFilesKept' /\ OldIsThere'
    BY <2>7, <2>8, <2>9 DEF OldFilesKept, OldIsThere
  <2> QED BY <2>6, <2>9, <2>10, Zenon DEF NoIdleInstance, None
<1>3. CASE ForkFails
  <2>1. parent \in [pc : {"fork", "flush"}, i : Counters, req : Requests]
    BY <1>3 DEF ForkFails, SpawnTypeOK, None
  <2>2. parent' \in [pc : {"fork", "flush"}, i : Counters, req : Requests] /\ parent'.pc = "flush"
    BY <1>3, <2>1 DEF ForkFails
  <2>3. faults' \in 0..MaxFaults
    BY <1>3, FaultType DEF ForkFails, SpawnTypeOK
  <2> QED BY <1>3, <2>2, <2>3 DEF ForkFails, SpawnTypeOK, NoIdleInstance,
      OldFilesKept, OldIsThere
<1>4. CASE Flush
  <2>1. parent \in [pc : {"fork", "flush"}, i : Counters, req : Requests]
    BY <1>4 DEF Flush, SpawnTypeOK, None
  <2>2. parent' \in [pc : {"fork", "flush"}, i : Counters, req : Requests] /\ parent'.pc = "fork"
    <3>1. CASE sock = <<>>
      BY <1>4, <2>1, <3>1, Zenon DEF Flush, Counters
    <3>2. CASE sock # <<>>
      <4>1. Head(sock) \in Requests
        BY <3>2, TailType
      <4>2. parent' = [pc |-> "fork", i |-> Head(sock).size + 1, req |-> Head(sock)]
        BY <1>4, <3>2 DEF Flush
      <4> QED BY <4>1, <4>2 DEF Counters
    <3> QED BY <3>1, <3>2
  <2>3. sock' \in Seq(Requests) /\ Len(sock') <= MaxQueue
    BY <1>4, TailType, Zenon DEF Flush, SpawnTypeOK
  <2> QED BY <1>4, <2>2, <2>3 DEF Flush, SpawnTypeOK, NoIdleInstance,
      OldFilesKept, OldIsThere
<1>5. CASE ForkGivesUp
  BY <1>5 DEF ForkGivesUp, SpawnTypeOK, NoIdleInstance, OldFilesKept,
      OldIsThere, None
<1> QED BY <1>1, <1>2, <1>3, <1>4, <1>5, Zenon DEF Parent

\* A child that goes on, with its request and the files of its fork().
LEMMA MovesOn ==
    ASSUME NEW w \in Workers, SpawnInv, kids[w] # None,
           NEW at \in {"setup", "kdump", "stat", "open", "recvfile"},
           kids' = [kids EXCEPT ![w].pc = at],
           exists \subseteq exists',
           at \in {"open", "recvfile"} => kids[w].req.file \notin kids[w].old
    PROVE  /\ kids' \in [Workers -> NoChild \cup ChildType]
           /\ OldFilesKept' /\ OldIsThere'
<1> USE DEF SpawnInv
<1>1. kids \in [Workers -> NoChild \cup ChildType] /\ kids[w] \in ChildType
  BY DEF SpawnTypeOK, NoChild, ChildType
<1>2. kids'[w] = [kids[w] EXCEPT !.pc = at] /\ \A v \in Workers : v # w => kids'[v] = kids[v]
  BY <1>1
<1>3. kids'[w] \in ChildType /\ kids'[w].pc = at /\ kids'[w].req = kids[w].req
      /\ kids'[w].old = kids[w].old
  BY <1>1, <1>2 DEF ChildType
<1>4. kids' \in [Workers -> NoChild \cup ChildType]
  BY <1>1, <1>3
<1>5. OldFilesKept' /\ OldIsThere'
  BY <1>2, <1>3 DEF OldFilesKept, OldIsThere
<1> QED BY <1>4, <1>5

\* The child of a request up to the session.
LEMMA ChildInv ==
    ASSUME SpawnInv, NEW w \in Workers, Child(w) \/ OpenFails(w)
    PROVE  SpawnInv'
<1> USE DEF SpawnInv
<1>1. kids[w] # None /\ kids[w] \in ChildType
  BY DEF Child, Setup, kdump, Stat, Open, OpenFails,
      Session, SpawnTypeOK, None, ChildType
<1>2. sock' = sock /\ parent' = parent
  BY Zenon DEF Child, Setup, kdump, Stat, Open, OpenFails,
      Session
<1>3. SUFFICES /\ kids' \in [Workers -> NoChild \cup ChildType] /\ OldFilesKept'
               /\ OldIsThere'
               /\ exists' \subseteq Files
               /\ replies' \in [Requests -> Codes \cup {Silent, Acked}]
               /\ faults' \in 0..MaxFaults
  BY <1>2, Zenon DEF SpawnTypeOK, NoIdleInstance, NoChild, ChildType
<1>4. faults' \in 0..MaxFaults
  BY FaultType DEF Child, Setup, kdump, Stat, Open,
      OpenFails, Session, SpawnTypeOK
<1>5. replies' \in [Requests -> Codes \cup {Silent, Acked}]
  <2>1. CASE Setup(w) \/ Open(w)
    BY <2>1 DEF Setup, Open, SpawnTypeOK
  <2>2. CASE kdump(w) \/ Stat(w) \/ OpenFails(w)
    BY <2>2, NakType, Zenon DEF kdump, Stat, OpenFails, SpawnTypeOK
  <2>3. CASE Session(w)
    BY <2>3, Zenon DEF Session, SpawnTypeOK
  <2> QED BY <2>1, <2>2, <2>3 DEF Child
<1>6. exists' \subseteq Files /\ exists \subseteq exists'
  <2>1. CASE Open(w)
    BY <1>1, <2>1 DEF Open, SpawnTypeOK, Files, ChildType
  <2>2. CASE ~Open(w)
    BY <2>2, Zenon DEF Child, Setup, kdump, Stat, OpenFails,
        Session, SpawnTypeOK
  <2> QED BY <2>1, <2>2
<1>7. kids' \in [Workers -> NoChild \cup ChildType] /\ OldFilesKept' /\ OldIsThere'
  <2>1. CASE Exit(w) /\ exists' = exists
    BY <2>1, ExitKeeps
  <2>2. CASE kids' = [kids EXCEPT ![w].pc = "kdump"]
    BY <1>1, <1>6, <2>2, MovesOn, Zenon
  <2>3. CASE kids' = [kids EXCEPT ![w].pc = "stat"]
    BY <1>1, <1>6, <2>3, MovesOn, Zenon
  <2>4. CASE kids' = [kids EXCEPT ![w].pc = "open"] /\ kids[w].req.file \notin exists
    BY <1>1, <1>6, <2>4, MovesOn, Zenon DEF OldIsThere
  <2>5. CASE kids' = [kids EXCEPT ![w].pc = "recvfile"] /\ kids[w].pc = "open"
    BY <1>1, <1>6, <2>5, MovesOn, Zenon DEF OldFilesKept
  <2> QED BY <2>1, <2>2, <2>3, <2>4, <2>5
        DEF Child, Setup, kdump, Stat, Open, OpenFails,
            Session, nak
<1> QED BY <1>4, <1>5, <1>6, <1>7

\* Every step keeps it.
LEMMA SpawnStep == SpawnInv /\ [SpawnNext]_(spawnVars) => SpawnInv'
<1> SUFFICES ASSUME SpawnInv, [SpawnNext]_(spawnVars) PROVE SpawnInv'
  BY Zenon
<1>1. CASE UNCHANGED spawnVars
  BY <1>1, Zenon DEF spawnVars, SpawnInv, SpawnTypeOK, NoIdleInstance, OldFilesKept,
      OldIsThere
<1> QED BY <1>1, OutsideInv, ParentInv, ChildInv DEF SpawnNext

----------------------------------------------------------------------------
(* The netascii conversions: what write_behind() has written is determined *)
(* by all that was sent, not by how it was cut into segments (Received),   *)
(* and read_ahead() always leaves the receiving side with a prefix of its  *)
(* file, or with the first half of a pair (Carries).                       *)

\* The assumptions of KdumpNetascii.
AsciiBounds == /\ MaxWire \in Nat /\ SegSizes \subseteq Nat \ {0}
               /\ Texts \subseteq Seq(Chars) /\ Pieces \subseteq Seq(Chars)
               /\ EOF \notin Chars

\* The contraction goes on with character n.
Adds(q, n, v) == IF Dropped(q, n) THEN v ELSE Append(v, q[n])

\* What the recursion that defines Contracted says.
IsContraction(f, q) ==
    /\ f \in [0..Len(q) -> Seq(Chars)] /\ f[0] = <<>>
    /\ \A n \in 1..Len(q) : f[n] = Adds(q, n, f[n - 1])

\* The contraction of a text is built up character by character.
LEMMA ContractedSteps ==
    ASSUME Induction, NEW q \in Seq(Chars)
    PROVE  \E f : IsContraction(f, q) /\ Contracted(q) = f[Len(q)]
<1> DEFINE k == Len(q)
           V == Seq(Chars)
           e == <<>>
           step == [n \in 1..k |-> [v \in V |-> Adds(q, n, v)]]
           Def(g) == [n \in 0..k |-> IF n = 0 THEN e ELSE Adds(q, n, g[n - 1])]
           c == CHOOSE g : g = Def(g)
<1>1. k \in Nat /\ e \in V /\ \A n \in 1..k : q[n] \in Chars
  OBVIOUS
<1>2. \A n \in 1..k, v \in V : Adds(q, n, v) \in V
  BY <1>1 DEF Adds
<1>3. Contracted(q) = c[k]
  BY DEF Contracted, Adds
<1> HIDE DEF k, V, e
<1>4. step \in [1..k -> [V -> V]]
  BY <1>2
<1>5. PICK f \in [0..k -> V] : f[0] = e /\ \A n \in 1..k : f[n] = step[n][f[n - 1]]
  <2> HIDE DEF step
  <2>1. k \in Nat /\ e \in V
    BY <1>1
  <2> QED
    BY <2>1, <1>4, RecursionExists
<1>6. \A n \in 1..k : f[n] = Adds(q, n, f[n - 1])
  <2> SUFFICES ASSUME NEW n \in 1..k PROVE f[n] = Adds(q, n, f[n - 1])
    OBVIOUS
  <2>1. n - 1 \in 0..k /\ f[n - 1] \in V
    BY <1>1
  <2> QED
    BY <1>5, <2>1, Zenon
<1>7. f = Def(f)
  BY <1>1, <1>5, <1>6
<1> HIDE DEF step
<1>8. c = Def(c)
  <2> HIDE DEF Def
  <2> QED
    BY <1>7
<1> HIDE DEF c
<1>9. c[0] = e /\ \A n \in 1..k : c[n] = Adds(q, n, c[n - 1])
  BY <1>1, <1>8
<1>10. c = [n \in 0..k |-> c[n]]
  BY <1>8
<1> HIDE DEF Def
<1>11. \A n \in 0..k : c[n] \in V
  <2> DEFINE S == {n \in Nat : n <= k => c[n] \in V}
  <2>1. 0 \in S
    BY <1>1, <1>9
  <2>2. ASSUME NEW n \in Nat, n \in S PROVE n + 1 \in S
    <3> SUFFICES ASSUME n + 1 <= k PROVE c[n + 1] \in V
      OBVIOUS
    <3>1. n + 1 \in 1..k /\ c[n] \in V /\ (n + 1) - 1 = n
      BY <1>1, <2>2
    <3> QED
      BY <1>2, <1>9, <3>1
  <2> HIDE DEF S
  <2>3. Nat \subseteq S
    BY <2>1, <2>2 DEF Induction
  <2> QED
    BY <1>1, <2>3 DEF S
<1>12. c \in [0..k -> V]
  BY <1>10, <1>11
<1> QED
  BY <1>3, <1>9, <1>12 DEF IsContraction, k, V, e

\* The receiver when it has written the text q.
Received(q) == [prevchar |-> IF q = <<>> THEN EOF ELSE q[Len(q)], out |-> Contracted(q)]

\* Whether a character is dropped depends on its neighbours only.
LEMMA ContractedAppend ==
    ASSUME Induction, NEW q \in Seq(Chars), NEW c \in Chars
    PROVE  /\ Contracted(q) \in Seq(Chars)
           /\ Contracted(Append(q, c)) \in Seq(Chars)
           /\ q = <<>> => Contracted(q) = <<>>
           /\ IF q # <<>> /\ q[Len(q)] = CR /\ c = LF
              THEN \E v \in Seq(Chars) : /\ Contracted(q) = Append(v, CR)
                                         /\ Contracted(Append(q, c)) = Append(v, LF)
              ELSE Contracted(Append(q, c)) = IF q # <<>> /\ q[Len(q)] = CR /\ c = NUL
                                              THEN Contracted(q) ELSE Append(Contracted(q), c)
<1> DEFINE r == Append(q, c)
           k == Len(q)
<1>1. /\ k \in Nat /\ r \in Seq(Chars) /\ Len(r) = k + 1 /\ r[k + 1] = c
      /\ \A i \in 1..k : r[i] = q[i] /\ q[i] \in Chars
      /\ q = <<>> <=> k = 0
  OBVIOUS
<1>2. PICK f : IsContraction(f, q) /\ Contracted(q) = f[k]
  BY ContractedSteps
<1>3. PICK g : IsContraction(g, r) /\ Contracted(r) = g[k + 1]
  BY <1>1, ContractedSteps, Zenon
<1> HIDE DEF r, k
<1>4. \A n \in 1..k : n < k => (Dropped(r, n) <=> Dropped(q, n))
  BY <1>1 DEF Dropped, k
<1>5. /\ f \in [0..k -> Seq(Chars)] /\ f[0] = <<>>
      /\ \A n \in 1..k : f[n] = Adds(q, n, f[n - 1])
  BY <1>2 DEF IsContraction, k
<1>6. /\ g \in [0..k + 1 -> Seq(Chars)] /\ g[0] = <<>>
      /\ \A n \in 1..k + 1 : g[n] = Adds(r, n, g[n - 1])
  BY <1>1, <1>3 DEF IsContraction
<1>7. \A n \in 0..k : n < k => g[n] = f[n]
  <2> DEFINE S == {n \in Nat : n < k => g[n] = f[n]}
  <2>1. 0 \in S
    BY <1>5, <1>6, Zenon
  <2>2. ASSUME NEW n \in Nat, n \in S PROVE n + 1 \in S
    <3> SUFFICES ASSUME n + 1 < k PROVE g[n + 1] = f[n + 1]
      OBVIOUS
    <3>1. n + 1 \in 1..k /\ n + 1 \in 1..k + 1 /\ n < k /\ (n + 1) - 1 = n
      BY <1>1
    <3>2. g[n + 1] = Adds(r, n + 1, g[n]) /\ f[n + 1] = Adds(q, n + 1, f[n]) /\ g[n] = f[n]
      BY <1>5, <1>6, <2>2, <3>1
    <3>3. r[n + 1] = q[n + 1] /\ (Dropped(r, n + 1) <=> Dropped(q, n + 1))
      BY <1>1, <1>4, <3>1
    <3> QED
      BY <3>2, <3>3 DEF Adds
  <2> HIDE DEF S
  <2>3. Nat \subseteq S
    BY <2>1, <2>2, Zenon DEF Induction
  <2> QED
    BY <1>1, <2>3 DEF S
<1> DEFINE Goal == IF k # 0 /\ q[k] = CR /\ c = LF
                   THEN \E v \in Seq(Chars) : Contracted(q) = Append(v, CR) /\ Contracted(r) = Append(v, LF)
                   ELSE Contracted(r) = IF k # 0 /\ q[k] = CR /\ c = NUL
                                        THEN Contracted(q) ELSE Append(Contracted(q), c)
<1>8. ASSUME k = 0 PROVE Goal /\ Contracted(q) = <<>>
  <2>1. ~Dropped(r, 1)
    BY <1>1, <1>8 DEF Dropped
  <2>2. g[1] = Append(<<>>, c) /\ f[k] = <<>>
    BY <1>1, <1>5, <1>6, <1>8, <2>1 DEF Adds
  <2> QED
    BY <1>1, <1>2, <1>3, <1>8, <2>2
<1>9. ASSUME k > 0 PROVE Goal
  <2>1. k \in 1..k /\ k \in 1..k + 1 /\ k + 1 \in 1..k + 1 /\ (k + 1) - 1 = k /\ k - 1 \in 0..k
    BY <1>1, <1>9
  <2>2. PICK v \in Seq(Chars) : v = f[k - 1] /\ v = g[k - 1]
    BY <1>5, <1>7, <1>9, <2>1
  <2>3. f[k] = Adds(q, k, v) /\ g[k] = Adds(r, k, v) /\ g[k + 1] = Adds(r, k + 1, g[k])
    BY <1>5, <1>6, <2>1, <2>2, Zenon
  <2>4. Dropped(r, k + 1) <=> q[k] = CR /\ c = NUL
    BY <1>1, <1>9, <2>1 DEF Dropped
  <2>5. Dropped(r, k) <=> Dropped(q, k) \/ (q[k] = CR /\ c = LF)
    BY <1>1, <1>9, <2>1 DEF Dropped, k
  <2>6. r[k] = q[k] /\ r[k + 1] = c /\ q # <<>>
    BY <1>1, <1>9, <2>1
  <2>7. CASE q[k] = CR /\ c = LF
    <3>1. ~Dropped(q, k)
      BY <2>7 DEF Dropped, k, CR, NUL
    <3>2. f[k] = Append(v, CR) /\ g[k] = v /\ g[k + 1] = Append(v, LF)
      BY <2>3, <2>4, <2>5, <2>6, <2>7, <3>1 DEF Adds, LF, NUL
    <3>3. Contracted(q) = Append(v, CR) /\ Contracted(r) = Append(v, LF)
      BY <1>2, <1>3, <3>2
    <3>4. k # 0
      BY <1>9
    <3> QED
      BY <2>7, <3>3, <3>4
  <2>8. CASE ~(q[k] = CR /\ c = LF)
    <3>1. g[k] = f[k]
      BY <2>3, <2>5, <2>6, <2>8, Zenon DEF Adds
    <3>2. g[k + 1] = IF q[k] = CR /\ c = NUL THEN f[k] ELSE Append(f[k], c)
      BY <2>3, <2>4, <2>6, <3>1 DEF Adds
    <3> QED
      BY <1>2, <1>3, <1>9, <2>8, <3>2
  <2> QED
    BY <2>7, <2>8
<1>10. Goal /\ (k = 0 => Contracted(q) = <<>>)
  <2> HIDE DEF Goal
  <2> QED
    BY <1>1, <1>8, <1>9
<1>11. Contracted(q) \in Seq(Chars) /\ Contracted(r) \in Seq(Chars)
  BY <1>1, <1>2, <1>3, <1>5, <1>6
<1>12. q # <<>> <=> k # 0
  BY <1>1
<1> QED
  BY <1>10, <1>11, <1>12 DEF r, k

\* The last character is written over.
LEMMA OverLast ==
    ASSUME NEW v \in Seq(Chars), NEW b \in Chars, NEW c \in Chars
    PROVE  [Append(v, b) EXCEPT ![Len(Append(v, b))] = c] = Append(v, c)
<1> DEFINE n == Len(v)
           x == Append(v, b)
           y == Append(v, c)
<1>a. /\ n \in Nat /\ x \in Seq(Chars) /\ y \in Seq(Chars) /\ Len(x) = n + 1
      /\ Len(y) = n + 1
      /\ \A i \in 1..n : x[i] = v[i] /\ y[i] = v[i]
      /\ y[n + 1] = c
  OBVIOUS
<1>1. /\ n \in Nat /\ x \in [1..n + 1 -> Chars] /\ y \in [1..n + 1 -> Chars]
      /\ Len(x) = n + 1
      /\ \A i \in 1..n : x[i] = y[i]
      /\ y[n + 1] = c
  <2> HIDE DEF x, y, n
  <2> QED BY <1>a
<1> HIDE DEF n, x, y
<1>2. [x EXCEPT ![n + 1] = c] \in [1..n + 1 -> Chars]
  BY <1>1
<1>3. \A i \in 1..n + 1 : [x EXCEPT ![n + 1] = c][i] = y[i]
  BY <1>1
<1>4. [x EXCEPT ![n + 1] = c] = y
  BY <1>1, <1>2, <1>3
<1> QED
  BY <1>1, <1>4 DEF x, y

\* One turn of write_behind() makes of the contraction of a text that of the text
\* with one character more.
LEMMA PutReceived ==
    ASSUME Induction, NEW q \in Seq(Chars), NEW c \in Chars
    PROVE  Put(Received(q), c) = Received(Append(q, c))
<1> DEFINE r == Append(q, c)
           last == IF q = <<>> THEN EOF ELSE q[Len(q)]
<1>1. r # <<>> /\ r[Len(r)] = c
  OBVIOUS
<1>2. Contracted(q) \in Seq(Chars)
  BY ContractedAppend
<1>3. last = CR <=> q # <<>> /\ q[Len(q)] = CR
  BY DEF EOF, CR
<1>4. /\ Received(q) = [prevchar |-> last, out |-> Contracted(q)]
      /\ Received(r) = [prevchar |-> c, out |-> Contracted(r)]
  BY <1>1 DEF Received
<1>5. Put([prevchar |-> last, out |-> Contracted(q)], c)
        = [prevchar |-> c,
           out |-> IF last = CR /\ c = LF
                   THEN [Contracted(q) EXCEPT ![Len(Contracted(q))] = LF]
                   ELSE IF last = CR /\ c = NUL THEN Contracted(q)
                   ELSE Append(Contracted(q), c)]
  <2> HIDE DEF last
  <2> QED BY DEF Put
<1>6. CASE last = CR /\ c = LF
  <2>1. PICK v \in Seq(Chars) : /\ Contracted(q) = Append(v, CR)
                                     /\ Contracted(r) = Append(v, LF)
    BY <1>3, <1>6, ContractedAppend, Zenon
  <2>2. [Append(v, CR) EXCEPT ![Len(Append(v, CR))] = LF] = Append(v, LF)
    BY OverLast DEF Chars
  <2> HIDE DEF r, last
  <2> QED
    BY <1>4, <1>5, <1>6, <2>1, <2>2, Zenon DEF r
<1>7. CASE ~(last = CR /\ c = LF)
  <2>1. Contracted(r) = IF last = CR /\ c = NUL
                              THEN Contracted(q) ELSE Append(Contracted(q), c)
    BY <1>3, <1>7, ContractedAppend
  <2> HIDE DEF r, last
  <2> QED
    BY <1>4, <1>5, <1>7, <2>1, Zenon DEF r
<1> QED
  BY <1>6, <1>7

\* The first n characters.
Upto(q, n) == [i \in 1..n |-> q[i]]

\* The first n + 1 characters are the first n and the next, which read_ahead() takes.
LEMMA UptoNext ==
    ASSUME NEW q \in Seq(Chars), NEW n \in 0..Len(q)
    PROVE  /\ Upto(q, n) \in Seq(Chars) /\ Len(Upto(q, n)) = n
           /\ n = 0 => Upto(q, n) = <<>>
           /\ n = Len(q) => Upto(q, n) = q
           /\ n < Len(q) => q[n + 1] \in Chars /\ Append(Upto(q, n), q[n + 1]) = Upto(q, n + 1)
<1>1. Len(q) \in Nat /\ n \in Nat /\ \A i \in 1..Len(q) : q[i] \in Chars
  OBVIOUS
<1>2. Upto(q, n) \in [1..n -> Chars]
  BY <1>1 DEF Upto
<1>3. Upto(q, n) \in Seq(Chars) /\ Len(Upto(q, n)) = n
  BY <1>1, <1>2
<1>4. ASSUME n < Len(q)
      PROVE  q[n + 1] \in Chars /\ Append(Upto(q, n), q[n + 1]) = Upto(q, n + 1)
  <2> DEFINE a == Append(Upto(q, n), q[n + 1])
             b == Upto(q, n + 1)
  <2>1. q[n + 1] \in Chars
    BY <1>1, <1>4
  <2>2. a \in Seq(Chars) /\ Len(a) = n + 1 /\ a[n + 1] = q[n + 1] /\ \A i \in 1..n : a[i] = Upto(q, n)[i]
    BY <1>1, <1>3, <2>1
  <2>3. b \in [1..n + 1 -> Chars] /\ \A i \in 1..n + 1 : b[i] = q[i]
    BY <1>1, <1>4 DEF Upto
  <2> HIDE DEF a, b
  <2>4. a \in [1..n + 1 -> Chars]
    BY <1>1, <2>2
  <2>5. \A i \in 1..n + 1 : a[i] = b[i]
    BY <1>1, <2>2, <2>3 DEF Upto
  <2>6. a = b
    BY <2>3, <2>4, <2>5
  <2> QED
    BY <2>1, <2>6 DEF a, b
<1>5. n = Len(q) => Upto(q, n) = q
  BY <1>1 DEF Upto
<1>6. n = 0 => Upto(q, n) = <<>>
  BY <1>3
<1> QED
  BY <1>3, <1>4, <1>5, <1>6

\* One character more.
LEMMA UptoStep ==
    ASSUME NEW q \in Seq(Chars), NEW n \in 0..Len(q), n < Len(q)
    PROVE  /\ Upto(q, n) \in Seq(Chars) /\ Len(Upto(q, n)) = n
           /\ q[n + 1] \in Chars /\ Append(Upto(q, n), q[n + 1]) = Upto(q, n + 1)
BY UptoNext

\* A character more at the end of the second part.
LEMMA ConcatAppend ==
    ASSUME NEW d \in Seq(Chars), NEW b \in Seq(Chars), NEW c \in Chars
    PROVE  d \o b \in Seq(Chars) /\ Append(d \o b, c) = d \o Append(b, c)
<1> DEFINE x == Append(d \o b, c)
           y == d \o Append(b, c)
           m == Len(d)
           n == Len(b)
           z == d \o b
<1>1. /\ m \in Nat /\ n \in Nat /\ z \in Seq(Chars) /\ Len(z) = m + n
      /\ \A i \in 1..m : z[i] = d[i]
      /\ \A i \in m + 1..m + n : z[i] = b[i - m]
  OBVIOUS
<1>2. /\ x \in Seq(Chars) /\ Len(x) = m + n + 1 /\ x[m + n + 1] = c
      /\ \A i \in 1..m + n : x[i] = z[i]
  BY <1>1
<1>3. /\ Append(b, c) \in Seq(Chars) /\ Len(Append(b, c)) = n + 1 /\ Append(b, c)[n + 1] = c
      /\ \A i \in 1..n : Append(b, c)[i] = b[i]
  BY <1>1
<1>4. /\ y \in Seq(Chars) /\ Len(y) = m + (n + 1) /\ \A i \in 1..m : y[i] = d[i]
      /\ \A i \in m + 1..m + (n + 1) : y[i] = Append(b, c)[i - m]
  BY <1>1, <1>3
<1> HIDE DEF x, y, z, m, n
<1>5. ASSUME NEW i \in 1..m + n + 1 PROVE x[i] = y[i]
  <2>1. CASE i \in 1..m
    <3>1. i \in 1..m + n
      BY <1>1, <2>1
    <3> QED
      BY <1>1, <1>2, <1>4, <2>1, <3>1
  <2>2. CASE i \in m + 1..m + n
    <3>1. i - m \in 1..n /\ i \in 1..m + n /\ i \in m + 1..m + (n + 1)
      BY <1>1, <2>2
    <3> QED
      BY <1>1, <1>2, <1>3, <1>4, <2>2, <3>1, Zenon
  <2>3. CASE i = m + n + 1
    <3>1. i - m = n + 1 /\ i \in m + 1..m + (n + 1)
      BY <1>1, <2>3
    <3> QED
      BY <1>2, <1>3, <1>4, <2>3, <3>1, Zenon
  <2> QED
    BY <1>1, <2>1, <2>2, <2>3
<1>6. x \in [1..m + n + 1 -> Chars] /\ y \in [1..m + n + 1 -> Chars]
  BY <1>1, <1>2, <1>4
<1>7. x = y
  <2> DEFINE D == 1..m + n + 1
  <2>1. x \in [D -> Chars] /\ y \in [D -> Chars] /\ \A i \in D : x[i] = y[i]
    BY <1>5, <1>6
  <2> HIDE DEF D
  <2> QED
    BY <2>1
<1> QED
  BY <1>1, <1>7 DEF x, y, z

\* A loop of k rounds that stays in V.
Loop(V, e, k, step) ==
    \E f \in [0..k -> V] : f[0] = e /\ \A n \in 1..k : f[n] = step[n][f[n - 1]]

\* Every loop of finitely many rounds has such a history.
LEMMA LoopExists ==
    ASSUME Induction, NEW V, NEW e \in V, NEW k \in Nat, NEW step \in [1..k -> [V -> V]]
    PROVE  Loop(V, e, k, step)
BY RecursionExists DEF Loop

\* The states of the receiving side after some text.
Receivers == {Received(r) : r \in Seq(Chars)}

\* The loop of write_behind() over a segment, character by character.
LEMMA WrittenSteps ==
    ASSUME Induction, NEW q \in Seq(Chars), NEW e \in Receivers
    PROVE  \E f \in [0..Len(q) -> Receivers] :
               /\ f[0] = e
               /\ \A n \in 1..Len(q) : f[n] = Put(f[n - 1], q[n])
               /\ Written(e, q) = f[Len(q)]
<1> DEFINE k == Len(q)
           V == Receivers
           step == [n \in 1..k |-> [w \in V |-> Put(w, q[n])]]
           Def(g) == [n \in 0..k |-> IF n = 0 THEN e ELSE Put(g[n - 1], q[n])]
           c == CHOOSE g : g = Def(g)
<1>1. k \in Nat /\ e \in V /\ \A n \in 1..k : q[n] \in Chars
  OBVIOUS
<1>2. \A n \in 1..k, w \in V : Put(w, q[n]) \in V
  <2> SUFFICES ASSUME NEW n \in 1..k, NEW r \in Seq(Chars) PROVE Put(Received(r), q[n]) \in V
    BY DEF Receivers
  <2>1. q[n] \in Chars /\ Append(r, q[n]) \in Seq(Chars)
    BY <1>1
  <2> QED
    BY <2>1, PutReceived, Zenon DEF Receivers
<1>3. Written(e, q) = c[k]
  BY DEF Written
<1> HIDE DEF k, V
<1>4. step \in [1..k -> [V -> V]]
  BY <1>2, Zenon
<1>5. PICK f \in [0..k -> V] : f[0] = e /\ \A n \in 1..k : f[n] = step[n][f[n - 1]]
  <2> HIDE DEF step
  <2>1. k \in Nat /\ e \in V
    BY <1>1
  <2>2. Loop(V, e, k, step)
    BY <2>1, <1>4, LoopExists
  <2> QED
    BY <2>1, <2>2 DEF Loop
<1>6. \A n \in 1..k : f[n] = Put(f[n - 1], q[n])
  <2> SUFFICES ASSUME NEW n \in 1..k PROVE f[n] = Put(f[n - 1], q[n])
    OBVIOUS
  <2>1. n - 1 \in 0..k /\ f[n - 1] \in V
    BY <1>1
  <2> QED
    BY <1>5, <2>1, Zenon
<1>7. f = Def(f)
  BY <1>1, <1>5, <1>6
<1> HIDE DEF step
<1>8. c = Def(c)
  <2> HIDE DEF Def
  <2> QED
    BY <1>7
<1> HIDE DEF c
<1>9. c[0] = e /\ \A n \in 1..k : c[n] = Put(c[n - 1], q[n])
  BY <1>1, <1>8
<1>10. c \in [0..k -> V]
  <2> DEFINE T == {n \in Nat : n <= k => c[n] \in V}
  <2>1. 0 \in T
    BY <1>1, <1>9, Zenon
  <2>2. ASSUME NEW n \in Nat, n \in T PROVE n + 1 \in T
    <3> SUFFICES ASSUME n + 1 <= k PROVE c[n + 1] \in V
      OBVIOUS
    <3>1. n + 1 \in 1..k /\ (n + 1) - 1 = n /\ n <= k
      BY <1>1
    <3>2. c[n + 1] = Put(c[n], q[n + 1]) /\ c[n] \in V
      BY <1>9, <2>2, <3>1
    <3> QED
      BY <1>2, <3>1, <3>2
  <2>3. Nat \subseteq T
    <3> HIDE DEF T
    <3> QED
      BY <2>1, <2>2 DEF Induction
  <2>4. \A n \in 0..k : c[n] \in V
    BY <1>1, <2>3
  <2>5. c = [n \in 0..k |-> c[n]]
    BY <1>8
  <2> HIDE DEF T, Def
  <2> QED
    BY <2>4, <2>5
<1> QED
  BY <1>3, <1>9, <1>10 DEF k, V

\* A segment in the loop of write_behind(): where it is cut makes no difference.
LEMMA WrittenReceived ==
    ASSUME Induction, NEW d \in Seq(Chars), NEW q \in Seq(Chars)
    PROVE  Written(Received(d), q) = Received(d \o q)
<1> DEFINE k == Len(q)
           e == Received(d)
<1>1. k \in Nat /\ e \in Receivers /\ \A n \in 1..k : q[n] \in Chars
  BY DEF Receivers
<1> HIDE DEF e
<1>9. PICK c \in [0..Len(q) -> Receivers] :
          /\ c[0] = e
          /\ \A n \in 1..Len(q) : c[n] = Put(c[n - 1], q[n])
          /\ Written(e, q) = c[Len(q)]
  <2>1. e \in Receivers
    BY <1>1
  <2> QED
    BY <2>1, WrittenSteps
<1> DEFINE S == {n \in Nat : n <= k => c[n] = Received(d \o Upto(q, n))}
<1>10. 0 \in S
  <2>1. 0 \in 0..Len(q)
    BY <1>1 DEF k
  <2>2. Upto(q, 0) = <<>> /\ d \o <<>> = d
    BY <2>1, UptoNext
  <2> QED
    BY <1>9, <2>2, Zenon DEF e
<1>11. ASSUME NEW n \in Nat, n \in S PROVE n + 1 \in S
  <2> SUFFICES ASSUME n + 1 <= k PROVE c[n + 1] = Received(d \o Upto(q, n + 1))
    OBVIOUS
  <2>1. n + 1 \in 1..k /\ n \in 0..Len(q) /\ n < Len(q) /\ (n + 1) - 1 = n
    BY <1>1 DEF k
  <2>2. c[n + 1] = Put(Received(d \o Upto(q, n)), q[n + 1])
    <3>1. c[n] = Received(d \o Upto(q, n))
      BY <1>1, <1>11, <2>1
    <3>2. c[n + 1] = Put(c[n], q[n + 1])
      BY <1>9, <2>1, Zenon
    <3> QED
      BY <3>1, <3>2
  <2>3. /\ Upto(q, n) \in Seq(Chars) /\ q[n + 1] \in Chars
        /\ Append(Upto(q, n), q[n + 1]) = Upto(q, n + 1)
    BY <2>1, UptoNext
  <2>4. /\ d \o Upto(q, n) \in Seq(Chars)
        /\ Append(d \o Upto(q, n), q[n + 1]) = d \o Append(Upto(q, n), q[n + 1])
    BY <2>3, ConcatAppend, Zenon
  <2> DEFINE b == d \o Upto(q, n)
  <2> HIDE DEF b
  <2>5. b \in Seq(Chars) /\ Append(b, q[n + 1]) = d \o Upto(q, n + 1)
    BY <2>3, <2>4 DEF b
  <2>6. Put(Received(b), q[n + 1]) = Received(Append(b, q[n + 1]))
    BY <2>3, <2>5, PutReceived, Zenon
  <2> QED
    BY <2>2, <2>5, <2>6 DEF b
<1> HIDE DEF S
<1>12. Nat \subseteq S
  BY <1>10, <1>11 DEF Induction
<1>13. c[k] = Received(d \o q)
  <2>1. k \in S /\ k \in 0..Len(q)
    BY <1>1, <1>12 DEF k
  <2>2. Upto(q, k) = q
    BY <2>1, UptoNext DEF k
  <2> QED
    BY <1>1, <2>1, <2>2 DEF S
<1> QED
  BY <1>9, <1>13 DEF e, k

----------------------------------------------------------------------------
(* The sender *)

\* r, all that was put in a segment so far, leaves the receiving side with the
\* first t characters of the text, or with a CR for the character in expansion.
Carries(r, t, nl, ex) ==
    LET w == Received(r) IN
    /\ r \in Seq(Chars) /\ t \in 0..Len(text) /\ nl \in BOOLEAN
    /\ nl => /\ t > 0 /\ ex = text[t] /\ ex \in {CR, LF}
             /\ w.prevchar = CR /\ w.out = Append(Upto(text, t - 1), CR)
    /\ ~nl => w.prevchar # CR /\ w.out = Upto(text, t)

\* The states of the loop of read_ahead().
Senders ==
    {s \in [taken : Nat, newline : BOOLEAN, expanding : Chars \cup {EOF},
            ended : BOOLEAN, buf : Seq(Chars)] :
        /\ Carries(wire \o s.buf, s.taken, s.newline, s.expanding)
        /\ s.ended => ~s.newline /\ s.taken = Len(text)}

\* The second half of a pair ends the expansion of its character.
LEMMA PairEnds ==
    ASSUME Induction, text \in Seq(Chars), EOF \notin Chars, NEW r, NEW t,
           NEW ex, Carries(r, t, TRUE, ex)
    PROVE  Carries(Append(r, IF ex = LF THEN LF ELSE NUL), t, FALSE, ex)
<1> DEFINE b == IF ex = LF THEN LF ELSE NUL
           w == Received(r)
           u == Upto(text, t - 1)
<1>1. /\ r \in Seq(Chars) /\ t \in 0..Len(text) /\ t > 0 /\ ex = text[t]
      /\ ex \in {CR, LF}
      /\ w.prevchar = CR /\ w.out = Append(u, CR)
  BY Zenon DEF Carries
<1>2. b \in Chars /\ b # CR /\ (b = LF <=> ex = LF) /\ (b = NUL <=> ex = CR)
  BY <1>1, Zenon DEF Chars, CR, LF, NUL
<1>3. /\ t - 1 \in 0..Len(text) /\ t - 1 < Len(text) /\ (t - 1) + 1 = t
      /\ Len(text) \in Nat /\ t \in Nat
  BY <1>1
<1>4. /\ u \in Seq(Chars) /\ Len(u) = t - 1 /\ ex \in Chars
      /\ Append(u, ex) = Upto(text, t)
  <2>1. PICK n : n = t - 1
    BY Zenon
  <2>2. /\ Upto(text, n) \in Seq(Chars) /\ Len(Upto(text, n)) = n
        /\ text[n + 1] \in Chars /\ Append(Upto(text, n), text[n + 1]) = Upto(text, n + 1)
    BY <1>3, <2>1, UptoStep, Zenon
  <2> QED
    BY <1>1, <1>3, <2>1, <2>2, Zenon
<1>5. Received(Append(r, b)) = Put(w, b)
  <2> HIDE DEF b
  <2>1. r \in Seq(Chars) /\ b \in Chars
    BY <1>1, <1>2, Zenon
  <2> QED
    BY <2>1, PutReceived
<1> HIDE DEF b, w, u
<1>6. Put(w, b).prevchar = b
  BY DEF Put
<1>7. Put(w, b).out = Append(u, ex)
  <2>1. CASE ex = LF
    <3>1. Put(w, b).out = [w.out EXCEPT ![Len(w.out)] = LF]
      BY <1>1, <1>2, <2>1, Zenon DEF Put
    <3>2. /\ Append(u, CR) \in Seq(Chars) /\ Len(Append(u, CR)) = t
          /\ CR \in Chars /\ LF \in Chars
      BY <1>3, <1>4 DEF Chars
    <3>3. [Append(u, CR) EXCEPT ![t] = LF] = Append(u, LF)
      BY <1>3, <1>4, <3>2, OverLast, Zenon
    <3> QED
      BY <1>1, <2>1, <3>1, <3>2, <3>3, Zenon
  <2>2. CASE ex = CR
    <3>1. b = NUL /\ NUL # LF
      BY <1>2, <2>2, Zenon DEF NUL, LF
    <3>2. Put(w, b).out = w.out
      BY <1>1, <3>1, Zenon DEF Put
    <3> QED
      BY <1>1, <2>2, <3>2
  <2> QED
    BY <1>1, <2>1, <2>2, Zenon
<1>8. Append(r, b) \in Seq(Chars)
  BY <1>1, <1>2
<1> QED
  BY <1>1, <1>2, <1>4, <1>5, <1>6, <1>7, <1>8, Zenon DEF Carries, b

\* A character of the file goes out as itself or as a CR with its pair to come.
LEMMA NextGoes ==
    ASSUME Induction, text \in Seq(Chars), EOF \notin Chars, NEW r, NEW t,
           NEW ex, Carries(r, t, FALSE, ex),
           t # Len(text)
    PROVE  /\ text[t + 1] \in Chars /\ t + 1 \in Nat
           /\ text[t + 1] \in {LF, CR} => Carries(Append(r, CR), t + 1, TRUE, text[t + 1])
           /\ text[t + 1] \notin {LF, CR} => Carries(Append(r, text[t + 1]), t + 1, FALSE, ex)
<1> DEFINE b == text[t + 1]
           w == Received(r)
           u == Upto(text, t)
<1>1. /\ r \in Seq(Chars) /\ t \in 0..Len(text) /\ w.prevchar # CR /\ w.out = u
  BY Zenon DEF Carries
<1>2. /\ t \in Nat /\ t < Len(text) /\ t + 1 \in 0..Len(text) /\ t + 1 > 0 /\ (t + 1) - 1 = t
      /\ Len(text) \in Nat
  BY <1>1
<1>3. b \in Chars /\ CR \in Chars /\ Append(u, b) = Upto(text, t + 1)
  <2>1. text[t + 1] \in Chars /\ Append(Upto(text, t), text[t + 1]) = Upto(text, t + 1)
    BY <1>1, <1>2, UptoStep, Zenon
  <2>2. CR \in Chars
    BY Zenon DEF Chars
  <2> QED
    BY <2>1, <2>2, Zenon
<1>4. \A a \in Chars : /\ Append(r, a) \in Seq(Chars)
                       /\ Received(Append(r, a)) = Put(w, a)
  <2> SUFFICES ASSUME NEW a \in Chars
               PROVE  Append(r, a) \in Seq(Chars) /\ Received(Append(r, a)) = Put(w, a)
    OBVIOUS
  <2>1. r \in Seq(Chars)
    BY <1>1
  <2>2. Received(Append(r, a)) = Put(w, a)
    BY <2>1, PutReceived, Zenon
  <2> QED
    BY <2>1, <2>2
<1>5. \A a : Put(w, a).prevchar = a /\ Put(w, a).out = Append(u, a)
  <2> HIDE DEF w, u
  <2> QED
    BY <1>1, Zenon DEF Put
<1> HIDE DEF w, u
<1>6. ASSUME b \in {LF, CR} PROVE Carries(Append(r, CR), t + 1, TRUE, b)
  BY <1>2, <1>3, <1>4, <1>5, <1>6, Zenon DEF Carries, u
<1>7. ASSUME b \notin {LF, CR} PROVE Carries(Append(r, b), t + 1, FALSE, ex)
  <2>1. b # CR
    BY <1>7, Zenon
  <2> HIDE DEF b
  <2> QED
    BY <1>2, <1>3, <1>4, <1>5, <2>1, Zenon DEF Carries, b
<1>8. b \in Chars /\ t + 1 \in Nat
  BY <1>2, <1>3
<1> QED
  BY <1>6, <1>7, <1>8, Zenon

\* One turn of the loop of read_ahead().
LEMMA FilledCarries ==
    ASSUME Induction, text \in Seq(Chars), wire \in Seq(Chars), EOF \notin Chars, NEW s \in Senders, ~s.ended
    PROVE  Filled(s) \in Senders
<1> DEFINE r == wire \o s.buf
           t == s.taken
           b == text[t + 1]
<1>1. /\ s.taken \in Nat /\ s.newline \in BOOLEAN /\ s.expanding \in Chars \cup {EOF}
      /\ s.buf \in Seq(Chars) /\ Carries(r, t, s.newline, s.expanding)
      /\ s \in [taken : Nat, newline : BOOLEAN, expanding : Chars \cup {EOF},
                 ended : BOOLEAN, buf : Seq(Chars)]
  BY Zenon DEF Senders
<1>2. CR \in Chars /\ LF \in Chars /\ NUL \in Chars
  BY Zenon DEF Chars
<1>3. \A a \in Chars : Append(s.buf, a) \in Seq(Chars) /\ wire \o Append(s.buf, a) = Append(r, a)
  BY <1>1, ConcatAppend
<1> HIDE DEF r
<1>4. CASE s.newline
  <2> DEFINE a == IF s.expanding = LF THEN LF ELSE NUL
             f == [s EXCEPT !.newline = FALSE, !.buf = Append(@, a)]
  <2>1. a \in Chars /\ Filled(s) = f
    BY <1>2, <1>4 DEF Filled
  <2>2. Carries(Append(r, a), t, FALSE, s.expanding)
    BY <1>1, <1>4, PairEnds, Zenon
  <2> HIDE DEF a
  <2>3. /\ f \in [taken : Nat, newline : BOOLEAN, expanding : Chars \cup {EOF},
                   ended : BOOLEAN, buf : Seq(Chars)]
        /\ f.taken = t /\ f.newline = FALSE /\ f.expanding = s.expanding /\ f.ended = s.ended
        /\ f.buf = Append(s.buf, a)
    BY <1>1, <1>3, <2>1, Zenon
  <2> HIDE DEF f, t
  <2>4. wire \o f.buf = Append(r, a)
    BY <1>3, <2>1, <2>3, Zenon
  <2> QED
    BY <2>1, <2>2, <2>3, <2>4, Zenon DEF Senders
<1>5. CASE ~s.newline /\ t = Len(text)
  <2> DEFINE f == [s EXCEPT !.ended = TRUE]
  <2>1. Filled(s) = f
    BY <1>5 DEF Filled
  <2>2. /\ f \in [taken : Nat, newline : BOOLEAN, expanding : Chars \cup {EOF},
                   ended : BOOLEAN, buf : Seq(Chars)]
        /\ f.taken = t /\ f.newline = s.newline /\ f.expanding = s.expanding /\ f.buf = s.buf
    BY <1>1, Zenon
  <2> HIDE DEF f
  <2> QED
    BY <1>1, <1>5, <2>1, <2>2, Zenon DEF Senders, r
<1>6. CASE ~s.newline /\ t # Len(text) /\ b \in {LF, CR}
  <2> DEFINE f == [s EXCEPT !.taken = @ + 1, !.newline = TRUE, !.expanding = b, !.buf = Append(@, CR)]
  <2>1. Filled(s) = f
    BY <1>6 DEF Filled
  <2>2. b \in Chars /\ t + 1 \in Nat /\ Carries(Append(r, CR), t + 1, TRUE, b)
    <3>1. Carries(r, t, FALSE, s.expanding)
      BY <1>1, <1>6, Zenon
    <3> HIDE DEF t
    <3> QED
      BY <1>6, <3>1, NextGoes, Zenon
  <2> HIDE DEF b
  <2>3. /\ f \in [taken : Nat, newline : BOOLEAN, expanding : Chars \cup {EOF},
                   ended : BOOLEAN, buf : Seq(Chars)]
        /\ f.taken = t + 1 /\ f.newline = TRUE /\ f.expanding = b /\ f.ended = s.ended
        /\ f.buf = Append(s.buf, CR)
    BY <1>1, <1>2, <1>3, <2>2, Zenon
  <2> HIDE DEF f, t
  <2>4. wire \o f.buf = Append(r, CR)
    BY <1>2, <1>3, <2>3, Zenon
  <2> QED
    BY <2>1, <2>2, <2>3, <2>4, Zenon DEF Senders
<1>7. CASE ~s.newline /\ t # Len(text) /\ b \notin {LF, CR}
  <2> DEFINE f == [s EXCEPT !.taken = @ + 1, !.buf = Append(@, b)]
  <2>1. Filled(s) = f
    BY <1>7 DEF Filled
  <2>2. b \in Chars /\ t + 1 \in Nat /\ Carries(Append(r, b), t + 1, FALSE, s.expanding)
    <3>1. Carries(r, t, FALSE, s.expanding)
      BY <1>1, <1>7, Zenon
    <3> HIDE DEF t
    <3> QED
      BY <1>7, <3>1, NextGoes, Zenon
  <2> HIDE DEF b
  <2>3. /\ f \in [taken : Nat, newline : BOOLEAN, expanding : Chars \cup {EOF},
                   ended : BOOLEAN, buf : Seq(Chars)]
        /\ f.taken = t + 1 /\ f.newline = s.newline /\ f.expanding = s.expanding
        /\ f.ended = s.ended /\ f.buf = Append(s.buf, b)
    BY <1>1, <1>2, <1>3, <2>2, Zenon
  <2> HIDE DEF f, t
  <2>4. wire \o f.buf = Append(r, b)
    BY <1>3, <2>2, <2>3, Zenon
  <2> QED
    BY <1>7, <2>1, <2>2, <2>3, <2>4, Zenon DEF Senders
<1> QED
  BY <1>1, <1>4, <1>5, <1>6, <1>7, Zenon

\* The loop of read_ahead(), which fills a segment or meets the end of the file.
LEMMA TurnsCarry ==
    ASSUME Induction, text \in Seq(Chars), wire \in Seq(Chars), EOF \notin Chars,
           NEW e \in Senders, NEW k \in Nat
    PROVE  Turns(e, k) \in Senders
<1> DEFINE V == Senders
           Turned(v) == IF v.ended THEN v ELSE Filled(v)
           step == [n \in 1..k |-> [v \in V |-> Turned(v)]]
           Def(g) == [n \in 0..k |-> IF n = 0 THEN e
                                     ELSE IF g[n - 1].ended THEN g[n - 1] ELSE Filled(g[n - 1])]
           c == CHOOSE g : g = Def(g)
<1>1. e \in V
  OBVIOUS
<1>2. \A v \in V : Turned(v) \in V
  BY FilledCarries, Zenon
<1>3. Turns(e, k) = c[k]
  BY Zenon DEF Turns
<1>a. ASSUME NEW g PROVE Def(g) = [n \in 0..k |-> IF n = 0 THEN e ELSE Turned(g[n - 1])]
  OBVIOUS
<1> HIDE DEF V, Turned, Def
<1>4. step \in [1..k -> [V -> V]]
  BY <1>2, Zenon
<1>5. PICK f \in [0..k -> V] : f[0] = e /\ \A n \in 1..k : f[n] = step[n][f[n - 1]]
  <2> HIDE DEF step
  <2>1. Loop(V, e, k, step)
    BY <1>1, <1>4, LoopExists
  <2> QED
    BY <2>1 DEF Loop
<1>6. \A n \in 1..k : f[n] = Turned(f[n - 1])
  <2> SUFFICES ASSUME NEW n \in 1..k PROVE f[n] = Turned(f[n - 1])
    OBVIOUS
  <2>1. n - 1 \in 0..k /\ f[n - 1] \in V
    OBVIOUS
  <2> QED
    BY <1>5, <2>1, Zenon
<1>7. f = Def(f)
  <2>1. Def(f) = [n \in 0..k |-> IF n = 0 THEN e ELSE Turned(f[n - 1])]
    BY <1>a, Zenon
  <2> QED
    BY <1>5, <1>6, <2>1
<1> HIDE DEF step
<1>8. c = Def(c)
  BY <1>7
<1> HIDE DEF c
<1>9. c[0] = e /\ \A n \in 1..k : c[n] = Turned(c[n - 1])
  <2>1. c = [n \in 0..k |-> IF n = 0 THEN e ELSE Turned(c[n - 1])]
    BY <1>8, <1>a
  <2> QED
    BY <2>1
<1> DEFINE T == {n \in Nat : n <= k => c[n] \in V}
<1>10. 0 \in T
  BY <1>1, <1>9, Zenon
<1>11. ASSUME NEW n \in Nat, n \in T PROVE n + 1 \in T
  <2> SUFFICES ASSUME n + 1 <= k PROVE c[n + 1] \in V
    OBVIOUS
  <2>1. n + 1 \in 1..k /\ (n + 1) - 1 = n /\ n <= k
    OBVIOUS
  <2>2. c[n + 1] = Turned(c[n]) /\ c[n] \in V
    BY <1>9, <1>11, <2>1
  <2> QED
    BY <1>2, <2>2
<1> HIDE DEF T
<1>12. k \in T
  BY <1>10, <1>11 DEF Induction
<1> QED
  BY <1>3, <1>12 DEF T, V

----------------------------------------------------------------------------
(* The transfer *)

\* The receiving side stands where all that was sent but the segment on its way
\* puts it, and a file that ended was carried whole.
AsciiInv ==
    /\ kernel \in BOOLEAN /\ size \in Nat /\ text \in Seq(Chars) /\ taken \in Nat
    /\ newline \in BOOLEAN /\ expanding \in Chars \cup {EOF} /\ ended \in BOOLEAN
    /\ seg \in Seq(Chars) /\ wire \in Seq(Chars)
    /\ \E d \in Seq(Chars) : wire = d \o seg /\ [prevchar |-> prevchar, out |-> out] = Received(d)
    /\ ~kernel => Carries(wire, taken, newline, expanding)
    /\ ended => ~kernel /\ ~newline /\ taken = Len(text)

\* An empty segment is no segment, and a segment more is characters still.
LEMMA NoSegment == ASSUME NEW d \in Seq(Chars) PROVE d \o <<>> = d
OBVIOUS

\* What is on the wire and another segment are characters.
LEMMA OneMore ==
    ASSUME NEW d \in Seq(Chars), NEW e \in Seq(Chars)
    PROVE  d \o e \in Seq(Chars)
OBVIOUS

\* Before the first segment nothing was taken, sent or received.
LEMMA AsciiInitially ==
    ASSUME Induction, AsciiBounds, AsciiInit PROVE AsciiInv
<1>1. /\ kernel \in BOOLEAN /\ size \in Nat /\ text \in Seq(Chars) /\ taken = 0
      /\ newline = FALSE /\ expanding = EOF /\ seg = <<>> /\ ended = FALSE /\ wire = <<>>
      /\ prevchar = EOF /\ out = <<>> /\ EOF \notin Chars
  BY DEF AsciiInit, AsciiBounds
<1>2. <<>> \in Seq(Chars) /\ <<>> \o <<>> = <<>>
  BY NoSegment
<1>3. Contracted(<<>>) = <<>>
  BY <1>2, ContractedSteps, Zenon DEF IsContraction
<1>4. Received(<<>>) = [prevchar |-> EOF, out |-> <<>>]
  BY <1>3 DEF Received
<1>5. CR # EOF
  BY <1>1, Zenon DEF Chars
<1>6. Upto(text, 0) = <<>> /\ 0 \in 0..Len(text)
  <2>1. 0 \in 0..Len(text)
    BY <1>1
  <2> QED
    BY <1>1, <2>1, UptoNext
<1>7. Carries(wire, taken, newline, expanding)
  <2>1. Carries(<<>>, 0, FALSE, EOF)
    BY <1>2, <1>4, <1>5, <1>6 DEF Carries
  <2> QED
    BY <1>1, <2>1, Zenon
<1> QED
  BY <1>1, <1>2, <1>4, <1>7, Zenon DEF AsciiInv

\* read_ahead() puts a segment on the wire that carries the text it took.
LEMMA ReadAheadInv ==
    ASSUME Induction, AsciiBounds, AsciiInv, read_ahead PROVE AsciiInv'
<1> DEFINE s == Segment
<1>1. /\ text \in Seq(Chars) /\ wire \in Seq(Chars) /\ size \in Nat
      /\ EOF \notin Chars
      /\ ~kernel /\ seg = <<>>
  BY DEF AsciiInv, AsciiBounds, read_ahead
<1>2. Fills \in Senders
  <2>1. wire \o <<>> = wire
    BY <1>1, NoSegment, Zenon
  <2>2. Carries(wire, taken, newline, expanding)
    BY <1>1, Zenon DEF AsciiInv
  <2>3. /\ taken \in Nat /\ newline \in BOOLEAN /\ expanding \in Chars \cup {EOF}
        /\ <<>> \in Seq(Chars)
    BY DEF AsciiInv
  <2> QED
    BY <2>1, <2>2, <2>3, Zenon DEF Fills, Senders
<1>3. s \in Senders
  BY <1>1, <1>2, TurnsCarry, Zenon DEF Segment
<1>4. /\ s.taken \in Nat /\ s.newline \in BOOLEAN /\ s.expanding \in Chars \cup {EOF}
      /\ s.ended \in BOOLEAN /\ s.buf \in Seq(Chars)
      /\ Carries(wire \o s.buf, s.taken, s.newline, s.expanding)
      /\ s.ended => ~s.newline /\ s.taken = Len(text)
  <2> HIDE DEF s
  <2> QED
    BY <1>3 DEF Senders
<1>5. /\ taken' = s.taken /\ newline' = s.newline /\ expanding' = s.expanding
      /\ seg' = s.buf /\ ended' = s.ended /\ wire' = wire \o s.buf
      /\ kernel' = kernel /\ size' = size /\ text' = text /\ prevchar' = prevchar /\ out' = out
  BY Zenon DEF read_ahead
<1> HIDE DEF s
<1>6. [prevchar |-> prevchar, out |-> out] = Received(wire)
  BY <1>1, NoSegment DEF AsciiInv
<1>7. Carries(wire, taken, newline, expanding)'
  BY <1>4, <1>5, Zenon DEF Carries
<1>8. wire' \in Seq(Chars)
  <2>1. wire \o s.buf \in Seq(Chars)
    BY <1>1, <1>4, OneMore, Zenon
  <2> QED
    BY <1>5, <2>1, Zenon
<1> QED
  BY <1>1, <1>4, <1>5, <1>6, <1>7, <1>8, Zenon DEF AsciiInv

\* The kernel's segments are cut anywhere; no conversion state is behind them.
LEMMA KernelSendInv ==
    ASSUME AsciiBounds, AsciiInv, KernelSend PROVE AsciiInv'
<1>1. PICK p \in Pieces : seg' = p /\ wire' = wire \o p
  BY Zenon DEF KernelSend
<1>2. /\ p \in Seq(Chars) /\ wire \in Seq(Chars) /\ seg = <<>> /\ kernel
  BY Zenon DEF AsciiBounds, AsciiInv, KernelSend
<1>3. [prevchar |-> prevchar, out |-> out] = Received(wire)
  BY <1>2, NoSegment DEF AsciiInv
<1>4. wire' \in Seq(Chars)
  BY <1>1, <1>2
<1>5. /\ kernel' = kernel /\ size' = size /\ text' = text /\ taken' = taken
      /\ newline' = newline /\ expanding' = expanding /\ ended' = ended
      /\ prevchar' = prevchar /\ out' = out
  BY DEF KernelSend
<1> QED
  BY <1>1, <1>2, <1>3, <1>4, <1>5, Zenon DEF AsciiInv

\* write_behind() leaves what the characters on the wire convert to.
LEMMA AsciiWriteInv ==
    ASSUME Induction, AsciiBounds, AsciiInv, write_behind_converts PROVE AsciiInv'
<1>1. PICK d \in Seq(Chars) : wire = d \o seg /\ [prevchar |-> prevchar, out |-> out] = Received(d)
  BY Zenon DEF AsciiInv
<1>2. seg \in Seq(Chars) /\ wire \in Seq(Chars)
  BY DEF AsciiInv
<1> DEFINE w == Written([prevchar |-> prevchar, out |-> out], seg)
<1>3. w = Received(wire)
  BY <1>1, <1>2, WrittenReceived, Zenon
<1>4. /\ prevchar' = w.prevchar /\ out' = w.out /\ seg' = <<>>
      /\ kernel' = kernel /\ size' = size /\ text' = text /\ taken' = taken
      /\ newline' = newline /\ expanding' = expanding /\ ended' = ended /\ wire' = wire
  BY Zenon DEF write_behind_converts, sender
<1> HIDE DEF w
<1>5. [prevchar |-> prevchar', out |-> out'] = Received(wire')
  BY <1>3, <1>4 DEF Received
<1>6. wire' = wire' \o seg' /\ seg' \in Seq(Chars)
  <2>1. wire \o <<>> = wire
    BY <1>2, NoSegment, Zenon
  <2>2. <<>> \in Seq(Chars)
    OBVIOUS
  <2> QED
    BY <1>4, <2>1, <2>2, Zenon
<1>7. ~kernel' => Carries(wire, taken, newline, expanding)'
  <2>1. ASSUME ~kernel PROVE Carries(wire, taken, newline, expanding)
    BY <2>1 DEF AsciiInv
  <2> QED
    BY <1>4, <2>1, Zenon DEF Carries
<1> QED
  BY <1>2, <1>4, <1>5, <1>6, <1>7, Zenon DEF AsciiInv

\* Every step of the transfer keeps the invariant.
LEMMA AsciiStep ==
    ASSUME Induction, AsciiBounds, AsciiInv, [AsciiNext]_(asciiVars) PROVE AsciiInv'
<1>1. CASE UNCHANGED asciiVars
  BY <1>1, Zenon DEF AsciiInv, Carries, asciiVars, sender
<1> QED
  BY <1>1, ReadAheadInv, KernelSendInv, AsciiWriteInv DEF AsciiNext

\* What the two properties say follows from the invariant.
LEMMA AsciiMeans ==
    ASSUME AsciiInv PROVE CutAnywhere /\ RoundTrip
<1>1. ASSUME seg = <<>> PROVE out = Contracted(wire) /\ out = Received(wire).out
  BY <1>1, NoSegment, Zenon DEF AsciiInv, Received
<1>2. ASSUME ended PROVE Received(wire).out = text
  <2>1. text \in Seq(Chars) /\ Len(text) \in 0..Len(text)
    BY DEF AsciiInv
  <2>2. Upto(text, Len(text)) = text
    BY <2>1, UptoNext
  <2> QED
    BY <1>2, <2>2, Zenon DEF AsciiInv, Carries
<1> QED
  BY <1>1, <1>2, Zenon DEF CutAnywhere, RoundTrip

----------------------------------------------------------------------------
(* Theorems.  The library comes in here only: every fact in sight slows the *)
(* steps above down.                                                        *)

INSTANCE WellFoundedInduction

\* Induction over numbers, from the library's well-founded order.
LEMMA InductionHolds == Induction
<1> SUFFICES ASSUME NEW S, 0 \in S, \A n \in Nat : n \in S => n + 1 \in S, Nat \ S # {}
             PROVE  FALSE
  BY DEF Induction
<1> DEFINE O == {r \in Nat \X Nat : r[1] < r[2]}
<1>1. IsWellFoundedOn(O, Nat)
  BY NatLessThanWellFounded DEF OpToRel
<1> HIDE DEF O
<1>2. PICK n \in Nat \ S : \A m \in Nat \ S : ~ (<<m, n>> \in O)
  BY <1>1, WFMin, Zenon
<1>3. n # 0 /\ n - 1 \in Nat
  OBVIOUS
<1>4. <<n - 1, n>> \in O
  BY <1>3 DEF O
<1>5. n - 1 \in S
  BY <1>2, <1>3, <1>4
<1> QED
  BY <1>3, <1>5

\* The invariant holds throughout every session.
LEMMA Invariant == Spec => []IInv
BY InitInv, Inductive, PTL DEF Spec

\* Every reachable state of a session has the types of TypeOK: among them, the
\* block expected never passes the end of the file, and timer() stops counting
\* at maxtimeout.
THEOREM TypeCorrect == Spec => []TypeOK
BY Invariant, PTL DEF IInv

\* recvfile() never waits in recv() with a block unwritten, so no packet is
\* received over unwritten data and no lseek() overtakes a write.
THEOREM NothingPending == Spec => []NothingPendingAtRecv
<1>1. IInv => NothingPendingAtRecv
  BY Zenon DEF IInv, BufferInv, Idle, NothingPendingAtRecv
<1>2. QED
  BY <1>1, Invariant, PTL

\* The client never gets past a block recvfile() has not accepted, and is told
\* of success only when no buffer is left to write.
THEOREM ClientBehind == Spec => []ClientNotAhead
<1>1. IInv => ClientNotAhead
  <2> SUFFICES ASSUME IInv PROVE ClientNotAhead
    OBVIOUS
  <2>1. cblock <= block
    BY Zenon DEF IInv, ClientInv
  <2>2. ASSUME cstate = "ok" PROVE block = EofBlock /\ Idle
    BY <2>2 DEF IInv, ClientInv, AckInv, TypeOK
  <2>3. Idle => \A b \in 0..1 : bfs[b].counter # "FULL"
    BY DEF IInv, TypeOK, Idle
  <2>4. QED
    BY <2>1, <2>2, <2>3 DEF ClientNotAhead
<1>2. QED
  BY <1>1, Invariant, PTL

\* The file only ever shows a prefix of the dump, each operation applied once
\* and in order: recvfile() with its buffers implements KdumpTransfer as long
\* as write() does not fail.
THEOREM Refinement == ASSUME DiskMayFill = FALSE PROVE Spec => InOrder
<1>1. Init => Transfer!Init
  <2> SUFFICES ASSUME Init PROVE Transfer!Init
    BY Zenon
  <2>1. Idle /\ TypeOK
    BY InitInv DEF Init, Idle, IInv
  <2>2. Applied = block - 1
    BY <2>1, AppliedIdle
  <2>3. QED
    BY <2>2 DEF Init, Transfer!Init, Applied
<1>2. IInv /\ IInv' /\ [Next]_vars => [Transfer!Next]_(Transfer!vars)
  BY StepRefines, Zenon
<1>3. QED
  BY <1>1, <1>2, Invariant, PTL DEF Spec, InOrder, Transfer!Spec

\* When the client is told that its end of file arrived, the file is what all the
\* operations of the dump, in order, make of an empty one: for every dump, however
\* packets are lost, repeated or reordered, as long as write() does not fail.
THEOREM WholeDump == ASSUME DiskMayFill = FALSE PROVE Spec => []DumpComplete
<1>1. Init => FileInv
  <2> SUFFICES ASSUME Init PROVE FileInv
    BY Zenon
  <2>1. Idle /\ TypeOK
    BY InitInv DEF Init, Idle, IInv
  <2>2. Applied = 0
    BY <2>1, AppliedIdle DEF Init
  <2> QED
    BY <2>2, FileSteps, InductionHolds, OpsAssumption DEF Init, FileInv, OpsAssumption
<1>2. IInv /\ IInv' /\ FileInv /\ [Next]_vars => FileInv'
  <2> SUFFICES ASSUME IInv, IInv', FileInv, [Next]_vars PROVE FileInv'
    OBVIOUS
  <2>1. Transfer!Apply \/ UNCHANGED <<Applied, img, pos>>
    BY StepRefines, Zenon DEF Transfer!Next, Transfer!vars, Applied
  <2>2. CASE UNCHANGED <<Applied, img, pos>>
    BY <2>2 DEF FileInv
  <2> QED
    BY <2>1, <2>2, ApplyFile, InductionHolds
<1>3. IInv /\ FileInv => DumpComplete
  <2> SUFFICES ASSUME IInv, FileInv, cstate = "ok" PROVE img = Transfer!File[Len(Ops)].img
    BY Zenon DEF DumpComplete
  <2>1. block = EofBlock /\ Idle /\ TypeOK
    BY DEF IInv, ClientInv, AckInv, TypeOK
  <2>2. Applied = Len(Ops)
    BY <2>1, AppliedIdle, OpsAssumption DEF EofBlock, OpsAssumption
  <2> QED
    BY <2>2 DEF FileInv
<1> QED
  BY <1>1, <1>2, <1>3, Invariant, PTL DEF Spec

\* The invariant holds however the requests of the clients arrive.
LEMMA SpawnInvariant == SpawnSpec => []SpawnInv
<1>1. SpawnInit => SpawnInv
  BY SpawnInitially, FaultAssumption DEF SpawnBounds
<1> QED BY <1>1, SpawnStep, PTL DEF SpawnSpec

\* The state of main() and its children stays within its types, whatever the
\* size of a request that main() puts into the counter of the fork loop.
THEOREM SpawnTypes == SpawnSpec => []SpawnTypeOK
<1>1. SpawnInv => SpawnTypeOK
  BY DEF SpawnInv
<1> QED BY <1>1, SpawnInvariant, PTL

\* An instance that launchd started finds its request at recvfrom(), for any
\* number of requests, failures and children.
THEOREM NeverIdle == SpawnSpec => []NoIdleInstance
<1>1. SpawnInv => NoIdleInstance
  BY DEF SpawnInv
<1> QED BY <1>1, SpawnInvariant, PTL

\* validate_access() lets no child open a file that existed when the child was
\* forked, for any number of children at a time.
THEOREM OldFilesStay == SpawnSpec => []OldFilesKept
<1>1. SpawnInv => OldFilesKept
  BY DEF SpawnInv
<1> QED BY <1>1, SpawnInvariant, PTL

\* The invariant holds for every text and however it is cut.
LEMMA AsciiInvariant == AsciiSpec => []AsciiInv
<1>1. AsciiInit => AsciiInv
  BY InductionHolds, AsciiInitially, WireAssumption, TextAssumption DEF AsciiBounds
<1>2. AsciiInv /\ [AsciiNext]_(asciiVars) => AsciiInv'
  BY InductionHolds, AsciiStep, WireAssumption, TextAssumption DEF AsciiBounds
<1> QED BY <1>1, <1>2, PTL DEF AsciiSpec

\* write_behind() writes the contraction of all that a kernel sends, wherever
\* the segments cut it: for every text and every size of segment.
THEOREM CutsDoNotShow == AsciiSpec => []CutAnywhere
<1>1. AsciiInv => CutAnywhere
  BY AsciiMeans
<1> QED BY <1>1, AsciiInvariant, PTL

\* What read_ahead() expands, write_behind() turns back into the same file: for
\* every file and every size of segment.
THEOREM ConversionsInvert == AsciiSpec => []RoundTrip
<1>1. AsciiInv => RoundTrip
  BY AsciiMeans
<1> QED BY <1>1, AsciiInvariant, PTL
============================================================================
