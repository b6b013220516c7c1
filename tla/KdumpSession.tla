---------------------------- MODULE KdumpSession ----------------------------
(***************************************************************************)
(* One core dump session of kdumpd: recvfile() and timer() of kdumpd.c,    *)
(* the write-behind buffers of kdumpsubs.c, the panicking kernel at the    *)
(* other end (external: modelled from the packets recvfile expects) and a  *)
(* network that loses, duplicates and reorders.                            *)
(*                                                                         *)
(* The session starts where recvfile() does: the file has been created and *)
(* the client waits for the acknowledgement of block 0, its write request. *)
(* A buffer's counter is kept as the code's three cases (BF_ALLOC,         *)
(* BF_FREE, a byte count); time is counted in alarms of rexmtval seconds.  *)
(***************************************************************************)
EXTENDS Integers, Sequences

CONSTANTS
    Ops,         \* the operations the client sends, see KdumpTransfer
    DiskMayFill, \* whether a write to the file may fail
    MaxTimeout,  \* maxtimeout / rexmtval: 25 in the code
    MaxRetry,    \* bound: transmissions of one packet by the client
    MaxDup       \* bound: packets the network delivers twice

Operations == [op : {"DATA", "KDP_SEEK"}, arg : Nat]

ASSUME OpsAssumption == Ops \in Seq(Operations)
ASSUME DiskAssumption == DiskMayFill \in BOOLEAN
ASSUME BoundAssumption == /\ MaxTimeout \in Nat \ {0}
                          /\ MaxRetry \in Nat \ {0}
                          /\ MaxDup \in Nat

VARIABLES
    pc,          \* where recvfile is
    block,       \* the block number expected next
    ack,         \* th_block of ackbuf
    timeout,     \* alarms since the last new block
    bfs,         \* the two buffers: counter, and the packet each one holds
    current,     \* index of the buffer recv() fills: dp points to it
    nextone,     \* index of the buffer write_behind() looks at
    img, pos,    \* the file: contents and offset
    net,         \* packets in flight
    dups,        \* duplicates delivered so far
    cstate,      \* the client: "run", "ok" or "failed"
    cblock,      \* the block the client wants acknowledged
    retries      \* transmissions of that block

buffers == <<bfs, current, nextone>>
file    == <<img, pos>>
client  == <<cstate, cblock, retries>>
vars == <<pc, block, ack, timeout, buffers, file, net, dups, client>>

Transfer == INSTANCE KdumpTransfer WITH
    applied <- IF \E b \in 0..1 : bfs[b].counter = "FULL" THEN block - 2 ELSE block - 1

----------------------------------------------------------------------------
(* Packets *)

EofBlock == Len(Ops) + 1

\* The client's packet for block k: an operation, or the end of the file.
Packet(k) == IF k = EofBlock THEN [op |-> "KDP_EOF", blk |-> k, arg |-> 0]
                         ELSE [op |-> Ops[k].op, blk |-> k, arg |-> Ops[k].arg]

Error  == [op |-> "ERROR", blk |-> 0, arg |-> 0]
Ack(k) == [op |-> "ACK", blk |-> k, arg |-> 0]

ToServer == {m \in net : m.op # "ACK"}
ToClient == {m \in net : m.op = "ACK"}

\* Reception of m: the packet is gone, or a copy of it will come later.
Receive(m, sent, flushed) ==
    \/ net' = ((net \ {m}) \ flushed) \cup sent /\ UNCHANGED dups
    \/ dups < MaxDup /\ dups' = dups + 1 /\ net' = (net \ (flushed \ {m})) \cup sent

----------------------------------------------------------------------------
(* Write-behind buffers *)

Nothing == [op |-> "NONE", blk |-> 0, arg |-> 0]

\* The buffers and the file, as one value that write_behind() transforms.
Disk == [bfs |-> bfs, nextone |-> nextone, img |-> img, pos |-> pos]
DiskBecomes(d) ==
    bfs' = d.bfs /\ nextone' = d.nextone /\ img' = d.img /\ pos' = d.pos

\* write_behind(): write out the buffer that waits, if one does.  The caller
\* ignores its result, so a write() that fails loses the buffer's data.
write_behind(d) ==
    LET freed == [d EXCEPT !.bfs[d.nextone].counter = "FREE", !.nextone = 1 - d.nextone]
    IN  IF d.bfs[d.nextone].counter # "FULL" THEN {d}
        ELSE {[freed EXCEPT !.img = Transfer!Written(d.img, d.pos, d.bfs[d.nextone].pkt.arg),
                            !.pos = d.pos + 1]}
             \cup {f \in {freed} : DiskMayFill}

\* recv() into dp.
Into(m) == [bfs EXCEPT ![current].pkt = m]

\* writeit(): hand over the filled buffer and take the other one, which is
\* written out first if it is not free.
writeit(m) ==
    LET other == 1 - current
        d == [Disk EXCEPT !.bfs = [bfs EXCEPT ![current] = [counter |-> "FULL", pkt |-> m]]]
    IN  /\ current' = other
        /\ \E w \in IF bfs[other].counter = "FREE" THEN {d} ELSE write_behind(d) :
              DiskBecomes([w EXCEPT !.bfs[other].counter = "ALLOC"])

----------------------------------------------------------------------------
(* recvfile() *)

Init ==
    /\ pc = "send_ack" /\ block = 1 /\ ack = 0 /\ timeout = 0
    /\ bfs = [b \in 0..1 |-> [counter |-> IF b = 0 THEN "ALLOC" ELSE "FREE", pkt |-> Nothing]]
    /\ current = 0 /\ nextone = 0
    /\ img = {} /\ pos = 0
    /\ net = {} /\ dups = 0
    /\ cstate = "run" /\ cblock = 0 /\ retries = 0

\* send(peer, ackbuf); a failure ends the session.
SendAck ==
    /\ pc = "send_ack"
    /\ \/ net' = net \cup {Ack(ack)} /\ pc' = "write_behind"
       \/ net' = net /\ pc' = "done"
    /\ UNCHANGED <<block, ack, timeout, buffers, file, dups, client>>

WriteBehind ==
    /\ pc = "write_behind"
    /\ \E d \in write_behind(Disk) : DiskBecomes(d)
    /\ UNCHANGED current
    /\ pc' = "recv"
    /\ UNCHANGED <<block, ack, timeout, net, dups, client>>

\* send_seek_ack: the acknowledgement of a new block.
NextAck ==
    /\ timeout' = 0
    /\ ack' = block
    /\ block' = block + 1

RecvDataAnyBlock(m) ==
    /\ pc = "recv" /\ m.op = "DATA" /\ m.blk \in {block, block - 1}
    /\ Receive(m, {}, {})
    /\ writeit(m)
    /\ pc' = "send_ack" /\ NextAck
    /\ UNCHANGED client

RecvData(m) ==
    /\ pc = "recv" /\ m.op = "DATA" /\ m.blk = block
    /\ Receive(m, {}, {})
    /\ writeit(m)
    /\ IF bfs'[current'].pkt.op = "KDP_EOF"
       THEN pc' = "final_ack" /\ UNCHANGED <<block, ack, timeout>>
       ELSE pc' = "send_ack" /\ NextAck
    /\ UNCHANGED client

RecvSeekNoLseek(m) ==
    /\ pc = "recv" /\ m.op = "KDP_SEEK" /\ m.blk = block
    /\ Receive(m, {}, {})
    /\ bfs' = Into(m)
    /\ pc' = "send_ack"
    /\ NextAck
    /\ UNCHANGED <<current, nextone, file, client>>

RecvSeek(m) ==
    /\ pc = "recv" /\ m.op = "KDP_SEEK" /\ m.blk = block
    /\ Receive(m, {}, {})
    /\ bfs' = Into(m)
    /\ pos' = m.arg
    /\ pc' = "send_ack"
    /\ NextAck
    /\ UNCHANGED <<current, nextone, img, client>>

\* A packet of another block: synchnet() drops what is queued on the socket,
\* and the previous block's packet is answered with the same ack again.
RecvOther(m) ==
    /\ pc = "recv" /\ m.op \in {"DATA", "KDP_SEEK"} /\ m.blk # block
    /\ \E queued \in SUBSET ToServer : Receive(m, {}, queued)
    /\ bfs' = Into(m)
    /\ pc' = IF m.blk = block - 1 THEN "send_ack" ELSE "recv"
    /\ UNCHANGED <<block, ack, timeout, current, nextone, file, client>>

\* KDP_EOF is taken whatever its block number.
RecvEof(m) ==
    /\ pc = "recv" /\ m.op = "KDP_EOF"
    /\ Receive(m, {}, {})
    /\ bfs' = Into(m)
    /\ pc' = "final_ack"
    /\ UNCHANGED <<block, ack, timeout, current, nextone, file, client>>

RecvError(m) ==
    /\ pc = "recv" /\ m.op = "ERROR"
    /\ Receive(m, {}, {})
    /\ bfs' = Into(m)
    /\ pc' = "done"
    /\ UNCHANGED <<block, ack, timeout, current, nextone, file, client>>

\* recv() fails, for instance because the peer's port has gone.
RecvFails ==
    /\ pc = "recv"
    /\ pc' = "done"
    /\ UNCHANGED <<block, ack, timeout, buffers, file, net, dups, client>>

longjmpNotCounted ==
    /\ timeout' = timeout
    /\ pc' = IF timeout + 1 >= MaxTimeout THEN "flushfile" ELSE "send_ack"

\* timer(): the longjmp lands after setjmp() with 1 or, at the limit, 2.
longjmp ==
    /\ timeout' = timeout + 1
    /\ pc' = IF timeout + 1 >= MaxTimeout THEN "flushfile" ELSE "send_ack"

Timer ==
    /\ pc = "recv"
    /\ longjmp
    /\ UNCHANGED <<block, ack, buffers, file, net, dups, client>>

\* The alarm goes off between the return of recv() and alarm(0): the packet is
\* in dp, its header not yet in host order, and nobody looks at it.
TimerAfterRecv(m) ==
    /\ pc = "recv"
    /\ Receive(m, {}, {})
    /\ bfs' = Into([m EXCEPT !.op = "NONE"])
    /\ longjmp
    /\ UNCHANGED <<block, ack, current, nextone, file, client>>

FinalAck ==
    /\ pc = "final_ack"
    /\ ack' = block
    /\ net' \in {net, net \cup {Ack(block)}}
    /\ pc' = "flushfile"
    /\ UNCHANGED <<block, timeout, buffers, file, dups, client>>

FlushFile ==
    /\ pc = "flushfile"
    /\ \E d \in write_behind(Disk) : DiskBecomes(d)
    /\ UNCHANGED current
    /\ pc' = "linger"
    /\ UNCHANGED <<block, ack, timeout, net, dups, client>>

\* The packet goes to buf, the test looks at dp.
Linger(m) ==
    /\ pc = "linger"
    /\ LET dp == bfs[current].pkt IN
       Receive(m, IF dp.op = "DATA" /\ dp.blk = block THEN {Ack(ack)} ELSE {}, {})
    /\ pc' = "done"
    /\ UNCHANGED <<block, ack, timeout, buffers, file, client>>

justquit ==
    /\ pc = "linger"
    /\ pc' = "done"
    /\ UNCHANGED <<block, ack, timeout, buffers, file, net, dups, client>>

Server ==
    \/ SendAck \/ WriteBehind \/ FinalAck \/ FlushFile
    \/ Timer \/ RecvFails \/ justquit
    \/ \E m \in ToServer :
         \/ RecvData(m) \/ RecvSeek(m) \/ RecvOther(m) \/ RecvEof(m)
         \/ RecvError(m) \/ TimerAfterRecv(m) \/ Linger(m)

----------------------------------------------------------------------------
(* The panicking kernel: stop and wait (external) *)

ClientSend ==
    /\ cstate = "run" /\ cblock > 0 /\ retries < MaxRetry
    /\ net' = net \cup {Packet(cblock)}
    /\ retries' = retries + 1
    /\ UNCHANGED <<pc, block, ack, timeout, buffers, file, dups, cstate, cblock>>

ClientAck(m) ==
    /\ cstate = "run"
    /\ Receive(m, {}, {})
    /\ IF m.blk # cblock THEN UNCHANGED client
       ELSE IF cblock = EofBlock THEN cstate' = "ok" /\ UNCHANGED <<cblock, retries>>
       ELSE cblock' = cblock + 1 /\ retries' = 0 /\ UNCHANGED cstate
    /\ UNCHANGED <<pc, block, ack, timeout, buffers, file>>

ClientGiveUp ==
    /\ cstate = "run" /\ (cblock = 0 \/ retries = MaxRetry)
    /\ cstate' = "failed"
    /\ net' \in {net, net \cup {Error}}
    /\ UNCHANGED <<pc, block, ack, timeout, buffers, file, dups, cblock, retries>>

Client == ClientSend \/ ClientGiveUp \/ \E m \in ToClient : ClientAck(m)

Lose ==
    /\ \E m \in net : net' = net \ {m}
    /\ UNCHANGED <<pc, block, ack, timeout, buffers, file, dups, client>>

----------------------------------------------------------------------------
Next == Server \/ Client \/ Lose

\* The daemon runs, its alarms go off, and the client does not wait for ever.
Fairness ==
    /\ WF_vars(SendAck) /\ WF_vars(WriteBehind) /\ WF_vars(FinalAck)
    /\ WF_vars(FlushFile) /\ WF_vars(Timer) /\ WF_vars(justquit)
    /\ WF_vars(ClientSend) /\ WF_vars(ClientGiveUp)

Spec == Init /\ [][Next]_vars
FairSpec == Spec /\ Fairness

----------------------------------------------------------------------------
(* Properties *)

Pcs == {"send_ack", "write_behind", "recv", "final_ack", "flushfile", "linger", "done"}
Packets == [op : {"NONE", "DATA", "KDP_SEEK", "KDP_EOF", "ERROR", "ACK"}, blk : Nat, arg : Nat]

\* The types of the session's variables; in particular timer() gives up before
\* the count of alarms passes maxtimeout.
TypeOK ==
    /\ pc \in Pcs
    /\ block \in 1..EofBlock /\ ack \in 0..EofBlock
    /\ timeout \in 0..MaxTimeout
    /\ bfs \in [0..1 -> [counter : {"ALLOC", "FREE", "FULL"}, pkt : Packets]]
    /\ current \in 0..1 /\ nextone \in 0..1
    /\ img \in SUBSET (Nat \X Nat) /\ pos \in Nat
    /\ net \in SUBSET Packets
    /\ dups \in 0..MaxDup
    /\ cstate \in {"run", "ok", "failed"}
    /\ cblock \in 0..EofBlock /\ retries \in 0..MaxRetry

\* The file always shows a prefix of the client's operations, each applied once
\* and in order, whatever recvfile() is sent twice, late or not at all.
InOrder == Transfer!Spec

\* A client told that its end of file arrived has its whole dump in the file:
\* kdumpd.c acknowledges KDP_EOF only after every block before it was written.
DumpComplete == cstate = "ok" => img = Transfer!File[Len(Ops)].img

\* Whenever recvfile() waits in recv(), the block it acknowledged last has been
\* handed to write(): no packet can be received over unwritten data, and an
\* lseek() cannot overtake a write that is still in a buffer.
NothingPendingAtRecv ==
    pc = "recv" => /\ bfs[current].counter = "ALLOC"
                   /\ bfs[1 - current].counter = "FREE"
                   /\ nextone = current

\* The client never gets past a block that recvfile() has not accepted: what
\* it may believe stored is in the file or in the one buffer waiting for it.
ClientNotAhead ==
    /\ cblock <= block
    /\ cstate = "ok" => /\ block = EofBlock
                        /\ \A b \in 0..1 : bfs[b].counter # "FULL"

\* recvfile() returns: every wait ends with a packet or an alarm, and only new
\* blocks reset the count of alarms.
ServerExits == <>(pc = "done")

\* "then my last ack was lost ... resend final ack": the client's last packet,
\* sent again while recvfile() lingers after its final ack, is acknowledged again.
FinalAckResent ==
    [][\A m \in ToServer : Linger(m) /\ m = Packet(block) /\ ack = block => Ack(block) \in net']_vars
=============================================================================
