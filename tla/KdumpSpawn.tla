----------------------------- MODULE KdumpSpawn -----------------------------
(***************************************************************************)
(* How kdumpd's instances come and go: launchd starts one in wait mode     *)
(* (external), main() reads a request and forks, and the child checks the  *)
(* request in kdump() and validate_access() and either refuses it with     *)
(* nak() or starts a session (KdumpSession).  Clients send a request again *)
(* until they hear of it (external).                                       *)
(***************************************************************************)
EXTENDS Integers, Sequences

CONSTANTS
    Requests,    \* [file, opcode, ended, mode, plain, size]: ended, both strings are
                 \* terminated; plain, no "/" or ".." in the name; size in bytes
    Workers,     \* bound: children at a time
    StatErrors,  \* errnos of stat() other than ENOENT
    OpenErrors,  \* errnos of open() and fdopen()
    LongMessages,\* errnos whose message is longer than MAXERRMSGLEN
    MaxFaults,   \* bound: failures of fork(), stat(), open(), socket calls, losses
    MaxQueue     \* bound: requests queued on the socket

ASSUME FaultAssumption == MaxFaults \in Nat /\ MaxQueue \in Nat \ {0}

EUNDEF == 0
EACCESS == 2
EBADOP == 4
Codes == 0..7       \* the codes of kdump.h
EEXIST == 17        \* the errno

None == [pc |-> "none"]
Silent == -1        \* no answer yet
Acked == -2         \* the session's first acknowledgement

VARIABLES
    sock,        \* requests queued on the kdump port
    parent,      \* the instance reading that port, or None
    kids,        \* the children: worker -> None or [pc, req, old], with old
                 \* the names that existed at the fork()
    exists,      \* names in the dump directory
    replies,     \* what each request's client was told last
    faults

spawnVars == <<sock, parent, kids, exists, replies, faults>>

Fault == faults < MaxFaults /\ faults' = faults + 1

SpawnInit ==
    /\ sock = <<>> /\ parent = None /\ kids = [w \in Workers |-> None]
    /\ exists = {} /\ replies = [r \in Requests |-> Silent] /\ faults = 0

----------------------------------------------------------------------------
(* External: the clients and launchd *)

ClientAsks(r) ==
    /\ replies[r] = Silent /\ Len(sock) < MaxQueue
    /\ sock' = Append(sock, r)
    /\ UNCHANGED <<parent, kids, exists, replies, faults>>

Launchd ==
    /\ parent = None /\ sock # <<>>
    /\ parent' = [pc |-> "recvfrom", i |-> 1]
    /\ UNCHANGED <<sock, kids, exists, replies, faults>>

----------------------------------------------------------------------------
(* main() *)

RecvFrom ==
    /\ parent.pc = "recvfrom"
    /\ IF sock = <<>> THEN parent' = None /\ UNCHANGED sock
       ELSE /\ parent' = [pc |-> "fork", i |-> 1, req |-> Head(sock)]
            /\ sock' = Tail(sock)
    /\ UNCHANGED <<kids, exists, replies, faults>>

\* fork() succeeds: the parent exits, the child has its request.
Fork ==
    /\ parent.pc = "fork" /\ parent.i < 20
    /\ \E w \in Workers : /\ kids[w] = None
                          /\ kids' = [kids EXCEPT ![w] = [pc |-> "setup", req |-> parent.req,
                                                            old |-> exists]]
    /\ parent' = None
    /\ UNCHANGED <<sock, exists, replies, faults>>

\* fork() fails: sleep(i), and then look for a more recent request.
ForkFails ==
    /\ parent.pc = "fork" /\ parent.i < 20
    /\ Fault
    /\ parent' = [parent EXCEPT !.pc = "flush"]
    /\ UNCHANGED <<sock, kids, exists, replies>>

\* The result of recvfrom() goes to the loop counter itself: -1 when nothing is
\* queued, so that the loop starts over, and the size of the request otherwise.
Flush ==
    /\ parent.pc = "flush"
    /\ IF sock = <<>>
       THEN parent' = [parent EXCEPT !.pc = "fork", !.i = 0] /\ UNCHANGED sock
       ELSE /\ parent' = [pc |-> "fork", i |-> Head(sock).size + 1, req |-> Head(sock)]
            /\ sock' = Tail(sock)
    /\ UNCHANGED <<kids, exists, replies, faults>>

ForkGivesUpAtTwenty ==
    /\ parent.pc = "fork" /\ parent.i = 20
    /\ parent' = None
    /\ UNCHANGED <<sock, kids, exists, replies, faults>>

\* The loop ends with pid < 0: exit(1).
ForkGivesUp ==
    /\ parent.pc = "fork" /\ parent.i >= 20
    /\ parent' = None
    /\ UNCHANGED <<sock, kids, exists, replies, faults>>

Exit(w) == kids' = [kids EXCEPT ![w] = None]

SetupReads(w) ==
    /\ kids[w].pc = "setup"
    /\ IF kids[w].req.opcode # "WRQ" THEN Exit(w)
       ELSE kids' = [kids EXCEPT ![w].pc = "kdump"]
    /\ sock' = IF sock = <<>> THEN sock ELSE Tail(sock)
    /\ UNCHANGED <<parent, exists, replies, faults>>

\* The child's chroot(), socket(), bind() and connect(), each of which may end it.
Setup(w) ==
    /\ kids[w].pc = "setup"
    /\ \/ Fault /\ Exit(w)
       \/ /\ IF kids[w].req.opcode # "WRQ" THEN Exit(w)
             ELSE kids' = [kids EXCEPT ![w].pc = "kdump"]
          /\ UNCHANGED faults
    /\ UNCHANGED <<sock, parent, exists, replies>>

----------------------------------------------------------------------------
(* kdump(), validate_access() and nak() *)

\* nak(): a code of the table goes out as it is; anything else as EUNDEF with
\* the text of errno error - 100 (EEXIST and the errnos of stat() come without the
\* 100), or not at all if that text is too long.
nak(w, error) ==
    /\ Exit(w)
    /\ replies' = [replies EXCEPT ![kids[w].req] =
         IF error \in Codes THEN error
         ELSE IF error - 100 \in LongMessages THEN @
         ELSE EUNDEF]

KdumpNoNak(w) ==
    /\ kids[w].pc = "kdump"
    /\ LET r == kids[w].req IN
       IF ~r.ended \/ r.mode \notin {"netascii", "octet"}
       THEN Exit(w) /\ UNCHANGED replies
       ELSE IF ~r.plain THEN nak(w, EACCESS)
       ELSE kids' = [kids EXCEPT ![w].pc = "stat"] /\ UNCHANGED replies
    /\ UNCHANGED <<sock, parent, exists, faults>>

kdump(w) ==
    /\ kids[w].pc = "kdump"
    /\ LET r == kids[w].req IN
       IF ~r.ended \/ r.mode \notin {"netascii", "octet"} THEN nak(w, EBADOP)
       ELSE IF ~r.plain THEN nak(w, EACCESS)
       ELSE kids' = [kids EXCEPT ![w].pc = "stat"] /\ UNCHANGED replies
    /\ UNCHANGED <<sock, parent, exists, faults>>

StatFollowed(w) ==
    /\ kids[w].pc = "stat"
    /\ \/ kids' = [kids EXCEPT ![w].pc = "open"] /\ UNCHANGED <<replies, faults>>
       \/ \E errno \in StatErrors : Fault /\ nak(w, errno)
    /\ UNCHANGED <<sock, parent, exists>>

Stat(w) ==
    /\ kids[w].pc = "stat"
    /\ \/ /\ kids[w].req.file \in exists
          /\ nak(w, EEXIST) /\ UNCHANGED faults
       \/ /\ kids[w].req.file \notin exists
          /\ kids' = [kids EXCEPT ![w].pc = "open"] /\ UNCHANGED <<replies, faults>>
       \/ \E errno \in StatErrors : Fault /\ nak(w, errno)
    /\ UNCHANGED <<sock, parent, exists>>

\* open(O_CREAT|O_TRUNC): creates the file or empties the one that is there.
Open(w) ==
    /\ kids[w].pc = "open"
    /\ exists' = exists \cup {kids[w].req.file}
    /\ kids' = [kids EXCEPT ![w].pc = "recvfile"]
    /\ UNCHANGED <<sock, parent, replies, faults>>

OpenFails(w) ==
    /\ kids[w].pc = "open"
    /\ \E errno \in OpenErrors : Fault /\ nak(w, errno + 100)
    /\ UNCHANGED <<sock, parent, exists>>

\* The session acknowledges the request, which may get lost, and ends some day.
Session(w) ==
    /\ kids[w].pc = "recvfile"
    /\ \/ replies' = [replies EXCEPT ![kids[w].req] = Acked] /\ UNCHANGED faults
       \/ Fault /\ UNCHANGED replies
    /\ Exit(w)
    /\ UNCHANGED <<sock, parent, exists>>

Parent == RecvFrom \/ Fork \/ Flush \/ ForkGivesUp
Child(w) == Setup(w) \/ kdump(w) \/ Stat(w) \/ Open(w) \/ Session(w)

SpawnNext ==
    \/ Launchd \/ Parent \/ ForkFails
    \/ \E r \in Requests : ClientAsks(r)
    \/ \E w \in Workers : Child(w) \/ OpenFails(w)

\* Every process runs; a client sends again as long as it has no answer, and
\* the queue has room for it time and again.
SpawnFairness ==
    /\ WF_spawnVars(Launchd) /\ WF_spawnVars(Parent)
    /\ \A w \in Workers : WF_spawnVars(Child(w))
    /\ \A r \in Requests : SF_spawnVars(ClientAsks(r))

SpawnSpec == SpawnInit /\ [][SpawnNext]_spawnVars
FairSpawnSpec == SpawnSpec /\ SpawnFairness

----------------------------------------------------------------------------
(* Properties *)

Files == {r.file : r \in Requests}
Counters == {0, 1} \cup {r.size + 1 : r \in Requests}

\* The types of the variables: among them, the counter of the fork loop is
\* the size of a request plus one, or less.
SpawnTypeOK ==
    /\ sock \in Seq(Requests) /\ Len(sock) <= MaxQueue
    /\ parent \in {None} \cup [pc : {"recvfrom"}, i : Counters]
                       \cup [pc : {"fork", "flush"}, i : Counters, req : Requests]
    /\ kids \in [Workers -> {None} \cup [pc : {"setup", "kdump", "stat", "open", "recvfile"},
                                        req : Requests, old : SUBSET Files]]
    /\ exists \subseteq Files
    /\ replies \in [Requests -> Codes \cup {Silent, Acked}]
    /\ faults \in 0..MaxFaults

\* An instance is started only when a request waits for it: the parent is the
\* only reader of the port and exits after it has taken one off, so recvfrom()
\* never comes back empty-handed and instances do not multiply.
NoIdleInstance == parent.pc = "recvfrom" => sock # <<>>

\* The instance that holds the port lets go of it, also while fork() fails.
ParentLeaves == []<>(parent = None)

\* Every client that goes on asking gets a session or a refusal, whatever is
\* dropped on the way by the flush after a failed fork().
RequestsAnswered == \A r \in Requests : r.opcode = "WRQ" => <>(replies[r] # Silent)

\* "We only allow storage of files that do not already exist": open() never
\* empties a file that was there when the instance was forked.  One that another
\* instance creates between stat() and open() is emptied.
OldFilesKept == \A w \in Workers : kids[w] # None /\ kids[w].pc \in {"open", "recvfile"}
                                     => kids[w].req.file \notin kids[w].old
=============================================================================
