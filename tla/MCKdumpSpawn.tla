---------------------------- MODULE MCKdumpSpawn ----------------------------
(* A request for a dump file, a short one in an unknown mode and one that is *)
(* no write request.                                                         *)
EXTENDS KdumpSpawn

CONSTANTS w1, w2

Wrq == [file |-> "core", opcode |-> "WRQ", ended |-> TRUE, mode |-> "octet", plain |-> TRUE, size |-> 43]

MCRequests == {Wrq, [Wrq EXCEPT !.size = 12, !.mode = "mail"], [Wrq EXCEPT !.opcode = "RRQ"]}
MCWorkers == {w1, w2}
=============================================================================
