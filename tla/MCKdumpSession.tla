--------------------------- MODULE MCKdumpSession ---------------------------
(* A dump of two pieces with a seek back between them. *)
EXTENDS KdumpSession

MCOps == <<[op |-> "DATA", arg |-> 7], [op |-> "KDP_SEEK", arg |-> 0], [op |-> "DATA", arg |-> 9]>>
=============================================================================
