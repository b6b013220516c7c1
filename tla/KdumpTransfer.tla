--------------------------- MODULE KdumpTransfer ---------------------------
(***************************************************************************)
(* What a kernel core dump transfer promises: the dump is a sequence of    *)
(* operations on one file (write the next piece, seek), and the file only  *)
(* ever shows the result of a prefix of it, each operation applied once    *)
(* and in order.  KdumpSession, the code's protocol, is shown to implement *)
(* this module.                                                            *)
(***************************************************************************)
EXTENDS Integers, Sequences

CONSTANT Ops     \* the dump: a sequence of [op : {"DATA", "KDP_SEEK"}, arg : Nat]

VARIABLES
    applied,     \* how many operations the file shows
    img,         \* the file's contents, a set of <<offset, value>>
    pos          \* the file offset

vars == <<applied, img, pos>>

\* write(2): the value replaces what the file holds at the offset.
Written(content, at, value) == {p \in content : p[1] # at} \cup {<<at, value>>}

Init == applied = 0 /\ img = {} /\ pos = 0

Apply ==
    /\ applied < Len(Ops)
    /\ applied' = applied + 1
    /\ LET o == Ops[applied + 1] IN
         \/ /\ o.op = "DATA"
            /\ img' = Written(img, pos, o.arg)
            /\ pos' = pos + 1
         \/ /\ o.op = "KDP_SEEK"
            /\ pos' = o.arg
            /\ UNCHANGED img

Next == Apply

Spec == Init /\ [][Next]_vars

\* The file after the first n operations, computed from them alone.
File[n \in 0 .. Len(Ops)] ==
    IF n = 0 THEN [img |-> {}, pos |-> 0]
    ELSE LET f == File[n - 1]
             o == Ops[n]
         IN  IF o.op = "DATA"
             THEN [img |-> {p \in f.img : p[1] # f.pos} \cup {<<f.pos, o.arg>>}, pos |-> f.pos + 1]
             ELSE [img |-> f.img, pos |-> o.arg]
=============================================================================
