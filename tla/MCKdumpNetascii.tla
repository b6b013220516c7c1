-------------------------- MODULE MCKdumpNetascii --------------------------
(* All texts of up to four characters and all pieces of up to two. *)
EXTENDS KdumpNetascii, SequencesExt

MCTexts == BoundedSeq(Chars, 4)
MCPieces == BoundedSeq(Chars, 2) \ {<<>>}
=============================================================================
