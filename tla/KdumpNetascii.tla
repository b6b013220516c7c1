---------------------------- MODULE KdumpNetascii ----------------------------
(***************************************************************************)
(* The netascii conversions of kdumpsubs.c: read_ahead() expands line ends *)
(* while it fills a segment, write_behind() contracts them while it writes *)
(* one out.  Either may stop between the two characters of a pair, and the *)
(* globals newline and prevchar carry that over to the next segment.       *)
(* kdumpd itself only receives: the segments are those of a kernel, which  *)
(* may hold anything, or read_ahead()'s, which nothing calls any more.     *)
(***************************************************************************)
EXTENDS Integers, Sequences

CONSTANTS
    Others,     \* characters that are no part of a line end
    Texts,      \* files to send, sequences of Chars
    Pieces,     \* segments a kernel may send, sequences of Chars
    SegSizes,   \* values of kdp_crashdump_seg_size, 512 or more in the code
    MaxWire     \* bound: characters a kernel sends

CR == "CR"
LF == "LF"
NUL == "NUL"
EOF == "EOF"     \* no character: -1, with which prevchar starts
Chars == {CR, LF, NUL} \cup Others

ASSUME WireAssumption == MaxWire \in Nat /\ SegSizes \subseteq Nat \ {0}
ASSUME TextAssumption == Texts \subseteq Seq(Chars) /\ Pieces \subseteq Seq(Chars) /\ EOF \notin Chars

VARIABLES
    kernel,     \* whose segments they are
    size,       \* kdp_crashdump_seg_size
    text,       \* the file sent
    taken,      \* characters of it that getc() has returned
    newline, expanding,     \* the sender's newline and prevchar
    seg,        \* the segment on its way, or <<>>
    ended,      \* the sender met the end of its file
    wire,       \* all that was sent
    prevchar,   \* the receiver's prevchar
    out         \* the file written

sender == <<kernel, size, text, taken, newline, expanding, ended, wire>>
asciiVars == <<sender, seg, prevchar, out>>

AsciiInit ==
    /\ kernel \in BOOLEAN /\ size \in SegSizes
    /\ text \in Texts /\ (kernel => text = <<>>)
    /\ taken = 0 /\ newline = FALSE /\ expanding = EOF
    /\ seg = <<>> /\ ended = FALSE /\ wire = <<>>
    /\ prevchar = EOF /\ out = <<>>

----------------------------------------------------------------------------
(* One turn of each conversion loop, as a function of what it carries *)

\* read_ahead(): the second character of a pair, or the file's next one.
Filled(s) ==
    LET c == text[s.taken + 1] IN
    IF s.newline
    THEN [s EXCEPT !.newline = FALSE,
                   !.buf = Append(@, IF s.expanding = LF THEN LF ELSE NUL)]
    ELSE IF s.taken = Len(text) THEN [s EXCEPT !.ended = TRUE]
    ELSE IF c \in {LF, CR}
    THEN [s EXCEPT !.taken = @ + 1, !.newline = TRUE, !.expanding = c, !.buf = Append(@, CR)]
    ELSE [s EXCEPT !.taken = @ + 1, !.buf = Append(@, c)]

\* write_behind(): an LF after a CR is written over it, a NUL after a CR is skipped.
PutForgetful(w, c) ==
    [prevchar |-> IF w.prevchar = CR THEN EOF ELSE c,
     out |-> IF w.prevchar = CR /\ c = LF THEN [w.out EXCEPT ![Len(w.out)] = LF]
             ELSE IF w.prevchar = CR /\ c = NUL THEN w.out
             ELSE Append(w.out, c)]

Put(w, c) ==
    [prevchar |-> c,
     out |-> IF w.prevchar = CR /\ c = LF THEN [w.out EXCEPT ![Len(w.out)] = LF]
             ELSE IF w.prevchar = CR /\ c = NUL THEN w.out
             ELSE Append(w.out, c)]

\* The loop of read_ahead(): size turns, or fewer if the file ends.
Fills == [taken |-> taken, newline |-> newline, expanding |-> expanding, ended |-> FALSE, buf |-> <<>>]
Turns(s, n) ==
    LET turn[i \in 0 .. n] ==
          IF i = 0 THEN s
          ELSE IF turn[i - 1].ended THEN turn[i - 1] ELSE Filled(turn[i - 1])
    IN  turn[n]

\* The loop of write_behind(): every character of the segment.
Written(w, q) ==
    LET put[i \in 0 .. Len(q)] == IF i = 0 THEN w ELSE Put(put[i - 1], q[i])
    IN  put[Len(q)]

SegmentDropsHalf == Turns([Fills EXCEPT !.newline = FALSE], size)
Segment == Turns(Fills, size)

----------------------------------------------------------------------------
read_ahead ==
    /\ ~kernel /\ ~ended /\ seg = <<>>
    /\ LET s == Segment IN
       /\ taken' = s.taken /\ newline' = s.newline /\ expanding' = s.expanding
       /\ seg' = s.buf /\ ended' = s.ended /\ wire' = wire \o s.buf
    /\ UNCHANGED <<kernel, size, text, prevchar, out>>

KernelSend ==
    /\ kernel /\ seg = <<>>
    /\ \E p \in Pieces : /\ Len(wire) + Len(p) <= MaxWire
                         /\ seg' = p /\ wire' = wire \o p
    /\ UNCHANGED <<kernel, size, text, taken, newline, expanding, ended, prevchar, out>>

write_behind_converts ==
    /\ seg # <<>>
    /\ LET w == Written([prevchar |-> prevchar, out |-> out], seg) IN
       prevchar' = w.prevchar /\ out' = w.out
    /\ seg' = <<>>
    /\ UNCHANGED sender

AsciiNext == read_ahead \/ KernelSend \/ write_behind_converts

AsciiSpec == AsciiInit /\ [][AsciiNext]_asciiVars

----------------------------------------------------------------------------
(* Properties *)

\* "CR,NUL -> CR  and CR,LF => LF", and anything else is left alone: defined on
\* the whole transfer, without segments.
Dropped(w, i) == \/ w[i] = NUL /\ i > 1 /\ w[i - 1] = CR
                 \/ w[i] = CR /\ i < Len(w) /\ w[i + 1] = LF
Contracted(w) ==
    LET upto[i \in 0 .. Len(w)] ==
          IF i = 0 THEN <<>>
          ELSE IF Dropped(w, i) THEN upto[i - 1] ELSE Append(upto[i - 1], w[i])
    IN  upto[Len(w)]

\* Whatever a kernel sends and however it is cut into segments, the file holds
\* the contraction of all of it: prevchar carries a CR over to the next segment.
CutAnywhere == seg = <<>> => out = Contracted(wire)

\* read_ahead() and write_behind() are inverses for every file and every size
\* of segment: newline carries the second half of a pair over.
RoundTrip == ended /\ seg = <<>> => out = text
=============================================================================
