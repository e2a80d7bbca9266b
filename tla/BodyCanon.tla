----------------------------- MODULE BodyCanon -----------------------------
(***************************************************************************)
(* BodyCanonicalizer: the body of a message, canonicalized ("relaxed",     *)
(* RFC 6376 3.4.4) and hashed while it arrives in chunks the MTA chooses.  *)
(*                                                                         *)
(* One Step is one iteration of the loop of `update`.  The hasher is the   *)
(* sequence of what it was given.  Bytes are reduced to the classes the    *)
(* code tells apart: CR, LF, white space, anything else.                   *)
(***************************************************************************)
EXTENDS Integers, Sequences, SequencesExt

CONSTANT MaxBytes   \* bound on the length of the body

ASSUME BodyAssumption == MaxBytes \in Nat

Bytes == {"x", "wsp", "cr", "lf"}

VARIABLES
    body,   \* every byte received
    rest,   \* what `update` has left of the current chunk
    canon   \* the BodyCanonicalizer

bodyVars == <<body, rest, canon>>

Fresh == [hasher |-> <<>>, pending_wsp |-> FALSE, pending_empty_lines |-> 0,
          line_has_content |-> FALSE, saw_cr |-> FALSE]

BodyInit == body = <<>> /\ rest = <<>> /\ canon = Fresh

EmitContent(c, content) ==
    LET empty == IF c.line_has_content THEN 0 ELSE c.pending_empty_lines
        space == IF c.pending_wsp THEN <<"sp">> ELSE <<>>
    IN  [c EXCEPT !.hasher = @ \o [i \in 1..empty |-> "crlf"] \o space \o content,
                  !.pending_wsp = FALSE,
                  !.pending_empty_lines = @ - empty,
                  !.line_has_content = TRUE]

(* MUTANT of EndLine: white space before a line end survives it *)
EndLineKeepsSpace(c) ==
    IF c.line_has_content
    THEN [c EXCEPT !.hasher = Append(@, "crlf"), !.line_has_content = FALSE]
    ELSE [c EXCEPT !.pending_empty_lines = @ + 1]

EndLine(c) ==
    IF c.line_has_content
    THEN [c EXCEPT !.pending_wsp = FALSE, !.hasher = Append(@, "crlf"),
                   !.line_has_content = FALSE]
    ELSE [c EXCEPT !.pending_wsp = FALSE, !.pending_empty_lines = @ + 1]

(* Length of the longest prefix of s made of bytes of S *)
RunLength(S, s) ==
    CHOOSE n \in 0..Len(s) : /\ \A i \in 1..n : s[i] \in S
                             /\ n < Len(s) => s[n + 1] \notin S

Drop(n, s) == SubSeq(s, n + 1, Len(s))

(* A CR read before, maybe in an earlier chunk, ends its line now *)
AfterCr(c) == EndLine([c EXCEPT !.saw_cr = FALSE])

(* One iteration on a non-empty remainder *)
Step ==
    /\ rest # <<>>
    /\ LET c == IF canon.saw_cr THEN AfterCr(canon) ELSE canon
           ordinary == RunLength({"x"}, rest)
       IN  \/ /\ canon.saw_cr /\ rest[1] = "lf"
              /\ canon' = c
              /\ rest' = Tail(rest)
           \/ /\ ordinary > 0
              /\ canon' = EmitContent(c, SubSeq(rest, 1, ordinary))
              /\ rest' = Drop(ordinary, rest)
           \/ /\ rest[1] = "cr"
              /\ canon' = [c EXCEPT !.saw_cr = TRUE]
              /\ rest' = Tail(rest)
           \/ /\ ~canon.saw_cr /\ rest[1] = "lf"
              /\ canon' = EndLine(c)
              /\ rest' = Tail(rest)
           \/ /\ rest[1] = "wsp"
              /\ canon' = [c EXCEPT !.pending_wsp = TRUE]
              /\ rest' = Drop(RunLength({"wsp"}, rest), rest)
    /\ UNCHANGED body

(* The next body packet; it may be empty *)
Update ==
    /\ rest = <<>>
    /\ \E n \in 0..(MaxBytes - Len(body)) : rest' \in [1..n -> Bytes]
    /\ body' = body \o rest'
    /\ UNCHANGED canon

BodyNext == Update \/ Step
BodySpec == BodyInit /\ [][BodyNext]_bodyVars

(* finish: what has been hashed in the end *)
Finish(c) ==
    IF c.saw_cr THEN EndLine(c).hasher
    ELSE IF c.line_has_content THEN Append(c.hasher, "crlf")
    ELSE c.hasher

-----------------------------------------------------------------------------
(* The reference: a closed definition on the whole body *)

(* A line ends at every LF and at every CR that no LF follows *)
EndsLine(b, i) == \/ b[i] = "lf"
                  \/ b[i] = "cr" /\ (i = Len(b) \/ b[i + 1] # "lf")

(* The bytes in front of i since the last content, and the line ends among *)
(* them                                                                     *)
Gap(b, i) == {j \in 1..(i - 1) : \A k \in j..(i - 1) : b[k] # "x"}
Ends(b, i) == {j \in Gap(b, i) : EndsLine(b, j)}

(* A content byte is preceded by those line ends, and by a space if white   *)
(* space separates it from what precedes it on its own line                 *)
Spaced(b, i) == \E j \in Gap(b, i) : b[j] = "wsp" /\ \A k \in Ends(b, i) : k < j
Part(b, i) ==
    IF b[i] # "x" THEN <<>>
    ELSE [n \in 1..Cardinality(Ends(b, i)) |-> "crlf"]
         \o (IF Spaced(b, i) THEN <<"sp">> ELSE <<>>) \o <<"x">>

RelaxedBody(b) ==
    LET text == FlattenSeq([i \in 1..Len(b) |-> Part(b, i)])
    IN  IF text = <<>> THEN <<>> ELSE Append(text, "crlf")

(* However the body is cut into chunks, what is hashed is the canonical     *)
(* form of the whole body: CR and LF parted by a chunk boundary are one     *)
(* line end, white space and empty lines are carried over it, trailing ones *)
(* leave no trace.                                                          *)
HashesCanonicalBody == rest = <<>> => Finish(canon) = RelaxedBody(body)
=============================================================================
