----------------------------- MODULE HeaderText -----------------------------
(***************************************************************************)
(* The text of a header field as the signer sees it: relaxed               *)
(* canonicalization of a value.  A byte is one of the white ones or stands *)
(* for any other.                                                          *)
(***************************************************************************)
EXTENDS Naturals, Sequences, SequencesExt

CR == "cr"
LF == "lf"
TAB == "tab"
SP == "sp"
White == {SP, TAB, CR, LF}

(* MUTANT of Canonical: white space in front of the value counts *)
CanonicalUntrimmed(value) ==
    FoldLeft(LAMBDA s, byte :
                 IF byte \in White THEN [s EXCEPT !.pending = TRUE]
                 ELSE [out |-> s.out \o (IF s.pending THEN <<SP, byte>> ELSE <<byte>>),
                       pending |-> FALSE],
             [out |-> <<>>, pending |-> FALSE], value).out

(* canonicalize_header: white space and line ends are held back until       *)
(* content follows content                                                  *)
KeepByte(s, byte) ==
    IF byte \in White THEN [s EXCEPT !.pending = TRUE]
    ELSE [out |-> s.out \o (IF s.pending /\ s.out # <<>> THEN <<SP, byte>> ELSE <<byte>>),
          pending |-> FALSE]

Canonical(value) == FoldLeft(KeepByte, [out |-> <<>>, pending |-> FALSE], value).out
=============================================================================
