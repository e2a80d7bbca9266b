---------------------------- MODULE HeaderValue ----------------------------
(***************************************************************************)
(* The header values examined: what the MTA may hand over, and what the    *)
(* signer writes.  Their canonical form is held against what RFC 6376      *)
(* makes of them, their folded form against what a verifier reads.         *)
(***************************************************************************)
EXTENDS HeaderText, FiniteSetsExt

CONSTANTS
    Forms,  \* the values examined, [start |-> s, bytes |-> S, length |-> n]:
            \* s, followed by bytes of S up to a length of n
    LIMIT   \* dkim.rs fold_signature LIMIT, 72 in the code

ASSUME ValueAssumption ==
    /\ LIMIT \in Nat \ {0}
    /\ \A form \in Forms : form.length \in 0..11

VARIABLES form, value
valueVars == <<form, value>>

ValueInit == form \in Forms /\ value = form.start

(* The MTA supplies any value; NUL alone is refused, by Header::new *)
Grow == /\ Len(value) < form.length
        /\ \E byte \in form.bytes : value' = Append(value, byte)
        /\ UNCHANGED form

-----------------------------------------------------------------------------
(* value.split(' ') *)
SplitSpaces(tokens, byte) ==
    IF byte = SP THEN Append(tokens, <<>>)
    ELSE [tokens EXCEPT ![Len(tokens)] = Append(@, byte)]
Tokens(text) == FoldLeft(SplitSpaces, <<(<<>>)>>, text)

(* MUTANT of FoldToken: the separator is not counted *)
FoldTokenLate(s, token) ==
    LET break == s.column > 0 /\ s.column + Len(token) > LIMIT
        gap == IF break THEN <<CR, LF, TAB>> ELSE IF s.column > 0 THEN <<SP>> ELSE <<>>
    IN  [out |-> s.out \o gap \o token,
         column |-> Len(token) + IF break THEN 1 ELSE s.column + Len(gap)]

(* fold_signature: a space becomes a line break when the token that follows *)
(* would pass the limit                                                     *)
FoldToken(s, token) ==
    LET break == s.column > 0 /\ s.column + 1 + Len(token) > LIMIT
        gap == IF break THEN <<CR, LF, TAB>> ELSE IF s.column > 0 THEN <<SP>> ELSE <<>>
    IN  [out |-> s.out \o gap \o token,
         column |-> Len(token) + IF break THEN 1 ELSE s.column + Len(gap)]

FoldSignature(text) ==
    FoldLeft(FoldToken, [out |-> <<>>, column |-> 0], Tokens(text)).out

-----------------------------------------------------------------------------
(* Relaxed canonicalization by positions: of white space one space is left, *)
(* where it parts two contents.                                             *)
RelaxedPart(v, i) ==
    IF v[i] \in White THEN <<>>
    ELSE IF i > 1 /\ v[i - 1] \in White /\ \E j \in 1..(i - 1) : v[j] \notin White
    THEN <<SP, v[i]>> ELSE <<v[i]>>

RelaxedValue(v) == FlattenSeq([i \in 1..Len(v) |-> RelaxedPart(v, i)])

(* What is hashed for a header is its relaxed form, whatever mixture of     *)
(* folding, bare line ends, tabs and spaces the MTA hands over.             *)
CanonicalIsRelaxed == Canonical(value) = RelaxedValue(value)

(* What sign gives fold_signature: tokens separated by single spaces *)
IsSignatureValue == /\ Range(value) \cap White \subseteq {SP}
                    /\ \A token \in Range(Tokens(value)) : token # <<>>

(* The verifier canonicalizes the folded header, the signer hashed the      *)
(* unfolded one: folding must not be seen.  And lines stay within the limit *)
(* unless a single token does not fit; a line starts after LF, its          *)
(* characters are what precedes the next CR.                                *)
FoldingIsSound ==
    IsSignatureValue =>
        LET text == FoldSignature(value)
            starts == {1} \cup {i \in 2..Len(text) : text[i - 1] = LF}
            End(i) == Max({j \in i..Len(text) : \A k \in i..j : text[k] # CR})
        IN  /\ Canonical(text) = Canonical(value)
            /\ \A i \in starts : text # <<>> =>
                  \/ End(i) - i + 1 <= LIMIT
                  \/ \A j \in i..End(i) : text[j] # SP
=============================================================================
