----------------------------- MODULE AsciiText -----------------------------
(***************************************************************************)
(* What the standard library does to the text of a domain name, for both   *)
(* from_domain and validate_dns_name.  Of the letters "A" stands for a     *)
(* capital one and "a" for a small one.                                    *)
(***************************************************************************)
EXTENDS Naturals, Sequences, FiniteSetsExt

(* trim_end_matches('.') *)
StripDots(v) == LET solid == {i \in DOMAIN v : v[i] # "."}
                IN  IF solid = {} THEN <<>> ELSE SubSeq(v, 1, Max(solid))

(* to_ascii_lowercase *)
Lower(v) == [i \in DOMAIN v |-> IF v[i] = "A" THEN "a" ELSE v[i]]

(* Two spellings of one domain name, byte by byte: case does not count, and *)
(* each may be read as going on with dots                                   *)
ByteOrDot(v, i) == IF i \in DOMAIN v THEN v[i] ELSE "."
SameName(v, w) ==
    \A i \in DOMAIN v \cup DOMAIN w :
        \/ ByteOrDot(v, i) = ByteOrDot(w, i)
        \/ {ByteOrDot(v, i), ByteOrDot(w, i)} = {"a", "A"}
=============================================================================
