------------------------------ MODULE Signing ------------------------------
(***************************************************************************)
(* Which headers dkim::sign hashes and lists, seen from the other end: a   *)
(* verifier after relays have added, removed and rewritten headers.        *)
(* The body hash and the signature field's own text are left out: any      *)
(* change of them breaks the signature whatever sign selects.              *)
(***************************************************************************)
EXTENDS HeaderText, FiniteSetsExt

CONSTANTS
    SIGNED_HEADERS, \* dkim.rs SIGNED_HEADERS: names in the order they are listed
    Headers,        \* header fields that may occur, [name |-> n, value |-> v]
    OwnFrom,        \* values of From with the configured domain
    MaxHeaders,     \* bound on the headers of the message
    MaxEdits        \* bound on the edits of the relays

ASSUME SigningAssumption ==
    /\ SIGNED_HEADERS \in Seq(STRING) /\ SIGNED_HEADERS # <<>>
    /\ Head(SIGNED_HEADERS) = "from"
    /\ IsInjective(SIGNED_HEADERS)
    /\ MaxHeaders \in Nat /\ MaxEdits \in Nat

VARIABLES
    headers,   \* the header fields of the message, from top to bottom
    original,  \* the ones that were signed
    signature, \* none, or the names listed in h= and the canonical fields hashed
    edits      \* how often relays have changed the message

vars == <<headers, original, signature, edits>>

Unsigned == [h |-> <<>>, hashed |-> <<>>]
Init == headers = <<>> /\ original = <<>> /\ signature = Unsigned /\ edits = 0

(* Header::is: names compare without regard to case, modelled as equal names *)
Positions(fields, name) == {i \in DOMAIN fields : fields[i].name = name}

(* canonicalize_header *)
CanonicalField(field) == [name |-> field.name, value |-> Canonical(field.value)]

(* receive_header: the MTA hands over the fields from top to bottom *)
Compose ==
    /\ signature = Unsigned /\ Len(headers) < MaxHeaders
    /\ \E field \in Headers : headers' = Append(headers, field)
    /\ UNCHANGED <<original, signature, edits>>

(* One From, of the configured domain *)
Eligible ==
    LET from == Positions(headers, "from")
    IN  Cardinality(from) = 1 /\ \A i \in from : headers[i].value \in OwnFrom

(* MUTANT of LastInstance: `iter().find` *)
FirstInstance(fields, listed) ==
    LET instances == Positions(fields, listed)
    IN  IF instances = {} THEN <<>> ELSE <<fields[Min(instances)]>>

(* headers.iter().rev().find *)
LastInstance(fields, listed) ==
    LET instances == Positions(fields, listed)
    IN  IF instances = {} THEN <<>> ELSE <<fields[Max(instances)]>>

(* What is hashed: the last instance of each listed name *)
Selected(fields) ==
    FlattenSeq([k \in DOMAIN SIGNED_HEADERS |-> LastInstance(fields, SIGNED_HEADERS[k])])

(* What is pushed to the list for a name: itself if it is there, and From   *)
(* once more *)
Mentions(fields, listed) ==
    (IF Positions(fields, listed) = {} THEN <<>> ELSE <<listed>>)
    \o (IF listed = "from" THEN <<"from">> ELSE <<>>)

(* h= *)
ListedNames(fields) ==
    FlattenSeq([k \in DOMAIN SIGNED_HEADERS |-> Mentions(fields, SIGNED_HEADERS[k])])

CanonicalFields(fields) == [k \in DOMAIN fields |-> CanonicalField(fields[k])]

Sign ==
    /\ signature = Unsigned /\ Eligible
    /\ signature' = [h |-> ListedNames(headers), hashed |-> CanonicalFields(Selected(headers))]
    /\ original' = headers
    /\ UNCHANGED <<headers, edits>>

-----------------------------------------------------------------------------
(* Relays and the verifier (RFC 6376, 5.4.2) are not part of dkim-lite *)

Edit(changed) ==
    /\ signature # Unsigned /\ edits < MaxEdits
    /\ headers' = changed /\ edits' = edits + 1
    /\ UNCHANGED <<original, signature>>

Insert(i, field) == Edit(SubSeq(headers, 1, i) \o <<field>> \o SubSeq(headers, i + 1, Len(headers)))
Delete(i) == Edit(SubSeq(headers, 1, i - 1) \o SubSeq(headers, i + 1, Len(headers)))
Rewrite(i, field) == Edit([headers EXCEPT ![i] = field])

(* The k-th mention of a name in a list h stands for its k-th instance from *)
(* the bottom, and for nothing when there are fewer.                        *)
Meant(fields, h, k) ==
    LET mention == Cardinality({j \in 1..k : h[j] = h[k]})
    IN  {i \in Positions(fields, h[k]) :
            Cardinality({j \in Positions(fields, h[k]) : j >= i}) = mention}

Checked(fields, h, k) ==
    IF Meant(fields, h, k) = {} THEN <<>>
    ELSE <<CanonicalField(fields[CHOOSE i \in Meant(fields, h, k) : TRUE])>>

Verified(fields, h) == FlattenSeq([k \in DOMAIN h |-> Checked(fields, h, k)])

Verifies == Verified(headers, signature.h) = signature.hashed

(* The message has been delivered, or it is passed on unsigned *)
Over == /\ \/ edits = MaxEdits
           \/ signature = Unsigned /\ Len(headers) = MaxHeaders /\ ~Eligible
        /\ UNCHANGED vars

Next == \/ Compose \/ Sign \/ Over
        \/ \E i \in 0..Len(headers), field \in Headers : Insert(i, field)
        \/ \E i \in DOMAIN headers : Delete(i)
        \/ \E i \in DOMAIN headers, field \in Headers : Rewrite(i, field)

Spec == Init /\ [][Next]_vars

-----------------------------------------------------------------------------
(* The last instance of a field, as far as canonicalization shows it *)
LastOf(fields, name) ==
    {CanonicalField(fields[i]) :
        i \in {j \in Positions(fields, name) : \A k \in Positions(fields, name) : k <= j}}

(* The signature proves neither more nor less than this: there is one From, *)
(* and the last instance of every listed field is the one that was signed,  *)
(* up to white space.  In particular a second From always breaks it,        *)
(* wherever it is added, and trace fields on top never do.                  *)
VerifiesExactlyTheSigned ==
    signature # Unsigned =>
        (Verifies <=> /\ Cardinality(Positions(headers, "from")) = 1
                      /\ \A name \in Range(SIGNED_HEADERS) :
                            LastOf(original, name) # {} =>
                                LastOf(headers, name) = LastOf(original, name))
=============================================================================
