----------------------------- MODULE FromDomain -----------------------------
(***************************************************************************)
(* dkim.rs from_domain, the parser that decides for which domain a message *)
(* may be signed, against a grammar of the mailboxes it is to accept.      *)
(* Bytes stand for their classes: "A" for capitals, "a" for small letters  *)
(* and digits, "!" for the atom bytes other than these and "-", "," for    *)
(* ":" and ";" too, "ctl" for the control bytes but TAB, CR and LF.  Bytes *)
(* above 127 are left out.                                                 *)
(***************************************************************************)
EXTENDS HeaderValue, AsciiText

Quote == "\""
Escape == "\\"
WSP == {SP, TAB}
AtomBytes == {"a", "A", "-", "!"}  \* atom_byte
DomainBytes == {"a", "A", "-", "."}

-----------------------------------------------------------------------------
(* from_domain *)

Refused == <<"refused">>

(* CR only as part of a fold, LF only after CR, no other control byte *)
Foldable(v) ==
    \A i \in DOMAIN v :
        /\ v[i] = CR => i + 2 <= Len(v) /\ v[i + 1] = LF /\ v[i + 2] \in WSP
        /\ v[i] = LF => i > 1 /\ v[i - 1] = CR
        /\ v[i] # "ctl"

UnfoldByte(unfolded, byte) == IF byte \in {CR, LF} THEN unfolded ELSE Append(unfolded, byte)
Unfold(v) == FoldLeft(UnfoldByte, <<>>, v)

(* One byte of the comment scan: text is what remains, depth the comments   *)
(* that are open                                                            *)
ScanComment(s, byte) ==
    IF s.escaped
    THEN [s EXCEPT !.escaped = FALSE, !.text = IF s.depth = 0 THEN Append(@, byte) ELSE @]
    ELSE IF s.depth > 0
    THEN [s EXCEPT !.escaped = byte = Escape,
                   !.depth = CASE byte = "(" -> @ + 1 [] byte = ")" -> @ - 1 [] OTHER -> @]
    ELSE IF s.quoted
    THEN [s EXCEPT !.text = Append(@, byte), !.escaped = byte = Escape, !.quoted = byte # Quote]
    ELSE [s EXCEPT !.text = Append(@, IF byte = "(" THEN SP ELSE byte),
                   !.depth = IF byte = "(" THEN 1 ELSE 0,
                   !.quoted = byte = Quote,
                   !.stray = @ \/ byte = ")"]

WithoutComments(v) ==
    FoldLeft(ScanComment, [text |-> <<>>, quoted |-> FALSE, escaped |-> FALSE,
                           depth |-> 0, stray |-> FALSE], v)

Trim(v) == LET solid == {i \in DOMAIN v : v[i] \notin White}
           IN  IF solid = {} THEN <<>> ELSE SubSeq(v, Min(solid), Max(solid))

(* The positions outside of quoted strings, and those of escaped bytes *)
ScanByte(s, byte) ==
    LET at == s.at + 1
    IN  IF s.pending
        THEN [s EXCEPT !.at = at, !.pending = FALSE, !.escaped = @ \cup {at}]
        ELSE IF s.quoted /\ byte = Escape THEN [s EXCEPT !.at = at, !.pending = TRUE]
        ELSE IF byte = Quote THEN [s EXCEPT !.at = at, !.quoted = ~@]
        ELSE [s EXCEPT !.at = at, !.plain = IF s.quoted THEN @ ELSE @ \cup {at}]

Scan(text) ==
    FoldLeft(ScanByte, [at |-> 0, pending |-> FALSE, quoted |-> FALSE,
                        plain |-> {}, escaped |-> {}], text)

Plain(text, byte) == {i \in Scan(text).plain : text[i] = byte}

(* display_name, of a text that ends outside of a quoted string *)
DisplayName(text) ==
    /\ \A i \in Scan(text).plain : text[i] \in AtomBytes \cup {"."} \cup WSP
    /\ \A i \in Scan(text).escaped : text[i] # TAB

(* local_part: a quoted string that ends with the text, or a dot-atom *)
LocalPart(text) ==
    /\ text # <<>>
    /\ IF Head(text) = Quote
       THEN /\ Len(text) > 1 /\ text[Len(text)] = Quote
            /\ Len(text) \notin Scan(text).escaped
            /\ \A i \in 2..(Len(text) - 1) : text[i] = Quote => i \in Scan(text).escaped
       ELSE /\ \A i \in DOMAIN text :
                 \/ text[i] \in AtomBytes
                 \/ text[i] = "." /\ i \notin {1, Len(text)} /\ text[i + 1] # "."

(* MUTANT of Address: what follows the closing bracket is discarded *)
AddressThenAnything(text) ==
    LET start == Plain(text, "<")
        end == Plain(text, ">")
    IN  IF start = {} /\ end = {} THEN text
        ELSE IF /\ Cardinality(start) = 1 /\ Cardinality(end) = 1 /\ Max(start) < Max(end)
                /\ DisplayName(SubSeq(text, 1, Max(start) - 1))
             THEN Trim(SubSeq(text, Max(start) + 1, Max(end) - 1))
             ELSE Refused

(* Without brackets the whole text, otherwise what they contain if only a   *)
(* display name precedes and nothing follows them                           *)
Address(text) ==
    LET start == Plain(text, "<")
        end == Plain(text, ">")
    IN  IF start = {} /\ end = {} THEN text
        ELSE IF /\ Cardinality(start) = 1 /\ Cardinality(end) = 1 /\ Max(start) < Max(end)
                /\ DisplayName(SubSeq(text, 1, Max(start) - 1))
                /\ Trim(SubSeq(text, Max(end) + 1, Len(text))) = <<>>
             THEN Trim(SubSeq(text, Max(start) + 1, Max(end) - 1))
             ELSE Refused

(* MUTANT of DomainOfAddress: the dots at the end stay *)
DomainWithDots(address) ==
    LET at == Plain(address, "@")
        local == Trim(SubSeq(address, 1, Max(at) - 1))
        domain == Trim(SubSeq(address, Max(at) + 1, Len(address)))
    IN  IF /\ Cardinality(at) = 1
           /\ LocalPart(local)
           /\ domain # <<>> /\ Range(domain) \subseteq DomainBytes
        THEN Lower(domain) ELSE Refused

DomainOfAddress(address) ==
    LET at == Plain(address, "@")
        local == Trim(SubSeq(address, 1, Max(at) - 1))
        domain == StripDots(Trim(SubSeq(address, Max(at) + 1, Len(address))))
    IN  IF /\ Cardinality(at) = 1
           /\ LocalPart(local)
           /\ domain # <<>> /\ Range(domain) \subseteq DomainBytes
        THEN Lower(domain) ELSE Refused

DomainOf(v) ==
    LET scan == WithoutComments(Unfold(v))
        text == Trim(scan.text)
    IN  IF \/ ~Foldable(v)
           \/ scan.stray \/ scan.quoted \/ scan.escaped \/ scan.depth # 0
           \/ Plain(text, ",") # {}
        THEN Refused
        ELSE IF Address(text) = Refused THEN Refused ELSE DomainOfAddress(Address(text))

-----------------------------------------------------------------------------
(* The mailboxes to accept, after RFC 5322: every phrase of the grammar is  *)
(* a table of the places in front of a byte or at the end, and tells for    *)
(* each where the phrase may end that begins there.  What is found of a      *)
(* mailbox is its domain as it is written, without dots at the end.         *)

Places == 1..(Len(value) + 1)

(* SubSeq has TLC evaluate a table once *)
Table(f) == SubSeq(f, 1, Len(value) + 1)
Byte(S) == Table([i \in Places |-> IF i <= Len(value) /\ value[i] \in S THEN {i + 1} ELSE {}])
Then(A, B) == Table([i \in Places |-> UNION {B[j] : j \in A[i]}])
Or(A, B) == Table([i \in Places |-> A[i] \cup B[i]])

Many(A) == LET reach[i \in Places] == {i} \cup UNION {reach[j] : j \in A[i]}
           IN  Table(reach)

Printable == {"a", "A", "-", "!", ".", "@", "<", ">", ",", "(", ")", Quote, Escape}
Space(S) == Or(Byte(S), Then(Byte({CR}), Then(Byte({LF}), Byte(S))))
Pair(S) == Then(Byte({Escape}), Or(Byte(Printable), Space(S)))

(* What follows the bracket that opens a comment: the one that closes it, or *)
(* text or a comment and what follows that                                   *)
Comment ==
    LET open == Byte({"("})
        close == Byte({")"})
        text == Or(Byte(Printable \ {"(", ")", Escape}), Or(Space(WSP), Pair(WSP)))
        inside[i \in Places] ==
            close[i] \cup UNION {inside[j] : j \in text[i] \cup UNION {inside[k] : k \in open[i]}}
    IN  Then(open, Table(inside))
Quoted(S) == Then(Byte({Quote}),
                  Then(Many(Or(Byte(Printable \ {Quote, Escape}), Or(Space(WSP), Pair(S)))),
                       Byte({Quote})))

Mailboxes ==
    LET comment == Comment
        cfws == Many(Or(Space(WSP), comment))
        atom == Then(Byte(AtomBytes), Many(Byte(AtomBytes)))
        local == Or(Quoted(WSP), Then(atom, Many(Then(Byte({"."}), atom))))
        toDomain == Then(cfws, Then(local, Then(cfws, Then(Byte({"@"}), cfws))))
        domain == Then(Many(Byte(DomainBytes)), Byte(DomainBytes \ {"."}))
        afterDomain == Then(Many(Byte({"."})), cfws)
        phrase == Many(Or(Byte(AtomBytes \cup {"."}),
                          Or(Space(WSP), Or(comment, Quoted({SP})))))
        Between(before, after) ==
            {SubSeq(value, p[1], p[2] - 1) :
                p \in {q \in Places \X Places : /\ q[1] \in before[1]
                                                /\ q[2] \in domain[q[1]]
                                                /\ Len(value) + 1 \in after[q[2]]}}
    IN  Between(toDomain, afterDomain)
        \cup Between(Then(phrase, Then(Byte({"<"}), toDomain)),
                     Then(afterDomain, Then(Byte({">"}), cfws)))

(* from_domain accepts exactly the single mailboxes, and finds the domain   *)
(* of the one address, in lower case: no second address, comment or quoted  *)
(* string leads it astray.                                                  *)
AcceptsExactlyMailboxes ==
    {DomainOf(value)} \ {Refused} = {Lower(domain) : domain \in Mailboxes}
=============================================================================
