----------------------------- MODULE TextProofs -----------------------------
(***************************************************************************)
(* Proofs about the text dkim-lite reads and writes: the body that is      *)
(* hashed (BodyCanon), header values and their folding (HeaderValue), the  *)
(* header fields that are signed (Signing), the configuration file with    *)
(* its DNS names (Settings) and the command line (CommandLine).  The code  *)
(* walks over bytes, tokens, lines, fields or words and keeps a state;     *)
(* each proof follows the states of the walk (SequenceLemmas) and holds    *)
(* what is known after k steps against a definition by positions.          *)
(***************************************************************************)
EXTENDS BodyCanon, HeaderValue, Settings, Signing, CommandLine, SequenceLemmas,
        FiniteSetTheorems

-----------------------------------------------------------------------------
(* The body *)

Hashed == {"crlf", "sp", "x"}
Canons == [hasher : Seq(Hashed), pending_wsp : BOOLEAN, pending_empty_lines : Nat,
           line_has_content : BOOLEAN, saw_cr : BOOLEAN]

Breaks(n) == [i \in 1..n |-> "crlf"]

(* The canonical form of the first m bytes, up to their last content *)
Text(b, m) == FlattenSeq([i \in 1..m |-> Part(b, i)])
HasContent(b, m) == \E i \in 1..m : b[i] = "x"

(* What follows that content: the line ends, where a CR at the end of the m *)
(* bytes is none yet, and whether white space follows the last of them      *)
Since(b, m) == {j \in Gap(b, m + 1) : \/ b[j] = "lf"
                                      \/ b[j] = "cr" /\ j < m /\ b[j + 1] # "lf"}
Blanks(b, m) == \E j \in Gap(b, m + 1) : b[j] = "wsp" /\ \A k \in Since(b, m) : k < j

(* How the canonicalizer holds a text t, n line ends and maybe a blank *)
Holds(c, t, any, n, blanks) ==
    /\ c.pending_wsp <=> blanks
    /\ c.line_has_content <=> (any /\ n = 0)
    /\ c.hasher = IF any /\ n > 0 THEN Append(t, "crlf") ELSE t
    /\ c.pending_empty_lines = IF any /\ n > 0 THEN n - 1 ELSE n
    /\ ~any => t = <<>>
    /\ any => t # <<>>

Agrees(c, b, m) ==
    /\ Holds(c, Text(b, m), HasContent(b, m), Cardinality(Since(b, m)), Blanks(b, m))
    /\ c.saw_cr <=> (m > 0 /\ b[m] = "cr")

(* Line ends can be counted. *)
LEMMA EndsFinite ==
    ASSUME NEW b, NEW m \in Nat
    PROVE  /\ IsFiniteSet(Since(b, m)) /\ Cardinality(Since(b, m)) \in Nat
           /\ IsFiniteSet(Ends(b, m + 1)) /\ Cardinality(Ends(b, m + 1)) \in Nat
<1>1. IsFiniteSet(1..m)
  BY FS_Interval
<1>2. Since(b, m) \subseteq 1..m /\ Ends(b, m + 1) \subseteq 1..m
  <2>1. (m + 1) - 1 = m
    OBVIOUS
  <2> QED
    BY <2>1 DEF Since, Ends, Gap
<1> QED
  BY <1>1, <1>2, FS_Subset, FS_CardinalityType

(* A number of line ends. *)
LEMMA BreaksType ==
    ASSUME NEW n \in Nat
    PROVE  Breaks(n) \in Seq(Hashed) /\ Len(Breaks(n)) = n /\ \A i \in 1..n : Breaks(n)[i] = "crlf"
<1>1. Breaks(n) \in [1..n -> Hashed]
  BY DEF Breaks, Hashed
<1> QED
  BY <1>1, TableIsSeq DEF Breaks

(* What is hashed piece by piece. *)
LEMMA Atoms ==
    /\ <<>> \in Seq(Hashed) /\ <<"sp">> \in Seq(Hashed) /\ <<"x">> \in Seq(Hashed)
    /\ Len(<<"x">>) = 1
<1>1. <<"sp">> \in Seq(Hashed)
  BY DEF Hashed
<1>2. <<"x">> \in Seq(Hashed) /\ Len(<<"x">>) = 1
  BY DEF Hashed
<1> QED
  BY <1>1, <1>2, EmptySeq

(* The part of the canonical body that a byte contributes. *)
LEMMA PartType ==
    ASSUME NEW b, NEW m \in Nat
    PROVE  /\ Part(b, m + 1) \in Seq(Hashed)
           /\ b[m + 1] # "x" => Part(b, m + 1) = <<>>
           /\ b[m + 1] = "x" =>
                /\ Part(b, m + 1) = Breaks(Cardinality(Ends(b, m + 1)))
                      \o (IF Spaced(b, m + 1) THEN <<"sp">> ELSE <<>>) \o <<"x">>
                /\ Part(b, m + 1) # <<>>
<1>1. CASE b[m + 1] # "x"
  BY <1>1, EmptySeq DEF Part
<1>2. CASE b[m + 1] = "x"
  <2> DEFINE r == Breaks(Cardinality(Ends(b, m + 1)))
             s == IF Spaced(b, m + 1) THEN <<"sp">> ELSE <<>>
  <2>1. Part(b, m + 1) = r \o s \o <<"x">>
    BY <1>2 DEF Part, Breaks
  <2>2. r \in Seq(Hashed) /\ s \in Seq(Hashed) /\ <<"x">> \in Seq(Hashed) /\ Len(<<"x">>) = 1
    <3>1. r \in Seq(Hashed)
      <4>1. Cardinality(Ends(b, m + 1)) \in Nat
        BY EndsFinite
      <4> QED
        BY <4>1, BreaksType
    <3>2. s \in Seq(Hashed) /\ <<"x">> \in Seq(Hashed) /\ Len(<<"x">>) = 1
      BY Atoms
    <3> QED
      BY <3>1, <3>2
  <2> HIDE DEF r, s
  <2>3. r \o s \in Seq(Hashed) /\ Len(r \o s) \in Nat
    BY <2>2, ConcatProperties, LenProperties
  <2>4. r \o s \o <<"x">> \in Seq(Hashed) /\ Len(r \o s \o <<"x">>) = Len(r \o s) + 1
    BY <2>2, <2>3, ConcatProperties
  <2>5. r \o s \o <<"x">> # <<>>
    BY <2>3, <2>4
  <2> QED
    BY <1>2, <2>1, <2>4, <2>5 DEF r, s
<1> QED
  BY <1>1, <1>2

(* The canonical text of a prefix grows by the part of the next byte. *)
LEMMA TextTypes ==
    ASSUME NEW b, NEW m \in Nat
    PROVE  Text(b, m) \in Seq(Hashed) /\ Text(b, m + 1) = Text(b, m) \o Part(b, m + 1)
<1> DEFINE parts(n) == [i \in 1..n |-> Part(b, i)]
           SH == Seq(Hashed)
<1>1. \A i \in Nat \ {0} : Part(b, i) \in SH
  <2> SUFFICES ASSUME NEW i \in Nat \ {0} PROVE Part(b, i) \in Seq(Hashed)
    OBVIOUS
  <2>1. i - 1 \in Nat /\ (i - 1) + 1 = i
    OBVIOUS
  <2>2. Part(b, (i - 1) + 1) \in Seq(Hashed)
    BY <2>1, PartType
  <2> QED
    BY <2>1, <2>2
<1>2. ASSUME NEW n \in Nat PROVE parts(n) \in Seq(SH) /\ Len(parts(n)) = n
  <2>1. parts(n) \in [1..n -> SH]
    BY <1>1
  <2> QED
    BY <2>1, TableIsSeq
<1>3. parts(m + 1) = Append(parts(m), Part(b, m + 1))
  <2> DEFINE p == parts(m)
             q == parts(m + 1)
             x == Part(b, m + 1)
             a == Append(p, x)
  <2>1. p \in Seq(SH) /\ Len(p) = m /\ q \in Seq(SH) /\ Len(q) = m + 1 /\ x \in SH
    BY <1>1, <1>2
  <2>2. \A i \in 1..m : p[i] = q[i]
    OBVIOUS
  <2>3. q[m + 1] = x
    OBVIOUS
  <2> HIDE DEF p, q, x, SH
  <2>4. /\ a \in Seq(SH) /\ Len(a) = m + 1
        /\ \A i \in 1..m : a[i] = p[i]
        /\ a[m + 1] = x
    BY <2>1, AppendProperties
  <2> HIDE DEF a
  <2>5. \A i \in 1..(m + 1) : a[i] = q[i]
    <3>1. \A i \in 1..(m + 1) : i \in 1..m \/ i = m + 1
      OBVIOUS
    <3> QED
      BY <3>1, <2>2, <2>3, <2>4
  <2>6. q = a
    BY <2>1, <2>4, <2>5, SeqEqual
  <2> QED
    BY <2>6 DEF p, q, x, a
<1>4. parts(m) \in Seq(Seq(Hashed)) /\ Part(b, m + 1) \in Seq(Hashed)
  BY <1>1, <1>2
<1>5. FlattenSeq(parts(m)) \in Seq(Hashed)
  BY <1>4, FlattenType
<1>6. FlattenSeq(Append(parts(m), Part(b, m + 1))) = FlattenSeq(parts(m)) \o Part(b, m + 1)
  BY <1>4, FlattenAppend
<1> QED
  BY <1>3, <1>5, <1>6 DEF Text

(* All of this depends on the first m bytes only *)
LEMMA Local ==
    ASSUME NEW b, NEW c, NEW m \in Nat,
           Len(b) \in Nat, Len(c) \in Nat, m <= Len(b), m <= Len(c),
           \A i \in 1..m : b[i] = c[i]
    PROVE  /\ Text(b, m) = Text(c, m) /\ (HasContent(b, m) <=> HasContent(c, m))
           /\ Since(b, m) = Since(c, m) /\ (Blanks(b, m) <=> Blanks(c, m))
<1>1. ASSUME NEW i \in 1..(m + 1) PROVE Gap(b, i) = Gap(c, i)
  <2>1. \A k \in 1..(i - 1) : b[k] = c[k]
    OBVIOUS
  <2>2. \A j \in 1..(i - 1) : \A k \in j..(i - 1) : k \in 1..(i - 1)
    OBVIOUS
  <2> QED
    BY <2>1, <2>2 DEF Gap
<1>2. ASSUME NEW i \in 1..m PROVE Part(b, i) = Part(c, i)
  <2>1. Gap(b, i) = Gap(c, i)
    BY <1>1
  <2>2. ASSUME NEW j \in Gap(b, i) PROVE b[j] = c[j] /\ (EndsLine(b, j) <=> EndsLine(c, j))
    <3>1. j \in 1..m /\ j + 1 \in 1..m /\ j # Len(b) /\ j # Len(c)
      BY <2>2 DEF Gap
    <3>2. b[j] = c[j] /\ b[j + 1] = c[j + 1]
      BY <3>1
    <3> QED
      BY <3>1, <3>2 DEF EndsLine
  <2>3. Ends(b, i) = Ends(c, i)
    BY <2>1, <2>2 DEF Ends
  <2>4. Spaced(b, i) <=> Spaced(c, i)
    BY <2>1, <2>2, <2>3 DEF Spaced
  <2>5. b[i] = c[i]
    OBVIOUS
  <2> QED
    BY <2>3, <2>4, <2>5 DEF Part
<1>3. Text(b, m) = Text(c, m)
  <2>1. [i \in 1..m |-> Part(b, i)] = [i \in 1..m |-> Part(c, i)]
    BY <1>2
  <2> QED
    BY <2>1 DEF Text
<1>4. (HasContent(b, m) <=> HasContent(c, m))
  BY DEF HasContent
<1>5. Gap(b, m + 1) = Gap(c, m + 1)
  BY <1>1
<1>6. ASSUME NEW j \in Gap(b, m + 1)
      PROVE  b[j] = c[j] /\ (j < m => b[j + 1] = c[j + 1])
  <2>1. j \in 1..m
    BY <1>6 DEF Gap
  <2> QED
    BY <2>1
<1>7. Since(b, m) = Since(c, m)
  BY <1>5, <1>6 DEF Since
<1>8. (Blanks(b, m) <=> Blanks(c, m))
  BY <1>5, <1>6, <1>7 DEF Blanks
<1> QED
  BY <1>3, <1>4, <1>7, <1>8

(* The next byte decides about a CR *)
Resolved(b, m) == m > 0 /\ b[m] = "cr" /\ b[m + 1] # "lf"

(* Whether a CR was a line end is known one byte later: the line ends and   *)
(* spaces in front of byte m + 1, from what was known after m.              *)
LEMMA Resolve ==
    ASSUME NEW b \in Seq(Bytes), NEW m \in 0..(Len(b) - 1)
    PROVE  IF Resolved(b, m)
           THEN /\ Ends(b, m + 1) = Since(b, m) \cup {m} /\ m \notin Since(b, m)
                /\ ~Spaced(b, m + 1)
           ELSE Ends(b, m + 1) = Since(b, m) /\ (Spaced(b, m + 1) <=> Blanks(b, m))
<1>1. Len(b) \in Nat /\ m \in Nat /\ m < Len(b) /\ (m + 1) - 1 = m
  BY LenProperties
<1>2. \A j \in Gap(b, m + 1) : j \in 1..m /\ j # Len(b)
  BY <1>1 DEF Gap
<1>3. CASE Resolved(b, m)
  <2>1. m \in 1..m /\ b[m] = "cr" /\ b[m + 1] # "lf"
    BY <1>1, <1>3 DEF Resolved
  <2>2. m \in Gap(b, m + 1)
    BY <1>1, <2>1 DEF Gap
  <2>3. m \notin Since(b, m)
    BY <1>1, <2>1 DEF Since
  <2>4. ASSUME NEW j \in Gap(b, m + 1)
        PROVE  EndsLine(b, j) <=> j \in Since(b, m) \/ j = m
    <3>1. CASE j = m
      BY <3>1, <2>1 DEF EndsLine
    <3>2. CASE j # m
      <4>1. j < m
        BY <3>2, <1>1, <1>2
      <4> QED
        BY <4>1, <3>2, <1>2 DEF EndsLine, Since
    <3> QED
      BY <3>1, <3>2
  <2>5. Ends(b, m + 1) = Since(b, m) \cup {m}
    BY <2>2, <2>4 DEF Ends, Since
  <2>6. ~Spaced(b, m + 1)
    <3>1. m \in Ends(b, m + 1)
      BY <2>5
    <3>2. \A j \in Gap(b, m + 1) : ~(m < j)
      BY <1>1, <1>2
    <3> QED
      BY <3>1, <3>2 DEF Spaced
  <2> QED
    BY <1>3, <2>3, <2>5, <2>6
<1>4. CASE ~Resolved(b, m)
  <2>1. ASSUME NEW j \in Gap(b, m + 1) PROVE EndsLine(b, j) <=> j \in Since(b, m)
    <3>1. CASE j = m
      BY <3>1, <1>1, <1>2, <1>4 DEF EndsLine, Resolved, Since
    <3>2. CASE j # m
      <4>1. j < m
        BY <3>2, <1>1, <1>2
      <4> QED
        BY <4>1, <3>2, <1>2 DEF EndsLine, Since
    <3> QED
      BY <3>1, <3>2
  <2>2. Ends(b, m + 1) = Since(b, m)
    BY <2>1 DEF Ends, Since
  <2> QED
    BY <1>4, <2>2 DEF Spaced, Blanks
<1> QED
  BY <1>3, <1>4

(* What one more byte makes of it *)
LEMMA OneMore ==
    ASSUME NEW b \in Seq(Bytes), NEW m \in 0..(Len(b) - 1)
    PROVE  /\ b[m + 1] = "x" =>
                /\ HasContent(b, m + 1) /\ Since(b, m + 1) = {} /\ ~Blanks(b, m + 1)
           /\ b[m + 1] # "x" =>
                /\ (HasContent(b, m + 1) <=> HasContent(b, m))
                /\ Since(b, m + 1) = IF b[m + 1] = "lf" THEN Ends(b, m + 1) \cup {m + 1}
                                     ELSE Ends(b, m + 1)
                /\ (Blanks(b, m + 1) <=> (/\ b[m + 1] # "lf"
                                          /\ b[m + 1] = "wsp" \/ Spaced(b, m + 1)))
<1>1. /\ Len(b) \in Nat /\ m \in Nat /\ m < Len(b) /\ (m + 1) - 1 = m
      /\ ((m + 1) + 1) - 1 = m + 1 /\ m + 1 \in 1..Len(b)
  BY LenProperties
<1> DEFINE y == b[m + 1]
           A == Gap(b, m + 1)
           B == Gap(b, (m + 1) + 1)
<1>2. y \in Bytes
  BY <1>1, ElementOfSeq
<1>3. CASE y = "x"
  <2>1. B = {}
    BY <1>1, <1>3 DEF Gap
  <2>2. HasContent(b, m + 1)
    BY <1>1, <1>3 DEF HasContent
  <2> QED
    BY <1>3, <2>1, <2>2 DEF Since, Blanks
<1>4. CASE y # "x"
  <2>1. B = A \cup {m + 1}
    BY <1>1, <1>4 DEF Gap
  <2>2. (HasContent(b, m + 1) <=> HasContent(b, m))
    BY <1>1, <1>4 DEF HasContent
  <2>3. \A j \in A : j \in 1..m /\ j < m + 1 /\ j # Len(b) /\ j # m + 1
    BY <1>1 DEF Gap
  <2>4. m + 1 \in Since(b, m + 1) <=> y = "lf"
    <3>1. m + 1 \in B /\ ~(m + 1 < m + 1)
      BY <1>1, <2>1
    <3> QED
      BY <3>1 DEF Since
  <2>5. ASSUME NEW j \in A PROVE j \in Since(b, m + 1) <=> j \in Ends(b, m + 1)
    <3>1. j \in B
      BY <2>1
    <3> QED
      BY <2>3, <3>1 DEF Since, Ends, EndsLine
  <2>6. Since(b, m + 1) \subseteq B /\ Ends(b, m + 1) \subseteq A
    BY DEF Since, Ends
  <2>7. Since(b, m + 1) = IF y = "lf" THEN Ends(b, m + 1) \cup {m + 1} ELSE Ends(b, m + 1)
    <3> DEFINE P == Since(b, m + 1)
               Q == Ends(b, m + 1)
    <3>1. \A j : j \in P => j \in A \/ j = m + 1
      BY <2>1, <2>6
    <3>2. CASE y = "lf"
      <4>1. \A j : j \in P <=> j \in Q \cup {m + 1}
        BY <3>1, <3>2, <2>4, <2>5, <2>6
      <4> QED
        BY <3>2, <4>1
    <3>3. CASE y # "lf"
      <4>1. \A j : j \in P <=> j \in Q
        BY <3>1, <3>3, <2>4, <2>5, <2>6
      <4> QED
        BY <3>3, <4>1
    <3> QED
      BY <3>2, <3>3
  <2>8. CASE y = "lf"
    <3>1. m + 1 \in Since(b, m + 1)
      BY <2>4, <2>8
    <3>2. \A j \in B : ~(m + 1 < j)
      BY <1>1, <2>1, <2>3
    <3>3. ~Blanks(b, m + 1)
      BY <3>1, <3>2 DEF Blanks
    <3> QED
      BY <1>4, <2>2, <2>7, <2>8, <3>3
  <2>9. CASE y = "wsp"
    <3>1. m + 1 \in B /\ \A k \in Since(b, m + 1) : k < m + 1
      BY <2>1, <2>3, <2>6, <2>7, <2>9
    <3>2. Blanks(b, m + 1)
      BY <3>1, <2>9 DEF Blanks
    <3> QED
      BY <1>4, <2>2, <2>7, <2>9, <3>2
  <2>10. CASE y = "cr"
    <3>1. Since(b, m + 1) = Ends(b, m + 1)
      BY <2>7, <2>10
    <3>2. Blanks(b, m + 1) <=> Spaced(b, m + 1)
      BY <2>1, <2>10, <3>1 DEF Blanks, Spaced
    <3> QED
      BY <1>4, <2>2, <2>7, <2>10, <3>2
  <2> QED
    BY <1>2, <1>4, <2>8, <2>9, <2>10 DEF Bytes
<1> QED
  BY <1>3, <1>4

-----------------------------------------------------------------------------
(* What the operations of the canonicalizer make of what it holds *)

Space(blanks) == IF blanks THEN <<"sp">> ELSE <<>>

(* At most one space. *)
LEMMA SpaceType ==
    ASSUME NEW w
    PROVE  Space(w) \in Seq(Hashed)
  BY Atoms DEF Space

(* A line end *)
LEMMA EndLineHolds ==
    ASSUME NEW c \in Canons, NEW t \in Seq(Hashed), NEW any \in BOOLEAN, NEW n \in Nat,
           NEW w, Holds(c, t, any, n, w)
    PROVE  /\ EndLine(c) \in Canons /\ EndLine(c).saw_cr = c.saw_cr
           /\ Holds(EndLine(c), t, any, n + 1, FALSE)
<1>1. "crlf" \in Hashed /\ c.hasher \in Seq(Hashed) /\ c.pending_empty_lines \in Nat
  BY DEF Hashed, Canons
<1>2. Append(c.hasher, "crlf") \in Seq(Hashed)
  BY <1>1, AppendProperties
<1>3. CASE c.line_has_content
  <2>1. any /\ n = 0 /\ c.hasher = t /\ c.pending_empty_lines = 0
    BY <1>3 DEF Holds
  <2>2. EndLine(c) = [c EXCEPT !.pending_wsp = FALSE, !.hasher = Append(@, "crlf"),
                              !.line_has_content = FALSE]
    BY <1>3 DEF EndLine
  <2> DEFINE r == EndLine(c)
  <2>3. /\ ~r.pending_wsp /\ ~r.line_has_content /\ r.hasher = Append(t, "crlf")
        /\ r.pending_empty_lines = 0 /\ r.saw_cr = c.saw_cr
    BY <2>1, <2>2 DEF Canons
  <2>4. r \in Canons
    BY <1>2, <2>2 DEF Canons
  <2> HIDE DEF r
  <2>5. any => t # <<>>
    BY DEF Holds
  <2>6. Holds(r, t, any, n + 1, FALSE)
    BY <2>1, <2>3, <2>5 DEF Holds
  <2> QED
    BY <2>3, <2>4, <2>6 DEF r
<1>4. CASE ~c.line_has_content
  <2>1. ~(any /\ n = 0)
    BY <1>4 DEF Holds
  <2>2. EndLine(c) = [c EXCEPT !.pending_wsp = FALSE, !.pending_empty_lines = @ + 1]
    BY <1>4 DEF EndLine
  <2> DEFINE r == EndLine(c)
  <2>3. /\ ~r.pending_wsp /\ ~r.line_has_content /\ r.hasher = c.hasher
        /\ r.pending_empty_lines = c.pending_empty_lines + 1 /\ r.saw_cr = c.saw_cr
    BY <1>4, <2>2 DEF Canons
  <2>4. r \in Canons
    <3>1. c.pending_empty_lines + 1 \in Nat
      BY <1>1
    <3> QED
      BY <3>1, <2>2 DEF Canons
  <2> HIDE DEF r
  <2>5. /\ c.hasher = (IF any /\ n > 0 THEN Append(t, "crlf") ELSE t)
        /\ c.pending_empty_lines = (IF any /\ n > 0 THEN n - 1 ELSE n)
        /\ any => t # <<>>
        /\ ~any => t = <<>>
    BY DEF Holds
  <2>6. Holds(r, t, any, n + 1, FALSE)
    BY <2>1, <2>3, <2>5 DEF Holds
  <2> QED
    BY <2>3, <2>4, <2>6 DEF r
<1> QED
  BY <1>3, <1>4

(* One line end more *)
LEMMA BreaksPlus ==
    ASSUME NEW n \in Nat \ {0}, NEW t \in Seq(Hashed)
    PROVE  Append(t, "crlf") \o Breaks(n - 1) = t \o Breaks(n)
<1> DEFINE p == Breaks(n - 1)
           q == Breaks(n)
           a == Append(t, "crlf")
           x == a \o p
           y == t \o q
<1>1. n - 1 \in Nat /\ n \in Nat /\ "crlf" \in Hashed /\ Len(t) \in Nat
  BY LenProperties DEF Hashed
<1>2. /\ p \in Seq(Hashed) /\ Len(p) = n - 1 /\ \A i \in 1..(n - 1) : p[i] = "crlf"
      /\ q \in Seq(Hashed) /\ Len(q) = n /\ \A i \in 1..n : q[i] = "crlf"
  BY <1>1, BreaksType
<1> HIDE DEF p, q
<1>3. /\ a \in Seq(Hashed) /\ Len(a) = Len(t) + 1
      /\ \A i \in 1..Len(t) : a[i] = t[i]
      /\ a[Len(t) + 1] = "crlf"
  BY <1>1, AppendProperties
<1> HIDE DEF a
<1>4. /\ x \in Seq(Hashed) /\ Len(x) = Len(t) + n
      /\ \A i \in 1..(Len(t) + n) : x[i] = IF i <= Len(t) + 1 THEN a[i] ELSE p[i - (Len(t) + 1)]
  <2>1. Len(a) + Len(p) = Len(t) + n
    BY <1>1, <1>2, <1>3
  <2>2. /\ x \in Seq(Hashed) /\ Len(x) = Len(a) + Len(p)
        /\ \A i \in 1..(Len(a) + Len(p)) : x[i] = IF i <= Len(a) THEN a[i] ELSE p[i - Len(a)]
    BY <1>2, <1>3, ConcatProperties
  <2> QED
    BY <2>1, <2>2, <1>3
<1>5. /\ y \in Seq(Hashed) /\ Len(y) = Len(t) + n
      /\ \A i \in 1..(Len(t) + n) : y[i] = IF i <= Len(t) THEN t[i] ELSE q[i - Len(t)]
  BY <1>1, <1>2, <1>3, ConcatProperties
<1> HIDE DEF x, y
<1>6. ASSUME NEW i \in 1..(Len(t) + n) PROVE x[i] = y[i]
  <2>1. CASE i <= Len(t)
    BY <1>1, <1>3, <1>4, <1>5, <2>1
  <2>2. CASE i = Len(t) + 1
    <3>1. x[i] = "crlf"
      BY <2>2, <1>1, <1>3, <1>4
    <3>2. i - Len(t) \in 1..n /\ ~(i <= Len(t))
      BY <2>2, <1>1
    <3> QED
      BY <3>1, <3>2, <1>2, <1>5
  <2>3. CASE i > Len(t) + 1
    <3>1. i - Len(t) \in 1..n /\ i - (Len(t) + 1) \in 1..(n - 1)
          /\ ~(i <= Len(t)) /\ ~(i <= Len(t) + 1)
      BY <2>3, <1>1
    <3> QED
      BY <3>1, <1>2, <1>4, <1>5
  <2> QED
    BY <2>1, <2>2, <2>3, <1>1
<1>7. x = y
  BY <1>1, <1>4, <1>5, <1>6, SeqEqual
<1> QED
  BY <1>7 DEF x, y, a, p, q

(* No line ends. *)
LEMMA NoBreaks == Breaks(0) = <<>>
<1>1. Breaks(0) \in Seq(Hashed) /\ Len(Breaks(0)) = 0
  BY BreaksType
<1> QED
  BY <1>1, EmptySeq

(* Content *)
LEMMA EmitHolds ==
    ASSUME NEW c \in Canons, NEW t \in Seq(Hashed), NEW any \in BOOLEAN, NEW n \in Nat,
           NEW w, Holds(c, t, any, n, w), NEW xs \in Seq(Hashed), xs # <<>>
    PROVE  /\ EmitContent(c, xs) \in Canons /\ EmitContent(c, xs).saw_cr = c.saw_cr
           /\ Holds(EmitContent(c, xs), t \o (Breaks(n) \o Space(w) \o xs), TRUE, 0, FALSE)
<1> DEFINE e == IF c.line_has_content THEN 0 ELSE c.pending_empty_lines
           h == c.hasher \o Breaks(e) \o Space(c.pending_wsp) \o xs
           z == t \o (Breaks(n) \o Space(w) \o xs)
           r == EmitContent(c, xs)
<1>1. c.hasher \in Seq(Hashed) /\ c.pending_empty_lines \in Nat
  BY DEF Canons
<1>2. r = [c EXCEPT !.hasher = h, !.pending_wsp = FALSE,
                    !.pending_empty_lines = @ - e, !.line_has_content = TRUE]
  BY DEF EmitContent, Breaks, Space
<1>3. Space(c.pending_wsp) = Space(w)
  BY DEF Holds, Space
<1>4. e \in Nat /\ c.pending_empty_lines - e = 0
  BY <1>1 DEF Holds
<1>5. c.hasher \o Breaks(e) = t \o Breaks(n)
  <2>1. CASE any /\ n = 0
    BY <2>1 DEF Holds
  <2>2. CASE any /\ n > 0
    <3>1. c.hasher = Append(t, "crlf") /\ e = n - 1
      BY <2>2 DEF Holds
    <3> QED
      BY <3>1, <2>2, BreaksPlus
  <2>3. CASE ~any
    <3>1. c.hasher = t /\ e = n
      BY <2>3 DEF Holds
    <3> QED
      BY <3>1
  <2>4. any \/ ~any
    OBVIOUS
  <2>5. n = 0 \/ n > 0
    OBVIOUS
  <2> QED
    BY <2>1, <2>2, <2>3, <2>4, <2>5, Zenon
<1>6. Breaks(n) \in Seq(Hashed) /\ Space(w) \in Seq(Hashed)
  BY BreaksType, SpaceType
<1>7. h = t \o Breaks(n) \o Space(w) \o xs
  BY <1>3, <1>5
<1>8. t \o Breaks(n) \o Space(w) \o xs = z
  <2> DEFINE q == Breaks(n)
             s == Space(w)
  <2>1. q \in Seq(Hashed) /\ s \in Seq(Hashed)
    BY <1>6
  <2> HIDE DEF q, s
  <2>2. t \o q \o s \o xs = t \o (q \o s \o xs)
    BY <2>1
  <2> QED
    BY <2>2 DEF q, s
<1>9. z \in Seq(Hashed) /\ z # <<>>
  <2> DEFINE q == Breaks(n) \o Space(w)
             u == q \o xs
  <2>1. q \in Seq(Hashed) /\ Len(q) \in Nat
    BY <1>6, ConcatProperties, LenProperties
  <2> HIDE DEF q
  <2>2. Len(xs) \in Nat /\ Len(xs) # 0 /\ Len(t) \in Nat
    BY EmptySeq, LenProperties
  <2>3. u \in Seq(Hashed) /\ Len(u) = Len(q) + Len(xs)
    BY <2>1, ConcatProperties
  <2> HIDE DEF u
  <2>4. t \o u \in Seq(Hashed) /\ Len(t \o u) = Len(t) + Len(u)
    BY <2>3, ConcatProperties
  <2>5. t \o u # <<>>
    BY <2>1, <2>2, <2>3, <2>4
  <2> QED
    BY <2>4, <2>5 DEF u, q
<1> HIDE DEF e, h, z
<1>10. h = z
  BY <1>7, <1>8
<1> HIDE DEF r
<1> QED
  <2>0. /\ ~r.pending_wsp /\ r.line_has_content /\ r.hasher = h
        /\ r.pending_empty_lines = c.pending_empty_lines - e /\ r.saw_cr = c.saw_cr
    BY <1>2 DEF Canons
  <2>1. r \in Canons
    <3>1. c.pending_empty_lines - e \in Nat /\ h \in Seq(Hashed)
      BY <1>4, <1>9, <1>10
    <3> QED
      BY <3>1, <1>2 DEF Canons
  <2>2. Holds(r, z, TRUE, 0, FALSE)
    BY <2>0, <1>4, <1>9, <1>10 DEF Holds
  <2> QED
    BY <2>0, <2>1, <2>2 DEF r, z

-----------------------------------------------------------------------------
(* One byte at a time *)

Settled(c) == IF c.saw_cr THEN AfterCr(c) ELSE c

(* The canonicalizer before it looks at the next byte *)
LEMMA Settle ==
    ASSUME NEW b \in Seq(Bytes), NEW m \in 0..(Len(b) - 1), NEW c \in Canons, Agrees(c, b, m)
    PROVE  /\ Settled(c) \in Canons /\ ~Settled(c).saw_cr
           /\ IF c.saw_cr /\ b[m + 1] = "lf"
              THEN Holds(Settled(c), Text(b, m), HasContent(b, m),
                         Cardinality(Ends(b, m + 1)) + 1, FALSE)
              ELSE Holds(Settled(c), Text(b, m), HasContent(b, m),
                         Cardinality(Ends(b, m + 1)), Spaced(b, m + 1))
<1> DEFINE t == Text(b, m)
           h == HasContent(b, m)
           n == Cardinality(Since(b, m))
           d == Settled(c)
<1>1. m \in Nat
  BY LenProperties
<1>2. t \in Seq(Hashed) /\ h \in BOOLEAN /\ n \in Nat /\ IsFiniteSet(Since(b, m))
  BY <1>1, TextTypes, EndsFinite DEF HasContent
<1>3. Holds(c, t, h, n, Blanks(b, m)) /\ (c.saw_cr <=> m > 0 /\ b[m] = "cr")
  BY DEF Agrees
<1> HIDE DEF t, h, n
<1>4. CASE c.saw_cr
  <2> DEFINE e == [c EXCEPT !.saw_cr = FALSE]
  <2>1. e \in Canons /\ ~e.saw_cr
    BY DEF Canons
  <2>2. Holds(e, t, h, n, Blanks(b, m))
    <3>1. /\ e.pending_wsp = c.pending_wsp /\ e.line_has_content = c.line_has_content
          /\ e.hasher = c.hasher /\ e.pending_empty_lines = c.pending_empty_lines
      BY DEF Canons
    <3> QED
      BY <3>1, <1>3 DEF Holds
  <2>3. d = EndLine(e)
    BY <1>4 DEF Settled, AfterCr
  <2> HIDE DEF e
  <2>4. d \in Canons /\ ~d.saw_cr /\ Holds(d, t, h, n + 1, FALSE)
    BY <2>1, <2>2, <2>3, <1>2, EndLineHolds
  <2>5. CASE b[m + 1] = "lf"
    <3>1. Ends(b, m + 1) = Since(b, m)
      BY <2>5, Resolve DEF Resolved
    <3>2. Cardinality(Ends(b, m + 1)) = n
      BY <3>1 DEF n
    <3> QED
      BY <1>4, <2>4, <2>5, <3>2 DEF t, h
  <2>6. CASE b[m + 1] # "lf"
    <3>1. Ends(b, m + 1) = Since(b, m) \cup {m} /\ m \notin Since(b, m) /\ ~Spaced(b, m + 1)
      BY <2>6, <1>3, <1>4, Resolve DEF Resolved
    <3>2. Cardinality(Ends(b, m + 1)) = n + 1
      BY <3>1, <1>2, FS_AddElement DEF n
    <3>3. Holds(d, t, h, n + 1, Spaced(b, m + 1))
      BY <2>4, <3>1 DEF Holds
    <3> QED
      BY <2>4, <2>6, <3>2, <3>3 DEF t, h
  <2> QED
    BY <2>5, <2>6
<1>5. CASE ~c.saw_cr
  <2>1. Ends(b, m + 1) = Since(b, m) /\ (Spaced(b, m + 1) <=> Blanks(b, m))
    BY <1>3, <1>5, Resolve DEF Resolved
  <2>2. d = c
    BY <1>5 DEF Settled
  <2>3. Holds(d, t, h, n, Spaced(b, m + 1))
    BY <1>3, <2>1, <2>2 DEF Holds
  <2>4. Cardinality(Ends(b, m + 1)) = n
    BY <2>1 DEF n
  <2> QED
    BY <1>5, <2>2, <2>3, <2>4 DEF t, h
<1> QED
  BY <1>4, <1>5

(* The iteration of `update` on one byte *)
Byte(c, y) ==
    CASE y = "x" -> EmitContent(Settled(c), <<"x">>)
      [] y = "wsp" -> [Settled(c) EXCEPT !.pending_wsp = TRUE]
      [] y = "cr" -> [Settled(c) EXCEPT !.saw_cr = TRUE]
      [] y = "lf" -> IF c.saw_cr THEN Settled(c) ELSE EndLine(Settled(c))

(* The machine agrees with the definition by positions after one more byte. *)
LEMMA OneByte ==
    ASSUME NEW b \in Seq(Bytes), NEW m \in 0..(Len(b) - 1), NEW c \in Canons, Agrees(c, b, m)
    PROVE  Byte(c, b[m + 1]) \in Canons /\ Agrees(Byte(c, b[m + 1]), b, m + 1)
<1> DEFINE t == Text(b, m)
           h == HasContent(b, m)
           n == Cardinality(Ends(b, m + 1))
           w == Spaced(b, m + 1)
           d == Settled(c)
           y == b[m + 1]
           r == Byte(c, y)
<1>1. m \in Nat /\ m + 1 > 0 /\ m + 1 \in 1..Len(b)
  BY LenProperties
<1>2. t \in Seq(Hashed) /\ h \in BOOLEAN /\ n \in Nat /\ IsFiniteSet(Ends(b, m + 1))
  BY <1>1, TextTypes, EndsFinite DEF HasContent
<1>3. y \in Bytes
  BY <1>1, ElementOfSeq
<1>4. /\ d \in Canons /\ ~d.saw_cr
      /\ IF c.saw_cr /\ y = "lf" THEN Holds(d, t, h, n + 1, FALSE) ELSE Holds(d, t, h, n, w)
  BY Settle
<1>5. Text(b, m + 1) = t \o Part(b, m + 1)
  BY <1>1, TextTypes
<1> HIDE DEF d
<1>6. CASE y = "x"
  <2>1. r = EmitContent(d, <<"x">>)
    BY <1>6 DEF Byte, d
  <2>2. Holds(d, t, h, n, w)
    BY <1>4, <1>6
  <2>3. <<"x">> \in Seq(Hashed) /\ <<"x">> # <<>>
    BY Atoms
  <2>4. /\ r \in Canons /\ r.saw_cr = d.saw_cr
        /\ Holds(r, t \o (Breaks(n) \o Space(w) \o <<"x">>), TRUE, 0, FALSE)
    <3> DEFINE xs == <<"x">>
    <3>1. d \in Canons /\ t \in Seq(Hashed) /\ h \in BOOLEAN /\ n \in Nat
      BY <1>2, <1>4
    <3>2. xs \in Seq(Hashed) /\ xs # <<>> /\ r = EmitContent(d, xs)
      BY <2>1, <2>3
    <3> HIDE DEF t, h, n, w, r, xs
    <3>3. /\ EmitContent(d, xs) \in Canons /\ EmitContent(d, xs).saw_cr = d.saw_cr
          /\ Holds(EmitContent(d, xs), t \o (Breaks(n) \o Space(w) \o xs), TRUE, 0, FALSE)
      BY <2>2, <3>1, <3>2, EmitHolds
    <3> QED
      BY <3>2, <3>3 DEF xs
  <2>5. Part(b, m + 1) = Breaks(n) \o Space(w) \o <<"x">>
    BY <1>1, <1>6, PartType DEF Space
  <2>6. HasContent(b, m + 1) /\ Since(b, m + 1) = {} /\ ~Blanks(b, m + 1)
    BY <1>6, OneMore
  <2>7. Cardinality(Since(b, m + 1)) = 0
    BY <2>6, FS_EmptySet
  <2>8. Holds(r, Text(b, m + 1), TRUE, 0, FALSE)
    BY <1>5, <2>4, <2>5
  <2>9. Holds(r, Text(b, m + 1), HasContent(b, m + 1), 0, Blanks(b, m + 1))
    <3> HIDE DEF r
    <3> QED
      BY <2>6, <2>8 DEF Holds
  <2> HIDE DEF r
  <2> QED
    BY <1>1, <1>4, <1>6, <2>4, <2>7, <2>9 DEF Agrees, r
<1>7. CASE y # "x"
  <2>1. Text(b, m + 1) = t
    <3>1. Part(b, m + 1) = <<>>
      BY <1>1, <1>7, PartType
    <3> HIDE DEF t
    <3>2. t \o <<>> = t
      BY <1>2, ConcatEmptySeq
    <3> QED
      BY <3>1, <3>2, <1>5
  <2>2. /\ HasContent(b, m + 1) <=> h
        /\ Since(b, m + 1) = IF y = "lf" THEN Ends(b, m + 1) \cup {m + 1} ELSE Ends(b, m + 1)
        /\ Blanks(b, m + 1) <=> y # "lf" /\ (y = "wsp" \/ w)
    BY <1>7, OneMore
  <2>3. CASE y = "lf"
    <3>1. m + 1 \notin Ends(b, m + 1)
      BY <1>1 DEF Ends, Gap
    <3>2. Cardinality(Since(b, m + 1)) = n + 1
      BY <1>2, <2>2, <2>3, <3>1, FS_AddElement
    <3>3. r \in Canons /\ ~r.saw_cr /\ Holds(r, t, h, n + 1, FALSE)
      <4>1. CASE c.saw_cr
        <5>1. r = d
          BY <2>3, <4>1 DEF Byte, d
        <5> QED
          BY <1>4, <2>3, <4>1, <5>1
      <4>2. CASE ~c.saw_cr
        <5>1. r = EndLine(d)
          BY <2>3, <4>2 DEF Byte, d
        <5>2. Holds(d, t, h, n, w)
          BY <1>4, <4>2
        <5> HIDE DEF r, t, h, n, w
        <5> QED
          BY <1>2, <1>4, <5>1, <5>2, EndLineHolds
      <4> QED
        BY <4>1, <4>2
    <3> HIDE DEF r, h, n
    <3>4. Holds(r, t, HasContent(b, m + 1), n + 1, Blanks(b, m + 1))
      BY <2>2, <2>3, <3>3 DEF Holds
    <3> QED
      BY <1>1, <2>1, <2>3, <3>2, <3>3, <3>4 DEF Agrees, r
  <2>4. CASE y = "wsp"
    <3>1. r = [d EXCEPT !.pending_wsp = TRUE]
      BY <2>4 DEF Byte, d
    <3>2. Holds(d, t, h, n, w) /\ Cardinality(Since(b, m + 1)) = n
      BY <1>4, <2>2, <2>4
    <3> HIDE DEF r, t, h, n, w
    <3>3. /\ r \in Canons /\ ~r.saw_cr /\ r.pending_wsp
          /\ r.line_has_content = d.line_has_content
          /\ r.hasher = d.hasher /\ r.pending_empty_lines = d.pending_empty_lines
      BY <1>4, <3>1 DEF Canons
    <3>4. Holds(r, t, h, n, TRUE)
      BY <3>2, <3>3 DEF Holds
    <3>5. Holds(r, t, HasContent(b, m + 1), n, Blanks(b, m + 1))
      BY <2>2, <2>4, <3>4 DEF Holds
    <3> QED
      BY <1>1, <2>1, <2>4, <3>2, <3>3, <3>5 DEF Agrees, r
  <2>5. CASE y = "cr"
    <3>1. r = [d EXCEPT !.saw_cr = TRUE]
      BY <2>5 DEF Byte, d
    <3>2. Holds(d, t, h, n, w) /\ Cardinality(Since(b, m + 1)) = n
      BY <1>4, <2>2, <2>5
    <3> HIDE DEF r, t, h, n, w
    <3>3. /\ r \in Canons /\ r.saw_cr /\ r.pending_wsp = d.pending_wsp
          /\ r.line_has_content = d.line_has_content
          /\ r.hasher = d.hasher /\ r.pending_empty_lines = d.pending_empty_lines
      BY <1>4, <3>1 DEF Canons
    <3>4. Holds(r, t, h, n, w)
      BY <3>2, <3>3 DEF Holds
    <3>5. Holds(r, t, HasContent(b, m + 1), n, Blanks(b, m + 1))
      BY <2>2, <2>5, <3>4 DEF Holds
    <3> QED
      BY <1>1, <2>1, <2>5, <3>2, <3>3, <3>5 DEF Agrees, r
  <2> QED
    BY <1>3, <1>7, <2>3, <2>4, <2>5 DEF Bytes
<1> QED
  BY <1>6, <1>7

-----------------------------------------------------------------------------
(* A run of bytes at a time *)

LEMMA RunLengthIs ==
    ASSUME NEW S, NEW s \in Seq(Bytes)
    PROVE  /\ RunLength(S, s) \in 0..Len(s)
           /\ \A i \in 1..RunLength(S, s) : s[i] \in S
           /\ RunLength(S, s) < Len(s) => s[RunLength(S, s) + 1] \notin S
<1> DEFINE T == {n \in 0..Len(s) : \A i \in 1..n : s[i] \in S}
           x == Max(T)
<1>1. Len(s) \in Nat
  BY LenProperties
<1>2. T \in SUBSET (0..Len(s)) /\ 0 \in T
  BY <1>1
<1>3. x \in T /\ \A y \in T : y <= x
  <2> HIDE DEF T
  <2> QED
    BY <1>1, <1>2, MaxIsGreatest
<1> HIDE DEF x
<1>4. x \in 0..Len(s) /\ \A i \in 1..x : s[i] \in S
  BY <1>3
<1>5. ASSUME x < Len(s) PROVE s[x + 1] \notin S
  <2>1. SUFFICES ASSUME s[x + 1] \in S PROVE FALSE
    OBVIOUS
  <2>2. x + 1 \in 0..Len(s) /\ ~(x + 1 <= x)
    BY <1>1, <1>4, <1>5
  <2>3. \A i \in 1..(x + 1) : i \in 1..x \/ i = x + 1
    BY <1>4
  <2>4. x + 1 \in T
    BY <1>4, <2>1, <2>2, <2>3
  <2> QED
    BY <1>3, <2>2, <2>4
<1>6. \E n \in 0..Len(s) : (\A i \in 1..n : s[i] \in S) /\ (n < Len(s) => s[n + 1] \notin S)
  BY <1>4, <1>5
<1> QED
  BY <1>6 DEF RunLength

(* What a byte of content makes of the machine, field by field. *)
LEMMA Rewritten ==
    ASSUME NEW d \in Canons, NEW g, NEW z, NEW r,
           r = [d EXCEPT !.hasher = g, !.pending_wsp = FALSE,
                         !.pending_empty_lines = z, !.line_has_content = TRUE]
    PROVE  r = [hasher |-> g, pending_wsp |-> FALSE, pending_empty_lines |-> z,
                line_has_content |-> TRUE, saw_cr |-> d.saw_cr]
  BY DEF Canons

(* Two emissions in one line are one *)
LEMMA EmitTwice ==
    ASSUME NEW c \in Canons, NEW xs \in Seq(Hashed)
    PROVE  EmitContent(EmitContent(c, xs), <<"x">>) = EmitContent(c, Append(xs, "x"))
<1> DEFINE e == IF c.line_has_content THEN 0 ELSE c.pending_empty_lines
           q == Breaks(e)
           s == Space(c.pending_wsp)
           y == <<"x">>
           h == c.hasher \o q \o s \o xs
           g == c.hasher \o q \o s \o Append(xs, "x")
           d == EmitContent(c, xs)
<1>1. c.hasher \in Seq(Hashed) /\ c.pending_empty_lines \in Nat /\ e \in Nat
  BY DEF Canons
<1>2. q \in Seq(Hashed) /\ s \in Seq(Hashed) /\ y \in Seq(Hashed)
  BY <1>1, BreaksType, SpaceType, Atoms
<1>3. d = [c EXCEPT !.hasher = h, !.pending_wsp = FALSE,
                    !.pending_empty_lines = @ - e, !.line_has_content = TRUE]
  BY DEF EmitContent, Breaks, Space
<1>4. EmitContent(c, Append(xs, "x"))
        = [c EXCEPT !.hasher = g, !.pending_wsp = FALSE,
                    !.pending_empty_lines = @ - e, !.line_has_content = TRUE]
  BY DEF EmitContent, Breaks, Space
<1> HIDE DEF e, q, s
<1>5. /\ d.hasher = h /\ ~d.pending_wsp /\ d.line_has_content
      /\ d.pending_empty_lines = c.pending_empty_lines - e /\ d.saw_cr = c.saw_cr
  BY <1>3 DEF Canons
<1>6. h \o <<>> \o <<>> \o y = g
  <2> DEFINE k == c.hasher \o q \o s
             a == Append(xs, "x")
  <2>1. k \in Seq(Hashed)
    BY <1>1, <1>2
  <2>2. h = k \o xs /\ g = k \o a
    OBVIOUS
  <2>3. h \in Seq(Hashed)
    BY <2>1, <2>2, ConcatProperties
  <2>4. h \o <<>> \o <<>> \o y = h \o y
    <3> HIDE DEF h
    <3> QED
      BY <2>3, ConcatEmptySeq
  <2>5. a = xs \o y
    BY AppendIsConcat DEF Hashed
  <2> HIDE DEF k, a, h, g, y
  <2>6. (k \o xs) \o y = k \o (xs \o y)
    BY <2>1, <1>2
  <2> QED
    BY <2>2, <2>4, <2>5, <2>6
<1> HIDE DEF h, g
<1>7. EmitContent(d, y) = [d EXCEPT !.hasher = d.hasher \o <<>> \o <<>> \o y, !.pending_wsp = FALSE,
                              !.pending_empty_lines = @ - 0, !.line_has_content = TRUE]
  BY <1>5, NoBreaks DEF EmitContent, Breaks
<1> DEFINE z == c.pending_empty_lines - e
<1>8. z - 0 = z
  BY <1>1 DEF e
<1>9. d = [hasher |-> h, pending_wsp |-> FALSE, pending_empty_lines |-> z,
           line_has_content |-> TRUE, saw_cr |-> c.saw_cr]
  BY <1>3 DEF Canons
<1>10. EmitContent(c, Append(xs, "x"))
         = [hasher |-> g, pending_wsp |-> FALSE, pending_empty_lines |-> z,
            line_has_content |-> TRUE, saw_cr |-> c.saw_cr]
  BY <1>4 DEF Canons
<1>11. EmitContent(d, y) = [d EXCEPT !.hasher = g, !.pending_wsp = FALSE,
                              !.pending_empty_lines = z, !.line_has_content = TRUE]
  BY <1>5, <1>6, <1>7, <1>8
<1> HIDE DEF d, z, y
<1>12. [d EXCEPT !.hasher = g, !.pending_wsp = FALSE,
                 !.pending_empty_lines = z, !.line_has_content = TRUE]
         = [hasher |-> g, pending_wsp |-> FALSE, pending_empty_lines |-> z,
            line_has_content |-> TRUE, saw_cr |-> c.saw_cr]
  <2>1. h \in Seq(Hashed)
    <3>1. c.hasher \o q \o s \in Seq(Hashed)
      BY <1>1, <1>2
    <3> QED
      BY <3>1, ConcatProperties DEF h
  <2>2. z \in Nat
    BY <1>1 DEF z, e
  <2>3. d \in Canons
    BY <1>9, <2>1, <2>2 DEF Canons
  <2>4. d.saw_cr = c.saw_cr
    BY <1>9
  <2>5. [d EXCEPT !.hasher = g, !.pending_wsp = FALSE,
                  !.pending_empty_lines = z, !.line_has_content = TRUE]
          = [hasher |-> g, pending_wsp |-> FALSE, pending_empty_lines |-> z,
             line_has_content |-> TRUE, saw_cr |-> d.saw_cr]
    BY <2>3, Rewritten
  <2> QED
    BY <2>4, <2>5
<1> QED
  BY <1>10, <1>11, <1>12 DEF d, y

(* r is what remains of b after its first m bytes *)
Remains(r, b, m) ==
    /\ m \in 0..Len(b) /\ Len(r) = Len(b) - m
    /\ \A i \in 1..Len(r) : r[i] = b[m + i]

(* The rest of a chunk after k bytes of it. *)
LEMMA Advance ==
    ASSUME NEW b \in Seq(Bytes), NEW r \in Seq(Bytes), NEW m, Remains(r, b, m),
           NEW k \in 0..Len(r), NEW u, Len(u) = Len(r) - k,
           \A i \in 1..Len(u) : u[i] = r[k + i]
    PROVE  Remains(u, b, m + k)
<1>1. Len(b) \in Nat /\ Len(r) \in Nat /\ m \in 0..Len(b) /\ Len(r) = Len(b) - m
  BY LenProperties DEF Remains
<1>2. m + k \in 0..Len(b) /\ Len(u) = Len(b) - (m + k)
  BY <1>1
<1>3. ASSUME NEW i \in 1..Len(u) PROVE u[i] = b[(m + k) + i]
  <2>1. k + i \in 1..Len(r) /\ m + (k + i) = (m + k) + i
    BY <1>1, <1>2
  <2>2. r[k + i] = b[m + (k + i)]
    BY <2>1 DEF Remains
  <2> QED
    BY <2>1, <2>2
<1> QED
  BY <1>2, <1>3 DEF Remains

(* A run of content *)
LEMMA RunOfContent ==
    ASSUME NEW b \in Seq(Bytes), NEW r \in Seq(Bytes), NEW m, Remains(r, b, m),
           NEW c \in Canons, Agrees(c, b, m),
           NEW n \in 1..Len(r), \A i \in 1..n : r[i] = "x"
    PROVE  /\ EmitContent(Settled(c), SubSeq(r, 1, n)) \in Canons
           /\ Agrees(EmitContent(Settled(c), SubSeq(r, 1, n)), b, m + n)
<1> DEFINE d == Settled(c)
           run(k) == SubSeq(r, 1, k)
           e(k) == EmitContent(d, run(k))
           S == {k \in Nat : k > 0 => e(k) \in Canons /\ Agrees(e(k), b, m + k)}
<1>1. Len(b) \in Nat /\ Len(r) \in Nat /\ m \in 0..Len(b) /\ Len(r) = Len(b) - m /\ n \in Nat
  BY LenProperties DEF Remains
<1>2. m \in 0..(Len(b) - 1)
  BY <1>1
<1>3. d \in Canons /\ ~d.saw_cr
  BY <1>2, Settle
<1>4. ASSUME NEW k \in 1..n
      PROVE  /\ m + k \in 1..Len(b) /\ m + k - 1 \in 0..(Len(b) - 1)
             /\ (m + k - 1) + 1 = m + k /\ b[m + k] = "x"
  <2>1. m + k \in 1..Len(b) /\ m + k - 1 \in 0..(Len(b) - 1) /\ (m + k - 1) + 1 = m + k
    BY <1>1
  <2>2. k \in 1..Len(r) /\ r[k] = "x"
    BY <1>1
  <2> QED
    BY <2>1, <2>2 DEF Remains
<1>5. ASSUME NEW k \in 0..n PROVE run(k) \in Seq(Bytes) /\ run(k) \in Seq(Hashed) /\ Len(run(k)) = k
                                  /\ \A i \in 1..k : run(k)[i] = "x"
  <2>1. k \in 0..Len(r)
    BY <1>1
  <2>2. run(k) \in Seq(Bytes) /\ Len(run(k)) = k /\ \A i \in 1..k : run(k)[i] = r[i]
    BY <2>1, PrefixTypes
  <2> HIDE DEF run
  <2>3. \A i \in 1..k : run(k)[i] = "x"
    BY <1>1, <2>2
  <2>4. \A i \in 1..Len(run(k)) : run(k)[i] \in Hashed
    BY <2>2, <2>3 DEF Hashed
  <2>5. run(k) \in [1..k -> Hashed]
    BY <2>2, <2>3 DEF Hashed
  <2>6. k \in Nat
    OBVIOUS
  <2>7. run(k) \in Seq(Hashed)
    BY <2>5, <2>6, TableIsSeq
  <2> QED
    BY <2>2, <2>3, <2>7
<1>6. 0 \in S
  OBVIOUS
<1>7. ASSUME NEW k \in 1..n, k - 1 \in S PROVE k \in S
  <2>1. CASE k = 1
    <3>1. run(k) = <<"x">>
      <4> DEFINE u == run(k)
                 v == <<"x">>
      <4>1. u \in Seq(Hashed) /\ Len(u) = 1 /\ \A i \in 1..1 : u[i] = "x"
        <5>1. k \in 0..n /\ k = 1
          BY <2>1
        <5> HIDE DEF run
        <5> QED
          BY <5>1, <1>5
      <4>2. v \in Seq(Hashed) /\ Len(v) = 1 /\ \A i \in 1..1 : v[i] = "x"
        BY Atoms
      <4> HIDE DEF u, v
      <4>3. u = v
        BY <4>1, <4>2, SeqEqual
      <4> QED
        BY <4>3 DEF u, v
    <3>2. b[m + 1] = "x"
      BY <1>4, <2>1
    <3>3. Byte(c, b[m + 1]) \in Canons /\ Agrees(Byte(c, b[m + 1]), b, m + 1)
      BY <1>2, OneByte
    <3>4. Byte(c, b[m + 1]) = e(k)
      BY <3>1, <3>2 DEF Byte
    <3> QED
      BY <2>1, <3>3, <3>4
  <2>2. CASE k > 1
    <3> DEFINE j == k - 1
               f == e(j)
    <3>1. j \in Nat /\ j > 0 /\ j \in 0..n /\ j + 1 = k
      BY <2>2, <1>1
    <3>2. f \in Canons /\ Agrees(f, b, m + j)
      BY <1>7, <3>1
    <3>3. m + j \in 0..(Len(b) - 1) /\ (m + j) + 1 = m + k /\ b[(m + j) + 1] = "x"
      BY <1>1, <1>4, <3>1
    <3>4. ~f.saw_cr
      <4>1. f.saw_cr = d.saw_cr
        <5> HIDE DEF d
        <5> QED
          BY <1>3 DEF EmitContent, Canons
      <4> QED
        BY <4>1, <1>3
    <3> HIDE DEF f
    <3>5. Byte(f, b[(m + j) + 1]) \in Canons /\ Agrees(Byte(f, b[(m + j) + 1]), b, (m + j) + 1)
      BY <3>2, <3>3, OneByte
    <3>6. Byte(f, b[(m + j) + 1]) = EmitContent(f, <<"x">>)
      BY <3>3, <3>4 DEF Byte, Settled
    <3>7. Append(run(j), "x") = run(k)
      <4> DEFINE u == run(k)
                 v == run(j)
                 w == Append(v, "x")
      <4>1. /\ u \in Seq(Hashed) /\ Len(u) = k /\ \A i \in 1..k : u[i] = "x"
            /\ v \in Seq(Hashed) /\ Len(v) = j /\ \A i \in 1..j : v[i] = "x"
        <5>1. k \in 0..n
          OBVIOUS
        <5> HIDE DEF run
        <5> QED
          BY <1>5, <3>1, <5>1
      <4> HIDE DEF u, v, j
      <4>2. "x" \in Hashed
        BY DEF Hashed
      <4>3. w \in Seq(Hashed) /\ Len(w) = j + 1 /\ w[j + 1] = "x" /\ \A i \in 1..j : w[i] = v[i]
        BY <4>1, <4>2, AppendProperties
      <4> HIDE DEF w
      <4>4. \A i \in 1..k : i \in 1..j \/ i = j + 1
        BY <3>1
      <4>5. \A i \in 1..k : u[i] = w[i]
        BY <4>1, <4>3, <4>4
      <4>6. u = w
        BY <3>1, <4>1, <4>3, <4>5, SeqEqual
      <4> QED
        BY <4>6 DEF u, v, w
    <3>8. EmitContent(f, <<"x">>) = e(k)
      <4>1. run(j) \in Seq(Hashed)
        BY <1>5, <3>1
      <4> HIDE DEF d, run, j
      <4> QED
        BY <1>3, <3>7, <4>1, EmitTwice DEF f
    <3>9. e(k) \in Canons /\ Agrees(e(k), b, m + k)
      <4> HIDE DEF e
      <4> QED
        BY <3>3, <3>5, <3>6, <3>8
    <3> QED
      BY <3>9
  <2> QED
    BY <2>1, <2>2
<1>8. n \in 0..n /\ n > 0
  BY <1>1
<1>9. 0..n \subseteq S
  <2> HIDE DEF S
  <2> QED
    BY <1>1, <1>6, <1>7, UpTo
<1> QED
  BY <1>8, <1>9

(* A run of white space *)
LEMMA RunOfSpace ==
    ASSUME NEW b \in Seq(Bytes), NEW r \in Seq(Bytes), NEW m, Remains(r, b, m),
           NEW c \in Canons, Agrees(c, b, m),
           NEW n \in 1..Len(r), \A i \in 1..n : r[i] = "wsp"
    PROVE  /\ [Settled(c) EXCEPT !.pending_wsp = TRUE] \in Canons
           /\ Agrees([Settled(c) EXCEPT !.pending_wsp = TRUE], b, m + n)
<1> DEFINE d == Settled(c)
           e == [d EXCEPT !.pending_wsp = TRUE]
           S == {k \in Nat : k > 0 => Agrees(e, b, m + k)}
<1>1. Len(b) \in Nat /\ Len(r) \in Nat /\ m \in 0..Len(b) /\ Len(r) = Len(b) - m /\ n \in Nat
  BY LenProperties DEF Remains
<1>2. m \in 0..(Len(b) - 1)
  BY <1>1
<1>3. d \in Canons /\ ~d.saw_cr
  BY <1>2, Settle
<1>4. ASSUME NEW k \in 1..n
      PROVE  /\ m + k \in 1..Len(b) /\ m + k - 1 \in 0..(Len(b) - 1)
             /\ (m + k - 1) + 1 = m + k /\ b[m + k] = "wsp"
  <2>1. m + k \in 1..Len(b) /\ m + k - 1 \in 0..(Len(b) - 1) /\ (m + k - 1) + 1 = m + k
    BY <1>1
  <2>2. k \in 1..Len(r) /\ r[k] = "wsp"
    BY <1>1
  <2> QED
    BY <2>1, <2>2 DEF Remains
<1>5. e \in Canons /\ ~e.saw_cr /\ [e EXCEPT !.pending_wsp = TRUE] = e
  <2> HIDE DEF d
  <2> QED
    BY <1>3 DEF Canons
<1>6. 0 \in S
  OBVIOUS
<1>7. ASSUME NEW k \in 1..n, k - 1 \in S PROVE k \in S
  <2>1. CASE k = 1
    <3>1. b[m + 1] = "wsp"
      BY <1>4, <2>1
    <3>2. Agrees(Byte(c, b[m + 1]), b, m + 1)
      BY <1>2, OneByte
    <3>3. Byte(c, b[m + 1]) = e
      BY <3>1 DEF Byte
    <3> QED
      BY <2>1, <3>2, <3>3
  <2>2. CASE k > 1
    <3> DEFINE j == k - 1
    <3>1. j \in Nat /\ j > 0 /\ j + 1 = k
      BY <2>2, <1>1
    <3> HIDE DEF e
    <3>2. Agrees(e, b, m + j)
      BY <1>7, <3>1
    <3>3. m + j \in 0..(Len(b) - 1) /\ (m + j) + 1 = m + k /\ b[(m + j) + 1] = "wsp"
      BY <1>1, <1>4, <3>1
    <3>4. Agrees(Byte(e, b[(m + j) + 1]), b, (m + j) + 1)
      BY <1>5, <3>2, <3>3, OneByte
    <3>5. Byte(e, b[(m + j) + 1]) = e
      BY <1>5, <3>3 DEF Byte, Settled
    <3> QED
      BY <3>3, <3>4, <3>5
  <2> QED
    BY <2>1, <2>2
<1>8. n \in 0..n /\ n > 0
  BY <1>1
<1>9. 0..n \subseteq S
  <2> HIDE DEF S
  <2> QED
    BY <1>1, <1>6, <1>7, UpTo
<1> QED
  BY <1>5, <1>8, <1>9

-----------------------------------------------------------------------------
(* The invariant: what has been consumed of the body is what canon holds *)
BodyInv ==
    /\ body \in Seq(Bytes) /\ rest \in Seq(Bytes) /\ canon \in Canons
    /\ Remains(rest, body, Len(body) - Len(rest))
    /\ Agrees(canon, body, Len(body) - Len(rest))

(* At first nothing has been read. *)
LEMMA BodyInitInv == BodyInit => BodyInv
<1> SUFFICES ASSUME BodyInit PROVE BodyInv
  OBVIOUS
<1>1. body = <<>> /\ rest = <<>> /\ canon = Fresh /\ Len(<<>>) = 0 /\ Len(body) - Len(rest) = 0
  BY DEF BodyInit
<1>2. body \in Seq(Bytes) /\ rest \in Seq(Bytes)
  BY <1>1, EmptySeq
<1>3. canon \in Canons
  BY <1>1, EmptySeq DEF Fresh, Canons
<1>4. Remains(<<>>, <<>>, 0)
  BY <1>1 DEF Remains
<1>5. Text(<<>>, 0) = <<>>
  <2>1. [i \in 1..0 |-> Part(<<>>, i)] = <<>>
    OBVIOUS
  <2> QED
    BY <2>1, FlattenEmpty DEF Text
<1>6. ~HasContent(<<>>, 0)
  BY DEF HasContent
<1>7. Gap(<<>>, 0 + 1) = {}
  BY DEF Gap
<1>8. Since(<<>>, 0) = {} /\ ~Blanks(<<>>, 0)
  BY <1>7 DEF Since, Blanks
<1>9. Cardinality(Since(<<>>, 0)) = 0
  BY <1>8, FS_EmptySet
<1>10. Agrees(Fresh, <<>>, 0)
  <2>1. /\ ~Fresh.pending_wsp /\ ~Fresh.line_has_content /\ Fresh.hasher = <<>>
        /\ Fresh.pending_empty_lines = 0 /\ ~Fresh.saw_cr
    BY DEF Fresh
  <2> QED
    BY <1>5, <1>6, <1>8, <1>9, <2>1 DEF Agrees, Holds
<1> QED
  BY <1>1, <1>2, <1>3, <1>4, <1>10 DEF BodyInv

(* A new chunk lengthens the body and what remains. *)
LEMMA UpdateInv == BodyInv /\ Update => BodyInv'
<1> SUFFICES ASSUME BodyInv, Update PROVE BodyInv'
  OBVIOUS
<1>1. /\ body \in Seq(Bytes) /\ rest \in Seq(Bytes) /\ canon \in Canons
      /\ Agrees(canon, body, Len(body) - Len(rest))
  BY DEF BodyInv
<1>2. rest = <<>> /\ body' = body \o rest' /\ canon' = canon
  BY DEF Update
<1>3. PICK n \in 0..(MaxBytes - Len(body)) : rest' \in [1..n -> Bytes]
  BY DEF Update
<1>4. Len(body) \in Nat /\ n \in Nat
  BY <1>1, <1>3, LenProperties, BodyAssumption
<1>5. PICK m : m = Len(body)
  OBVIOUS
<1>6. m \in Nat /\ Len(body) - Len(rest) = m
  BY <1>2, <1>4, <1>5
<1>7. rest' \in Seq(Bytes) /\ Len(rest') = n
  BY <1>3, <1>4, TableIsSeq
<1>8. /\ body' \in Seq(Bytes) /\ Len(body') = m + n
      /\ \A i \in 1..(m + n) : body'[i] = IF i <= m THEN body[i] ELSE rest'[i - m]
  BY <1>1, <1>2, <1>5, <1>7, ConcatProperties
<1>9. Len(body') - Len(rest') = m
  BY <1>4, <1>6, <1>7, <1>8
<1>10. \A i \in 1..m : body[i] = body'[i]
  BY <1>4, <1>6, <1>8
<1>11. Remains(rest', body', m)
  <2>1. m \in 0..Len(body') /\ Len(rest') = Len(body') - m
    BY <1>4, <1>6, <1>7, <1>8
  <2>2. ASSUME NEW i \in 1..n PROVE rest'[i] = body'[m + i]
    <3>1. m + i \in 1..(m + n) /\ ~(m + i <= m) /\ (m + i) - m = i
      BY <1>4, <1>6
    <3> QED
      BY <3>1, <1>8
  <2> QED
    BY <1>7, <2>1, <2>2 DEF Remains
<1>12. /\ Text(body, m) = Text(body', m) /\ (HasContent(body, m) <=> HasContent(body', m))
       /\ Since(body, m) = Since(body', m) /\ (Blanks(body, m) <=> Blanks(body', m))
  <2>1. PICK b, d : b = body /\ d = body'
    OBVIOUS
  <2>2. /\ Len(b) \in Nat /\ Len(d) \in Nat /\ m <= Len(b) /\ m <= Len(d)
        /\ \A i \in 1..m : b[i] = d[i]
    BY <1>4, <1>5, <1>6, <1>8, <1>10, <2>1
  <2>3. /\ Text(b, m) = Text(d, m) /\ (HasContent(b, m) <=> HasContent(d, m))
        /\ Since(b, m) = Since(d, m) /\ (Blanks(b, m) <=> Blanks(d, m))
    BY <1>6, <2>2, Local
  <2> QED
    BY <2>1, <2>3
<1>13. Agrees(canon, body', m)
  <2>1. Agrees(canon, body, m)
    BY <1>1, <1>6
  <2>2. m > 0 => body[m] = body'[m]
    BY <1>6, <1>10
  <2> QED
    BY <1>12, <2>1, <2>2 DEF Agrees, Holds
<1> QED
  BY <1>1, <1>2, <1>7, <1>8, <1>9, <1>11, <1>13 DEF BodyInv

(* An iteration of the loop in update. *)
LEMMA StepInv == BodyInv /\ Step => BodyInv'
<1> SUFFICES ASSUME BodyInv, Step PROVE BodyInv'
  OBVIOUS
<1>1. PICK b, r, c, m : b = body /\ r = rest /\ c = canon /\ m = Len(b) - Len(r)
  OBVIOUS
<1>2. /\ b \in Seq(Bytes) /\ r \in Seq(Bytes) /\ c \in Canons
      /\ Remains(r, b, m) /\ Agrees(c, b, m)
  BY <1>1 DEF BodyInv
<1>3. r # <<>> /\ body' = b
  BY <1>1 DEF Step
<1>4. Len(b) \in Nat /\ Len(r) \in Nat /\ Len(r) # 0
  BY <1>2, <1>3, LenProperties, EmptySeq
<1>5. m \in 0..(Len(b) - 1) /\ Len(r) = Len(b) - m /\ 1 \in 1..Len(r) /\ r[1] = b[m + 1]
  BY <1>2, <1>4 DEF Remains
<1>6. /\ Tail(r) \in Seq(Bytes) /\ Len(Tail(r)) = Len(r) - 1
      /\ \A i \in 1..Len(Tail(r)) : Tail(r)[i] = r[1 + i]
  <2>1. /\ Tail(r) \in Seq(Bytes) /\ Len(Tail(r)) = Len(r) - 1
        /\ \A i \in 1..Len(Tail(r)) : Tail(r)[i] = r[i + 1]
    BY <1>2, <1>3, HeadTailProperties
  <2>2. \A i \in 1..Len(Tail(r)) : i + 1 = 1 + i
    OBVIOUS
  <2> QED
    BY <2>1, <2>2
(* It suffices that k bytes are consumed and canon follows *)
<1>7. ASSUME NEW k \in 1..Len(r), NEW u \in Seq(Bytes), Len(u) = Len(r) - k,
             \A i \in 1..Len(u) : u[i] = r[k + i], rest' = u,
             canon' \in Canons, Agrees(canon', b, m + k)
      PROVE  BodyInv'
  <2>1. Remains(u, b, m + k)
    <3>1. k \in 0..Len(r) /\ Len(u) = Len(r) - k /\ \A i \in 1..Len(u) : u[i] = r[k + i]
      BY <1>4, <1>7
    <3> QED
      BY <1>2, <3>1, Advance
  <2>2. Len(b) - Len(u) = m + k
    BY <1>4, <1>5, <1>7
  <2> QED
    BY <1>2, <1>3, <1>7, <2>1, <2>2 DEF BodyInv
<1>8. ASSUME NEW y, y = b[m + 1], canon' = Byte(c, y), rest' = Tail(r) PROVE BodyInv'
  <2>1. canon' \in Canons /\ Agrees(canon', b, m + 1)
    BY <1>2, <1>5, <1>8, OneByte
  <2>2. PICK k, u : k = 1 /\ u = Tail(r)
    OBVIOUS
  <2>3. /\ k \in 1..Len(r) /\ u \in Seq(Bytes) /\ Len(u) = Len(r) - k
        /\ \A i \in 1..Len(u) : u[i] = r[k + i]
    BY <1>5, <1>6, <2>2
  <2>4. rest' = u /\ canon' \in Canons /\ Agrees(canon', b, m + k)
    BY <1>8, <2>1, <2>2
  <2> QED
    BY <1>7, <2>3, <2>4
<1>9. ASSUME NEW k \in 1..Len(r), rest' = Drop(k, r),
             canon' \in Canons, Agrees(canon', b, m + k)
      PROVE  BodyInv'
  <2> DEFINE u == Drop(k, r)
  <2>1. k \in 0..Len(r)
    BY <1>4
  <2>2. u \in Seq(Bytes) /\ Len(u) = Len(r) - k /\ \A i \in 1..(Len(r) - k) : u[i] = r[k + i]
    BY <1>2, <2>1, RestTypes DEF Drop
  <2> HIDE DEF u
  <2> QED
    BY <1>7, <1>9, <2>2 DEF u
<1>10. CASE c.saw_cr /\ r[1] = "lf" /\ canon' = Settled(c) /\ rest' = Tail(r)
  <2>1. canon' = Byte(c, b[m + 1])
    BY <1>5, <1>10 DEF Byte
  <2> QED
    BY <1>8, <1>10, <2>1
<1>11. CASE /\ RunLength({"x"}, r) > 0
            /\ canon' = EmitContent(Settled(c), SubSeq(r, 1, RunLength({"x"}, r)))
            /\ rest' = Drop(RunLength({"x"}, r), r)
  <2> DEFINE n == RunLength({"x"}, r)
  <2>1. n \in 0..Len(r) /\ \A i \in 1..n : r[i] \in {"x"}
    BY <1>2, RunLengthIs
  <2>2. n \in 1..Len(r) /\ \A i \in 1..n : r[i] = "x"
    BY <1>4, <1>11, <2>1
  <2>3. canon' \in Canons /\ Agrees(canon', b, m + n)
    <3> HIDE DEF n
    <3> QED
      BY <1>2, <1>11, <2>2, RunOfContent DEF n
  <2> HIDE DEF n
  <2> QED
    BY <1>9, <1>11, <2>2, <2>3 DEF n
<1>12. CASE r[1] = "cr" /\ canon' = [Settled(c) EXCEPT !.saw_cr = TRUE] /\ rest' = Tail(r)
  <2>1. canon' = Byte(c, b[m + 1])
    BY <1>5, <1>12 DEF Byte
  <2> QED
    BY <1>8, <1>12, <2>1
<1>13. CASE ~c.saw_cr /\ r[1] = "lf" /\ canon' = EndLine(Settled(c)) /\ rest' = Tail(r)
  <2>1. canon' = Byte(c, b[m + 1])
    BY <1>5, <1>13 DEF Byte
  <2> QED
    BY <1>8, <1>13, <2>1
<1>14. CASE /\ r[1] = "wsp" /\ canon' = [Settled(c) EXCEPT !.pending_wsp = TRUE]
            /\ rest' = Drop(RunLength({"wsp"}, r), r)
  <2> DEFINE n == RunLength({"wsp"}, r)
  <2>1. /\ n \in 0..Len(r) /\ \A i \in 1..n : r[i] \in {"wsp"}
        /\ n < Len(r) => r[n + 1] \notin {"wsp"}
    BY <1>2, RunLengthIs
  <2>2. n \in 1..Len(r) /\ \A i \in 1..n : r[i] = "wsp"
    <3> HIDE DEF n
    <3>1. n # 0
      BY <1>4, <1>14, <2>1
    <3> QED
      BY <1>4, <2>1, <3>1
  <2>3. canon' \in Canons /\ Agrees(canon', b, m + n)
    <3> HIDE DEF n
    <3> QED
      BY <1>2, <1>14, <2>2, RunOfSpace
  <2> HIDE DEF n
  <2> QED
    BY <1>9, <1>14, <2>2, <2>3 DEF n
<1> QED
  BY <1>1, <1>10, <1>11, <1>12, <1>13, <1>14 DEF Step, Settled

(* At the end of a chunk what `finish` would hash is the canonical body *)
LEMMA FinishIsRelaxed ==
    ASSUME NEW b \in Seq(Bytes), NEW c \in Canons, Agrees(c, b, Len(b))
    PROVE  Finish(c) = RelaxedBody(b)
<1> DEFINE t == Text(b, Len(b))
           h == HasContent(b, Len(b))
           n == Cardinality(Since(b, Len(b)))
           w == Blanks(b, Len(b))
<1>1. Len(b) \in Nat
  BY LenProperties
<1>2. t \in Seq(Hashed) /\ h \in BOOLEAN /\ n \in Nat /\ Holds(c, t, h, n, w)
  BY <1>1, TextTypes, EndsFinite DEF Agrees, HasContent
<1>3. RelaxedBody(b) = IF t = <<>> THEN <<>> ELSE Append(t, "crlf")
  BY DEF RelaxedBody, Text
<1> HIDE DEF t, h, n, w
<1>6. h <=> t # <<>>
  BY <1>2 DEF Holds
<1>4. CASE c.saw_cr
  <2>1. Holds(EndLine(c), t, h, n + 1, FALSE)
    BY <1>2, EndLineHolds
  <2>2. Finish(c) = EndLine(c).hasher
    BY <1>4 DEF Finish
  <2>3. n + 1 > 0
    BY <1>2
  <2>4. EndLine(c).hasher = (IF h THEN Append(t, "crlf") ELSE t)
    BY <2>1, <2>3 DEF Holds
  <2> QED
    BY <1>6, <1>3, <2>2, <2>4
<1>5. CASE ~c.saw_cr
  <2>1. Finish(c) = IF c.line_has_content THEN Append(c.hasher, "crlf") ELSE c.hasher
    BY <1>5 DEF Finish
  <2>2. /\ c.line_has_content <=> (h /\ n = 0)
        /\ c.hasher = IF h /\ n > 0 THEN Append(t, "crlf") ELSE t
    BY <1>2 DEF Holds
  <2>3. n = 0 \/ n > 0
    BY <1>2
  <2>4. Finish(c) = IF h THEN Append(t, "crlf") ELSE t
    <3>1. CASE h /\ n = 0
      BY <2>1, <2>2, <3>1
    <3>2. CASE h /\ n > 0
      BY <2>1, <2>2, <3>2
    <3>3. CASE ~h
      BY <2>1, <2>2, <3>3
    <3> QED
      BY <2>3, <3>1, <3>2, <3>3
  <2> QED
    BY <1>6, <1>3, <2>4
<1> QED
  BY <1>4, <1>5

(* For every body, however it is divided into chunks, what update and       *)
(* finish give to the hasher is the relaxed canonical form of the whole     *)
(* body.                                                                    *)
THEOREM BodyIsCanonical == BodySpec => []HashesCanonicalBody
<1>1. BodyInv /\ [BodyNext]_bodyVars => BodyInv'
  <2> SUFFICES ASSUME BodyInv, [BodyNext]_bodyVars PROVE BodyInv'
    OBVIOUS
  <2>1. CASE Update
    BY <2>1, UpdateInv
  <2>2. CASE Step
    BY <2>2, StepInv
  <2>3. CASE UNCHANGED bodyVars
    BY <2>3 DEF BodyInv, bodyVars
  <2> QED
    BY <2>1, <2>2, <2>3 DEF BodyNext
<1>2. BodyInv => HashesCanonicalBody
  <2> SUFFICES ASSUME BodyInv, rest = <<>> PROVE Finish(canon) = RelaxedBody(body)
    BY DEF HashesCanonicalBody
  <2>1. Len(body) \in Nat /\ Len(rest) = 0
    BY LenProperties DEF BodyInv
  <2>2. Len(body) - Len(rest) = Len(body)
    BY <2>1
  <2> QED
    BY <2>2, FinishIsRelaxed DEF BodyInv
<1> QED
  BY BodyInitInv, <1>1, <1>2, PTL DEF BodySpec

-----------------------------------------------------------------------------
(* Canonical header values *)

(* What the bytes S become, and how far canonicalize_header has come *)
Output(S) == S \cup {SP}
Kept(S) == [out : Seq(Output(S)), pending : BOOLEAN]
NoneKept == [out |-> <<>>, pending |-> FALSE]

IsKeepTrace(t, v, S) ==
    /\ t \in [0..Len(v) -> Kept(S)]
    /\ t[0] = NoneKept
    /\ \A k \in 1..Len(v) : t[k] = KeepByte(t[k - 1], v[k])
    /\ FoldLeft(KeepByte, NoneKept, v) = t[Len(v)]

(* What one content byte adds. *)
LEMMA PieceTypes ==
    ASSUME NEW S, NEW x \in S
    PROVE  <<x>> \in Seq(Output(S)) /\ <<SP, x>> \in Seq(Output(S))
           /\ <<x>> # <<>> /\ <<SP, x>> # <<>>
  BY DEF Output

(* The states of the walk over a value. *)
LEMMA KeepTypes ==
    ASSUME NEW S
    PROVE  NoneKept \in Kept(S) /\ \A s \in Kept(S), x \in S : KeepByte(s, x) \in Kept(S)
<1>1. NoneKept \in Kept(S)
  BY EmptySeq DEF NoneKept, Kept
<1>2. ASSUME NEW s \in Kept(S), NEW x \in S PROVE KeepByte(s, x) \in Kept(S)
  <2>1. CASE x \in White
    BY <2>1 DEF KeepByte, Kept
  <2>2. CASE x \notin White
    <3> DEFINE p == IF s.pending /\ s.out # <<>> THEN <<SP, x>> ELSE <<x>>
    <3>1. p \in Seq(Output(S))
      BY PieceTypes
    <3>2. s.out \in Seq(Output(S))
      BY DEF Kept
    <3>3. KeepByte(s, x) = [out |-> s.out \o p, pending |-> FALSE]
      BY <2>2 DEF KeepByte
    <3> HIDE DEF p
    <3>4. s.out \o p \in Seq(Output(S))
      BY <3>1, <3>2, ConcatProperties
    <3> QED
      BY <3>3, <3>4 DEF Kept
  <2> QED
    BY <2>1, <2>2
<1> QED
  BY <1>1, <1>2

(* canonicalize_header walks over a value state by state. *)
LEMMA KeepTrace ==
    ASSUME NEW S, NEW v \in Seq(S)
    PROVE  \E t : IsKeepTrace(t, v, S)
<1> DEFINE n == Len(v)
           G == [k \in 1..n |-> [s \in Kept(S) |-> KeepByte(s, v[k])]]
           R(f) == f = [s \in SUBSET (1..n) |->
                          IF s = {} THEN NoneKept ELSE KeepByte(f[s \ {Max(s)}], v[Max(s)])]
           iter == CHOOSE f : R(f)
<1>1. n \in Nat /\ DOMAIN v = 1..n /\ \A k \in 1..n : v[k] \in S
  BY LenProperties, ElementOfSeq
<1>2. NoneKept \in Kept(S) /\ \A s \in Kept(S), x \in S : KeepByte(s, x) \in Kept(S)
  BY KeepTypes
<1>3. G \in [1..n -> [Kept(S) -> Kept(S)]]
  BY <1>1, <1>2
<1>4. \A k \in 1..n, s \in Kept(S) : G[k][s] = KeepByte(s, v[k])
  OBVIOUS
<1>5. FoldLeft(KeepByte, NoneKept, v) = iter[1..n]
  BY <1>1, Zenon DEF FoldLeft, MapThenFoldSet
<1> HIDE DEF n, G
<1>6. PICK f : IsTable(f, NoneKept, G, n, Kept(S))
  BY <1>1, <1>2, <1>3, TableExists
<1>7. R(f)
  <2>1. f \in [SUBSET (1..n) -> Kept(S)]
    BY <1>6 DEF IsTable
  <2>2. ASSUME NEW s \in SUBSET (1..n)
        PROVE  f[s] = IF s = {} THEN NoneKept ELSE KeepByte(f[s \ {Max(s)}], v[Max(s)])
    <3>1. f[s] = IF s = {} THEN NoneKept ELSE G[Max(s)][f[s \ {Max(s)}]]
      BY <1>6 DEF IsTable
    <3>2. CASE s = {}
      BY <3>1, <3>2
    <3>3. CASE s # {}
      <4>1. Max(s) \in s
        <5>1. s \in SUBSET (0..n)
          BY <1>1
        <5> QED
          BY <1>1, <3>3, <5>1, MaxIsGreatest
      <4>2. Max(s) \in 1..n /\ f[s \ {Max(s)}] \in Kept(S)
        BY <2>1, <4>1
      <4> QED
        BY <1>4, <3>1, <3>3, <4>2
    <3> QED
      BY <3>2, <3>3
  <2> QED
    BY <2>1, <2>2
<1>8. R(iter)
  BY <1>7, Zenon
<1> HIDE DEF iter
<1> DEFINE t == [k \in 0..n |-> iter[1..k]]
           T == {k \in 0..n : iter[1..k] \in Kept(S)}
<1>9. iter[1..0] = NoneKept
  <2>1. 1..0 = {} /\ {} \in SUBSET (1..n)
    OBVIOUS
  <2> QED
    BY <1>8, <2>1
<1>10. ASSUME NEW k \in 1..n PROVE iter[1..k] = KeepByte(iter[1..(k - 1)], v[k])
  <2>1. k \in Nat \ {0} /\ 1..k \in SUBSET (1..n) /\ 1..k # {}
    BY <1>1
  <2>2. Max(1..k) = k /\ (1..k) \ {Max(1..k)} = 1..(k - 1)
    BY <2>1, MaxOfInterval
  <2>3. iter[1..k] = KeepByte(iter[(1..k) \ {Max(1..k)}], v[Max(1..k)])
    BY <1>8, <2>1
  <2> QED
    BY <2>2, <2>3
<1>11. 0 \in T
  BY <1>1, <1>2, <1>9
<1>12. ASSUME NEW k \in 1..n, k - 1 \in T PROVE k \in T
  BY <1>1, <1>2, <1>10, <1>12
<1>13. 0..n \subseteq T
  <2> HIDE DEF T
  <2> QED
    BY <1>1, <1>11, <1>12, UpTo
<1>14. t \in [0..n -> Kept(S)]
  BY <1>13
<1>15. t[0] = NoneKept
  BY <1>1, <1>9
<1>16. \A k \in 1..n : t[k] = KeepByte(t[k - 1], v[k])
  <2> SUFFICES ASSUME NEW k \in 1..n PROVE t[k] = KeepByte(t[k - 1], v[k])
    OBVIOUS
  <2>1. k \in 0..n /\ k - 1 \in 0..n
    BY <1>1
  <2> QED
    BY <1>10, <2>1
<1>17. FoldLeft(KeepByte, NoneKept, v) = t[n]
  BY <1>1, <1>5
<1> HIDE DEF t
<1> QED
  BY <1>14, <1>15, <1>16, <1>17 DEF IsKeepTrace, n

(* What a byte contributes to the relaxed form. *)
LEMMA RelaxedPartType ==
    ASSUME NEW S, NEW v \in Seq(S), NEW i \in 1..Len(v)
    PROVE  RelaxedPart(v, i) \in Seq(Output(S))
<1>1. v[i] \in S
  BY ElementOfSeq
<1>2. /\ <<>> \in Seq(Output(S)) /\ <<v[i]>> \in Seq(Output(S))
      /\ <<SP, v[i]>> \in Seq(Output(S))
  BY <1>1, PieceTypes, EmptySeq
<1> QED
  BY <1>2 DEF RelaxedPart

(* Whatever bytes a header value has, its canonical form is the relaxed one *)
THEOREM HeadersAreRelaxed ==
    ASSUME NEW S, value \in Seq(S)
    PROVE  CanonicalIsRelaxed
<1>1. PICK v : v = value
  OBVIOUS
<1> DEFINE n == Len(v)
           parts == [i \in 1..n |-> RelaxedPart(v, i)]
           SO == Seq(Output(S))
<1>2. v \in Seq(S) /\ n \in Nat /\ \A i \in 1..n : v[i] \in S
  BY <1>1, LenProperties, ElementOfSeq
<1>3. parts \in Seq(SO) /\ Len(parts) = n
  <2>1. parts \in [1..n -> SO]
    BY <1>2, RelaxedPartType
  <2> HIDE DEF SO, parts
  <2> QED
    BY <1>2, <2>1, TableIsSeq
<1>4. PICK t : IsKeepTrace(t, v, S)
  BY <1>2, KeepTrace
<1>5. PICK u : IsFlattening(u, parts, Output(S))
  <2> HIDE DEF parts
  <2> QED
    BY <1>3, FlattenTrace
<1>6. \A i \in 1..n : parts[i] = RelaxedPart(v, i)
  OBVIOUS
<1> HIDE DEF parts, SO
<1> DEFINE Some(k) == \E j \in 1..k : v[j] \notin White
           T == {k \in 0..n : /\ t[k].out = u[k]
                              /\ t[k].pending <=> k > 0 /\ v[k] \in White
                              /\ t[k].out # <<>> <=> Some(k)}
<1>7. 0 \in T
  <2>1. t[0] = NoneKept /\ u[0] = <<>>
    BY <1>4, <1>5 DEF IsKeepTrace, IsFlattening
  <2> QED
    BY <1>2, <2>1 DEF NoneKept
<1>8. ASSUME NEW k \in 1..n, k - 1 \in T PROVE k \in T
  <2> DEFINE a == t[k - 1]
             b == t[k]
             x == v[k]
  <2>1. k - 1 \in 0..n /\ k \in 0..n /\ k > 0 /\ x \in S /\ (k - 1 > 0 <=> k > 1)
    BY <1>2
  <2>2. a \in Kept(S) /\ b = KeepByte(a, x)
    BY <1>4, <2>1 DEF IsKeepTrace
  <2>3. u[k] = u[k - 1] \o RelaxedPart(v, k) /\ u[k - 1] \in SO
    BY <1>3, <1>5, <1>6, <2>1 DEF IsFlattening, SO
  <2>4. /\ a.out = u[k - 1] /\ (a.pending <=> k > 1 /\ v[k - 1] \in White)
        /\ (a.out # <<>> <=> Some(k - 1))
    BY <1>8, <2>1
  <2>5. Some(k) <=> Some(k - 1) \/ x \notin White
    <3>1. \A j \in 1..k : j \in 1..(k - 1) \/ j = k
      BY <2>1
    <3>2. \A j \in 1..(k - 1) : j \in 1..k
      BY <2>1
    <3>3. k \in 1..k
      BY <2>1
    <3> QED
      BY <3>1, <3>2, <3>3
  <2>6. CASE x \in White
    <3>1. b = [a EXCEPT !.pending = TRUE]
      BY <2>2, <2>6 DEF KeepByte
    <3>2. b.out = a.out /\ b.pending
      BY <2>2, <3>1 DEF Kept
    <3>3. u[k] = u[k - 1]
      <4>1. RelaxedPart(v, k) = <<>>
        BY <2>6 DEF RelaxedPart
      <4> QED
        BY <2>3, <4>1, ConcatEmptySeq DEF SO
    <3> HIDE DEF a, b, x, Some
    <3>4. b.out = u[k] /\ (b.out # <<>> <=> Some(k))
      BY <2>4, <2>5, <2>6, <3>2, <3>3
    <3> QED
      BY <2>1, <2>6, <3>2, <3>4 DEF b, x
  <2>7. CASE x \notin White
    <3> DEFINE p == IF a.pending /\ a.out # <<>> THEN <<SP, x>> ELSE <<x>>
    <3>1. b = [out |-> a.out \o p, pending |-> FALSE]
      BY <2>2, <2>7 DEF KeepByte
    <3>2. p = RelaxedPart(v, k)
      <4>1. a.pending /\ a.out # <<>> <=> k > 1 /\ v[k - 1] \in White /\ Some(k - 1)
        BY <2>4
      <4> HIDE DEF a
      <4> QED
        BY <2>7, <4>1 DEF RelaxedPart
    <3>3. p \in SO /\ p # <<>>
      BY <2>1, PieceTypes DEF SO
    <3> HIDE DEF p, a, b
    <3>4. b.out = u[k] /\ ~b.pending
      BY <2>3, <2>4, <3>1, <3>2
    <3>5. u[k] # <<>>
      <4> DEFINE q == u[k - 1]
      <4>1. q \in SO /\ p \in SO /\ u[k] = q \o p
        BY <2>3, <3>2, <3>3
      <4>2. Len(q) \in Nat /\ Len(p) \in Nat /\ Len(p) # 0
        BY <4>1, <3>3, EmptySeq, LenProperties DEF SO
      <4> HIDE DEF q
      <4>3. Len(q \o p) = Len(q) + Len(p)
        BY <4>1, ConcatProperties DEF SO
      <4>4. Len(q \o p) # 0
        BY <4>2, <4>3
      <4> QED
        BY <4>1, <4>4
    <3>6. Some(k)
      BY <2>5, <2>7
    <3> HIDE DEF x, Some
    <3> QED
      BY <2>1, <2>7, <3>4, <3>5, <3>6 DEF b, x
  <2> QED
    BY <2>6, <2>7
<1>9. 0..n \subseteq T
  <2> HIDE DEF T
  <2> QED
    BY <1>2, <1>7, <1>8, UpTo
<1>10. n \in 0..n
  BY <1>2
<1>11. t[n].out = u[n]
  BY <1>9, <1>10
<1>12. Canonical(v) = t[n].out
  BY <1>4 DEF Canonical, IsKeepTrace, NoneKept
<1>13. RelaxedValue(v) = u[n]
  BY <1>3, <1>5 DEF RelaxedValue, IsFlattening, parts
<1> QED
  BY <1>1, <1>11, <1>12, <1>13 DEF CanonicalIsRelaxed

-----------------------------------------------------------------------------
(* Folded signatures *)

(* How far canonicalize_header has come after a text *)
KeptAfter(x) == FoldLeft(KeepByte, NoneKept, x)

(* The walk over a text passes the state that is reached after its beginning *)
LEMMA KeptAtPrefix ==
    ASSUME NEW S, NEW x \in Seq(S), NEW w \in Seq(S), NEW t, IsKeepTrace(t, x \o w, S)
    PROVE  t[Len(x)] = KeptAfter(x)
<1>1. PICK u : IsKeepTrace(u, x, S)
  BY KeepTrace
<1>2. PICK z : z = x \o w
  OBVIOUS
<1>3. PICK n : n = Len(x)
  OBVIOUS
<1>4. /\ n \in Nat /\ Len(z) \in Nat /\ n <= Len(z)
      /\ \A i \in 1..n : z[i] = x[i]
  BY <1>2, <1>3, ConcatParts
<1>5. /\ t[0] = NoneKept
      /\ \A k \in 1..n : t[k] = KeepByte(t[k - 1], x[k])
  BY <1>2, <1>4 DEF IsKeepTrace
<1>6. /\ u[0] = NoneKept
      /\ \A k \in 1..n : u[k] = KeepByte(u[k - 1], x[k])
      /\ KeptAfter(x) = u[n]
  BY <1>1, <1>3 DEF IsKeepTrace, KeptAfter
<1> DEFINE T == {k \in 0..n : t[k] = u[k]}
<1>7. 0 \in T
  BY <1>4, <1>5, <1>6
<1>8. ASSUME NEW k \in 1..n, k - 1 \in T PROVE k \in T
  BY <1>4, <1>5, <1>6, <1>8
<1> HIDE DEF T
<1>9. 0..n \subseteq T
  BY <1>4, <1>7, <1>8, UpTo
<1>10. n \in T
  BY <1>4, <1>9
<1> QED
  BY <1>3, <1>6, <1>10 DEF T

(* The walk has a state *)
LEMMA KeptTypes ==
    ASSUME NEW S, NEW x \in Seq(S)
    PROVE  KeptAfter(x) \in Kept(S)
<1>1. PICK t : IsKeepTrace(t, x, S)
  BY KeepTrace
<1>2. Len(x) \in 0..Len(x)
  BY LenProperties
<1> QED
  BY <1>1, <1>2 DEF IsKeepTrace, KeptAfter

(* Texts after which the walk is in the same state are alike in front of    *)
(* every continuation                                                       *)
LEMMA KeptAlike ==
    ASSUME NEW S, NEW x \in Seq(S), NEW y \in Seq(S), NEW w \in Seq(S),
           KeptAfter(x) = KeptAfter(y)
    PROVE  KeptAfter(x \o w) = KeptAfter(y \o w)
<1>1. PICK a, b, n, l, m : a = x \o w /\ b = y \o w /\ n = Len(x) /\ l = Len(y) /\ m = Len(w)
  OBVIOUS
<1>2. /\ a \in Seq(S) /\ n \in Nat /\ m \in Nat /\ Len(a) = n + m
      /\ \A i \in 1..m : a[n + i] = w[i]
  BY <1>1, ConcatParts
<1>3. /\ b \in Seq(S) /\ l \in Nat /\ Len(b) = l + m
      /\ \A i \in 1..m : b[l + i] = w[i]
  BY <1>1, ConcatParts
<1>4. PICK t : IsKeepTrace(t, a, S)
  BY <1>2, KeepTrace
<1>5. PICK u : IsKeepTrace(u, b, S)
  BY <1>3, KeepTrace
<1>6. t[n] = u[l]
  <2>1. t[n] = KeptAfter(x)
    BY <1>1, <1>4, KeptAtPrefix
  <2>2. u[l] = KeptAfter(y)
    BY <1>1, <1>5, KeptAtPrefix
  <2> QED
    BY <2>1, <2>2
<1>7. ASSUME NEW k \in 1..m
      PROVE  t[n + k] = KeepByte(t[n + (k - 1)], w[k]) /\ u[l + k] = KeepByte(u[l + (k - 1)], w[k])
  <2>1. n + k \in 1..Len(a) /\ (n + k) - 1 = n + (k - 1)
    BY <1>2
  <2>2. l + k \in 1..Len(b) /\ (l + k) - 1 = l + (k - 1)
    BY <1>2, <1>3
  <2>3. t[n + k] = KeepByte(t[(n + k) - 1], a[n + k])
    BY <1>4, <2>1 DEF IsKeepTrace
  <2>4. u[l + k] = KeepByte(u[(l + k) - 1], b[l + k])
    BY <1>5, <2>2 DEF IsKeepTrace
  <2> QED
    BY <1>2, <1>3, <2>1, <2>2, <2>3, <2>4
<1> DEFINE T == {k \in 0..m : t[n + k] = u[l + k]}
<1>8. 0 \in T
  BY <1>2, <1>3, <1>6
<1>9. ASSUME NEW k \in 1..m, k - 1 \in T PROVE k \in T
  <2>1. t[n + (k - 1)] = u[l + (k - 1)]
    BY <1>9
  <2> QED
    BY <1>7, <2>1
<1> HIDE DEF T
<1>10. 0..m \subseteq T
  BY <1>2, <1>8, <1>9, UpTo
<1>11. m \in T
  BY <1>2, <1>10
<1>12. t[Len(a)] = u[Len(b)]
  BY <1>2, <1>3, <1>11 DEF T
<1>13. KeptAfter(a) = t[Len(a)] /\ KeptAfter(b) = u[Len(b)]
  BY <1>4, <1>5 DEF IsKeepTrace, KeptAfter
<1> QED
  BY <1>1, <1>12, <1>13

Break == <<CR, LF, TAB>>

(* A line break is white space as good as a space *)
LEMMA BreakIsSpace ==
    ASSUME NEW S, White \subseteq S, NEW x \in Seq(S)
    PROVE  /\ <<SP>> \in Seq(S) /\ Break \in Seq(S)
           /\ KeptAfter(x \o Break) = KeptAfter(x \o <<SP>>)
<1>1. <<SP>> \in Seq(S) /\ Break \in Seq(S)
  BY DEF White, Break
<1>2. /\ Len(<<SP>>) = 1 /\ <<SP>>[1] = SP
      /\ Len(Break) = 3 /\ Break[1] = CR /\ Break[2] = LF /\ Break[3] = TAB
  BY DEF Break
<1>3. PICK a, b, p, q, n : a = x \o p /\ b = x \o q /\ p = Break /\ q = <<SP>> /\ n = Len(x)
  OBVIOUS
<1>4. a \in Seq(S) /\ n \in Nat /\ Len(a) = n + 3 /\ \A i \in 1..3 : a[n + i] = p[i]
  <2>1. p \in Seq(S) /\ Len(p) = 3
    BY <1>1, <1>2, <1>3
  <2>3. a = x \o p /\ n = Len(x)
    BY <1>3
  <2>2. /\ a \in Seq(S) /\ n \in Nat /\ Len(a) = n + Len(p)
        /\ \A i \in 1..Len(p) : a[n + i] = p[i]
    <3>1. Joined(x, p, x \o p, S)
      BY <2>1, ConcatJoins
    <3>2. Joined(x, p, a, S)
      BY <2>3, <3>1
    <3> QED
      BY <2>3, <3>2 DEF Joined
  <2> QED
    BY <2>1, <2>2
<1>5. b \in Seq(S) /\ Len(b) = n + 1 /\ \A i \in 1..1 : b[n + i] = q[i]
  BY <1>1, <1>2, <1>3, ConcatParts
<1>6. a[n + 1] = CR /\ a[n + 2] = LF /\ a[n + 3] = TAB /\ b[n + 1] = SP
  BY <1>2, <1>3, <1>4, <1>5
<1>7. PICK t : IsKeepTrace(t, a, S)
  BY <1>4, KeepTrace
<1>8. PICK u : IsKeepTrace(u, b, S)
  BY <1>5, KeepTrace
<1>9. t[n] = KeptAfter(x) /\ u[n] = KeptAfter(x)
  BY <1>1, <1>3, <1>7, <1>8, KeptAtPrefix
<1>10. PICK s : s = KeptAfter(x)
  OBVIOUS
<1>11. s \in Kept(S)
  BY <1>10, KeptTypes
<1>12. /\ t[n + 1] = KeepByte(t[n], CR) /\ t[n + 2] = KeepByte(t[n + 1], LF)
       /\ t[n + 3] = KeepByte(t[n + 2], TAB)
  <2>1. /\ n + 1 \in 1..Len(a) /\ n + 2 \in 1..Len(a) /\ n + 3 \in 1..Len(a)
        /\ (n + 1) - 1 = n /\ (n + 2) - 1 = n + 1 /\ (n + 3) - 1 = n + 2
    BY <1>4
  <2>2. \A k \in 1..Len(a) : t[k] = KeepByte(t[k - 1], a[k])
    BY <1>7 DEF IsKeepTrace
  <2> QED
    BY <1>6, <2>1, <2>2
<1>13. u[n + 1] = KeepByte(u[n], SP)
  <2>1. n + 1 \in 1..Len(b) /\ (n + 1) - 1 = n
    BY <1>4, <1>5
  <2>2. \A k \in 1..Len(b) : u[k] = KeepByte(u[k - 1], b[k])
    BY <1>8 DEF IsKeepTrace
  <2> QED
    BY <1>6, <2>1, <2>2
<1>14. \A r \in Kept(S), c \in White : KeepByte(r, c) = [out |-> r.out, pending |-> TRUE]
  BY DEF KeepByte, Kept
<1>15. [out |-> s.out, pending |-> TRUE] \in Kept(S)
  BY <1>11 DEF Kept
<1>16. CR \in White /\ LF \in White /\ TAB \in White /\ SP \in White
  BY DEF White
<1>17. /\ t[n + 1] = [out |-> s.out, pending |-> TRUE]
       /\ u[n + 1] = [out |-> s.out, pending |-> TRUE]
  BY <1>9, <1>10, <1>11, <1>12, <1>13, <1>14, <1>16
<1>18. t[n + 2] = [out |-> s.out, pending |-> TRUE]
  BY <1>12, <1>14, <1>15, <1>16, <1>17
<1>19. t[n + 3] = [out |-> s.out, pending |-> TRUE]
  BY <1>12, <1>14, <1>15, <1>16, <1>18
<1>20. KeptAfter(a) = t[n + 3] /\ KeptAfter(b) = u[n + 1]
  BY <1>4, <1>5, <1>7, <1>8 DEF IsKeepTrace, KeptAfter
<1> QED
  BY <1>1, <1>3, <1>17, <1>19, <1>20

(* Lists of tokens of the bytes B, and how a byte changes one *)
TokenLists(B) == {l \in Seq(Seq(B)) : l # <<>>}
NoToken == <<(<<>>)>>

IsTokenTrace(t, v, B) ==
    /\ t \in [0..Len(v) -> TokenLists(B)]
    /\ t[0] = NoToken
    /\ \A k \in 1..Len(v) : t[k] = SplitSpaces(t[k - 1], v[k])
    /\ FoldLeft(SplitSpaces, NoToken, v) = t[Len(v)]

Divides(r, l, x, B) ==
    /\ Len(l) \in Nat \ {0} /\ l[Len(l)] \in Seq(B) /\ r \in TokenLists(B)
    /\ x = SP => /\ Len(r) = Len(l) + 1
                 /\ \A i \in 1..Len(l) : r[i] = l[i]
                 /\ r[Len(l) + 1] = <<>>
    /\ x # SP => /\ Len(r) = Len(l) /\ x \in B
                 /\ \A i \in 1..(Len(l) - 1) : r[i] = l[i]
                 /\ r[Len(l)] = Append(l[Len(l)], x)

(* What a byte does to the tokens. *)
LEMMA TokenStep ==
    ASSUME NEW B, NEW l \in TokenLists(B), NEW x \in B \cup {SP}
    PROVE  Divides(SplitSpaces(l, x), l, x, B)
<1> DEFINE SS == Seq(B)
           r == SplitSpaces(l, x)
<1>1. l \in Seq(SS) /\ l # <<>>
  BY DEF TokenLists
<1>2. <<>> \in SS
  BY EmptySeq
<1>3. \A y \in SS : x # SP => Append(y, x) \in SS
  BY AppendProperties
<1> HIDE DEF SS
<1>4. Len(l) \in Nat \ {0} /\ DOMAIN l = 1..Len(l) /\ \A i \in 1..Len(l) : l[i] \in SS
  BY <1>1, EmptySeq, LenProperties, ElementOfSeq
<1>5. Len(l) \in 1..Len(l) /\ l[Len(l)] \in SS
  BY <1>4
<1>6. CASE x = SP
  <2>1. r = Append(l, <<>>)
    BY <1>6 DEF SplitSpaces
  <2>2. /\ r \in Seq(SS) /\ r # <<>> /\ Len(r) = Len(l) + 1
        /\ \A i \in 1..Len(l) : r[i] = l[i]
        /\ r[Len(l) + 1] = <<>>
    BY <1>1, <1>2, <2>1, AppendProperties
  <2> QED
    BY <1>4, <1>5, <1>6, <2>2 DEF TokenLists, SS, Divides
<1>7. CASE x # SP
  <2> DEFINE y == Append(l[Len(l)], x)
  <2>1. y \in SS /\ x \in B
    BY <1>3, <1>5, <1>7
  <2>2. r = [l EXCEPT ![Len(l)] = y]
    BY <1>7 DEF SplitSpaces
  <2>3. l \in [1..Len(l) -> SS]
    BY <1>1, <1>4
  <2> HIDE DEF y
  <2>4. r \in [1..Len(l) -> SS]
    BY <2>1, <2>2, <2>3
  <2>5. r \in Seq(SS) /\ Len(r) = Len(l)
    BY <1>4, <2>4, TableIsSeq
  <2>6. r # <<>>
    BY <1>4, <2>5
  <2>7. r[Len(l)] = y /\ \A i \in 1..(Len(l) - 1) : r[i] = l[i]
    BY <1>4, <1>5, <2>2, <2>3
  <2> QED
    BY <1>4, <1>5, <1>7, <2>1, <2>5, <2>6, <2>7 DEF TokenLists, SS, y, Divides
<1> QED
  BY <1>6, <1>7

(* The states of the walk over a signature. *)
LEMMA TokenTypes ==
    ASSUME NEW B
    PROVE  /\ NoToken \in TokenLists(B)
           /\ \A l \in TokenLists(B), x \in B \cup {SP} : SplitSpaces(l, x) \in TokenLists(B)
<1>1. NoToken \in TokenLists(B)
  <2> DEFINE SS == Seq(B)
  <2>1. <<>> \in SS
    BY EmptySeq
  <2> HIDE DEF SS
  <2>2. NoToken \in Seq(SS) /\ NoToken # <<>>
    BY <2>1 DEF NoToken
  <2> QED
    BY <2>2 DEF TokenLists, SS
<1> QED
  BY <1>1, TokenStep DEF Divides

(* split walks over a signature state by state. *)
LEMMA TokenTrace ==
    ASSUME NEW B, NEW C, C \subseteq B \cup {SP}, NEW v \in Seq(C)
    PROVE  \E t : IsTokenTrace(t, v, B)
<1> DEFINE n == Len(v)
           G == [k \in 1..n |-> [s \in TokenLists(B) |-> SplitSpaces(s, v[k])]]
           R(f) == f = [s \in SUBSET (1..n) |->
                          IF s = {} THEN NoToken ELSE SplitSpaces(f[s \ {Max(s)}], v[Max(s)])]
           iter == CHOOSE f : R(f)
<1>1. n \in Nat /\ DOMAIN v = 1..n /\ \A k \in 1..n : v[k] \in C
  BY LenProperties, ElementOfSeq
<1>2. NoToken \in TokenLists(B) /\ \A s \in TokenLists(B), x \in C : SplitSpaces(s, x) \in TokenLists(B)
  BY TokenTypes
<1>3. G \in [1..n -> [TokenLists(B) -> TokenLists(B)]]
  BY <1>1, <1>2
<1>4. \A k \in 1..n, s \in TokenLists(B) : G[k][s] = SplitSpaces(s, v[k])
  OBVIOUS
<1>5. FoldLeft(SplitSpaces, NoToken, v) = iter[1..n]
  BY <1>1, Zenon DEF FoldLeft, MapThenFoldSet
<1> HIDE DEF n, G
<1>6. PICK f : IsTable(f, NoToken, G, n, TokenLists(B))
  BY <1>1, <1>2, <1>3, TableExists
<1>7. R(f)
  <2>1. f \in [SUBSET (1..n) -> TokenLists(B)]
    BY <1>6 DEF IsTable
  <2>2. ASSUME NEW s \in SUBSET (1..n)
        PROVE  f[s] = IF s = {} THEN NoToken ELSE SplitSpaces(f[s \ {Max(s)}], v[Max(s)])
    <3>1. f[s] = IF s = {} THEN NoToken ELSE G[Max(s)][f[s \ {Max(s)}]]
      BY <1>6 DEF IsTable
    <3>2. CASE s = {}
      BY <3>1, <3>2
    <3>3. CASE s # {}
      <4>1. Max(s) \in s
        <5>1. s \in SUBSET (0..n)
          BY <1>1
        <5> QED
          BY <1>1, <3>3, <5>1, MaxIsGreatest
      <4>2. Max(s) \in 1..n /\ f[s \ {Max(s)}] \in TokenLists(B)
        BY <2>1, <4>1
      <4> QED
        BY <1>4, <3>1, <3>3, <4>2
    <3> QED
      BY <3>2, <3>3
  <2> QED
    BY <2>1, <2>2
<1>8. R(iter)
  BY <1>7, Zenon
<1> HIDE DEF iter
<1> DEFINE t == [k \in 0..n |-> iter[1..k]]
           T == {k \in 0..n : iter[1..k] \in TokenLists(B)}
<1>9. iter[1..0] = NoToken
  <2>1. 1..0 = {} /\ {} \in SUBSET (1..n)
    OBVIOUS
  <2> QED
    BY <1>8, <2>1
<1>10. ASSUME NEW k \in 1..n PROVE iter[1..k] = SplitSpaces(iter[1..(k - 1)], v[k])
  <2>1. k \in Nat \ {0} /\ 1..k \in SUBSET (1..n) /\ 1..k # {}
    BY <1>1
  <2>2. Max(1..k) = k /\ (1..k) \ {Max(1..k)} = 1..(k - 1)
    BY <2>1, MaxOfInterval
  <2>3. iter[1..k] = SplitSpaces(iter[(1..k) \ {Max(1..k)}], v[Max(1..k)])
    BY <1>8, <2>1
  <2> QED
    BY <2>2, <2>3
<1>11. 0 \in T
  BY <1>1, <1>2, <1>9
<1>12. ASSUME NEW k \in 1..n, k - 1 \in T PROVE k \in T
  BY <1>1, <1>2, <1>10, <1>12
<1>13. 0..n \subseteq T
  <2> HIDE DEF T
  <2> QED
    BY <1>1, <1>11, <1>12, UpTo
<1>14. t \in [0..n -> TokenLists(B)]
  BY <1>13
<1>15. t[0] = NoToken
  BY <1>1, <1>9
<1>16. \A k \in 1..n : t[k] = SplitSpaces(t[k - 1], v[k])
  <2> SUFFICES ASSUME NEW k \in 1..n PROVE t[k] = SplitSpaces(t[k - 1], v[k])
    OBVIOUS
  <2>1. k \in 0..n /\ k - 1 \in 0..n
    BY <1>1
  <2> QED
    BY <1>10, <2>1
<1>17. FoldLeft(SplitSpaces, NoToken, v) = t[n]
  BY <1>1, <1>5
<1> HIDE DEF t
<1> QED
  BY <1>14, <1>15, <1>16, <1>17 DEF IsTokenTrace, n

(* Relations, for lemmas that are used on constants *)
IsConcat(z, s, t) == z = s \o t
IsAppend(z, s, x) == z = Append(s, x)

(* What is appended to a concatenation is appended to its second part *)
LEMMA LastGrows ==
    ASSUME NEW S, NEW p \in Seq(S), NEW q \in Seq(S), NEW x \in S,
           NEW s, IsConcat(s, p, q), NEW y, IsAppend(y, s, x), NEW z, IsAppend(z, q, x)
    PROVE  IsConcat(y, p, z)
<1>1. y = Append(p \o q, x) /\ z = Append(q, x)
  BY DEF IsConcat, IsAppend
<1>2. Append(p \o q, x) = p \o Append(q, x)
  <2>1. PICK a, b : a = Append(p \o q, x) /\ b = p \o Append(q, x)
    OBVIOUS
  <2>2. p \o q \in Seq(S) /\ Append(q, x) \in Seq(S)
    BY ConcatProperties, AppendProperties
  <2>3. Joined(p, q, p \o q, S) /\ Joined(p, Append(q, x), b, S)
    BY <2>1, <2>2, ConcatJoins
  <2>4. PICK c, d, n, m : c = p \o q /\ d = Append(q, x) /\ n = Len(p) /\ m = Len(q)
    OBVIOUS
  <2>5. /\ n \in Nat /\ m \in Nat /\ Len(c) = n + m
        /\ \A i \in 1..n : c[i] = p[i]
        /\ \A i \in 1..m : c[n + i] = q[i]
    BY <2>3, <2>4 DEF Joined
  <2>6. d \in Seq(S) /\ Len(d) = m + 1 /\ d[m + 1] = x /\ \A i \in 1..m : d[i] = q[i]
    BY <2>4, AppendProperties
  <2>7. /\ b \in Seq(S) /\ Len(b) = n + (m + 1)
        /\ \A i \in 1..n : b[i] = p[i]
        /\ \A i \in 1..(m + 1) : b[n + i] = d[i]
    BY <2>3, <2>4, <2>6 DEF Joined
  <2>8. a = Append(c, x) /\ c \in Seq(S)
    BY <2>1, <2>2, <2>4
  <2>9. /\ a \in Seq(S) /\ Len(a) = (n + m) + 1 /\ a[(n + m) + 1] = x
        /\ \A i \in 1..(n + m) : a[i] = c[i]
    BY <2>5, <2>8, AppendProperties
  <2>10. Len(a) = Len(b)
    BY <2>5, <2>7, <2>9
  <2>11. ASSUME NEW i \in 1..Len(a) PROVE a[i] = b[i]
    <3>1. CASE i \in 1..n
      <4>1. i \in 1..(n + m)
        BY <2>5, <3>1
      <4> QED
        BY <2>5, <2>7, <2>9, <3>1, <4>1
    <3>2. CASE i \notin 1..n
      <4>1. PICK h \in 1..(m + 1) : i = n + h
        <5>1. i - n \in 1..(m + 1) /\ i = n + (i - n)
          BY <2>5, <2>9, <3>2
        <5> QED
          BY <5>1
      <4>2. CASE h = m + 1
        <5>1. i = (n + m) + 1
          BY <2>5, <4>1, <4>2
        <5> QED
          BY <2>6, <2>7, <2>9, <4>1, <4>2, <5>1
      <4>3. CASE h # m + 1
        <5>1. h \in 1..m /\ n + h \in 1..(n + m)
          BY <2>5, <4>3
        <5> QED
          BY <2>5, <2>6, <2>7, <2>9, <4>1, <5>1
      <4> QED
        BY <4>2, <4>3
    <3> QED
      BY <3>1, <3>2
  <2>12. a = b
    BY <2>7, <2>9, <2>10, <2>11, SeqEqual
  <2> QED
    BY <2>1, <2>12
<1> QED
  BY <1>1, <1>2 DEF IsConcat

(* A sequence over some elements is one over more *)
LEMMA WiderSeq ==
    ASSUME NEW S, NEW A, S \subseteq A, NEW s \in Seq(S)
    PROVE  s \in Seq(A)
  OBVIOUS

(* j[i] is the text of the first i tokens, and text that of all *)
Joins(j, l, text, A) ==
    /\ j \in [1..Len(l) -> Seq(A)]
    /\ j[1] = l[1]
    /\ \A i \in 2..Len(l) : j[i] = (j[i - 1] \o <<SP>>) \o l[i]
    /\ j[Len(l)] = text

(* One more byte is one more empty token, or lengthens the last one *)
LEMMA JoinsStep ==
    ASSUME NEW B, NEW C, C \subseteq B \cup {SP}, NEW l \in TokenLists(B), NEW x \in C,
           NEW A, B \subseteq A, SP \in A,
           NEW text, NEW j, Joins(j, l, text, A)
    PROVE  \E i : Joins(i, SplitSpaces(l, x), Append(text, x), A)
<1>1. PICK r : r = SplitSpaces(l, x)
  OBVIOUS
<1>2. Divides(r, l, x, B)
  BY <1>1, TokenStep
<1>3. PICK n : n = Len(l)
  OBVIOUS
<1>4. /\ n \in Nat \ {0} /\ l[n] \in Seq(B) /\ r \in TokenLists(B)
      /\ x = SP => /\ Len(r) = n + 1
                   /\ \A i \in 1..n : r[i] = l[i]
                   /\ r[n + 1] = <<>>
      /\ x # SP => /\ Len(r) = n /\ x \in B
                   /\ \A i \in 1..(n - 1) : r[i] = l[i]
                   /\ r[n] = Append(l[n], x)
  BY <1>2, <1>3 DEF Divides
<1>5. /\ j \in [1..n -> Seq(A)] /\ j[1] = l[1]
      /\ \A i \in 2..n : j[i] = (j[i - 1] \o <<SP>>) \o l[i]
      /\ j[n] = text
  BY <1>3 DEF Joins
<1>6. text \in Seq(A) /\ <<SP>> \in Seq(A) /\ <<>> \in Seq(A) /\ x \in A
  <2>1. n \in 1..n
    BY <1>4
  <2> QED
    BY <1>5, <2>1, EmptySeq
<1>7. CASE x = SP
  <2>1. PICK y : y = text \o <<SP>>
    OBVIOUS
  <2>2. y \in Seq(A) /\ y \o <<>> = y
    BY <1>6, <2>1, ConcatProperties, EmptySeq
  <2>3. Append(text, x) = y
    BY <1>6, <1>7, <2>1, AppendIsConcat
  <2> DEFINE i == [k \in 1..(n + 1) |-> IF k = n + 1 THEN y ELSE j[k]]
  <2>4. i \in [1..(n + 1) -> Seq(A)]
    BY <1>4, <1>5, <2>2
  <2>5. i[n + 1] = y /\ \A k \in 1..n : i[k] = j[k]
    BY <1>4
  <2> HIDE DEF i
  <2>6. Len(r) = n + 1 /\ r[n + 1] = <<>> /\ \A k \in 1..n : r[k] = l[k]
    BY <1>4, <1>7
  <2>7. i[1] = r[1]
    <3>1. 1 \in 1..n
      BY <1>4
    <3> QED
      BY <1>5, <2>5, <2>6, <3>1
  <2>8. ASSUME NEW k \in 2..(n + 1) PROVE i[k] = (i[k - 1] \o <<SP>>) \o r[k]
    <3>1. k - 1 \in 1..n /\ i[k - 1] = j[k - 1]
      BY <1>4, <2>5
    <3>2. CASE k = n + 1
      <4>1. k - 1 = n
        BY <1>4, <3>2
      <4>2. i[k - 1] = text
        BY <1>5, <3>1, <4>1
      <4> QED
        BY <2>1, <2>2, <2>5, <2>6, <3>2, <4>2
    <3>3. CASE k # n + 1
      <4>1. k \in 2..n /\ k \in 1..n
        BY <1>4, <3>3
      <4>2. j[k] = (j[k - 1] \o <<SP>>) \o l[k]
        BY <1>5, <4>1
      <4> QED
        BY <2>5, <2>6, <3>1, <4>1, <4>2, Zenon
    <3> QED
      BY <3>2, <3>3
  <2>9. Joins(i, r, y, A)
    BY <2>4, <2>5, <2>6, <2>7, <2>8 DEF Joins
  <2> QED
    BY <1>1, <2>3, <2>9
<1>8. CASE x # SP
  <2>1. Len(r) = n /\ r[n] = Append(l[n], x) /\ \A k \in 1..(n - 1) : r[k] = l[k]
    BY <1>4, <1>8
  <2>2. PICK y : y = Append(text, x)
    OBVIOUS
  <2>3. y \in Seq(A)
    BY <1>6, <2>2, AppendProperties
  <2> DEFINE i == [k \in 1..n |-> IF k = n THEN y ELSE j[k]]
  <2>4. i \in [1..n -> Seq(A)]
    BY <1>4, <1>5, <2>3
  <2>5. i[n] = y /\ \A k \in 1..(n - 1) : i[k] = j[k]
    BY <1>4
  <2> HIDE DEF i
  <2>6. i[1] = r[1]
    <3>1. CASE n = 1
      BY <1>5, <2>1, <2>2, <2>5, <3>1
    <3>2. CASE n # 1
      <4>1. 1 \in 1..(n - 1)
        BY <1>4, <3>2
      <4> QED
        BY <1>5, <2>1, <2>5, <4>1
    <3> QED
      BY <3>1, <3>2
  <2>7. ASSUME NEW k \in 2..n PROVE i[k] = (i[k - 1] \o <<SP>>) \o r[k]
    <3>1. k - 1 \in 1..(n - 1) /\ i[k - 1] = j[k - 1] /\ k - 1 \in 1..n
      BY <1>4, <2>5
    <3>2. CASE k = n
      <4>1. PICK p, q : p = j[n - 1] \o <<SP>> /\ q = l[n]
        OBVIOUS
      <4>2. p \in Seq(A) /\ q \in Seq(A)
        <5>1. j[n - 1] \in Seq(A)
          BY <1>5, <3>1, <3>2
        <5>2. p \in Seq(A)
          BY <1>6, <4>1, <5>1, ConcatProperties
        <5>3. q \in Seq(A)
          BY <1>4, <4>1, WiderSeq
        <5> QED
          BY <5>2, <5>3
      <4>3. text = p \o q
        BY <1>5, <3>2, <4>1
      <4>4. PICK z, u : z = Append(q, x) /\ u = x
        OBVIOUS
      <4>5. y = p \o z
        <5>1. text = p \o q /\ y = Append(text, u) /\ z = Append(q, u) /\ u \in A
          BY <1>6, <2>2, <4>3, <4>4
        <5>2. IsConcat(text, p, q) /\ IsAppend(y, text, u) /\ IsAppend(z, q, u)
          BY <5>1 DEF IsConcat, IsAppend
        <5>3. IsConcat(y, p, z)
          BY <4>2, <5>1, <5>2, LastGrows
        <5> QED
          BY <5>3 DEF IsConcat
      <4> QED
        BY <2>1, <2>5, <3>1, <3>2, <4>1, <4>4, <4>5
    <3>3. CASE k # n
      <4>1. k \in 2..n /\ k \in 1..(n - 1)
        BY <1>4, <3>3
      <4>2. j[k] = (j[k - 1] \o <<SP>>) \o l[k]
        BY <1>5, <4>1
      <4> QED
        BY <2>1, <2>5, <3>1, <4>1, <4>2, Zenon
    <3> QED
      BY <3>2, <3>3
  <2>8. Joins(i, r, y, A)
    BY <2>1, <2>4, <2>5, <2>6, <2>7 DEF Joins
  <2> QED
    BY <1>1, <2>2, <2>8
<1> QED
  BY <1>7, <1>8

(* A prefix grows by the next element *)
LEMMA PrefixGrows ==
    ASSUME NEW S, NEW v \in Seq(S), NEW k \in 1..Len(v)
    PROVE  Append(SubSeq(v, 1, k - 1), v[k]) = SubSeq(v, 1, k)
<1>1. PICK a, b, c, x : a = SubSeq(v, 1, k - 1) /\ b = SubSeq(v, 1, k) /\ x = v[k] /\ c = Append(a, x)
  OBVIOUS
<1>2. Len(v) \in Nat /\ k \in Nat /\ k - 1 \in 0..Len(v) /\ k \in 0..Len(v) /\ x \in S
  BY <1>1, LenProperties, ElementOfSeq
<1>3. a \in Seq(S) /\ Len(a) = k - 1 /\ \A i \in 1..(k - 1) : a[i] = v[i]
  BY <1>1, <1>2, PrefixTypes
<1>4. b \in Seq(S) /\ Len(b) = k /\ \A i \in 1..k : b[i] = v[i]
  BY <1>1, <1>2, PrefixTypes
<1>5. c \in Seq(S) /\ Len(c) = k /\ c[k] = x /\ \A i \in 1..(k - 1) : c[i] = a[i]
  <2>1. /\ c \in Seq(S) /\ Len(c) = Len(a) + 1 /\ c[Len(a) + 1] = x
        /\ \A i \in 1..Len(a) : c[i] = a[i]
    BY <1>1, <1>2, <1>3, AppendProperties
  <2> QED
    BY <1>2, <1>3, <2>1
<1>6. ASSUME NEW i \in 1..k PROVE c[i] = b[i]
  <2>1. CASE i = k
    BY <1>1, <1>4, <1>5, <2>1
  <2>2. CASE i # k
    <3>1. i \in 1..(k - 1)
      BY <1>2, <2>2
    <3> QED
      BY <1>3, <1>4, <1>5, <3>1
  <2> QED
    BY <2>1, <2>2
<1>7. c = b
  BY <1>4, <1>5, <1>6, SeqEqual
<1> QED
  BY <1>1, <1>7

(* split(' ') yields tokens without spaces that make up the text again *)
LEMMA TokensMakeUp ==
    ASSUME NEW B, NEW C, C \subseteq B \cup {SP}, NEW A, B \subseteq A, SP \in A,
           NEW v \in Seq(C)
    PROVE  Tokens(v) \in TokenLists(B) /\ \E j : Joins(j, Tokens(v), v, A)
<1>1. PICK t : IsTokenTrace(t, v, B)
  BY TokenTrace
<1>2. PICK n : n = Len(v)
  OBVIOUS
<1>3. n \in Nat /\ \A k \in 1..n : v[k] \in C
  BY <1>2, LenProperties, ElementOfSeq
<1>4. /\ t \in [0..n -> TokenLists(B)] /\ t[0] = NoToken
      /\ \A k \in 1..n : t[k] = SplitSpaces(t[k - 1], v[k])
      /\ Tokens(v) = t[n]
  BY <1>1, <1>2 DEF IsTokenTrace, Tokens, NoToken
<1> DEFINE T == {k \in 0..n : \E j : Joins(j, t[k], SubSeq(v, 1, k), A)}
<1>5. 0 \in T
  <2> DEFINE j == [i \in 1..1 |-> <<>>]
  <2>1. NoToken[1] = <<>> /\ Len(NoToken) = 1
    BY DEF NoToken
  <2>2. SubSeq(v, 1, 0) = <<>>
    <3>1. 0 \in 0..Len(v)
      BY <1>2, <1>3
    <3>2. SubSeq(v, 1, 0) \in Seq(C) /\ Len(SubSeq(v, 1, 0)) = 0
      BY <3>1, PrefixTypes
    <3> QED
      BY <3>2, EmptySeq
  <2>3. <<>> \in Seq(A)
    BY EmptySeq
  <2>4. j \in [1..1 -> Seq(A)] /\ j[1] = <<>>
    <3>1. PICK e : e = <<>>
      OBVIOUS
    <3>2. e \in Seq(A) /\ j = [i \in 1..1 |-> e]
      BY <2>3, <3>1
    <3> HIDE DEF j
    <3> QED
      BY <3>1, <3>2
  <2> HIDE DEF j
  <2>5. Joins(j, NoToken, <<>>, A)
    BY <2>1, <2>4 DEF Joins
  <2>6. Joins(j, t[0], SubSeq(v, 1, 0), A)
    BY <1>4, <2>2, <2>5, Zenon
  <2>7. \E i : Joins(i, t[0], SubSeq(v, 1, 0), A)
    BY <2>6
  <2>8. 0 \in 0..n
    BY <1>3
  <2> QED
    BY <2>7, <2>8, Zenon
<1>6. ASSUME NEW k \in 1..n, k - 1 \in T PROVE k \in T
  <2>1. PICK a, b, x : a = SubSeq(v, 1, k - 1) /\ b = SubSeq(v, 1, k) /\ x = v[k]
    OBVIOUS
  <2>2. PICK j : Joins(j, t[k - 1], a, A)
    BY <1>6, <2>1
  <2>3. IsAppend(b, a, x)
    BY <1>2, <2>1, PrefixGrows DEF IsAppend
  <2>4. x \in C /\ t[k - 1] \in TokenLists(B) /\ t[k] = SplitSpaces(t[k - 1], x)
    <3>1. k - 1 \in 0..n
      BY <1>3
    <3> QED
      BY <1>3, <1>4, <2>1, <3>1
  <2>5. PICK i : Joins(i, SplitSpaces(t[k - 1], x), Append(a, x), A)
    BY <2>2, <2>4, JoinsStep
  <2>6. Append(a, x) = b
    BY <2>3 DEF IsAppend
  <2>7. Joins(i, t[k], b, A)
    BY <2>4, <2>5, <2>6
  <2> QED
    BY <1>3, <2>1, <2>7
<1> HIDE DEF T
<1>7. 0..n \subseteq T
  BY <1>3, <1>5, <1>6, UpTo
<1>8. n \in T
  BY <1>3, <1>7
<1>9. PICK j : Joins(j, t[n], SubSeq(v, 1, n), A)
  BY <1>8 DEF T
<1>10. SubSeq(v, 1, n) = v
  BY <1>2, WholePrefix
<1>11. Tokens(v) \in TokenLists(B)
  BY <1>3, <1>4
<1> QED
  BY <1>4, <1>9, <1>10, <1>11

(* The states of fold_signature *)
Folds(A) == [out : Seq(A), column : Nat]
NotFolded == [out |-> <<>>, column |-> 0]
IsFoldTrace(t, l, A) ==
    /\ t \in [0..Len(l) -> Folds(A)]
    /\ t[0] = NotFolded
    /\ \A k \in 1..Len(l) : t[k] = FoldToken(t[k - 1], l[k])
    /\ FoldLeft(FoldToken, NotFolded, l) = t[Len(l)]

Parting(s, token) ==
    IF s.column > 0 /\ s.column + 1 + Len(token) > LIMIT THEN Break
    ELSE IF s.column > 0 THEN <<SP>> ELSE <<>>

IsFolded(r, s, g, token, A) ==
    /\ r.out = (s.out \o g) \o token
    /\ r.column = Len(token) + (IF g = Break THEN 1 ELSE s.column + Len(g))
    /\ r \in Folds(A)
    /\ g \in Seq(A)

(* What a token does *)
LEMMA FoldTokenIs ==
    ASSUME NEW B, NEW A, B \subseteq A, White \subseteq A, NEW s \in Folds(A), NEW token \in Seq(B)
    PROVE  IsFolded(FoldToken(s, token), s, Parting(s, token), token, A)
<1>1. PICK n, c : n = Len(token) /\ c = s.column
  OBVIOUS
<1>2. n \in Nat /\ c \in Nat /\ s.out \in Seq(A) /\ token \in Seq(A)
  BY <1>1, LenProperties, WiderSeq DEF Folds
<1>3. Len(<<SP>>) = 1 /\ Len(<<>>) = 0 /\ Break # <<SP>> /\ Break # <<>>
  BY DEF Break
<1>4. Break \in Seq(A) /\ <<SP>> \in Seq(A) /\ <<>> \in Seq(A)
  BY DEF Break, White
<1>5. PICK g : g = Parting(s, token)
  OBVIOUS
<1>6. g \in Seq(A)
  BY <1>4, <1>5 DEF Parting
<1>7. g = Break <=> c > 0 /\ c + 1 + n > LIMIT
  BY <1>1, <1>3, <1>5 DEF Parting
<1>8. Len(g) \in Nat
  BY <1>6, LenProperties
<1>9. PICK o : o = (s.out \o g) \o token
  OBVIOUS
<1>10. o \in Seq(A)
  BY <1>2, <1>6, <1>9, ConcatProperties
<1>11. PICK d : d = n + (IF g = Break THEN 1 ELSE c + Len(g))
  OBVIOUS
<1>12. d \in Nat
  BY <1>2, <1>8, <1>11
<1>13. FoldToken(s, token) = [out |-> o, column |-> d]
  <2>1. FoldToken(s, token) = [out |-> (s.out \o g) \o token,
            column |-> n + IF c > 0 /\ c + 1 + n > LIMIT THEN 1 ELSE c + Len(g)]
    BY <1>1, <1>5, Zenon DEF FoldToken, Parting, Break
  <2> QED
    BY <1>7, <1>9, <1>11, <2>1
<1>14. PICK r : r = FoldToken(s, token)
  OBVIOUS
<1>15. r.out = o /\ r.column = d /\ r \in Folds(A)
  BY <1>10, <1>12, <1>13, <1>14 DEF Folds
<1>16. IsFolded(r, s, g, token, A)
  BY <1>1, <1>6, <1>9, <1>11, <1>15 DEF IsFolded
<1> QED
  BY <1>5, <1>14, <1>16

(* fold_signature stays within its states. *)
LEMMA FoldTypes ==
    ASSUME NEW B, NEW A, B \subseteq A, White \subseteq A
    PROVE  NotFolded \in Folds(A) /\ \A s \in Folds(A), x \in Seq(B) : FoldToken(s, x) \in Folds(A)
<1>1. NotFolded \in Folds(A)
  BY EmptySeq DEF NotFolded, Folds
<1> QED
  BY <1>1, FoldTokenIs DEF IsFolded

(* fold_signature walks over the tokens state by state. *)
LEMMA FoldTrace ==
    ASSUME NEW B, NEW A, B \subseteq A, White \subseteq A, NEW TT, TT = Seq(B), NEW l \in Seq(TT)
    PROVE  \E t : IsFoldTrace(t, l, A)
<1> DEFINE n == Len(l)
           G == [k \in 1..n |-> [s \in Folds(A) |-> FoldToken(s, l[k])]]
           R(f) == f = [s \in SUBSET (1..n) |->
                          IF s = {} THEN NotFolded ELSE FoldToken(f[s \ {Max(s)}], l[Max(s)])]
           iter == CHOOSE f : R(f)
<1>1. n \in Nat /\ DOMAIN l = 1..n /\ \A k \in 1..n : l[k] \in TT
  BY LenProperties, ElementOfSeq
<1>2. NotFolded \in Folds(A) /\ \A s \in Folds(A), x \in TT : FoldToken(s, x) \in Folds(A)
  BY FoldTypes
<1>3. G \in [1..n -> [Folds(A) -> Folds(A)]]
  BY <1>1, <1>2
<1>4. \A k \in 1..n, s \in Folds(A) : G[k][s] = FoldToken(s, l[k])
  OBVIOUS
<1>5. FoldLeft(FoldToken, NotFolded, l) = iter[1..n]
  BY <1>1, Zenon DEF FoldLeft, MapThenFoldSet
<1> HIDE DEF n, G
<1>6. PICK f : IsTable(f, NotFolded, G, n, Folds(A))
  BY <1>1, <1>2, <1>3, TableExists
<1>7. R(f)
  <2>1. f \in [SUBSET (1..n) -> Folds(A)]
    BY <1>6 DEF IsTable
  <2>2. ASSUME NEW s \in SUBSET (1..n)
        PROVE  f[s] = IF s = {} THEN NotFolded ELSE FoldToken(f[s \ {Max(s)}], l[Max(s)])
    <3>1. f[s] = IF s = {} THEN NotFolded ELSE G[Max(s)][f[s \ {Max(s)}]]
      BY <1>6 DEF IsTable
    <3>2. CASE s = {}
      BY <3>1, <3>2
    <3>3. CASE s # {}
      <4>1. Max(s) \in s
        <5>1. s \in SUBSET (0..n)
          BY <1>1
        <5> QED
          BY <1>1, <3>3, <5>1, MaxIsGreatest
      <4>2. Max(s) \in 1..n /\ f[s \ {Max(s)}] \in Folds(A)
        BY <2>1, <4>1
      <4> QED
        BY <1>4, <3>1, <3>3, <4>2
    <3> QED
      BY <3>2, <3>3
  <2> QED
    BY <2>1, <2>2
<1>8. R(iter)
  BY <1>7, Zenon
<1> HIDE DEF iter
<1> DEFINE t == [k \in 0..n |-> iter[1..k]]
           T == {k \in 0..n : iter[1..k] \in Folds(A)}
<1>9. iter[1..0] = NotFolded
  <2>1. 1..0 = {} /\ {} \in SUBSET (1..n)
    OBVIOUS
  <2> QED
    BY <1>8, <2>1
<1>10. ASSUME NEW k \in 1..n PROVE iter[1..k] = FoldToken(iter[1..(k - 1)], l[k])
  <2>1. k \in Nat \ {0} /\ 1..k \in SUBSET (1..n) /\ 1..k # {}
    <3>1. n \in Nat
      BY <1>1
    <3> QED
      BY <3>1
  <2>2. Max(1..k) = k /\ (1..k) \ {Max(1..k)} = 1..(k - 1)
    BY <2>1, MaxOfInterval
  <2>3. iter[1..k] = FoldToken(iter[(1..k) \ {Max(1..k)}], l[Max(1..k)])
    BY <1>8, <2>1
  <2> QED
    BY <2>2, <2>3
<1>11. 0 \in T
  BY <1>1, <1>2, <1>9
<1>12. ASSUME NEW k \in 1..n, k - 1 \in T PROVE k \in T
  BY <1>1, <1>2, <1>10, <1>12
<1>13. 0..n \subseteq T
  <2> HIDE DEF T
  <2> QED
    BY <1>1, <1>11, <1>12, UpTo
<1>14. t \in [0..n -> Folds(A)]
  BY <1>13
<1>15. t[0] = NotFolded
  BY <1>1, <1>9
<1>16. \A k \in 1..n : t[k] = FoldToken(t[k - 1], l[k])
  <2> SUFFICES ASSUME NEW k \in 1..n PROVE t[k] = FoldToken(t[k - 1], l[k])
    OBVIOUS
  <2>1. k \in 0..n /\ k - 1 \in 0..n
    BY <1>1
  <2> QED
    BY <1>10, <2>1
<1>17. FoldLeft(FoldToken, NotFolded, l) = t[n]
  BY <1>1, <1>5
<1> HIDE DEF t
<1> QED
  BY <1>14, <1>15, <1>16, <1>17 DEF IsFoldTrace, n

(* A text put together of three, position by position *)
Parts3(r, x, y, z, A) ==
    /\ r \in Seq(A) /\ Len(x) \in Nat /\ Len(y) \in Nat /\ Len(z) \in Nat
    /\ Len(r) = (Len(x) + Len(y)) + Len(z)
    /\ \A i \in 1..Len(x) : r[i] = x[i]
    /\ \A i \in 1..Len(y) : r[Len(x) + i] = y[i]
    /\ \A i \in 1..Len(z) : r[(Len(x) + Len(y)) + i] = z[i]

(* Three texts in a row, by positions. *)
LEMMA ThreeParts ==
    ASSUME NEW A, NEW x \in Seq(A), NEW y \in Seq(A), NEW z \in Seq(A)
    PROVE  Parts3((x \o y) \o z, x, y, z, A)
<1>1. PICK p, r : p = x \o y /\ r = p \o z
  OBVIOUS
<1>2. Joined(x, y, p, A)
  BY <1>1, ConcatJoins
<1>3. p \in Seq(A)
  BY <1>2 DEF Joined
<1>4. Joined(p, z, r, A)
  BY <1>1, <1>3, ConcatJoins
<1>5. PICK n, m, l : n = Len(x) /\ m = Len(y) /\ l = Len(z)
  OBVIOUS
<1>6. /\ n \in Nat /\ m \in Nat /\ Len(p) = n + m
      /\ \A i \in 1..n : p[i] = x[i]
      /\ \A i \in 1..m : p[n + i] = y[i]
  BY <1>2, <1>5 DEF Joined
<1>7. /\ r \in Seq(A) /\ l \in Nat /\ Len(r) = (n + m) + l
      /\ \A i \in 1..(n + m) : r[i] = p[i]
      /\ \A i \in 1..l : r[(n + m) + i] = z[i]
  BY <1>4, <1>5, <1>6 DEF Joined
<1>8. ASSUME NEW i \in 1..n PROVE r[i] = x[i]
  <2>1. i \in 1..(n + m)
    BY <1>6
  <2> QED
    BY <1>6, <1>7, <2>1
<1>9. ASSUME NEW i \in 1..m PROVE r[n + i] = y[i]
  <2>1. n + i \in 1..(n + m)
    BY <1>6
  <2> QED
    BY <1>6, <1>7, <2>1
<1>10. Parts3(r, x, y, z, A)
  BY <1>5, <1>6, <1>7, <1>8, <1>9 DEF Parts3
<1> QED
  BY <1>1, <1>10

(* After each token the folded text is, for canonicalize_header, what the   *)
(* text was before it was folded                                            *)
LEMMA FoldIsUnseen ==
    ASSUME NEW B, NEW A, B \subseteq A, White \subseteq A, NEW l \in TokenLists(B),
           \A i \in 1..Len(l) : l[i] # <<>>,
           NEW j, NEW text, Joins(j, l, text, A), NEW t, IsFoldTrace(t, l, A)
    PROVE  \A m \in 1..Len(l) : t[m].column > 0 /\ KeptAfter(t[m].out) = KeptAfter(j[m])
<1>1. PICK n : n = Len(l)
  OBVIOUS
<1>2. n \in Nat \ {0} /\ \A i \in 1..n : l[i] \in Seq(B) /\ l[i] # <<>>
  BY <1>1, EmptySeq, LenProperties, ElementOfSeq DEF TokenLists
<1>3. /\ t \in [0..n -> Folds(A)] /\ t[0] = NotFolded
      /\ \A k \in 1..n : t[k] = FoldToken(t[k - 1], l[k])
  BY <1>1 DEF IsFoldTrace
<1>4. /\ j \in [1..n -> Seq(A)] /\ j[1] = l[1]
      /\ \A i \in 2..n : j[i] = (j[i - 1] \o <<SP>>) \o l[i]
  BY <1>1 DEF Joins
<1> DEFINE P(m) == t[m].column > 0 /\ KeptAfter(t[m].out) = KeptAfter(j[m])
           T == {m \in 0..n : m = 0 \/ P(m)}
<1>5. 0 \in T
  BY <1>2
<1>6. ASSUME NEW m \in 1..n, m - 1 \in T PROVE m \in T
  <2>1. PICK s, w, g, r : s = t[m - 1] /\ w = l[m] /\ g = Parting(s, w) /\ r = t[m]
    OBVIOUS
  <2>2. m \in Nat /\ m - 1 \in 0..n
    BY <1>2
  <2>3. s \in Folds(A) /\ w \in Seq(B) /\ w # <<>> /\ r = FoldToken(s, w)
    BY <1>2, <1>3, <2>1, <2>2
  <2>4. /\ r.out = (s.out \o g) \o w
        /\ r.column = Len(w) + (IF g = Break THEN 1 ELSE s.column + Len(g))
        /\ g \in Seq(A)
    <3>1. IsFolded(FoldToken(s, w), s, Parting(s, w), w, A)
      BY <2>3, FoldTokenIs
    <3>2. IsFolded(r, s, g, w, A)
      BY <2>1, <2>3, <3>1
    <3> QED
      BY <3>2 DEF IsFolded
  <2>5. w \in Seq(A) /\ s.out \in Seq(A) /\ s.column \in Nat /\ Len(w) \in Nat \ {0}
    BY <2>3, EmptySeq, LenProperties, WiderSeq DEF Folds
  <2>6. r.column > 0
    <3>1. Len(g) \in Nat
      BY <2>4, LenProperties
    <3> QED
      BY <2>4, <2>5, <3>1
  <2>7. CASE m = 1
    <3>1. s.out = <<>> /\ s.column = 0
      BY <1>3, <2>1, <2>7 DEF NotFolded
    <3>2. g = <<>>
      BY <2>1, <3>1 DEF Parting
    <3>3. r.out = w
      <4>1. PICK e : e = <<>>
        OBVIOUS
      <4>2. r.out = (e \o e) \o w
        BY <2>4, <3>1, <3>2, <4>1
      <4>3. e \o e = e /\ e \o w = w
        BY <2>5, <4>1, ConcatEmptySeq, EmptySeq
      <4> QED
        BY <4>2, <4>3
    <3>4. KeptAfter(t[m].out) = KeptAfter(j[m])
      BY <1>4, <2>1, <2>7, <3>3
    <3> QED
      BY <2>1, <2>2, <2>6, <3>4
  <2>8. CASE m # 1
    <3>1. m \in 2..n /\ m - 1 \in 1..n /\ m - 1 # 0
      BY <1>2, <2>2, <2>8
    <3>2. PICK p : p = j[m - 1]
      OBVIOUS
    <3>3. s.column > 0 /\ KeptAfter(s.out) = KeptAfter(p)
      BY <1>6, <2>1, <3>1, <3>2
    <3>4. p \in Seq(A) /\ j[m] = (p \o <<SP>>) \o w
      BY <1>4, <2>1, <3>1, <3>2
    <3>5. g = Break \/ g = <<SP>>
      BY <2>1, <3>3 DEF Parting
    <3>6. <<SP>> \in Seq(A) /\ KeptAfter(s.out \o Break) = KeptAfter(s.out \o <<SP>>)
      BY <2>5, BreakIsSpace
    <3>7. KeptAfter(s.out \o <<SP>>) = KeptAfter(p \o <<SP>>)
      BY <2>5, <3>3, <3>4, <3>6, KeptAlike
    <3>8. PICK a, b : a = s.out \o g /\ b = p \o <<SP>>
      OBVIOUS
    <3>9. KeptAfter(a) = KeptAfter(b)
      BY <3>5, <3>6, <3>7, <3>8
    <3>10. a \in Seq(A) /\ b \in Seq(A)
      BY <2>4, <2>5, <3>4, <3>6, <3>8, ConcatProperties
    <3>11. KeptAfter(a \o w) = KeptAfter(b \o w)
      BY <2>5, <3>9, <3>10, KeptAlike
    <3>12. r.out = a \o w /\ j[m] = b \o w
      BY <2>4, <3>4, <3>8
    <3>13. KeptAfter(r.out) = KeptAfter(j[m])
      BY <3>11, <3>12, Zenon
    <3>14. P(m)
      BY <2>1, <2>6, <3>13
    <3> QED
      BY <2>2, <3>14
  <2> QED
    BY <2>7, <2>8
<1> HIDE DEF T
<1>7. 0..n \subseteq T
  BY <1>2, <1>5, <1>6, UpTo
<1>8. ASSUME NEW m \in 1..n PROVE P(m)
  <2>1. m \in T /\ m # 0
    BY <1>2, <1>7
  <2> QED
    BY <2>1 DEF T
<1> QED
  BY <1>1, <1>8

-----------------------------------------------------------------------------
(* The lines of a folded text: where they start, one that is short enough,  *)
(* one that ends in front of q                                              *)
LineStarts(o) == {1} \cup {i \in 2..Len(o) : o[i - 1] = LF}
IsShort(o, i, e) == (e - i) + 1 <= LIMIT \/ \A k \in i..e : o[k] # SP
EndsBefore(o, i, q) ==
    \E e \in i..Len(o) : /\ e + 1 < q /\ o[e + 1] = CR
                         /\ \A k \in i..e : o[k] # CR
                         /\ IsShort(o, i, e)

(* The last line of o starts at q and has c bytes *)
LastLine(o, c, q) ==
    /\ q \in 1..Len(o)
    /\ c = (Len(o) - q) + 1
    /\ \A k \in q..Len(o) : o[k] # CR /\ o[k] # LF
    /\ IsShort(o, q, Len(o))
    /\ \A i \in LineStarts(o) : i = q \/ EndsBefore(o, i, q)

(* A line that has ended stays as it is *)
LEMMA EndedStays ==
    ASSUME NEW n \in Nat, NEW m \in Nat, n <= m, NEW o, Len(o) = n, NEW r, Len(r) = m,
           \A k \in 1..n : r[k] = o[k],
           NEW i \in 1..n, NEW q, q \in 1..n, EndsBefore(o, i, q),
           NEW u \in Nat, q <= u
    PROVE  EndsBefore(r, i, u)
<1>1. PICK e \in i..n : /\ e + 1 < q /\ o[e + 1] = CR
                        /\ \A k \in i..e : o[k] # CR
                        /\ IsShort(o, i, e)
  BY DEF EndsBefore
<1>2. e \in i..m /\ e + 1 < u /\ e + 1 \in 1..n
  BY <1>1
<1>3. r[e + 1] = CR
  BY <1>1, <1>2
<1>4. \A k \in i..e : k \in 1..n /\ r[k] = o[k]
  BY <1>1, <1>2
<1>5. IsShort(r, i, e)
  BY <1>1, <1>4 DEF IsShort
<1>6. \A k \in i..e : r[k] # CR
  BY <1>1, <1>4
<1> QED
  BY <1>2, <1>3, <1>5, <1>6 DEF EndsBefore

(* The first token *)
LEMMA LineBegins ==
    ASSUME NEW B, B \cap White = {}, NEW w \in Seq(B), w # <<>>
    PROVE  LastLine(w, Len(w), 1)
<1>1. PICK n : n = Len(w)
  OBVIOUS
<1>2. n \in Nat \ {0} /\ \A k \in 1..n : w[k] \in B
  BY <1>1, EmptySeq, LenProperties, ElementOfSeq
<1>3. \A k \in 1..n : w[k] # CR /\ w[k] # LF /\ w[k] # SP
  BY <1>2 DEF White
<1>4. LineStarts(w) = {1}
  <2>1. ASSUME NEW i \in 2..n PROVE w[i - 1] # LF
    <3>1. i - 1 \in 1..n
      BY <1>2
    <3> QED
      BY <1>3, <3>1
  <2> QED
    BY <1>1, <2>1 DEF LineStarts
<1>5. IsShort(w, 1, n)
  BY <1>3 DEF IsShort
<1>6. 1 \in 1..n /\ n = (n - 1) + 1
  BY <1>2
<1> QED
  BY <1>1, <1>3, <1>4, <1>5, <1>6 DEF LastLine

(* A token on the same line *)
LEMMA LineGoesOn ==
    ASSUME NEW B, B \cap White = {}, NEW A, B \subseteq A, White \subseteq A,
           NEW o \in Seq(A), NEW c, NEW q, LastLine(o, c, q),
           NEW w \in Seq(B), (c + 1) + Len(w) <= LIMIT,
           NEW r, Parts3(r, o, <<SP>>, w, A)
    PROVE  LastLine(r, (c + 1) + Len(w), q)
<1>1. PICK n, l, y : n = Len(o) /\ l = Len(w) /\ y = <<SP>>
  OBVIOUS
<1>2. /\ n \in Nat /\ l \in Nat /\ Len(r) = (n + 1) + l
      /\ \A i \in 1..n : r[i] = o[i]
      /\ r[n + 1] = SP
      /\ \A i \in 1..l : r[(n + 1) + i] = w[i]
  <2>1. y[1] = SP /\ Len(y) = 1 /\ 1 \in 1..Len(y)
    BY <1>1
  <2>2. /\ n \in Nat /\ l \in Nat /\ Len(r) = (n + Len(y)) + l
        /\ \A i \in 1..n : r[i] = o[i]
        /\ \A i \in 1..Len(y) : r[n + i] = y[i]
        /\ \A i \in 1..l : r[(n + Len(y)) + i] = w[i]
    BY <1>1 DEF Parts3
  <2> QED
    BY <2>1, <2>2
<1>3. \A i \in 1..l : w[i] # CR /\ w[i] # LF
  <2>1. \A i \in 1..l : w[i] \in B
    BY <1>1, ElementOfSeq
  <2> QED
    BY <2>1 DEF White
<1>4. /\ q \in 1..n /\ c = (n - q) + 1
      /\ \A k \in q..n : o[k] # CR /\ o[k] # LF
      /\ \A i \in LineStarts(o) : i = q \/ EndsBefore(o, i, q)
  BY <1>1 DEF LastLine
<1>5. PICK m : m = Len(r)
  OBVIOUS
<1>6. m \in Nat /\ m = (n + 1) + l /\ q \in 1..m /\ n <= m /\ q \in Nat
  BY <1>2, <1>4, <1>5
<1>7. ASSUME NEW k \in q..m PROVE r[k] # CR /\ r[k] # LF
  <2>1. CASE k <= n
    <3>1. k \in 1..n /\ k \in q..n
      BY <1>2, <1>4, <1>6, <2>1
    <3> QED
      BY <1>2, <1>4, <3>1
  <2>2. CASE k = n + 1
    BY <1>2, <2>2 DEF SP, CR, LF
  <2>3. CASE k > n + 1
    <3>1. PICK i \in 1..l : k = (n + 1) + i
      <4>1. k - (n + 1) \in 1..l /\ k = (n + 1) + (k - (n + 1))
        BY <1>2, <1>4, <1>6, <2>3
      <4> QED
        BY <4>1
    <3> QED
      BY <1>2, <1>3, <3>1
  <2> QED
    BY <1>2, <1>6, <2>1, <2>2, <2>3
<1>8. IsShort(r, q, m)
  <2>1. (m - q) + 1 = (c + 1) + l
    BY <1>2, <1>4, <1>6
  <2> QED
    BY <1>1, <2>1 DEF IsShort
<1>9. ASSUME NEW i \in LineStarts(r) PROVE i = q \/ EndsBefore(r, i, q)
  <2>1. i \in LineStarts(o) /\ i \in 1..n
    <3>1. CASE i = 1
      BY <1>2, <1>4, <3>1 DEF LineStarts
    <3>2. CASE i # 1
      <4>1. i \in 2..m /\ r[i - 1] = LF
        BY <1>5, <1>9, <3>2 DEF LineStarts
      <4>2. ~(i - 1 \in q..m)
        BY <1>7, <4>1
      <4>3. i - 1 < q /\ i \in 2..n /\ i - 1 \in 1..n
        BY <1>2, <1>4, <1>6, <4>1, <4>2
      <4>4. o[i - 1] = LF
        BY <1>2, <4>1, <4>3
      <4> QED
        BY <1>1, <4>3, <4>4 DEF LineStarts
    <3> QED
      BY <3>1, <3>2
  <2>2. CASE i = q
    BY <2>2
  <2>3. CASE i # q
    <3>1. EndsBefore(o, i, q)
      BY <1>4, <2>1, <2>3
    <3>2. q <= q
      BY <1>6
    <3> QED
      BY <1>1, <1>2, <1>4, <1>5, <1>6, <2>1, <3>1, <3>2, EndedStays
  <2> QED
    BY <2>2, <2>3
<1>10. (c + 1) + l = (m - q) + 1
  BY <1>2, <1>4, <1>6
<1> QED
  BY <1>1, <1>5, <1>6, <1>7, <1>8, <1>9, <1>10 DEF LastLine

(* A token on a line of its own *)
LEMMA LineEnds ==
    ASSUME NEW B, B \cap White = {}, NEW A, B \subseteq A, White \subseteq A,
           NEW o \in Seq(A), NEW c, NEW q, LastLine(o, c, q),
           NEW w \in Seq(B), NEW r, Parts3(r, o, Break, w, A)
    PROVE  LastLine(r, 1 + Len(w), Len(o) + 3)
<1>1. PICK n, l, y : n = Len(o) /\ l = Len(w) /\ y = Break
  OBVIOUS
<1>2. /\ n \in Nat /\ l \in Nat /\ Len(r) = (n + 3) + l
      /\ \A i \in 1..n : r[i] = o[i]
      /\ r[n + 1] = CR /\ r[n + 2] = LF /\ r[n + 3] = TAB
      /\ \A i \in 1..l : r[(n + 3) + i] = w[i]
  <2>1. Len(y) = 3 /\ y[1] = CR /\ y[2] = LF /\ y[3] = TAB
    BY <1>1 DEF Break
  <2>2. /\ n \in Nat /\ l \in Nat /\ Len(r) = (n + Len(y)) + l
        /\ \A i \in 1..n : r[i] = o[i]
        /\ \A i \in 1..Len(y) : r[n + i] = y[i]
        /\ \A i \in 1..l : r[(n + Len(y)) + i] = w[i]
    BY <1>1 DEF Parts3
  <2>3. 1 \in 1..Len(y) /\ 2 \in 1..Len(y) /\ 3 \in 1..Len(y)
    BY <2>1
  <2> QED
    BY <2>1, <2>2, <2>3
<1>3. \A i \in 1..l : w[i] # CR /\ w[i] # LF /\ w[i] # SP
  <2>1. \A i \in 1..l : w[i] \in B
    BY <1>1, ElementOfSeq
  <2> QED
    BY <2>1 DEF White
<1>4. /\ q \in 1..n
      /\ \A k \in q..n : o[k] # CR /\ o[k] # LF
      /\ IsShort(o, q, n)
      /\ \A i \in LineStarts(o) : i = q \/ EndsBefore(o, i, q)
  BY <1>1 DEF LastLine
<1>5. PICK m, u : m = Len(r) /\ u = n + 3
  OBVIOUS
<1>6. m \in Nat /\ m = u + l /\ u \in 1..m /\ n <= m /\ q \in Nat /\ u \in Nat /\ q <= u
  BY <1>2, <1>4, <1>5
<1>7. ASSUME NEW k \in u..m PROVE r[k] # CR /\ r[k] # LF /\ r[k] # SP
  <2>1. CASE k = u
    BY <1>2, <1>5, <2>1 DEF SP, CR, LF, TAB
  <2>2. CASE k # u
    <3>1. PICK i \in 1..l : k = u + i
      <4>1. k - u \in 1..l /\ k = u + (k - u)
        BY <1>2, <1>6, <2>2
      <4> QED
        BY <4>1
    <3> QED
      BY <1>2, <1>3, <1>5, <3>1
  <2> QED
    BY <2>1, <2>2
<1>8. IsShort(r, u, m)
  BY <1>7 DEF IsShort
<1>9. EndsBefore(r, q, u)
  <2>1. n \in q..m /\ n + 1 < u /\ r[n + 1] = CR
    BY <1>2, <1>4, <1>5, <1>6
  <2>2. \A k \in q..n : k \in 1..n /\ r[k] = o[k]
    BY <1>2, <1>4
  <2>3. IsShort(r, q, n) /\ \A k \in q..n : r[k] # CR
    BY <1>4, <2>2 DEF IsShort
  <2> QED
    BY <1>5, <2>1, <2>3 DEF EndsBefore
<1>10. ASSUME NEW i \in LineStarts(r) PROVE i = u \/ EndsBefore(r, i, u)
  <2>1. i = u \/ (i \in LineStarts(o) /\ i \in 1..n)
    <3>1. CASE i = 1
      BY <1>2, <1>4, <3>1 DEF LineStarts
    <3>2. CASE i # 1
      <4>1. i \in 2..m /\ r[i - 1] = LF
        BY <1>5, <1>10, <3>2 DEF LineStarts
      <4>2. ~(i - 1 \in u..m)
        BY <1>7, <4>1
      <4>3. i - 1 # n + 1
        BY <1>2, <4>1 DEF CR, LF
      <4>4. i = u \/ i - 1 \in 1..n
        BY <1>2, <1>5, <1>6, <4>1, <4>2, <4>3
      <4>5. CASE i - 1 \in 1..n
        <5>1. o[i - 1] = LF
          BY <1>2, <4>1, <4>5
        <5>2. i - 1 # n
          <6>1. n \in q..n
            BY <1>2, <1>4
          <6> QED
            BY <1>4, <5>1, <6>1
        <5>3. i \in 2..n
          BY <1>2, <4>1, <4>5, <5>2
        <5> QED
          BY <1>1, <5>1, <5>3 DEF LineStarts
      <4> QED
        BY <4>4, <4>5
    <3> QED
      BY <3>1, <3>2
  <2>2. CASE i = u \/ i = q
    BY <1>9, <2>2
  <2>3. CASE i # u /\ i # q
    <3>1. i \in 1..n /\ EndsBefore(o, i, q)
      BY <1>4, <2>1, <2>3
    <3> QED
      <4>1. /\ Len(o) = n /\ Len(r) = m /\ n \in Nat /\ m \in Nat /\ n <= m
            /\ \A k \in 1..n : r[k] = o[k]
        BY <1>1, <1>2, <1>5, <1>6
      <4>2. q \in 1..n /\ u \in Nat /\ q <= u
        BY <1>4, <1>6
      <4> QED
        BY <3>1, <4>1, <4>2, EndedStays
  <2> QED
    BY <2>2, <2>3
<1>11. 1 + l = (m - u) + 1
  BY <1>2, <1>6
<1>12. LastLine(r, 1 + l, u)
  BY <1>5, <1>6, <1>7, <1>8, <1>10, <1>11 DEF LastLine
<1> QED
  BY <1>1, <1>5, <1>12

(* After each token all lines but the last have ended and all are short *)
LEMMA FoldKeepsLines ==
    ASSUME NEW B, B \cap White = {}, NEW A, B \subseteq A, White \subseteq A,
           NEW l \in TokenLists(B), \A i \in 1..Len(l) : l[i] # <<>>,
           NEW t, IsFoldTrace(t, l, A)
    PROVE  \A m \in 1..Len(l) : \E q : LastLine(t[m].out, t[m].column, q)
<1>1. PICK n : n = Len(l)
  OBVIOUS
<1>2. n \in Nat \ {0} /\ \A i \in 1..n : l[i] \in Seq(B) /\ l[i] # <<>>
  BY <1>1, EmptySeq, LenProperties, ElementOfSeq DEF TokenLists
<1>3. /\ t \in [0..n -> Folds(A)] /\ t[0] = NotFolded
      /\ \A k \in 1..n : t[k] = FoldToken(t[k - 1], l[k])
  BY <1>1 DEF IsFoldTrace
<1> DEFINE P(m) == \E q : LastLine(t[m].out, t[m].column, q)
           T == {m \in 0..n : m = 0 \/ P(m)}
<1>5. 0 \in T
  BY <1>2
<1>6. ASSUME NEW m \in 1..n, m - 1 \in T PROVE m \in T
  <2>1. PICK s, w, g, r : s = t[m - 1] /\ w = l[m] /\ g = Parting(s, w) /\ r = t[m]
    OBVIOUS
  <2>2. m \in Nat /\ m - 1 \in 0..n
    BY <1>2
  <2>3. s \in Folds(A) /\ w \in Seq(B) /\ w # <<>> /\ r = FoldToken(s, w)
    BY <1>2, <1>3, <2>1, <2>2
  <2>4. /\ r.out = (s.out \o g) \o w
        /\ r.column = Len(w) + (IF g = Break THEN 1 ELSE s.column + Len(g))
        /\ g \in Seq(A)
    <3>1. IsFolded(FoldToken(s, w), s, Parting(s, w), w, A)
      BY <2>3, FoldTokenIs
    <3>2. IsFolded(r, s, g, w, A)
      BY <2>1, <2>3, <3>1
    <3> QED
      BY <3>2 DEF IsFolded
  <2>5. w \in Seq(A) /\ s.out \in Seq(A) /\ s.column \in Nat /\ Len(w) \in Nat \ {0}
    BY <2>3, EmptySeq, LenProperties, WiderSeq DEF Folds
  <2>6. CASE m = 1
    <3>1. s.out = <<>> /\ s.column = 0
      BY <1>3, <2>1, <2>6 DEF NotFolded
    <3>2. g = <<>> /\ g # Break
      BY <2>1, <3>1 DEF Parting, Break
    <3>3. r.out = w
      <4>1. PICK e : e = <<>>
        OBVIOUS
      <4>2. r.out = (e \o e) \o w
        BY <2>4, <3>1, <3>2, <4>1
      <4>3. e \o e = e /\ e \o w = w
        BY <2>5, <4>1, ConcatEmptySeq, EmptySeq
      <4> QED
        BY <4>2, <4>3
    <3>4. r.column = Len(w)
      <4>1. Len(g) = 0
        BY <3>2
      <4> QED
        BY <2>4, <2>5, <3>1, <3>2, <4>1
    <3>5. LastLine(w, Len(w), 1)
      BY <2>3, LineBegins
    <3>6. P(m)
      BY <2>1, <3>3, <3>4, <3>5
    <3> QED
      BY <2>2, <3>6
  <2>7. CASE m # 1
    <3>1. m - 1 # 0
      BY <2>2, <2>7
    <3>2. P(m - 1)
      BY <1>6, <3>1
    <3>3. PICK o, c, q : o = s.out /\ c = s.column /\ LastLine(o, c, q)
      BY <2>1, <3>2
    <3>4. PICK n0 : n0 = Len(o)
      OBVIOUS
    <3>5. o \in Seq(A) /\ n0 \in Nat /\ c \in Nat /\ c > 0
      <4>1. o \in Seq(A) /\ n0 \in Nat
        BY <2>5, <3>3, <3>4, LenProperties
      <4>2. q \in 1..n0 /\ c = (n0 - q) + 1
        BY <3>3, <3>4 DEF LastLine
      <4> QED
        BY <4>1, <4>2
    <3>6. PICK k : k = Len(w)
      OBVIOUS
    <3>7. Parts3(r.out, o, g, w, A)
      <4>1. Parts3((o \o g) \o w, o, g, w, A)
        BY <2>4, <2>5, <3>5, ThreeParts
      <4> QED
        BY <2>4, <3>3, <4>1
    <3>8. CASE c + 1 + k > LIMIT
      <4>1. g = Break
        BY <2>1, <3>3, <3>5, <3>6, <3>8 DEF Parting
      <4>2. r.column = 1 + k
        BY <2>4, <2>5, <3>6, <4>1
      <4>3. Parts3(r.out, o, Break, w, A)
        BY <3>7, <4>1
      <4>4. LastLine(r.out, 1 + Len(w), Len(o) + 3)
        BY <2>3, <3>3, <3>5, <4>3, LineEnds
      <4>5. P(m)
        BY <2>1, <3>6, <4>2, <4>4
      <4> QED
        BY <2>2, <4>5
    <3>9. CASE ~(c + 1 + k > LIMIT)
      <4>1. g = <<SP>> /\ g # Break
        BY <2>1, <3>3, <3>5, <3>6, <3>9 DEF Parting, Break
      <4>2. Len(g) = 1
        BY <4>1
      <4>3. r.column = (c + 1) + k
        BY <2>4, <2>5, <3>3, <3>5, <3>6, <4>1, <4>2
      <4>4. (c + 1) + Len(w) <= LIMIT
        BY <2>5, <3>5, <3>6, <3>9, ValueAssumption
      <4>5. Parts3(r.out, o, <<SP>>, w, A)
        BY <3>7, <4>1
      <4>6. LastLine(r.out, (c + 1) + Len(w), q)
        BY <2>3, <3>3, <3>5, <4>4, <4>5, LineGoesOn
      <4>7. P(m)
        BY <2>1, <3>6, <4>3, <4>6
      <4> QED
        BY <2>2, <4>7
    <3> QED
      BY <3>8, <3>9
  <2> QED
    BY <2>6, <2>7
<1> HIDE DEF T
<1>7. 0..n \subseteq T
  BY <1>2, <1>5, <1>6, UpTo
<1>8. ASSUME NEW m \in 1..n PROVE P(m)
  <2>1. m \in T /\ m # 0
    BY <1>2, <1>7
  <2> QED
    BY <2>1 DEF T
<1> QED
  BY <1>1, <1>8

(* A line without CR goes on to its end, the others to their CR *)
LEMMA LinesAreShort ==
    ASSUME NEW A, NEW o \in Seq(A), NEW c, NEW q, LastLine(o, c, q), NEW i \in LineStarts(o)
    PROVE  IsShort(o, i, Max({j \in i..Len(o) : \A k \in i..j : o[k] # CR}))
<1>1. PICK n : n = Len(o)
  OBVIOUS
<1>2. n \in Nat
  BY <1>1, LenProperties
<1>3. /\ q \in 1..n
      /\ \A k \in q..n : o[k] # CR
      /\ IsShort(o, q, n)
      /\ i = q \/ EndsBefore(o, i, q)
  BY <1>1 DEF LastLine
<1> DEFINE M == {j \in i..n : \A k \in i..j : o[k] # CR}
<1>4. i \in 1..n
  BY <1>1, <1>2, <1>3 DEF LineStarts
<1>5. M \in SUBSET (0..n)
  BY <1>2, <1>4
<1>6. CASE i = q
  <2>1. n \in M /\ \A j \in M : j <= n
    BY <1>2, <1>3, <1>4, <1>6
  <2>2. Max(M) = n
    <3> HIDE DEF M
    <3>1. Max(M) \in M /\ \A y \in M : y <= Max(M)
      BY <1>2, <1>5, <2>1, MaxIsGreatest
    <3>2. Max(M) \in 0..n /\ Max(M) <= n /\ n <= Max(M)
      BY <1>5, <2>1, <3>1
    <3> QED
      BY <1>2, <3>2
  <2> QED
    BY <1>1, <1>3, <1>6, <2>2
<1>7. CASE i # q
  <2>1. PICK e \in i..n : /\ e + 1 < q /\ o[e + 1] = CR
                          /\ \A k \in i..e : o[k] # CR
                          /\ IsShort(o, i, e)
    BY <1>1, <1>3, <1>7 DEF EndsBefore
  <2>2. e \in M /\ \A j \in M : j <= e
    <3>1. e \in M
      BY <2>1
    <3>2. ASSUME NEW j \in M, j > e PROVE FALSE
      <4>1. e + 1 \in i..j
        BY <1>2, <1>4, <2>1, <3>2
      <4> QED
        BY <2>1, <4>1
    <3>3. \A j \in M : j \in Nat /\ e \in Nat
      BY <1>2, <1>4
    <3> HIDE DEF M
    <3> QED
      BY <3>1, <3>2, <3>3
  <2>3. Max(M) = e
    <3> HIDE DEF M
    <3>1. Max(M) \in M /\ \A y \in M : y <= Max(M)
      BY <1>2, <1>5, <2>2, MaxIsGreatest
    <3>2. Max(M) \in 0..n /\ e \in 0..n /\ Max(M) <= e /\ e <= Max(M)
      BY <1>5, <2>2, <3>1
    <3> QED
      BY <1>2, <3>2
  <2> QED
    BY <1>1, <2>1, <2>3
<1> QED
  BY <1>6, <1>7

(* A verifier reads a folded signature as it was signed, and its lines stay *)
(* within LIMIT unless a token does not fit, for signatures of any length   *)
(* and any limit of fold_signature.                                         *)
THEOREM FoldingUnseen ==
    ASSUME NEW S, value \in Seq(S)
    PROVE  FoldingIsSound
<1>1. SUFFICES ASSUME IsSignatureValue PROVE FoldingIsSound
  BY DEF FoldingIsSound
<1>2. PICK v, l : v = value /\ l = Tokens(v)
  OBVIOUS
<1>3. PICK B, A, C : B = S \ White /\ A = B \cup White /\ C = B \cup {SP}
  OBVIOUS
<1>4. /\ B \cap White = {} /\ B \subseteq A /\ White \subseteq A
      /\ SP \in A /\ C \subseteq B \cup {SP} /\ C \subseteq A
  BY <1>3 DEF White
<1>5. v \in Seq(C)
  <2>1. v \in Seq(S) /\ Range(v) \cap White \subseteq {SP}
    BY <1>1, <1>2 DEF IsSignatureValue
  <2>2. Len(v) \in Nat /\ DOMAIN v = 1..Len(v) /\ \A i \in 1..Len(v) : v[i] \in S
    BY <2>1, LenProperties, ElementOfSeq
  <2>3. \A i \in 1..Len(v) : v[i] \in White => v[i] = SP
    BY <2>1, <2>2 DEF Range
  <2>4. \A i \in 1..Len(v) : v[i] \in C
    BY <1>3, <2>2, <2>3
  <2>5. v \in [1..Len(v) -> C]
    BY <2>1, <2>2, <2>4
  <2> QED
    BY <2>2, <2>5, TableIsSeq
<1>6. l \in TokenLists(B) /\ \E j : Joins(j, l, v, A)
  BY <1>2, <1>4, <1>5, TokensMakeUp
<1>7. PICK h : Joins(h, l, v, A)
  BY <1>6
<1>8. PICK n : n = Len(l)
  OBVIOUS
<1>9. /\ n \in Nat \ {0} /\ DOMAIN l = 1..n /\ \A i \in 1..n : l[i] \in Seq(B)
  BY <1>6, <1>8, EmptySeq, LenProperties, ElementOfSeq DEF TokenLists
<1>10. \A i \in 1..n : l[i] # <<>>
  <2>1. \A token \in Range(l) : token # <<>>
    BY <1>1, <1>2 DEF IsSignatureValue
  <2> QED
    BY <1>9, <2>1 DEF Range
<1>11. PICK t : IsFoldTrace(t, l, A)
  <2>1. PICK TT : TT = Seq(B)
    OBVIOUS
  <2>2. l \in Seq(TT)
    BY <1>6, <2>1 DEF TokenLists
  <2> QED
    BY <1>4, <2>1, <2>2, FoldTrace
<1>12. n \in 1..n /\ n \in 0..n
  BY <1>9
<1>13. PICK o, c : o = t[n].out /\ c = t[n].column
  OBVIOUS
<1>14. o \in Seq(A) /\ FoldSignature(v) = o
  <2>1. t[n] \in Folds(A) /\ FoldLeft(FoldToken, NotFolded, l) = t[n]
    BY <1>8, <1>11, <1>12 DEF IsFoldTrace
  <2>2. FoldSignature(v) = FoldLeft(FoldToken, NotFolded, l).out
    BY <1>2 DEF FoldSignature, NotFolded
  <2> QED
    BY <1>13, <2>1, <2>2 DEF Folds
<1>15. KeptAfter(o) = KeptAfter(v)
  <2>1. \A m \in 1..Len(l) : t[m].column > 0 /\ KeptAfter(t[m].out) = KeptAfter(h[m])
    BY <1>4, <1>6, <1>7, <1>8, <1>10, <1>11, FoldIsUnseen
  <2>2. h[n] = v
    BY <1>7, <1>8 DEF Joins
  <2> QED
    BY <1>8, <1>12, <1>13, <2>1, <2>2
<1>16. PICK q : LastLine(o, c, q)
  <2>1. \A m \in 1..Len(l) : \E p : LastLine(t[m].out, t[m].column, p)
    BY <1>4, <1>6, <1>8, <1>10, <1>11, FoldKeepsLines
  <2> QED
    BY <1>8, <1>12, <1>13, <2>1
<1>17. Canonical(o) = Canonical(v)
  BY <1>15 DEF Canonical, KeptAfter, NoneKept
<1>18. \A i \in LineStarts(o) :
          \/ Max({j \in i..Len(o) : \A k \in i..j : o[k] # CR}) - i + 1 <= LIMIT
          \/ \A m \in i..Max({j \in i..Len(o) : \A k \in i..j : o[k] # CR}) : o[m] # SP
  <2> SUFFICES ASSUME NEW i \in LineStarts(o), NEW e,
                      e = Max({j \in i..Len(o) : \A k \in i..j : o[k] # CR})
               PROVE  e - i + 1 <= LIMIT \/ \A j \in i..e : o[j] # SP
    BY Zenon
  <2>1. IsShort(o, i, e)
    BY <1>14, <1>16, LinesAreShort
  <2> QED
    BY <2>1 DEF IsShort
<1>19. FoldSignature(value) = o /\ Canonical(o) = Canonical(value)
  BY <1>2, <1>14, <1>17
<1> QED
  BY <1>18, <1>19, Zenon DEF FoldingIsSound, LineStarts

-----------------------------------------------------------------------------
(* The configuration file *)

Texts == {"empty", "good", "bad", "relative", "unix:/path", "unix:path", "tcp:loopback",
          "tcp:elsewhere", "true", "false"}
Wrong == {"empty", "bad", "relative", "unix:path", "tcp:elsewhere"}
Readings == [Names -> Texts \cup {"none", "error"}]
NoneRead == [n \in Names |-> None]

IsReadTrace(t, file) ==
    /\ t \in [0..Len(file) -> Readings]
    /\ t[0] = NoneRead
    /\ \A k \in 1..Len(file) : t[k] = ReadLine(t[k - 1], file[k])
    /\ FoldLeft(ReadLine, NoneRead, file) = t[Len(file)]

(* The lines, one kind after the other *)
LEMMA AcceptedCases ==
    ASSUME NEW n, NEW v
    PROVE  /\ n = "listen" => (Accepted(n, v) <=> v \in {"unix:/path", "tcp:loopback"})
           /\ n = "require_fips" => (Accepted(n, v) <=> v \in {"true", "false"})
           /\ n = "private_key" => (Accepted(n, v) <=> v # "empty")
           /\ n \in {"domain", "selector"} => (Accepted(n, v) <=> v = "good")
<1>1. CASE n = "listen"
  BY <1>1 DEF Accepted, ParsesListen
<1>2. CASE n = "require_fips"
  BY <1>2 DEF Accepted
<1>3. CASE n = "private_key"
  BY <1>3 DEF Accepted
<1>4. CASE n \in {"domain", "selector"}
  BY <1>4 DEF Accepted
<1> QED
  BY <1>1, <1>2, <1>3, <1>4

(* A single line is accepted as the description says. *)
LEMMA LineFacts ==
    ASSUME NEW line \in Lines
    PROVE  /\ line.value \in Texts
           /\ line.name \in Names =>
                 /\ line # Blank
                 /\ Accepted(line.name, line.value) /\ line.value # "relative"
                       <=> line.value \notin Wrong
                 /\ line.value = "relative" => line.name = "private_key"
<1>1. PICK n, v : n = line.name /\ v = line.value
  OBVIOUS
<1> DEFINE goal == /\ v \in Texts
                   /\ n \in Names =>
                         /\ n # "#"
                         /\ Accepted(n, v) /\ v # "relative" <=> v \notin Wrong
                         /\ v = "relative" => n = "private_key"
<1>2. ASSUME n \notin Names, v \in Texts PROVE goal
  BY <1>2
<1>3. ASSUME n = "domain", v \in {"empty", "bad", "good"} PROVE goal
  BY <1>3, AcceptedCases DEF Texts, Wrong
<1>4. ASSUME n = "selector", v = "good" PROVE goal
  BY <1>4, AcceptedCases DEF Texts, Wrong
<1>5. ASSUME n = "private_key", v \in {"relative", "good"} PROVE goal
  BY <1>5, AcceptedCases DEF Texts, Wrong
<1>6. ASSUME n = "listen", v \in {"unix:/path", "unix:path", "tcp:loopback", "tcp:elsewhere"}
      PROVE  goal
  BY <1>6, AcceptedCases DEF Texts, Wrong
<1>7. ASSUME n = "require_fips", v \in {"true", "false", "bad"} PROVE goal
  BY <1>7, AcceptedCases DEF Texts, Wrong
<1> HIDE DEF goal
<1>9. goal
  <2>1. CASE line \in {Blank, Setting("junk", "empty"), Setting("unknown", "good")}
    <3>1. n \in {"#", "junk", "unknown"} /\ v \in {"empty", "good"}
      <4>1. CASE line = Blank
        BY <1>1, <4>1 DEF Blank, Setting
      <4>2. CASE line \in {Setting("junk", "empty"), Setting("unknown", "good")}
        BY <1>1, <4>2 DEF Setting
      <4> QED
        BY <2>1, <4>1, <4>2
    <3>2. n \notin Names /\ v \in Texts
      BY <3>1 DEF Names, Texts
    <3> QED
      BY <1>2, <3>2
  <2>2. CASE line \in {Setting("domain", "empty"), Setting("domain", "bad")}
    <3>1. n = "domain" /\ v \in {"empty", "bad", "good"}
      BY <1>1, <2>2 DEF Setting
    <3> QED
      BY <1>3, <3>1
  <2>3. CASE line = Setting("private_key", "relative")
    <3>1. n = "private_key" /\ v \in {"relative", "good"}
      BY <1>1, <2>3 DEF Setting
    <3> QED
      BY <1>5, <3>1
  <2>4. CASE line \in {Setting(m, "good") : m \in {"domain", "selector", "private_key"}}
    <3>1. n \in {"domain", "selector", "private_key"} /\ v = "good"
      BY <1>1, <2>4 DEF Setting
    <3> QED
      BY <1>3, <1>4, <1>5, <3>1
  <2>5. CASE line \in {Setting("listen", w) :
                         w \in {"unix:/path", "unix:path", "tcp:loopback", "tcp:elsewhere"}}
    <3>1. n = "listen" /\ v \in {"unix:/path", "unix:path", "tcp:loopback", "tcp:elsewhere"}
      BY <1>1, <2>5 DEF Setting
    <3> QED
      BY <1>6, <3>1
  <2>6. CASE line \in {Setting("require_fips", w) : w \in {"true", "false", "bad"}}
    <3>1. n = "require_fips" /\ v \in {"true", "false", "bad"}
      BY <1>1, <2>6 DEF Setting
    <3> QED
      BY <1>7, <3>1
  <2> QED
    BY <2>1, <2>2, <2>3, <2>4, <2>5, <2>6 DEF Lines
<1>10. line = Blank => n = "#"
  BY <1>1 DEF Blank, Setting
<1> QED
  BY <1>1, <1>9, <1>10 DEF goal

(* The states of the walk over a file. *)
LEMMA ReadTypes ==
    NoneRead \in Readings /\ \A s \in Readings, line \in Lines : ReadLine(s, line) \in Readings
<1>1. NoneRead \in Readings
  BY DEF NoneRead, Readings, None
<1>2. ASSUME NEW s \in Readings, NEW line \in Lines PROVE ReadLine(s, line) \in Readings
  <2>1. Error \in Readings
    BY DEF Error, Readings
  <2>2. line.value \in Texts
    BY LineFacts
  <2>3. [s EXCEPT ![line.name] = line.value] \in Readings
    BY <2>2 DEF Readings
  <2> QED
    BY <2>1, <2>3 DEF ReadLine
<1> QED
  BY <1>1, <1>2

(* RuntimeConfig::load walks over a file state by state. *)
LEMMA ReadTrace ==
    ASSUME NEW file \in Seq(Lines)
    PROVE  \E t : IsReadTrace(t, file)
<1> DEFINE n == Len(file)
           G == [k \in 1..n |-> [s \in Readings |-> ReadLine(s, file[k])]]
           R(f) == f = [s \in SUBSET (1..n) |->
                          IF s = {} THEN NoneRead ELSE ReadLine(f[s \ {Max(s)}], file[Max(s)])]
           iter == CHOOSE f : R(f)
<1>1. n \in Nat /\ DOMAIN file = 1..n /\ \A k \in 1..n : file[k] \in Lines
  BY LenProperties, ElementOfSeq
<1>2. NoneRead \in Readings /\ \A s \in Readings, x \in Lines : ReadLine(s, x) \in Readings
  BY ReadTypes
<1>3. G \in [1..n -> [Readings -> Readings]]
  BY <1>1, <1>2
<1>4. \A k \in 1..n, s \in Readings : G[k][s] = ReadLine(s, file[k])
  OBVIOUS
<1>5. FoldLeft(ReadLine, NoneRead, file) = iter[1..n]
  BY <1>1, Zenon DEF FoldLeft, MapThenFoldSet
<1> HIDE DEF n, G
<1>6. PICK f : IsTable(f, NoneRead, G, n, Readings)
  BY <1>1, <1>2, <1>3, TableExists
<1>7. R(f)
  <2>1. f \in [SUBSET (1..n) -> Readings]
    BY <1>6 DEF IsTable
  <2>2. ASSUME NEW s \in SUBSET (1..n)
        PROVE  f[s] = IF s = {} THEN NoneRead ELSE ReadLine(f[s \ {Max(s)}], file[Max(s)])
    <3>1. f[s] = IF s = {} THEN NoneRead ELSE G[Max(s)][f[s \ {Max(s)}]]
      BY <1>6 DEF IsTable
    <3>2. CASE s = {}
      BY <3>1, <3>2
    <3>3. CASE s # {}
      <4>1. Max(s) \in s
        <5>1. s \in SUBSET (0..n)
          BY <1>1
        <5> QED
          BY <1>1, <3>3, <5>1, MaxIsGreatest
      <4>2. Max(s) \in 1..n /\ f[s \ {Max(s)}] \in Readings
        BY <2>1, <4>1
      <4> QED
        BY <1>4, <3>1, <3>3, <4>2
    <3> QED
      BY <3>2, <3>3
  <2> QED
    BY <2>1, <2>2
<1>8. R(iter)
  BY <1>7, Zenon
<1> HIDE DEF iter
<1> DEFINE t == [k \in 0..n |-> iter[1..k]]
           T == {k \in 0..n : iter[1..k] \in Readings}
<1>9. iter[1..0] = NoneRead
  <2>1. 1..0 = {} /\ {} \in SUBSET (1..n)
    OBVIOUS
  <2> QED
    BY <1>8, <2>1
<1>10. ASSUME NEW k \in 1..n PROVE iter[1..k] = ReadLine(iter[1..(k - 1)], file[k])
  <2>1. k \in Nat \ {0} /\ 1..k \in SUBSET (1..n) /\ 1..k # {}
    BY <1>1
  <2>2. Max(1..k) = k /\ (1..k) \ {Max(1..k)} = 1..(k - 1)
    BY <2>1, MaxOfInterval
  <2>3. iter[1..k] = ReadLine(iter[(1..k) \ {Max(1..k)}], file[Max(1..k)])
    BY <1>8, <2>1
  <2> QED
    BY <2>2, <2>3
<1>11. 0 \in T
  BY <1>1, <1>2, <1>9
<1>12. ASSUME NEW k \in 1..n, k - 1 \in T PROVE k \in T
  BY <1>1, <1>2, <1>10, <1>12
<1>13. 0..n \subseteq T
  <2> HIDE DEF T
  <2> QED
    BY <1>1, <1>11, <1>12, UpTo
<1>14. t \in [0..n -> Readings]
  BY <1>13
<1>15. t[0] = NoneRead
  BY <1>1, <1>9
<1>16. \A k \in 1..n : t[k] = ReadLine(t[k - 1], file[k])
  <2> SUFFICES ASSUME NEW k \in 1..n PROVE t[k] = ReadLine(t[k - 1], file[k])
    OBVIOUS
  <2>1. k \in 0..n /\ k - 1 \in 0..n
    BY <1>1
  <2> QED
    BY <1>10, <2>1
<1>17. FoldLeft(ReadLine, NoneRead, file) = t[n]
  BY <1>1, <1>5
<1> HIDE DEF t
<1> QED
  BY <1>14, <1>15, <1>16, <1>17 DEF IsReadTrace, n

(* The first k lines are right, and none of them repeats another *)
Set(file, k) == {i \in 1..k : file[i] # Blank}
Right(file, k) ==
    /\ \A i \in Set(file, k) : file[i].name \in Names /\ Accepted(file[i].name, file[i].value)
    /\ \A i, j \in Set(file, k) : file[i].name = file[j].name => i = j

(* They have been read into s *)
ReadsTo(s, file, k) ==
    /\ s \in Readings
    /\ ~Right(file, k) => s = Error
    /\ Right(file, k) =>
          /\ \A i \in Set(file, k) : s[file[i].name] = file[i].value
          /\ \A n \in Names : (\A i \in Set(file, k) : file[i].name # n) => s[n] = None

(* The lines that set something, one line later. *)
LEMMA SetNext ==
    ASSUME NEW file, NEW k \in Nat \ {0}
    PROVE  Set(file, k) = Set(file, k - 1) \cup (IF file[k] = Blank THEN {} ELSE {k})
           /\ \A i \in Set(file, k - 1) : i \in 1..(k - 1) /\ i # k
<1>1. 1..k = 1..(k - 1) \cup {k}
  OBVIOUS
<1>2. k \notin 1..(k - 1)
  OBVIOUS
<1> QED
  BY <1>1, <1>2 DEF Set

(* While the lines are right, nothing that was read looks like an error *)
LEMMA RightIsNoError ==
    ASSUME NEW file \in Seq(Lines), NEW k \in 0..Len(file), NEW s, ReadsTo(s, file, k), Right(file, k)
    PROVE  /\ \A n \in Names : s[n] # "error"
           /\ s # Error
           /\ \A n \in Names : s[n] = None <=> \A i \in Set(file, k) : file[i].name # n
<1>1. Len(file) \in Nat
  BY LenProperties
<1>2. ASSUME NEW i \in Set(file, k) PROVE file[i] \in Lines /\ file[i].value \in Texts
  <2>1. i \in 1..Len(file)
    BY <1>1 DEF Set
  <2> QED
    BY <2>1, ElementOfSeq, LineFacts
<1>3. ASSUME NEW i \in Set(file, k)
      PROVE  s[file[i].name] \in Texts
  BY <1>2 DEF ReadsTo
<1>4. ASSUME NEW n \in Names
      PROVE  /\ s[n] # "error" /\ (s[n] = None <=> \A i \in Set(file, k) : file[i].name # n)
  <2>1. CASE \E i \in Set(file, k) : file[i].name = n
    <3>1. s[n] \in Texts
      BY <1>3, <2>1
    <3> QED
      BY <2>1, <3>1 DEF Texts, None
  <2>2. CASE \A i \in Set(file, k) : file[i].name # n
    <3>1. s[n] = None
      BY <2>2 DEF ReadsTo
    <3> QED
      BY <2>2, <3>1 DEF None
  <2> QED
    BY <2>1, <2>2
<1>5. s # Error
  <2>1. "domain" \in Names /\ Error["domain"] = "error"
    BY DEF Names, Error
  <2> QED
    BY <1>4, <2>1
<1> QED
  BY <1>4, <1>5

(* What is known of the first k lines, one line later. *)
LEMMA HoldsStep ==
    ASSUME NEW file \in Seq(Lines), NEW k \in 1..Len(file), NEW s, ReadsTo(s, file, k - 1)
    PROVE  ReadsTo(ReadLine(s, file[k]), file, k)
<1> DEFINE line == file[k]
           r == ReadLine(s, line)
           A == Set(file, k - 1)
           B == Set(file, k)
<1>1. Len(file) \in Nat /\ k \in Nat \ {0} /\ k - 1 \in 0..Len(file) /\ line \in Lines
  BY LenProperties, ElementOfSeq
<1>2. B = A \cup (IF line = Blank THEN {} ELSE {k}) /\ \A i \in A : i # k
  BY <1>1, SetNext
<1>3. s \in Readings /\ r \in Readings
  BY <1>1, ReadTypes DEF ReadsTo
<1>4. CASE line = Blank
  <2>1. r = s /\ B = A
    BY <1>2, <1>4 DEF ReadLine
  <2>2. Right(file, k) <=> Right(file, k - 1)
    BY <2>1 DEF Right
  <2> HIDE DEF r
  <2> QED
    BY <2>1, <2>2 DEF ReadsTo, r
<1>5. CASE line # Blank
  <2>1. B = A \cup {k} /\ k \in B /\ A \subseteq B
    BY <1>2, <1>5
  <2>2. CASE ~Right(file, k - 1)
    <3>1. s = Error
      BY <2>2 DEF ReadsTo
    <3>2. r = Error
      BY <3>1 DEF ReadLine
    <3>3. ~Right(file, k)
      BY <2>1, <2>2 DEF Right
    <3> HIDE DEF r
    <3> QED
      BY <1>3, <3>2, <3>3 DEF ReadsTo, r
  <2>3. CASE Right(file, k - 1)
    <3> DEFINE fits == line.name \in Names /\ Accepted(line.name, line.value)
               new == \A i \in A : file[i].name # line.name
    <3>1. Right(file, k) <=> fits /\ new
      <4>1. ASSUME Right(file, k) PROVE fits /\ new
        BY <4>1, <2>1, <1>2 DEF Right
      <4>2. ASSUME fits, new PROVE Right(file, k)
        <5>1. \A i \in B : file[i].name \in Names /\ Accepted(file[i].name, file[i].value)
          BY <4>2, <2>1, <2>3 DEF Right
        <5>2. ASSUME NEW i \in B, NEW j \in B, file[i].name = file[j].name PROVE i = j
          BY <4>2, <5>2, <2>1, <2>3 DEF Right
        <5> QED
          BY <5>1, <5>2 DEF Right
      <4> QED
        BY <4>1, <4>2
    <3>2. /\ s # Error
          /\ \A n \in Names : s[n] = None <=> \A i \in A : file[i].name # n
      BY <1>1, <2>3, RightIsNoError
    <3>3. r = IF fits /\ s[line.name] = None THEN [s EXCEPT ![line.name] = line.value] ELSE Error
      BY <1>5, <3>2 DEF ReadLine
    <3>4. fits => (s[line.name] = None <=> new)
      BY <3>2
    <3>5. CASE fits /\ new
      <4>1. r = [s EXCEPT ![line.name] = line.value]
        BY <3>3, <3>4, <3>5
      <4>2. r[line.name] = line.value /\ \A n \in Names : n # line.name => r[n] = s[n]
        BY <1>3, <3>5, <4>1 DEF Readings
      <4>3. \A i \in A : s[file[i].name] = file[i].value /\ file[i].name \in Names
        BY <2>3 DEF ReadsTo, Right
      <4> HIDE DEF r, fits
      <4>4. ASSUME NEW i \in B PROVE r[file[i].name] = file[i].value
        <5>1. CASE i = k
          BY <4>2, <5>1
        <5>2. CASE i \in A
          BY <3>5, <4>2, <4>3, <5>2
        <5> QED
          BY <2>1, <5>1, <5>2
      <4>5. ASSUME NEW n \in Names, \A i \in B : file[i].name # n PROVE r[n] = None
        <5>1. n # line.name /\ \A i \in A : file[i].name # n
          BY <2>1, <4>5
        <5> QED
          BY <3>2, <4>2, <5>1
      <4> QED
        BY <1>3, <3>1, <3>5, <4>4, <4>5 DEF ReadsTo, r
    <3>6. CASE ~(fits /\ new)
      <4>1. r = Error
        BY <3>3, <3>4, <3>6
      <4> HIDE DEF r, fits, new
      <4> QED
        BY <1>3, <3>1, <3>6, <4>1 DEF ReadsTo, r
    <3> QED
      BY <3>5, <3>6
  <2> QED
    BY <2>2, <2>3
<1> QED
  BY <1>4, <1>5

(* Whatever lines a file has, load accepts it as a set of settings *)
THEOREM LoadTakesASet ==
    ASSUME lines \in Seq(Lines)
    PROVE  LoadIsStrict
<1>1. PICK file : file = lines
  OBVIOUS
<1> DEFINE n == Len(file)
           B == Set(file, n)
           s == FoldLeft(ReadLine, NoneRead, file)
           l == Load(file)
<1>2. file \in Seq(Lines) /\ n \in Nat /\ DOMAIN file = 1..n
  BY <1>1, LenProperties
<1>3. PICK t : IsReadTrace(t, file)
  BY <1>2, ReadTrace
<1> DEFINE T == {k \in 0..n : ReadsTo(t[k], file, k)}
<1>4. 0 \in T
  <2>1. Set(file, 0) = {}
    BY DEF Set
  <2>2. ReadsTo(NoneRead, file, 0)
    BY <2>1, ReadTypes DEF ReadsTo, Right, NoneRead
  <2> QED
    BY <1>2, <1>3, <2>2 DEF IsReadTrace
<1>5. ASSUME NEW k \in 1..n, k - 1 \in T PROVE k \in T
  <2>1. ReadsTo(t[k - 1], file, k - 1) /\ t[k] = ReadLine(t[k - 1], file[k]) /\ k \in 0..n
    BY <1>2, <1>3, <1>5 DEF IsReadTrace
  <2>2. ReadsTo(ReadLine(t[k - 1], file[k]), file, k)
    BY <1>2, <2>1, HoldsStep
  <2> QED
    BY <2>1, <2>2
<1>6. 0..n \subseteq T
  <2> HIDE DEF T
  <2> QED
    BY <1>2, <1>4, <1>5, UpTo
<1>7. n \in 0..n
  BY <1>2
<1>8. ReadsTo(s, file, n)
  BY <1>3, <1>6, <1>7 DEF IsReadTrace
<1>9. l = IF \/ s = Error
             \/ \E m \in Mandatory : s[m] = None
             \/ s["private_key"] = "relative"
          THEN Error
          ELSE [s EXCEPT !["require_fips"] = IF @ = None THEN "true" ELSE @]
  BY DEF Load, NoneRead
<1>10. ASSUME NEW i \in B
       PROVE  /\ file[i] \in Lines /\ file[i].value \in Texts
              /\ file[i].name \in Names =>
                    /\ Accepted(file[i].name, file[i].value) /\ file[i].value # "relative"
                          <=> file[i].value \notin Wrong
                    /\ file[i].value = "relative" => file[i].name = "private_key"
  <2>1. i \in 1..n
    BY DEF Set
  <2>2. file[i] \in Lines
    BY <1>2, <2>1, ElementOfSeq
  <2> QED
    BY <2>2, LineFacts
<1>11. {i \in DOMAIN file : file[i] # Blank} = B
  BY <1>2 DEF Set
<1> DEFINE good == /\ \A i \in B : file[i].name \in Names /\ file[i].value \notin Wrong
                   /\ \A i, j \in B : file[i].name = file[j].name => i = j
                   /\ Mandatory \subseteq {file[i].name : i \in B}
<1> HIDE DEF s, l, n
<1>12. CASE ~Right(file, n)
  <2>1. l = Error
    BY <1>8, <1>9, <1>12 DEF ReadsTo
  <2>2. ~good
    BY <1>10, <1>12 DEF Right
  <2> QED
    BY <1>1, <1>11, <2>1, <2>2 DEF LoadIsStrict, Wrong, l
<1>13. CASE Right(file, n)
  <2>1. /\ \A m \in Names : s[m] # "error"
        /\ s # Error
        /\ \A m \in Names : s[m] = None <=> \A i \in B : file[i].name # m
    BY <1>2, <1>7, <1>8, <1>13, RightIsNoError DEF n
  <2>2. /\ s \in Readings /\ \A i \in B : s[file[i].name] = file[i].value
        /\ \A i \in B : file[i].name \in Names /\ Accepted(file[i].name, file[i].value)
        /\ \A i, j \in B : file[i].name = file[j].name => i = j
    BY <1>8, <1>13 DEF ReadsTo, Right
  <2>3. Mandatory \subseteq Names /\ "private_key" \in Mandatory /\ "domain" \in Names
        /\ "domain" # "require_fips" /\ "require_fips" \in Names
    BY DEF Mandatory, Names
  <2>4. (\E m \in Mandatory : s[m] = None) <=> ~(Mandatory \subseteq {file[i].name : i \in B})
    BY <2>1, <2>3
  <2>5. Mandatory \subseteq {file[i].name : i \in B} =>
          (s["private_key"] = "relative" <=> \E i \in B : file[i].value = "relative")
    <3>1. ASSUME NEW i \in B, file[i].value = "relative" PROVE s["private_key"] = "relative"
      BY <1>10, <2>2, <3>1
    <3>2. ASSUME s["private_key"] = "relative", NEW i \in B, file[i].name = "private_key"
          PROVE  file[i].value = "relative"
      BY <2>2, <3>2
    <3> QED
      BY <2>3, <3>1, <3>2
  <2>6. good <=> /\ Mandatory \subseteq {file[i].name : i \in B}
                 /\ ~\E i \in B : file[i].value = "relative"
    BY <1>10, <2>2
  <2>7. CASE good
    <3>1. l = [s EXCEPT !["require_fips"] = IF @ = None THEN "true" ELSE @]
      BY <1>9, <2>1, <2>4, <2>5, <2>6, <2>7
    <3>2. /\ l["domain"] = s["domain"]
          /\ l["require_fips"] = IF s["require_fips"] = None THEN "true" ELSE s["require_fips"]
          /\ \A m \in Names : m # "require_fips" => l[m] = s[m]
      BY <2>2, <2>3, <3>1 DEF Readings
    <3>3. l # Error
      BY <2>1, <2>3, <3>2 DEF Error
    <3>4. ASSUME NEW i \in B PROVE l[file[i].name] = file[i].value
      <4>1. s[file[i].name] = file[i].value /\ file[i].name \in Names
        BY <2>2
      <4>2. s[file[i].name] # None
        BY <1>10, <4>1 DEF Texts, None
      <4> QED
        BY <3>2, <4>1, <4>2
    <3>5. ASSUME l["require_fips"] = "false"
          PROVE  Setting("require_fips", "false") \in {file[i] : i \in B}
      <4>1. s["require_fips"] = "false" /\ s["require_fips"] # None
        BY <3>2, <3>5 DEF None
      <4>2. PICK i \in B : file[i].name = "require_fips"
        BY <2>1, <2>3, <4>1
      <4>3. file[i].value = "false" /\ file[i] \in Lines
        BY <1>10, <2>2, <4>1, <4>2
      <4>4. file[i] = Setting("require_fips", "false")
        BY <4>2, <4>3 DEF Lines, Setting, Blank
      <4> QED
        BY <4>4
    <3>6. B = {i \in DOMAIN lines : lines[i] # Blank} /\ l = Load(lines)
      BY <1>1, <1>11 DEF l
    <3>7. Load(lines) # Error /\ good
      BY <2>7, <3>3, <3>6
    <3>8. \A i \in B : Load(lines)[lines[i].name] = lines[i].value
      BY <1>1, <3>4, <3>6
    <3>9. Load(lines)["require_fips"] = "false" =>
            Setting("require_fips", "false") \in {lines[i] : i \in B}
      BY <1>1, <3>5, <3>6
    <3> HIDE DEF B
    <3> QED
      BY <1>1, <3>6, <3>7, <3>8, <3>9 DEF LoadIsStrict, Wrong, good
  <2>8. CASE ~good
    <3>1. l = Error
      BY <1>9, <2>4, <2>5, <2>6, <2>8
    <3> QED
      BY <1>1, <1>11, <2>8, <3>1 DEF LoadIsStrict, Wrong, l
  <2> QED
    BY <2>7, <2>8
<1> QED
  BY <1>12, <1>13

-----------------------------------------------------------------------------
(* The labels of a name *)

LabelLists(S) == {l \in Seq(Seq(S)) : l # <<>>}
NoLabel == <<(<<>>)>>

IsSplitTrace(t, v, S) ==
    /\ t \in [0..Len(v) -> LabelLists(S)]
    /\ t[0] = NoLabel
    /\ \A k \in 1..Len(v) : t[k] = SplitDots(t[k - 1], v[k])
    /\ FoldLeft(SplitDots, NoLabel, v) = t[Len(v)]

(* What SplitDots does to a list of labels *)
Splits(r, l, x, S) ==
    /\ Len(l) \in Nat \ {0} /\ l[Len(l)] \in Seq(S) /\ r \in LabelLists(S)
    /\ x = "." => /\ Len(r) = Len(l) + 1
                  /\ \A i \in 1..Len(l) : r[i] = l[i]
                  /\ r[Len(l) + 1] = <<>>
    /\ x # "." => /\ Len(r) = Len(l)
                  /\ \A i \in 1..(Len(l) - 1) : r[i] = l[i]
                  /\ r[Len(l)] = Append(l[Len(l)], x)

(* What a byte does to the labels. *)
LEMMA SplitStep ==
    ASSUME NEW S, NEW l \in LabelLists(S), NEW x \in S
    PROVE  Splits(SplitDots(l, x), l, x, S)
<1> DEFINE SS == Seq(S)
           r == SplitDots(l, x)
<1>1. l \in Seq(SS) /\ l # <<>>
  BY DEF LabelLists
<1>2. <<>> \in SS
  BY EmptySeq
<1>3. \A y \in SS : Append(y, x) \in SS
  BY AppendProperties
<1> HIDE DEF SS
<1>4. Len(l) \in Nat \ {0} /\ DOMAIN l = 1..Len(l) /\ \A i \in 1..Len(l) : l[i] \in SS
  BY <1>1, EmptySeq, LenProperties, ElementOfSeq
<1>5. Len(l) \in 1..Len(l) /\ l[Len(l)] \in SS
  BY <1>4
<1>6. CASE x = "."
  <2>1. r = Append(l, <<>>)
    BY <1>6 DEF SplitDots
  <2>2. /\ r \in Seq(SS) /\ r # <<>> /\ Len(r) = Len(l) + 1
        /\ \A i \in 1..Len(l) : r[i] = l[i]
        /\ r[Len(l) + 1] = <<>>
    BY <1>1, <1>2, <2>1, AppendProperties
  <2> QED
    BY <1>4, <1>5, <1>6, <2>2 DEF LabelLists, SS, Splits
<1>7. CASE x # "."
  <2> DEFINE y == Append(l[Len(l)], x)
  <2>1. y \in SS
    BY <1>3, <1>5
  <2>2. r = [l EXCEPT ![Len(l)] = y]
    BY <1>7 DEF SplitDots
  <2>3. l \in [1..Len(l) -> SS]
    BY <1>1, <1>4
  <2> HIDE DEF y
  <2>4. r \in [1..Len(l) -> SS]
    BY <2>1, <2>2, <2>3
  <2>5. r \in Seq(SS) /\ Len(r) = Len(l)
    BY <1>4, <2>4, TableIsSeq
  <2>6. r # <<>>
    BY <1>4, <2>5
  <2>7. r[Len(l)] = y /\ \A i \in 1..(Len(l) - 1) : r[i] = l[i]
    BY <1>4, <1>5, <2>2, <2>3
  <2> QED
    BY <1>4, <1>5, <1>7, <2>5, <2>6, <2>7 DEF LabelLists, SS, y, Splits
<1> QED
  BY <1>6, <1>7

(* The states of the walk over a name. *)
LEMMA SplitTypes ==
    ASSUME NEW S
    PROVE  /\ NoLabel \in LabelLists(S)
           /\ \A l \in LabelLists(S), x \in S : SplitDots(l, x) \in LabelLists(S)
<1>1. NoLabel \in LabelLists(S)
  <2> DEFINE SS == Seq(S)
  <2>1. <<>> \in SS
    BY EmptySeq
  <2> HIDE DEF SS
  <2>2. NoLabel \in Seq(SS) /\ NoLabel # <<>>
    BY <2>1 DEF NoLabel
  <2> QED
    BY <2>2 DEF LabelLists, SS
<1> QED
  BY <1>1, SplitStep DEF Splits

(* split walks over a name state by state. *)
LEMMA SplitTrace ==
    ASSUME NEW S, NEW v \in Seq(S)
    PROVE  \E t : IsSplitTrace(t, v, S)
<1> DEFINE n == Len(v)
           G == [k \in 1..n |-> [s \in LabelLists(S) |-> SplitDots(s, v[k])]]
           R(f) == f = [s \in SUBSET (1..n) |->
                          IF s = {} THEN NoLabel ELSE SplitDots(f[s \ {Max(s)}], v[Max(s)])]
           iter == CHOOSE f : R(f)
<1>1. n \in Nat /\ DOMAIN v = 1..n /\ \A k \in 1..n : v[k] \in S
  BY LenProperties, ElementOfSeq
<1>2. NoLabel \in LabelLists(S) /\ \A s \in LabelLists(S), x \in S : SplitDots(s, x) \in LabelLists(S)
  BY SplitTypes
<1>3. G \in [1..n -> [LabelLists(S) -> LabelLists(S)]]
  BY <1>1, <1>2
<1>4. \A k \in 1..n, s \in LabelLists(S) : G[k][s] = SplitDots(s, v[k])
  OBVIOUS
<1>5. FoldLeft(SplitDots, NoLabel, v) = iter[1..n]
  BY <1>1, Zenon DEF FoldLeft, MapThenFoldSet
<1> HIDE DEF n, G
<1>6. PICK f : IsTable(f, NoLabel, G, n, LabelLists(S))
  BY <1>1, <1>2, <1>3, TableExists
<1>7. R(f)
  <2>1. f \in [SUBSET (1..n) -> LabelLists(S)]
    BY <1>6 DEF IsTable
  <2>2. ASSUME NEW s \in SUBSET (1..n)
        PROVE  f[s] = IF s = {} THEN NoLabel ELSE SplitDots(f[s \ {Max(s)}], v[Max(s)])
    <3>1. f[s] = IF s = {} THEN NoLabel ELSE G[Max(s)][f[s \ {Max(s)}]]
      BY <1>6 DEF IsTable
    <3>2. CASE s = {}
      BY <3>1, <3>2
    <3>3. CASE s # {}
      <4>1. Max(s) \in s
        <5>1. s \in SUBSET (0..n)
          BY <1>1
        <5> QED
          BY <1>1, <3>3, <5>1, MaxIsGreatest
      <4>2. Max(s) \in 1..n /\ f[s \ {Max(s)}] \in LabelLists(S)
        BY <2>1, <4>1
      <4> QED
        BY <1>4, <3>1, <3>3, <4>2
    <3> QED
      BY <3>2, <3>3
  <2> QED
    BY <2>1, <2>2
<1>8. R(iter)
  BY <1>7, Zenon
<1> HIDE DEF iter
<1> DEFINE t == [k \in 0..n |-> iter[1..k]]
           T == {k \in 0..n : iter[1..k] \in LabelLists(S)}
<1>9. iter[1..0] = NoLabel
  <2>1. 1..0 = {} /\ {} \in SUBSET (1..n)
    OBVIOUS
  <2> QED
    BY <1>8, <2>1
<1>10. ASSUME NEW k \in 1..n PROVE iter[1..k] = SplitDots(iter[1..(k - 1)], v[k])
  <2>1. k \in Nat \ {0} /\ 1..k \in SUBSET (1..n) /\ 1..k # {}
    BY <1>1
  <2>2. Max(1..k) = k /\ (1..k) \ {Max(1..k)} = 1..(k - 1)
    BY <2>1, MaxOfInterval
  <2>3. iter[1..k] = SplitDots(iter[(1..k) \ {Max(1..k)}], v[Max(1..k)])
    BY <1>8, <2>1
  <2> QED
    BY <2>2, <2>3
<1>11. 0 \in T
  BY <1>1, <1>2, <1>9
<1>12. ASSUME NEW k \in 1..n, k - 1 \in T PROVE k \in T
  BY <1>1, <1>2, <1>10, <1>12
<1>13. 0..n \subseteq T
  <2> HIDE DEF T
  <2> QED
    BY <1>1, <1>11, <1>12, UpTo
<1>14. t \in [0..n -> LabelLists(S)]
  BY <1>13
<1>15. t[0] = NoLabel
  BY <1>1, <1>9
<1>16. \A k \in 1..n : t[k] = SplitDots(t[k - 1], v[k])
  <2> SUFFICES ASSUME NEW k \in 1..n PROVE t[k] = SplitDots(t[k - 1], v[k])
    OBVIOUS
  <2>1. k \in 0..n /\ k - 1 \in 0..n
    BY <1>1
  <2> QED
    BY <1>10, <2>1
<1>17. FoldLeft(SplitDots, NoLabel, v) = t[n]
  BY <1>1, <1>5
<1> HIDE DEF t
<1> QED
  BY <1>14, <1>15, <1>16, <1>17 DEF IsSplitTrace, n

(* The dots among the first k bytes, with a place in front; neighbours among *)
(* some places, and what is between them                                    *)
Dots(v, k) == {0} \cup {i \in 1..k : v[i] = "."}
Adjacent(D, i, j) == i \in D /\ j \in D /\ i < j /\ \A k \in D : k <= i \/ k >= j
Between(v, i, j) == SubSeq(v, i + 1, j - 1)

(* The first k bytes are split: the last label is what follows the last dot, *)
(* the others lie between neighbours                                        *)
IsSplit(l, v, k) ==
    /\ \E d \in Dots(v, k) : /\ \A i \in Dots(v, k) : i <= d
                             /\ l[Len(l)] = SubSeq(v, d + 1, k)
    /\ \A m \in 1..(Len(l) - 1) :
          \E i, j \in Dots(v, k) : Adjacent(Dots(v, k), i, j) /\ l[m] = Between(v, i, j)
    /\ \A i, j \in Dots(v, k) :
          Adjacent(Dots(v, k), i, j) => \E m \in 1..(Len(l) - 1) : l[m] = Between(v, i, j)

(* The labels of a prefix, one byte later. *)
LEMMA SplitMore ==
    ASSUME NEW S, NEW v \in Seq(S), NEW k \in 1..Len(v), NEW l \in LabelLists(S),
           IsSplit(l, v, k - 1)
    PROVE  IsSplit(SplitDots(l, v[k]), v, k)
<1> DEFINE x == v[k]
           r == SplitDots(l, x)
           D == Dots(v, k - 1)
           E == Dots(v, k)
<1>1. Len(v) \in Nat /\ k \in Nat /\ k # 0 /\ x \in S
  BY LenProperties, ElementOfSeq
<1>2. /\ Len(l) \in Nat \ {0} /\ l[Len(l)] \in Seq(S) /\ r \in LabelLists(S)
      /\ x = "." => /\ Len(r) = Len(l) + 1
                    /\ \A i \in 1..Len(l) : r[i] = l[i]
                    /\ r[Len(l) + 1] = <<>>
      /\ x # "." => /\ Len(r) = Len(l)
                    /\ \A i \in 1..(Len(l) - 1) : r[i] = l[i]
                    /\ r[Len(l)] = Append(l[Len(l)], x)
  <2>1. x \in S
    BY <1>1
  <2> HIDE DEF x
  <2>2. Splits(r, l, x, S)
    BY <2>1, SplitStep
  <2> HIDE DEF r
  <2> QED
    BY <2>2 DEF Splits
<1>3. D \subseteq 0..(k - 1) /\ 0 \in D
  BY <1>1 DEF Dots
<1>4. PICK d \in D : (\A i \in D : i <= d) /\ l[Len(l)] = SubSeq(v, d + 1, k - 1)
  BY DEF IsSplit
<1>5. d \in 0..(k - 1) /\ d \in Nat
  BY <1>1, <1>3
<1>6. E = D \cup (IF x = "." THEN {k} ELSE {})
  <2>1. 1..k = 1..(k - 1) \cup {k}
    BY <1>1
  <2> QED
    BY <2>1 DEF Dots
<1>7. /\ \A m \in 1..(Len(l) - 1) : \E i, j \in D : Adjacent(D, i, j) /\ l[m] = Between(v, i, j)
      /\ \A i, j \in D : Adjacent(D, i, j) => \E m \in 1..(Len(l) - 1) : l[m] = Between(v, i, j)
  BY DEF IsSplit
<1>8. CASE x = "."
  <2>1. E = D \cup {k} /\ k \in E /\ D \subseteq E /\ \A i \in D : i < k /\ i \in Nat
    BY <1>1, <1>3, <1>6, <1>8
  <2>2. /\ Len(r) = Len(l) + 1 /\ r[Len(r)] = <<>>
        /\ \A i \in 1..Len(l) : r[i] = l[i]
    BY <1>2, <1>8
  <2>3. Len(r) - 1 = Len(l)
    BY <1>2, <2>2
  <2>4. SubSeq(v, k + 1, k) = <<>>
    <3>1. k + 0 = k /\ k + 0 <= Len(v) /\ 0 \in Nat
      BY <1>1
    <3>2. SubSeq(v, k + 1, k + 0) \in Seq(S) /\ Len(SubSeq(v, k + 1, k + 0)) = 0
      BY <1>1, <3>1, TakeTypes
    <3> QED
      BY <3>1, <3>2, EmptySeq
  <2>5. Adjacent(E, d, k) /\ l[Len(l)] = Between(v, d, k)
    BY <1>4, <1>5, <2>1 DEF Adjacent, Between
  <2>6. ASSUME NEW i \in D, NEW j \in D
        PROVE  Adjacent(E, i, j) <=> Adjacent(D, i, j)
    BY <1>3, <2>1 DEF Adjacent
  <2>7. ASSUME NEW i \in E, NEW j \in E, Adjacent(E, i, j), ~(i \in D /\ j \in D)
        PROVE  i = d /\ j = k
    <3>1. i < j
      BY <2>7 DEF Adjacent
    <3>2. i \in D /\ j = k
      BY <1>1, <2>1, <2>7, <3>1
    <3>3. d <= i
      <4>1. d <= i \/ d >= j
        BY <2>1, <2>7 DEF Adjacent
      <4> QED
        BY <1>1, <1>5, <3>2, <4>1
    <3>4. i <= d /\ i \in Nat
      BY <1>4, <2>1, <3>2
    <3> QED
      BY <1>5, <3>2, <3>3, <3>4
  <2> HIDE DEF r, D, E, x
  <2>8. ASSUME NEW m \in 1..(Len(r) - 1)
        PROVE  \E i, j \in E : Adjacent(E, i, j) /\ r[m] = Between(v, i, j)
    <3>1. m \in 1..Len(l) /\ r[m] = l[m]
      BY <2>2, <2>3
    <3>2. CASE m = Len(l)
      BY <2>1, <2>5, <3>1, <3>2
    <3>3. CASE m # Len(l)
      <4>1. m \in 1..(Len(l) - 1)
        BY <1>2, <3>1, <3>3
      <4>2. PICK i, j \in D : Adjacent(D, i, j) /\ l[m] = Between(v, i, j)
        BY <1>7, <4>1
      <4> QED
        BY <2>1, <2>6, <3>1, <4>2
    <3> QED
      BY <3>2, <3>3
  <2>9. ASSUME NEW i \in E, NEW j \in E, Adjacent(E, i, j)
        PROVE  \E m \in 1..(Len(r) - 1) : r[m] = Between(v, i, j)
    <3>1. CASE i \in D /\ j \in D
      <4>1. Adjacent(D, i, j)
        BY <2>6, <2>9, <3>1
      <4>2. PICK m \in 1..(Len(l) - 1) : l[m] = Between(v, i, j)
        BY <1>7, <3>1, <4>1
      <4>3. m \in 1..Len(l)
        BY <1>2
      <4> QED
        BY <2>2, <2>3, <4>2, <4>3
    <3>2. CASE ~(i \in D /\ j \in D)
      <4>1. i = d /\ j = k
        BY <2>7, <2>9, <3>2
      <4>2. Len(l) \in 1..Len(l)
        BY <1>2
      <4> QED
        BY <2>2, <2>3, <2>5, <4>1, <4>2
    <3> QED
      BY <3>1, <3>2
  <2>10. k \in E /\ (\A i \in E : i <= k) /\ r[Len(r)] = SubSeq(v, k + 1, k)
    BY <1>1, <2>1, <2>2, <2>4
  <2> QED
    BY <2>8, <2>9, <2>10 DEF IsSplit, r, E, x
<1>9. CASE x # "."
  <2>1. E = D
    BY <1>6, <1>9
  <2>2. /\ Len(r) = Len(l) /\ r[Len(l)] = Append(l[Len(l)], x)
        /\ \A i \in 1..(Len(l) - 1) : r[i] = l[i]
    BY <1>2, <1>9
  <2>3. Append(SubSeq(v, d + 1, k - 1), x) = SubSeq(v, d + 1, k)
    <3> DEFINE a == SubSeq(v, d + 1, k - 1)
               b == Append(a, x)
               c == SubSeq(v, d + 1, k)
               h == (k - 1) - d
    <3>1. h \in Nat /\ d + h = k - 1 /\ d + h <= Len(v) /\ h + 1 \in Nat
          /\ d + (h + 1) = k /\ d + (h + 1) <= Len(v)
      BY <1>1, <1>5
    <3> HIDE DEF h
    <3>2. /\ SubSeq(v, d + 1, d + h) \in Seq(S) /\ Len(SubSeq(v, d + 1, d + h)) = h
          /\ \A i \in 1..h : SubSeq(v, d + 1, d + h)[i] = v[d + i]
      BY <1>5, <3>1, TakeTypes
    <3>3. /\ SubSeq(v, d + 1, d + (h + 1)) \in Seq(S) /\ Len(SubSeq(v, d + 1, d + (h + 1))) = h + 1
          /\ \A i \in 1..(h + 1) : SubSeq(v, d + 1, d + (h + 1))[i] = v[d + i]
      BY <1>5, <3>1, TakeTypes
    <3>4. a \in Seq(S) /\ Len(a) = h /\ \A i \in 1..h : a[i] = v[d + i]
      BY <3>1, <3>2
    <3>5. c \in Seq(S) /\ Len(c) = h + 1 /\ \A i \in 1..(h + 1) : c[i] = v[d + i]
      BY <3>1, <3>3
    <3> HIDE DEF a, c
    <3>6. /\ b \in Seq(S) /\ Len(b) = h + 1 /\ b[h + 1] = x
          /\ \A i \in 1..h : b[i] = a[i]
      BY <1>1, <3>4, AppendProperties
    <3> HIDE DEF b
    <3>7. \A i \in 1..(h + 1) : b[i] = c[i]
      <4> SUFFICES ASSUME NEW i \in 1..(h + 1) PROVE b[i] = c[i]
        OBVIOUS
      <4>1. CASE i = h + 1
        <5>1. c[i] = v[d + (h + 1)]
          BY <3>5, <4>1
        <5> QED
          BY <3>1, <3>6, <4>1, <5>1
      <4>2. CASE i # h + 1
        <5>1. i \in 1..h
          BY <3>1, <4>2
        <5> QED
          BY <3>4, <3>5, <3>6, <5>1
      <4> QED
        BY <4>1, <4>2
    <3>8. b = c
      BY <3>5, <3>6, <3>7, SeqEqual
    <3> QED
      BY <3>8 DEF a, b, c
  <2>4. r[Len(r)] = SubSeq(v, d + 1, k)
    BY <1>4, <2>2, <2>3
  <2> HIDE DEF r, D, E, x
  <2>5. /\ \A m \in 1..(Len(r) - 1) : \E i, j \in E : Adjacent(E, i, j) /\ r[m] = Between(v, i, j)
        /\ \A i, j \in E : Adjacent(E, i, j) => \E m \in 1..(Len(r) - 1) : r[m] = Between(v, i, j)
    BY <1>7, <2>1, <2>2
  <2> QED
    BY <1>4, <2>1, <2>4, <2>5 DEF IsSplit, r, E, x
<1> QED
  BY <1>8, <1>9

(* What lies between two places of a name. *)
LEMMA BetweenTypes ==
    ASSUME NEW S, NEW v \in Seq(S), NEW i \in 0..Len(v), NEW j \in 1..(Len(v) + 1), i < j
    PROVE  /\ Between(v, i, j) \in Seq(S) /\ Len(Between(v, i, j)) = (j - i) - 1
           /\ \A m \in 1..((j - i) - 1) : Between(v, i, j)[m] = v[i + m] /\ i + m \in 1..Len(v)
<1> DEFINE h == (j - i) - 1
<1>1. Len(v) \in Nat /\ h \in Nat /\ i \in Nat /\ i + h = j - 1 /\ i + h <= Len(v)
  BY LenProperties
<1>2. /\ SubSeq(v, i + 1, i + h) \in Seq(S) /\ Len(SubSeq(v, i + 1, i + h)) = h
      /\ \A m \in 1..h : SubSeq(v, i + 1, i + h)[m] = v[i + m]
  <2> HIDE DEF h
  <2> QED
    BY <1>1, TakeTypes
<1>3. \A m \in 1..h : i + m \in 1..Len(v)
  BY <1>1
<1> QED
  BY <1>1, <1>2, <1>3 DEF Between

(* A place behind the name closes its last label *)
Places(v) == Dots(v, Len(v)) \cup {Len(v) + 1}

(* The labels are what lies between neighbouring dots or ends. *)
LEMMA LabelsAreBetween ==
    ASSUME NEW S, NEW v \in Seq(S)
    PROVE  /\ \A x \in Range(Labels(v)) :
                 \E i, j \in Places(v) : Adjacent(Places(v), i, j) /\ x = Between(v, i, j)
           /\ \A i, j \in Places(v) :
                 Adjacent(Places(v), i, j) => Between(v, i, j) \in Range(Labels(v))
<1> DEFINE n == Len(v)
           D == Dots(v, n)
           E == Places(v)
           l == Labels(v)
<1>1. n \in Nat /\ \A i \in 1..n : v[i] \in S
  BY LenProperties, ElementOfSeq
<1>2. PICK t : IsSplitTrace(t, v, S)
  BY SplitTrace
<1> DEFINE T == {k \in 0..n : IsSplit(t[k], v, k)}
<1>3. 0 \in T
  <2> DEFINE e == <<>>
             b == NoLabel
  <2>1. Dots(v, 0) = {0}
    BY DEF Dots
  <2>2. Len(b) = 1 /\ b[1] = e /\ b[Len(b)] = e /\ 1..(Len(b) - 1) = {}
    BY DEF NoLabel
  <2>3. SubSeq(v, 0 + 1, 0) = e
    <3>1. 0 \in 0..Len(v)
      BY <1>1
    <3>2. SubSeq(v, 1, 0) \in Seq(S) /\ Len(SubSeq(v, 1, 0)) = 0
      BY <3>1, PrefixTypes
    <3> QED
      BY <3>2, EmptySeq
  <2>4. \A i, j \in {0} : ~Adjacent({0}, i, j)
    BY DEF Adjacent
  <2> HIDE DEF b, e
  <2>5. IsSplit(b, v, 0)
    <3>1. \E d \in {0} : (\A i \in {0} : i <= d) /\ b[Len(b)] = SubSeq(v, d + 1, 0)
      BY <2>2, <2>3
    <3>2. /\ \A m \in 1..(Len(b) - 1) : \E i, j \in {0} : Adjacent({0}, i, j) /\ b[m] = Between(v, i, j)
          /\ \A i, j \in {0} : Adjacent({0}, i, j) => \E m \in 1..(Len(b) - 1) : b[m] = Between(v, i, j)
      BY <2>2, <2>4
    <3> QED
      BY <2>1, <3>1, <3>2 DEF IsSplit
  <2>6. t[0] = b /\ 0 \in 0..n
    BY <1>1, <1>2 DEF IsSplitTrace, b
  <2> QED
    BY <2>5, <2>6
<1>4. ASSUME NEW k \in 1..n, k - 1 \in T PROVE k \in T
  <2>1. k - 1 \in 0..n /\ k \in 0..n
    BY <1>1
  <2>2. t[k - 1] \in LabelLists(S) /\ t[k] = SplitDots(t[k - 1], v[k]) /\ IsSplit(t[k - 1], v, k - 1)
    BY <1>2, <1>4, <2>1 DEF IsSplitTrace
  <2>3. IsSplit(SplitDots(t[k - 1], v[k]), v, k)
    BY <2>2, SplitMore
  <2> QED
    BY <2>1, <2>2, <2>3
<1>5. 0..n \subseteq T
  <2> HIDE DEF T
  <2> QED
    BY <1>1, <1>3, <1>4, UpTo
<1>6. n \in 0..n
  BY <1>1
<1>7. l = t[n] /\ l \in LabelLists(S)
  BY <1>2, <1>6 DEF IsSplitTrace, Labels, NoLabel
<1>8. IsSplit(l, v, n)
  BY <1>5, <1>6, <1>7
<1> HIDE DEF l
<1>9. Len(l) \in Nat \ {0} /\ Range(l) = {l[m] : m \in 1..Len(l)}
  <2>1. l \in Seq(Seq(S)) /\ l # <<>>
    BY <1>7 DEF LabelLists
  <2>2. Len(l) \in Nat /\ Len(l) # 0 /\ DOMAIN l = 1..Len(l)
    BY <2>1, EmptySeq, LenProperties
  <2> QED
    BY <2>2 DEF Range
<1>10. D \subseteq 0..n /\ E = D \cup {n + 1} /\ \A i \in D : i < n + 1 /\ i \in Nat
  BY <1>1 DEF Dots, Places
<1>11. PICK d \in D : (\A i \in D : i <= d) /\ l[Len(l)] = SubSeq(v, d + 1, n)
  BY <1>8 DEF IsSplit
<1>12. d \in E /\ n + 1 \in E /\ Adjacent(E, d, n + 1) /\ l[Len(l)] = Between(v, d, n + 1)
  <2>1. (n + 1) - 1 = n
    BY <1>1
  <2> QED
    BY <1>1, <1>10, <1>11, <2>1 DEF Adjacent, Between
<1>13. ASSUME NEW i \in D, NEW j \in D
       PROVE  Adjacent(E, i, j) <=> Adjacent(D, i, j)
  BY <1>1, <1>10 DEF Adjacent
<1>14. ASSUME NEW i \in E, NEW j \in E, Adjacent(E, i, j), ~(i \in D /\ j \in D)
       PROVE  i = d /\ j = n + 1
  <2>1. i < j
    BY <1>14 DEF Adjacent
  <2>2. i \in D /\ j = n + 1
    BY <1>1, <1>10, <1>14, <2>1
  <2>3. d <= i
    <3>1. d <= i \/ d >= j
      BY <1>10, <1>14 DEF Adjacent
    <3> QED
      BY <1>1, <1>10, <2>2, <3>1
  <2> QED
    BY <1>10, <1>11, <2>2, <2>3
<1>15. /\ \A m \in 1..(Len(l) - 1) : \E i, j \in D : Adjacent(D, i, j) /\ l[m] = Between(v, i, j)
       /\ \A i, j \in D : Adjacent(D, i, j) => \E m \in 1..(Len(l) - 1) : l[m] = Between(v, i, j)
  BY <1>8 DEF IsSplit
<1> HIDE DEF D, E
<1>16. ASSUME NEW m \in 1..Len(l)
       PROVE  \E i, j \in E : Adjacent(E, i, j) /\ l[m] = Between(v, i, j)
  <2>1. CASE m = Len(l)
    BY <1>12, <2>1
  <2>2. CASE m # Len(l)
    <3>1. m \in 1..(Len(l) - 1)
      BY <1>9, <2>2
    <3>2. PICK i, j \in D : Adjacent(D, i, j) /\ l[m] = Between(v, i, j)
      BY <1>15, <3>1
    <3> QED
      BY <1>10, <1>13, <3>2
  <2> QED
    BY <2>1, <2>2
<1>17. ASSUME NEW i \in E, NEW j \in E, Adjacent(E, i, j)
       PROVE  \E m \in 1..Len(l) : l[m] = Between(v, i, j)
  <2>1. CASE i \in D /\ j \in D
    <3>1. PICK m \in 1..(Len(l) - 1) : l[m] = Between(v, i, j)
      BY <1>13, <1>15, <1>17, <2>1
    <3>2. m \in 1..Len(l)
      BY <1>9
    <3> QED
      BY <3>1, <3>2
  <2>2. CASE ~(i \in D /\ j \in D)
    <3>1. i = d /\ j = n + 1
      BY <1>14, <1>17, <2>2
    <3>2. Len(l) \in 1..Len(l)
      BY <1>9
    <3> QED
      BY <1>12, <3>1, <3>2
  <2> QED
    BY <2>1, <2>2
<1> QED
  BY <1>9, <1>16, <1>17 DEF E, l

(* Every place that is no dot is between two neighbours *)
LEMMA Enclosed ==
    ASSUME NEW S, NEW v \in Seq(S), NEW m \in 1..Len(v), v[m] # "."
    PROVE  \E i, j \in Places(v) : Adjacent(Places(v), i, j) /\ i < m /\ m < j
<1> DEFINE E == Places(v)
           A == {i \in E : i < m}
           B == {i \in E : i > m}
           a == Max(A)
           b == Min(B)
<1>1. /\ Len(v) \in Nat /\ E \subseteq Nat /\ 0 \in E /\ Len(v) + 1 \in E /\ m \notin E
      /\ m \in Nat /\ 0 < m /\ m < Len(v) + 1
  BY LenProperties DEF Places, Dots
<1> HIDE DEF E
<1>2. A \in SUBSET (0..m) /\ A # {}
  <2>1. 0 \in A
    BY <1>1
  <2>2. \A i \in A : i \in 0..m
    BY <1>1
  <2> HIDE DEF A
  <2> QED
    BY <2>1, <2>2
<1>3. a \in A /\ \A y \in A : y <= a
  <2> HIDE DEF A
  <2> QED
    BY <1>1, <1>2, MaxIsGreatest
<1>4. B \in SUBSET Nat /\ B # {}
  BY <1>1
<1>5. b \in B /\ \A y \in B : b <= y
  <2> HIDE DEF B
  <2> QED
    BY <1>4, MinIsLeast
<1> HIDE DEF a, b
<1>6. a \in E /\ b \in E /\ a < m /\ m < b /\ a \in Nat /\ b \in Nat
  BY <1>1, <1>3, <1>5
<1>7. ASSUME NEW k \in E PROVE k <= a \/ k >= b
  <2>1. k \in Nat /\ k # m
    BY <1>1
  <2>2. k < m \/ k > m
    BY <1>1, <2>1
  <2>3. CASE k < m
    BY <1>3, <2>3
  <2>4. CASE k > m
    BY <1>5, <1>6, <2>1, <2>4
  <2> QED
    BY <2>2, <2>3, <2>4
<1>8. Adjacent(E, a, b)
  BY <1>1, <1>6, <1>7 DEF Adjacent
<1> QED
  BY <1>6, <1>8 DEF E

Letters == {"a", "A", "-", ".", "!"}

IsLabel(x) == /\ Len(x) \in 1..MaxLabel
              /\ "-" \notin {x[1], x[Len(x)]}
              /\ Range(x) \subseteq {"a", "-"}

(* validate_dns_name accepts exactly the names of DNS, whatever their        *)
(* length, and keeps each in one spelling, that of the same name            *)
THEOREM DnsNames ==
    ASSUME name \in Seq(Letters)
    PROVE  NamesAreDnsNames
<1>1. PICK w : w = name
  OBVIOUS
<1> DEFINE bare == StripDots(w)
           v == Lower(bare)
           n == Len(bare)
           E == Places(bare)
           dots == {0, Len(bare) + 1} \cup {i \in DOMAIN bare : bare[i] = "."}
           clean == \A i \in 1..n : bare[i] # "!"
           fits(i, j) == j - i \in 2..(MaxLabel + 1) /\ "-" \notin {bare[i + 1], bare[j - 1]}
<1>2. bare \in Seq(Letters) /\ (Len(bare) > 0 => bare[Len(bare)] # ".")
  <2>1. PICK m \in 0..Len(w) :
          /\ StripDots(w) \in Seq(Letters) /\ Len(StripDots(w)) = m
          /\ \A i \in 1..m : StripDots(w)[i] = w[i]
          /\ m > 0 => w[m] # "."
    BY <1>1, StripIs
  <2> QED
    BY <2>1
<1> HIDE DEF bare
<1>3. n \in Nat /\ DOMAIN bare = 1..n /\ \A i \in 1..n : bare[i] \in Letters
  BY <1>2, LenProperties, ElementOfSeq
<1>4. /\ v \in Seq(Letters) /\ Len(v) = n
      /\ \A i \in 1..n : v[i] = IF bare[i] = "A" THEN "a" ELSE bare[i]
      /\ Lower(v) = v
  <2>1. Letters \cup {"a"} = Letters
    BY DEF Letters
  <2> QED
    BY <1>2, <2>1, LowerTypes
<1> HIDE DEF v
<1>5. dots = E /\ Places(v) = E
  <2>1. dots = E
    BY <1>3 DEF Places, Dots
  <2>2. \A i \in 1..n : v[i] = "." <=> bare[i] = "."
    BY <1>4
  <2>3. Places(v) = E
    BY <1>4, <2>2 DEF Places, Dots
  <2> QED
    BY <2>1, <2>3
<1>6. ASSUME NEW i \in E, NEW j \in E, Adjacent(E, i, j)
      PROVE  /\ i \in 0..n /\ j \in 1..(n + 1) /\ i < j
             /\ \A m \in 1..n : i < m /\ m < j => v[m] # "." /\ bare[m] # "."
  <2>1. i < j /\ \A k \in E : k <= i \/ k >= j
    BY <1>6 DEF Adjacent
  <2>2. i \in 0..(n + 1) /\ j \in 0..(n + 1)
    BY <1>3 DEF Places, Dots
  <2>3. i \in 0..n /\ j \in 1..(n + 1)
    BY <1>3, <2>1, <2>2
  <2>4. ASSUME NEW m \in 1..n, i < m, m < j PROVE v[m] # "." /\ bare[m] # "."
    <3>1. m \notin E
      BY <1>3, <2>1, <2>2, <2>4
    <3>2. bare[m] # "."
      BY <3>1 DEF Places, Dots
    <3> QED
      BY <1>4, <3>2
  <2> QED
    BY <2>1, <2>3, <2>4
<1>7. ASSUME NEW i \in E, NEW j \in E, Adjacent(E, i, j)
      PROVE  /\ clean /\ fits(i, j) => IsLabel(Between(v, i, j))
             /\ IsLabel(Between(v, i, j)) => fits(i, j)
             /\ IsLabel(Between(v, i, j)) => \A m \in 1..n : i < m /\ m < j => bare[m] # "!"
  <2> DEFINE x == Between(v, i, j)
             h == (j - i) - 1
  <2>1. /\ i \in 0..n /\ j \in 1..(n + 1) /\ i < j
        /\ \A m \in 1..n : i < m /\ m < j => v[m] # "." /\ bare[m] # "."
    BY <1>6, <1>7
  <2>2. /\ x \in Seq(Letters) /\ Len(x) = h
        /\ \A m \in 1..h : x[m] = v[i + m] /\ i + m \in 1..n
    BY <1>4, <2>1, BetweenTypes
  <2>3. h \in Nat /\ (h \in 1..MaxLabel <=> j - i \in 2..(MaxLabel + 1))
        /\ i + h = j - 1 /\ (h > 0 => 1 \in 1..h /\ h \in 1..h)
    BY <1>3, <2>1, SettingsAssumption
  <2>4. DOMAIN x = 1..h
    BY <2>2, <2>3, LenProperties
  <2> HIDE DEF x, h
  <2>5. Range(x) = {x[m] : m \in 1..h}
    BY <2>4 DEF Range
  <2>6. ASSUME h > 0 PROVE "-" \notin {x[1], x[Len(x)]} <=> "-" \notin {bare[i + 1], bare[j - 1]}
    <3>1. x[1] = v[i + 1] /\ i + 1 \in 1..n /\ x[h] = v[i + h] /\ i + h \in 1..n
      BY <2>2, <2>3, <2>6
    <3>2. (v[i + 1] = "-" <=> bare[i + 1] = "-") /\ (v[j - 1] = "-" <=> bare[j - 1] = "-")
      BY <1>4, <2>3, <3>1
    <3> QED
      BY <2>2, <2>3, <3>1, <3>2
  <2>7. ASSUME NEW m \in 1..h
        PROVE  /\ i + m \in 1..n /\ i < i + m /\ i + m < j /\ x[m] = v[i + m]
               /\ bare[i + m] # "." /\ bare[i + m] \in Letters
    <3>1. i + m \in 1..n /\ i < i + m /\ i + m < j
      BY <1>3, <2>1, <2>2, <2>3
    <3> QED
      BY <1>3, <2>1, <2>2, <3>1
  <2>8. ASSUME clean, fits(i, j) PROVE IsLabel(x)
    <3>1. h \in 1..MaxLabel /\ h > 0
      <4>1. j - i \in 2..(MaxLabel + 1)
        BY <2>8
      <4>2. h \in 1..MaxLabel
        BY <2>3, <4>1
      <4> QED
        BY <4>2, SettingsAssumption
    <3>2. ASSUME NEW m \in 1..h PROVE x[m] \in {"a", "-"}
      <4>1. bare[i + m] \in {"a", "A", "-"}
        BY <2>7, <2>8 DEF Letters
      <4> QED
        BY <1>4, <2>7, <4>1
    <3> QED
      BY <2>2, <2>5, <2>6, <2>8, <3>1, <3>2 DEF IsLabel
  <2>9. ASSUME IsLabel(x) PROVE fits(i, j)
    <3>1. h \in 1..MaxLabel /\ h > 0 /\ "-" \notin {x[1], x[Len(x)]}
      BY <2>2, <2>3, <2>9, SettingsAssumption DEF IsLabel
    <3> QED
      BY <2>3, <2>6, <3>1
  <2>10. ASSUME IsLabel(x), NEW m \in 1..n, i < m, m < j PROVE bare[m] # "!"
    <3>1. m - i \in 1..h /\ i + (m - i) = m
      BY <1>3, <2>1, <2>3, <2>10
    <3>2. x[m - i] \in {"a", "-"}
      BY <2>5, <2>10, <3>1 DEF IsLabel
    <3>3. v[m] \in {"a", "-"}
      BY <2>2, <3>1, <3>2
    <3> QED
      BY <1>4, <3>3
  <2> QED
    BY <2>8, <2>9, <2>10 DEF x
<1>8. (\A x \in Range(Labels(v)) : IsLabel(x)) <=>
        clean /\ \A i, j \in E : Adjacent(E, i, j) => fits(i, j)
  <2>1. /\ \A x \in Range(Labels(v)) : \E i, j \in E : Adjacent(E, i, j) /\ x = Between(v, i, j)
        /\ \A i, j \in E : Adjacent(E, i, j) => Between(v, i, j) \in Range(Labels(v))
    BY <1>4, <1>5, LabelsAreBetween
  <2> HIDE DEF E, fits
  <2>2. ASSUME \A x \in Range(Labels(v)) : IsLabel(x) PROVE clean
    <3>1. SUFFICES ASSUME NEW m \in 1..n, bare[m] = "!" PROVE FALSE
      OBVIOUS
    <3>2. PICK i, j \in E : Adjacent(E, i, j) /\ i < m /\ m < j
      BY <1>2, <3>1, Enclosed DEF E
    <3> QED
      BY <1>7, <2>1, <2>2, <3>1, <3>2
  <2>3. ASSUME \A x \in Range(Labels(v)) : IsLabel(x) PROVE \A i, j \in E : Adjacent(E, i, j) => fits(i, j)
    BY <1>7, <2>1, <2>3
  <2>4. ASSUME clean, \A i, j \in E : Adjacent(E, i, j) => fits(i, j)
        PROVE  \A x \in Range(Labels(v)) : IsLabel(x)
    <3> HIDE DEF clean
    <3> QED
      BY <1>7, <2>1, <2>4
  <2> QED
    BY <2>2, <2>3, <2>4
<1>9. v # Invalid
  <2>1. SUFFICES ASSUME v = Invalid PROVE FALSE
    OBVIOUS
  <2>2. Len(v) = 1 /\ v[1] = "invalid"
    BY <2>1 DEF Invalid
  <2>3. v[1] \in Letters
    BY <1>4, <2>2, ElementOfSeq
  <2> QED
    BY <2>2, <2>3 DEF Letters
<1>10. ValidateDnsName(w) # Invalid <=>
         n \in 1..MaxDns /\ \A x \in Range(Labels(v)) : IsLabel(x)
  BY <1>4, <1>9 DEF ValidateDnsName, IsLabel, bare, v
<1>11. n \in 1..MaxDns <=> bare # <<>> /\ Len(bare) <= MaxDns
  <2>1. bare # <<>> <=> n # 0
    BY <1>2, EmptySeq
  <2> QED
    BY <1>3, <2>1, SettingsAssumption
<1>12. (\A i, j \in E : Adjacent(E, i, j) => fits(i, j)) <=>
         \A i, j \in dots : i < j /\ (\A k \in dots : k <= i \/ k >= j) => fits(i, j)
  <2> HIDE DEF dots, E, fits
  <2> QED
    BY <1>5 DEF Adjacent
<1>13. clean <=> \A i \in DOMAIN bare : bare[i] # "!"
  BY <1>3
<1> DEFINE far == \A i, j \in dots : i < j /\ (\A k \in dots : k <= i \/ k >= j) => fits(i, j)
<1>14. ValidateDnsName(w) # Invalid <=>
         /\ bare # <<>> /\ Len(bare) <= MaxDns
         /\ \A i \in DOMAIN bare : bare[i] # "!"
         /\ far
  <2> HIDE DEF far, clean
  <2> QED
    BY <1>8, <1>10, <1>11, <1>12, <1>13 DEF far
<1>15. StripDots(v) = v
  <2>1. Len(v) > 0 => v[Len(v)] # "."
    BY <1>2, <1>3, <1>4
  <2> QED
    BY <1>4, <2>1, StripKeeps
<1>16. SameName(v, w)
  <2>1. Lower(StripDots(v)) = Lower(StripDots(w))
    BY <1>4, <1>15 DEF v, bare
  <2> QED
    BY <1>1, <1>4, <2>1, SameNameIs
<1> DEFINE valid == /\ Len(v) \in 1..MaxDns
                    /\ \A label \in Range(Labels(v)) :
                          /\ Len(label) \in 1..MaxLabel
                          /\ "-" \notin {label[1], label[Len(label)]}
                          /\ Range(label) \subseteq {"a", "-"}
<1>17. ValidateDnsName(w) = IF valid THEN v ELSE Invalid
  BY DEF ValidateDnsName, bare, v
<1>18. ValidateDnsName(v) = IF valid THEN v ELSE Invalid
  <2>1. Lower(StripDots(v)) = v
    BY <1>4, <1>15
  <2> HIDE DEF v
  <2> QED
    BY <2>1 DEF ValidateDnsName
<1>19. ValidateDnsName(w) # Invalid => ValidateDnsName(w) = v /\ ValidateDnsName(v) = v
  <2> HIDE DEF valid
  <2> QED
    BY <1>17, <1>18
<1>20. ValidateDnsName(w) # Invalid =>
         SameName(ValidateDnsName(w), w) /\ ValidateDnsName(ValidateDnsName(w)) = ValidateDnsName(w)
  BY <1>16, <1>19
<1> QED
  <2>1. bare = StripDots(name) /\ w = name
    BY <1>1 DEF bare
  <2>2. ValidateDnsName(name) # Invalid <=>
          /\ bare # <<>> /\ Len(bare) <= MaxDns
          /\ \A i \in DOMAIN bare : bare[i] # "!"
          /\ far
    BY <1>14, <2>1
  <2>3. ValidateDnsName(name) # Invalid =>
          SameName(ValidateDnsName(name), name) /\ ValidateDnsName(ValidateDnsName(name)) = ValidateDnsName(name)
    BY <1>20, <2>1
  <2> QED
    BY <2>1, <2>2, <2>3, Zenon DEF NamesAreDnsNames

-----------------------------------------------------------------------------
(* Selected header fields *)

(* The instances of a name, and the last of them *)
LEMMA Instances ==
    ASSUME NEW S, NEW f \in Seq(S), NEW x
    PROVE  /\ Positions(f, x) \in SUBSET (0..Len(f)) /\ Positions(f, x) \subseteq 1..Len(f)
           /\ IsFiniteSet(Positions(f, x))
           /\ \A i \in Positions(f, x) : f[i] \in S /\ f[i].name = x /\ i \in Nat
<1>1. Len(f) \in Nat /\ DOMAIN f = 1..Len(f)
  BY LenProperties
<1>2. Positions(f, x) \subseteq 1..Len(f)
  BY <1>1 DEF Positions
<1>3. IsFiniteSet(Positions(f, x))
  <2>1. IsFiniteSet(1..Len(f))
    BY <1>1, FS_Interval
  <2> QED
    BY <1>2, <2>1, FS_Subset
<1>4. \A i \in 1..Len(f) : i \in 0..Len(f) /\ i \in Nat /\ f[i] \in S
  BY <1>1, ElementOfSeq
<1> QED
  BY <1>2, <1>3, <1>4 DEF Positions

(* The last instance of a name, if there is one. *)
LEMMA LastInstanceIs ==
    ASSUME NEW S, NEW f \in Seq(S), NEW x
    PROVE  /\ Positions(f, x) = {} => LastInstance(f, x) = <<>> /\ LastOf(f, x) = {}
           /\ Positions(f, x) # {} =>
                 /\ Max(Positions(f, x)) \in Positions(f, x)
                 /\ \A i \in Positions(f, x) : i <= Max(Positions(f, x))
                 /\ LastInstance(f, x) = <<f[Max(Positions(f, x))]>>
                 /\ LastOf(f, x) = {CanonicalField(f[Max(Positions(f, x))])}
<1> DEFINE P == Positions(f, x)
           a == Max(P)
<1>1. P \in SUBSET (0..Len(f)) /\ Len(f) \in Nat
  BY Instances, LenProperties
<1> HIDE DEF P
<1>2. CASE P = {}
  BY <1>2 DEF LastInstance, LastOf, P
<1>3. CASE P # {}
  <2>1. a \in P /\ \A i \in P : i <= a
    BY <1>1, <1>3, MaxIsGreatest
  <2>2. LastInstance(f, x) = <<f[a]>>
    BY <1>3 DEF LastInstance, P
  <2> HIDE DEF a
  <2>3. {j \in P : \A k \in P : k <= j} = {a}
    <3>1. ASSUME NEW j \in P, \A k \in P : k <= j PROVE j = a
      <4>1. j <= a /\ a <= j /\ j \in Nat /\ a \in Nat
        BY <1>1, <2>1, <3>1
      <4> QED
        BY <4>1
    <3> QED
      BY <2>1, <3>1
  <2>4. LastOf(f, x) = {CanonicalField(f[a])}
    <3> HIDE DEF CanonicalField
    <3>1. LastOf(f, x) = {CanonicalField(f[i]) : i \in {a}}
      BY <2>3 DEF LastOf, P
    <3> QED
      BY <3>1
  <2> QED
    BY <1>3, <2>1, <2>2, <2>4 DEF a, P
<1> QED
  BY <1>2, <1>3 DEF P

(* What the first and the second mention of a name stand for *)
LEMMA FirstMention ==
    ASSUME NEW n \in Nat, NEW P \in SUBSET (0..n), P # {}
    PROVE  {i \in P : Cardinality({j \in P : j >= i}) = 1} = {Max(P)}
<1> DEFINE a == Max(P)
           Above(i) == {j \in P : j >= i}
<1>1. a \in P /\ \A i \in P : i <= a
  BY MaxIsGreatest
<1>2. IsFiniteSet(P)
  <2>1. IsFiniteSet(0..n)
    BY FS_Interval
  <2> QED
    BY <2>1, FS_Subset
<1>3. \A i \in P : IsFiniteSet(Above(i)) /\ i \in Nat
  <2> SUFFICES ASSUME NEW i \in P PROVE IsFiniteSet(Above(i)) /\ i \in Nat
    OBVIOUS
  <2>1. Above(i) \in SUBSET P
    OBVIOUS
  <2> HIDE DEF Above
  <2> QED
    BY <1>2, <2>1, FS_Subset
<1> HIDE DEF a
<1>4. Above(a) = {a}
  <2>1. a \in Above(a)
    BY <1>1, <1>3
  <2>2. ASSUME NEW j \in P, j >= a PROVE j = a
    <3>1. j <= a /\ j \in Nat /\ a \in Nat
      BY <1>1, <1>3
    <3> QED
      BY <2>2, <3>1
  <2> QED
    BY <2>1, <2>2
<1>5. Cardinality(Above(a)) = 1
  BY <1>4, FS_Singleton
<1>6. ASSUME NEW i \in P, Cardinality(Above(i)) = 1 PROVE i = a
  <2>1. \E x : Above(i) = {x}
    BY <1>3, <1>6, FS_Singleton
  <2>2. i \in Above(i) /\ a \in Above(i)
    BY <1>1, <1>3
  <2> HIDE DEF Above
  <2> QED
    BY <2>1, <2>2
<1> QED
  BY <1>1, <1>5, <1>6 DEF a

(* A second mention stands for nothing exactly if there is one instance. *)
LEMMA SecondMention ==
    ASSUME NEW n \in Nat, NEW P \in SUBSET (0..n), P # {}
    PROVE  {i \in P : Cardinality({j \in P : j >= i}) = 2} = {} <=> Cardinality(P) = 1
<1> DEFINE a == Max(P)
           Q == P \ {a}
           b == Max(Q)
           Above(i) == {j \in P : j >= i}
<1>1. a \in P /\ \A i \in P : i <= a
  BY MaxIsGreatest
<1>2. IsFiniteSet(P) /\ \A i \in P : i \in Nat
  <2>1. IsFiniteSet(0..n)
    BY FS_Interval
  <2>2. IsFiniteSet(P)
    BY <2>1, FS_Subset
  <2> QED
    BY <2>2
<1> HIDE DEF a
<1>3. CASE Q = {}
  <2>1. P = {a}
    BY <1>1, <1>3
  <2>2. Cardinality(P) = 1
    BY <2>1, FS_Singleton
  <2>3. \A i \in P : Above(i) = {a}
    <3>1. a \in Nat /\ a >= a
      BY <1>1, <1>2
    <3>2. Above(a) = {a}
      BY <2>1, <3>1
    <3> QED
      BY <2>1, <3>2
  <2>4. Cardinality({a}) = 1
    BY FS_Singleton
  <2>5. \A i \in P : Cardinality(Above(i)) # 2
    BY <2>3, <2>4
  <2> QED
    BY <2>2, <2>5
<1>4. CASE Q # {}
  <2>1. Q \in SUBSET (0..n)
    OBVIOUS
  <2>2. b \in Q /\ \A i \in Q : i <= b
    <3> HIDE DEF Q
    <3> QED
      BY <1>4, <2>1, MaxIsGreatest
  <2> HIDE DEF b
  <2>3. b \in P /\ b # a /\ b <= a
    BY <1>1, <2>2
  <2>4. \A j \in P : j >= b <=> j \in {a, b}
    BY <1>2, <2>2, <2>3
  <2>5. Above(b) = {b} \cup {a}
    BY <1>1, <2>3, <2>4
  <2>6. Cardinality({b} \cup {a}) = 2
    <3>1. IsFiniteSet({b}) /\ Cardinality({b}) = 1
      BY FS_Singleton
    <3>2. Cardinality({b} \cup {a}) = 1 + 1
      BY <2>3, <3>1, FS_AddElement
    <3> QED
      BY <3>2
  <2>7. Cardinality(P) # 1
    <3>1. SUFFICES ASSUME Cardinality(P) = 1 PROVE FALSE
      OBVIOUS
    <3>2. PICK x : P = {x}
      BY <1>2, <3>1, FS_Singleton
    <3> QED
      BY <1>1, <2>3, <3>2
  <2>8. b \in {i \in P : Cardinality(Above(i)) = 2}
    BY <2>3, <2>5, <2>6
  <2> QED
    BY <2>7, <2>8
<1> QED
  BY <1>3, <1>4

(* The k-th name of a list is its first, or its second, mention *)
Nth(h, k) == Cardinality({j \in 1..k : h[j] = h[k]})

(* What is checked for the m-th mention of a name with the instances P *)
IsCheck(c, g, P, m) ==
    /\ c # <<>> => \E i \in P : c = <<CanonicalField(g[i])>>
    /\ P = {} => c = <<>>
    /\ P # {} /\ m = 1 => c = <<CanonicalField(g[Max(P)])>>
    /\ P # {} /\ m = 2 => (c = <<>> <=> Cardinality(P) = 1)

(* What a verifier takes for the first and for the second mention. *)
LEMMA CheckedIs ==
    ASSUME NEW S, NEW g \in Seq(S), NEW h, NEW k
    PROVE  IsCheck(Checked(g, h, k), g, Positions(g, h[k]), Nth(h, k))
<1> DEFINE P == Positions(g, h[k])
           m == Nth(h, k)
           W == Meant(g, h, k)
           c == CHOOSE i \in W : TRUE
           C == Checked(g, h, k)
<1>1. P \in SUBSET (0..Len(g)) /\ Len(g) \in Nat
  BY Instances, LenProperties
<1>2. W = {i \in P : Cardinality({j \in P : j >= i}) = m}
  BY DEF Meant, Nth
<1>3. C = IF W = {} THEN <<>> ELSE <<CanonicalField(g[c])>>
  BY DEF Checked
<1>4. W # {} => c \in W
  OBVIOUS
<1> HIDE DEF P, m, W, c, C
<1>5. C # <<>> => \E i \in P : C = <<CanonicalField(g[i])>>
  BY <1>2, <1>3, <1>4
<1>6. P = {} => C = <<>>
  BY <1>2, <1>3
<1>7. ASSUME P # {}, m = 1 PROVE C = <<CanonicalField(g[Max(P)])>>
  <2>1. W = {Max(P)}
    BY <1>1, <1>2, <1>7, FirstMention
  <2> QED
    BY <1>3, <1>4, <2>1
<1>8. ASSUME P # {}, m = 2 PROVE C = <<>> <=> Cardinality(P) = 1
  <2>1. W = {} <=> Cardinality(P) = 1
    BY <1>1, <1>2, <1>8, SecondMention
  <2>2. C = <<>> <=> W = {}
    BY <1>3
  <2> QED
    BY <2>1, <2>2
<1> QED
  BY <1>5, <1>6, <1>7, <1>8 DEF P, m, C, IsCheck

-----------------------------------------------------------------------------
(* The list *)

LEMMA NamesTypes ==
    /\ SIGNED_HEADERS \in Seq(STRING) /\ Len(SIGNED_HEADERS) \in Nat \ {0}
    /\ DOMAIN SIGNED_HEADERS = 1..Len(SIGNED_HEADERS)
    /\ SIGNED_HEADERS[1] = "from"
    /\ \A k \in 1..Len(SIGNED_HEADERS) : SIGNED_HEADERS[k] \in STRING
    /\ \A j, k \in 1..Len(SIGNED_HEADERS) : SIGNED_HEADERS[j] = SIGNED_HEADERS[k] => j = k
<1> DEFINE N == SIGNED_HEADERS
<1>1. N \in Seq(STRING) /\ N # <<>> /\ Head(N) = "from" /\ IsInjective(N)
  BY SigningAssumption
<1> HIDE DEF N
<1>2. Len(N) \in Nat /\ Len(N) # 0 /\ DOMAIN N = 1..Len(N)
  BY <1>1, LenProperties, EmptySeq
<1>3. N[1] = "from"
  BY <1>1, <1>2
<1>4. \A j, k \in 1..Len(N) : N[j] = N[k] => j = k
  BY <1>1, <1>2 DEF IsInjective
<1>5. \A k \in 1..Len(N) : N[k] \in STRING
  BY <1>1, ElementOfSeq
<1> QED
  BY <1>1, <1>2, <1>3, <1>4, <1>5 DEF N

(* Two elements in a row. *)
LEMMA TwoInARow ==
    ASSUME NEW S, NEW x \in S, NEW y \in S
    PROVE  <<x>> \o <<y>> = <<x, y>>
<1> DEFINE a == <<x>>
           b == <<y>>
           c == <<x, y>>
           d == a \o b
<1>1. a \in Seq(S) /\ b \in Seq(S) /\ Len(a) = 1 /\ Len(b) = 1 /\ a[1] = x /\ b[1] = y
  OBVIOUS
<1>2. c \in Seq(S) /\ Len(c) = 2 /\ c[1] = x /\ c[2] = y
  OBVIOUS
<1> HIDE DEF a, b, c
<1>3. d \in Seq(S) /\ Len(d) = 2 /\ d[1] = x /\ d[2] = y
  BY <1>1, ConcatParts
<1> HIDE DEF d
<1>4. \A i \in 1..2 : c[i] = d[i]
  BY <1>2, <1>3
<1>5. c = d
  BY <1>2, <1>3, <1>4, SeqEqual
<1> QED
  BY <1>5 DEF a, b, c, d

(* What is listed for a name. *)
LEMMA MentionsAre ==
    ASSUME NEW f, NEW S, NEW x \in S, "from" \in S
    PROVE  /\ Mentions(f, x) \in Seq(S)
           /\ x = "from" /\ Positions(f, x) # {} => Mentions(f, x) = <<"from", "from">>
           /\ x # "from" => Mentions(f, x) = IF Positions(f, x) = {} THEN <<>> ELSE <<x>>
<1> DEFINE a == IF Positions(f, x) = {} THEN <<>> ELSE <<x>>
           b == IF x = "from" THEN <<"from">> ELSE <<>>
<1>1. <<>> \in Seq(S) /\ <<x>> \in Seq(S) /\ <<"from">> \in Seq(S)
  OBVIOUS
<1>2. a \in Seq(S) /\ b \in Seq(S) /\ Mentions(f, x) = a \o b
  BY <1>1 DEF Mentions
<1>3. a \o b \in Seq(S)
  <2> HIDE DEF a, b
  <2> QED
    BY <1>2
<1>4. ASSUME x # "from" PROVE a \o b = a
  <2>1. b = <<>>
    BY <1>4
  <2> HIDE DEF a, b
  <2> QED
    BY <1>2, <2>1
<1>5. ASSUME x = "from", Positions(f, x) # {} PROVE a \o b = <<"from", "from">>
  <2>1. a = <<"from">> /\ b = <<"from">>
    BY <1>5
  <2> HIDE DEF a, b
  <2>2. <<"from">> \o <<"from">> = <<"from", "from">>
    BY TwoInARow
  <2> QED
    BY <2>1, <2>2
<1> QED
  BY <1>2, <1>3, <1>4, <1>5

Listing(o) == [k \in DOMAIN SIGNED_HEADERS |-> Mentions(o, SIGNED_HEADERS[k])]

(* The list of names is put together name by name. *)
LEMMA ListingTypes ==
    ASSUME NEW o
    PROVE  /\ Listing(o) \in Seq(Seq(STRING)) /\ Len(Listing(o)) = Len(SIGNED_HEADERS)
           /\ \A k \in 1..Len(SIGNED_HEADERS) : Listing(o)[k] = Mentions(o, SIGNED_HEADERS[k])
           /\ ListedNames(o) = FlattenSeq(Listing(o))
<1> DEFINE n == Len(SIGNED_HEADERS)
           SS == Seq(STRING)
           M == [k \in 1..n |-> Mentions(o, SIGNED_HEADERS[k])]
<1>1. n \in Nat /\ Listing(o) = M
  BY NamesTypes DEF Listing
<1>2. \A k \in 1..n : Mentions(o, SIGNED_HEADERS[k]) \in SS
  <2>1. "from" \in STRING
    <3>1. 1 \in 1..Len(SIGNED_HEADERS)
      BY NamesTypes
    <3> QED
      BY <3>1, NamesTypes
  <2> QED
    BY <2>1, NamesTypes, MentionsAre
<1>3. ListedNames(o) = FlattenSeq(Listing(o))
  BY DEF ListedNames, Listing
<1> HIDE DEF SS, n
<1>4. M \in [1..n -> SS] /\ \A k \in 1..n : M[k] = Mentions(o, SIGNED_HEADERS[k])
  BY <1>2
<1> HIDE DEF M
<1>5. M \in Seq(SS) /\ Len(M) = n
  BY <1>1, <1>4, TableIsSeq
<1> QED
  BY <1>1, <1>3, <1>4, <1>5 DEF SS, n

(* The first m names are listed: From twice, the others once *)
IsList(l, m) ==
    /\ Len(l) \in Nat /\ Len(l) >= 2 /\ l[1] = "from" /\ l[2] = "from"
    /\ \A j \in 2..Len(l) : \E i \in 1..m : l[j] = SIGNED_HEADERS[i]
    /\ \A j \in 2..Len(l) : \A k \in 2..Len(l) : l[j] = l[k] => j = k

(* The shape of the list, one name later. *)
LEMMA ListGrows ==
    ASSUME NEW S, NEW x, NEW y, NEW z, Joined(x, y, z, S),
           NEW m \in 2..Len(SIGNED_HEADERS), IsList(x, m - 1),
           y = <<>> \/ y = <<SIGNED_HEADERS[m]>>
    PROVE  IsList(z, m)
<1> DEFINE n == Len(SIGNED_HEADERS)
           h == Len(x)
<1>1. n \in Nat /\ \A j, k \in 1..n : SIGNED_HEADERS[j] = SIGNED_HEADERS[k] => j = k
  BY NamesTypes
<1>2. /\ h \in Nat /\ h >= 2 /\ x[1] = "from" /\ x[2] = "from"
      /\ \A j \in 2..h : \E i \in 1..(m - 1) : x[j] = SIGNED_HEADERS[i]
      /\ \A j \in 2..h : \A k \in 2..h : x[j] = x[k] => j = k
  BY DEF IsList
<1>3. Len(y) \in {0, 1} /\ (Len(y) = 1 => y[1] = SIGNED_HEADERS[m])
  <2>1. Len(<<>>) = 0 /\ Len(<<SIGNED_HEADERS[m]>>) = 1 /\ <<SIGNED_HEADERS[m]>>[1] = SIGNED_HEADERS[m]
    OBVIOUS
  <2> QED
    BY <2>1
<1>4. /\ Len(z) = h + Len(y)
      /\ \A i \in 1..h : z[i] = x[i]
      /\ Len(y) = 1 => z[h + 1] = SIGNED_HEADERS[m]
  <2>1. 1 \in 1..1
    OBVIOUS
  <2> QED
    BY <1>3, <2>1 DEF Joined
<1> HIDE DEF n, h
<1>5. Len(z) \in Nat /\ Len(z) >= 2 /\ z[1] = "from" /\ z[2] = "from"
  <2>1. 1 \in 1..h /\ 2 \in 1..h
    BY <1>2
  <2>2. z[1] = x[1] /\ z[2] = x[2]
    BY <1>4, <2>1
  <2> QED
    BY <1>2, <1>3, <1>4, <2>2
<1>6. \A j \in 2..Len(z) : (j \in 2..h /\ z[j] = x[j]) \/ (j = h + 1 /\ z[j] = SIGNED_HEADERS[m])
  <2> SUFFICES ASSUME NEW j \in 2..Len(z)
               PROVE  (j \in 2..h /\ z[j] = x[j]) \/ (j = h + 1 /\ z[j] = SIGNED_HEADERS[m])
    OBVIOUS
  <2>1. CASE j \in 2..h
    <3>1. j \in 1..h
      BY <1>2, <2>1
    <3> QED
      BY <1>4, <2>1, <3>1
  <2>2. CASE j \notin 2..h
    <3>1. PICK c : c = Len(y)
      OBVIOUS
    <3>2. c \in {0, 1} /\ j \in 2..(h + c)
      BY <1>3, <1>4, <3>1
    <3>3. j = h + 1 /\ c = 1
      BY <1>2, <2>2, <3>2
    <3> QED
      BY <1>4, <3>1, <3>3
  <2> QED
    BY <2>1, <2>2
<1>7. \A i \in 1..(m - 1) : i \in 1..m /\ i \in 1..n /\ i # m
  BY <1>1 DEF n
<1>8. m \in 1..m /\ m \in 1..n
  BY <1>1 DEF n
<1>9. \A j \in 2..Len(z) : \E i \in 1..m : z[j] = SIGNED_HEADERS[i]
  BY <1>2, <1>6, <1>7, <1>8
<1>10. \A j \in 2..h : x[j] # SIGNED_HEADERS[m]
  BY <1>1, <1>2, <1>7, <1>8
<1>11. ASSUME NEW j \in 2..Len(z), NEW k \in 2..Len(z), z[j] = z[k] PROVE j = k
  BY <1>2, <1>6, <1>10, <1>11
<1> QED
  BY <1>5, <1>9, <1>11 DEF IsList

(* h= starts with From twice, and every other name occurs once. *)
LEMMA ListingIsList ==
    ASSUME NEW o, Positions(o, "from") # {}, NEW t, IsFlattening(t, Listing(o), STRING),
           NEW m \in 1..Len(SIGNED_HEADERS)
    PROVE  IsList(t[m], m)
<1> DEFINE n == Len(SIGNED_HEADERS)
           T == {k \in 0..n : k = 0 \/ IsList(t[k], k)}
<1>1. /\ n \in Nat \ {0} /\ SIGNED_HEADERS[1] = "from"
      /\ \A k \in 1..n : SIGNED_HEADERS[k] \in STRING
      /\ \A j, k \in 1..n : SIGNED_HEADERS[j] = SIGNED_HEADERS[k] => j = k
  BY NamesTypes
<1>2. /\ Listing(o) \in Seq(Seq(STRING)) /\ Len(Listing(o)) = n
      /\ \A k \in 1..n : Listing(o)[k] = Mentions(o, SIGNED_HEADERS[k])
  BY ListingTypes
<1>3. 0 \in T
  BY <1>1
<1>4. 1 \in 1..n /\ "from" \in STRING
  BY <1>1
<1>5. ASSUME NEW k \in 1..n, k - 1 \in T PROVE k \in T
  <2>1. PICK x, y, z : x = t[k - 1] /\ y = Listing(o)[k] /\ z = t[k]
    OBVIOUS
  <2>2. Joined(x, y, z, STRING)
    BY <1>2, <2>1, FlattenStep
  <2>3. y = Mentions(o, SIGNED_HEADERS[k]) /\ SIGNED_HEADERS[k] \in STRING
    BY <1>1, <1>2, <2>1
  <2>4. CASE k = 1
    <3>1. x = <<>> /\ y = <<"from", "from">>
      BY <1>1, <1>4, <2>1, <2>3, <2>4, MentionsAre DEF IsFlattening
    <3>2. Len(x) = 0 /\ Len(y) = 2 /\ y[1] = "from" /\ y[2] = "from"
      BY <3>1
    <3>3. Len(z) = 2
      BY <2>2, <3>2 DEF Joined
    <3>4. 1 \in 1..Len(y) /\ 2 \in 1..Len(y)
      BY <3>2
    <3>5. z[Len(x) + 1] = y[1] /\ z[Len(x) + 2] = y[2]
      BY <2>2, <3>4 DEF Joined
    <3>6. z[1] = "from" /\ z[2] = "from"
      BY <3>2, <3>5
    <3>7. \A j \in 2..Len(z) : j = 2
      BY <3>3
    <3>8. \A j \in 2..Len(z) : z[j] = SIGNED_HEADERS[1]
      BY <1>1, <3>6, <3>7
    <3>9. IsList(z, 1)
      BY <3>3, <3>6, <3>7, <3>8 DEF IsList
    <3> QED
      BY <2>1, <2>4, <3>9
  <2>5. CASE k # 1
    <3>1. k \in 2..n /\ k - 1 # 0 /\ k \in 0..n
      BY <1>1, <2>5
    <3>2. IsList(x, k - 1)
      BY <1>5, <2>1, <3>1
    <3>3. SIGNED_HEADERS[k] # "from"
      BY <1>1, <1>4, <2>5
    <3>4. y = <<>> \/ y = <<SIGNED_HEADERS[k]>>
      BY <1>4, <2>3, <3>3, MentionsAre
    <3>5. IsList(z, k)
      BY <2>2, <3>1, <3>2, <3>4, ListGrows
    <3> QED
      BY <2>1, <3>1, <3>5
  <2> QED
    BY <2>4, <2>5
<1>6. 0..n \subseteq T
  <2> HIDE DEF T
  <2> QED
    BY <1>1, <1>3, <1>5, UpTo
<1>7. m \in 0..n /\ m # 0
  BY <1>1
<1> QED
  BY <1>6, <1>7

(* Only the second place is a second mention. *)
LEMMA NthMention ==
    ASSUME NEW h, NEW m, IsList(h, m), NEW k \in 1..Len(h)
    PROVE  Nth(h, k) = IF k = 2 THEN 2 ELSE 1
<1> DEFINE J == {j \in 1..k : h[j] = h[k]}
<1>1. /\ Len(h) \in Nat /\ Len(h) >= 2 /\ h[1] = "from" /\ h[2] = "from" /\ k \in Nat
      /\ \A i \in 2..Len(h) : \A j \in 2..Len(h) : h[i] = h[j] => i = j
  BY DEF IsList
<1>2. CASE k = 2
  <2>1. J = {1} \cup {2}
    BY <1>1, <1>2
  <2>2. IsFiniteSet({1}) /\ Cardinality({1}) = 1
    BY FS_Singleton
  <2>3. Cardinality({1} \cup {2}) = 1 + 1
    BY <2>2, FS_AddElement
  <2>4. Nth(h, k) = Cardinality(J)
    BY DEF Nth
  <2>5. Nth(h, k) = 1 + 1
    BY <2>1, <2>3, <2>4, Zenon
  <2> QED
    BY <1>2, <2>5
<1>3. CASE k # 2
  <2>1. ASSUME NEW j \in 1..k, h[j] = h[k] PROVE j = k
    <3>1. CASE k = 1
      BY <3>1
    <3>2. CASE k # 1
      <4>1. k \in 2..Len(h) /\ 2 \in 2..Len(h) /\ j \in 1..Len(h)
        BY <1>1, <3>2
      <4>2. CASE j = 1
        BY <1>1, <1>3, <2>1, <4>1, <4>2
      <4>3. CASE j # 1
        <5>1. j \in 2..Len(h)
          BY <4>1, <4>3
        <5> QED
          BY <1>1, <2>1, <4>1, <5>1
      <4> QED
        BY <4>2, <4>3
    <3> QED
      BY <3>1, <3>2
  <2>2. k \in 1..k
    OBVIOUS
  <2>3. J = {k}
    BY <2>1, <2>2
  <2>4. Cardinality({k}) = 1
    BY FS_Singleton
  <2> QED
    BY <1>3, <2>3, <2>4 DEF Nth
<1> QED
  BY <1>2, <1>3

-----------------------------------------------------------------------------
(* What is hashed and what is checked *)

LEMMA NameIsKept ==
    ASSUME NEW x
    PROVE  CanonicalField(x).name = x.name
  BY DEF CanonicalField

AsCanonical(S) == {CanonicalField(x) : x \in S}

(* Fields are canonicalized one by one. *)
LEMMA CanonicalFieldsTypes ==
    ASSUME NEW S, NEW f \in Seq(S)
    PROVE  /\ CanonicalFields(f) \in Seq(AsCanonical(S))
           /\ Len(CanonicalFields(f)) = Len(f)
           /\ \A i \in 1..Len(f) : CanonicalFields(f)[i] = CanonicalField(f[i])
<1> DEFINE C == AsCanonical(S)
           g == [i \in 1..Len(f) |-> CanonicalField(f[i])]
<1>1. Len(f) \in Nat /\ CanonicalFields(f) = g
  BY LenProperties DEF CanonicalFields
<1>2. \A i \in 1..Len(f) : CanonicalField(f[i]) \in C
  BY ElementOfSeq DEF AsCanonical
<1> HIDE DEF C
<1>3. g \in [1..Len(f) -> C] /\ \A i \in 1..Len(f) : g[i] = CanonicalField(f[i])
  BY <1>2
<1> HIDE DEF g
<1>4. g \in Seq(C) /\ Len(g) = Len(f)
  BY <1>1, <1>3, TableIsSeq
<1> QED
  BY <1>1, <1>3, <1>4 DEF C

Selection(o) == [k \in DOMAIN SIGNED_HEADERS |-> LastInstance(o, SIGNED_HEADERS[k])]

(* The selection is put together name by name, at most one field each. *)
LEMMA SelectionTypes ==
    ASSUME NEW S, NEW o \in Seq(S)
    PROVE  /\ Selection(o) \in Seq(Seq(S)) /\ Len(Selection(o)) = Len(SIGNED_HEADERS)
           /\ \A k \in 1..Len(SIGNED_HEADERS) :
                 /\ Selection(o)[k] = LastInstance(o, SIGNED_HEADERS[k])
                 /\ Len(Selection(o)[k]) <= 1
           /\ Selected(o) = FlattenSeq(Selection(o))
<1> DEFINE n == Len(SIGNED_HEADERS)
           SS == Seq(S)
           M == [k \in 1..n |-> LastInstance(o, SIGNED_HEADERS[k])]
<1>1. n \in Nat /\ Selection(o) = M
  BY NamesTypes DEF Selection
<1>2. ASSUME NEW x PROVE LastInstance(o, x) \in SS /\ Len(LastInstance(o, x)) <= 1
  <2>1. CASE Positions(o, x) = {}
    <3>1. LastInstance(o, x) = <<>>
      BY <2>1, LastInstanceIs
    <3> QED
      BY <3>1
  <2>2. CASE Positions(o, x) # {}
    <3>1. PICK y : y = o[Max(Positions(o, x))]
      OBVIOUS
    <3>2. LastInstance(o, x) = <<y>> /\ y \in S
      BY <2>2, <3>1, LastInstanceIs, Instances
    <3>3. <<y>> \in Seq(S) /\ Len(<<y>>) = 1
      BY <3>2
    <3> QED
      BY <3>2, <3>3
  <2> QED
    BY <2>1, <2>2
<1>3. Selected(o) = FlattenSeq(Selection(o))
  BY DEF Selected, Selection
<1> HIDE DEF SS, n
<1>4. M \in [1..n -> SS] /\ \A k \in 1..n : M[k] = LastInstance(o, SIGNED_HEADERS[k])
  BY <1>2
<1> HIDE DEF M
<1>5. M \in Seq(SS) /\ Len(M) = n
  BY <1>1, <1>4, TableIsSeq
<1> QED
  BY <1>1, <1>2, <1>3, <1>4, <1>5 DEF SS, n

Checks(g, h) == [k \in DOMAIN h |-> Checked(g, h, k)]

AreChecks(c, g, h, S) ==
    /\ c \in Seq(Seq(AsCanonical(S))) /\ Len(c) = Len(h)
    /\ \A k \in 1..Len(h) : c[k] = Checked(g, h, k) /\ Len(c[k]) <= 1
    /\ Verified(g, h) = FlattenSeq(c)

(* The verifier takes at most one field for each mention. *)
LEMMA ChecksTypes ==
    ASSUME NEW S, NEW g \in Seq(S), NEW R, NEW h \in Seq(R)
    PROVE  AreChecks(Checks(g, h), g, h, S)
<1> DEFINE n == Len(h)
           C == AsCanonical(S)
           SS == Seq(C)
           M == [k \in 1..n |-> Checked(g, h, k)]
<1>1. n \in Nat /\ Checks(g, h) = M
  BY LenProperties DEF Checks
<1>2. ASSUME NEW k PROVE Checked(g, h, k) \in SS /\ Len(Checked(g, h, k)) <= 1
  <2>1. CASE Checked(g, h, k) = <<>>
    BY <2>1
  <2>2. CASE Checked(g, h, k) # <<>>
    <3>1. PICK i \in Positions(g, h[k]) : Checked(g, h, k) = <<CanonicalField(g[i])>>
      BY <2>2, CheckedIs DEF IsCheck
    <3>2. PICK y : y = CanonicalField(g[i])
      OBVIOUS
    <3>3. y \in C
      <4>1. g[i] \in S
        BY Instances
      <4> QED
        BY <3>2, <4>1 DEF AsCanonical
    <3> HIDE DEF C
    <3>4. <<y>> \in SS /\ Len(<<y>>) = 1
      BY <3>3
    <3> QED
      BY <3>1, <3>2, <3>4
  <2> QED
    BY <2>1, <2>2
<1>3. Verified(g, h) = FlattenSeq(Checks(g, h))
  BY DEF Verified, Checks
<1> HIDE DEF SS, n
<1>4. M \in [1..n -> SS] /\ \A k \in 1..n : M[k] = Checked(g, h, k)
  BY <1>2
<1> HIDE DEF M
<1>5. M \in Seq(SS) /\ Len(M) = n
  BY <1>1, <1>4, TableIsSeq
<1> QED
  BY <1>1, <1>2, <1>3, <1>4, <1>5 DEF SS, n, C, AreChecks

(* A field is hashed for each name that is there, and no two for one name *)
LEMMA HashedFields ==
    ASSUME NEW S, NEW o \in Seq(S)
    PROVE  LET z == CanonicalFields(Selected(o))
           IN  /\ \A p \in 1..Len(z) : \A q \in 1..Len(z) : z[p].name = z[q].name => p = q
               /\ \A k \in 1..Len(SIGNED_HEADERS) :
                     Positions(o, SIGNED_HEADERS[k]) # {} =>
                        \E p \in 1..Len(z) :
                           z[p] = CanonicalField(o[Max(Positions(o, SIGNED_HEADERS[k]))])
<1> DEFINE n == Len(SIGNED_HEADERS)
           s == Selection(o)
           f == FlattenSeq(s)
           z == CanonicalFields(f)
           Of(k) == Positions(o, SIGNED_HEADERS[k])
<1>1. /\ s \in Seq(Seq(S)) /\ Len(s) = n /\ n \in Nat /\ Selected(o) = f
      /\ \A k \in 1..n : s[k] = LastInstance(o, SIGNED_HEADERS[k]) /\ Len(s[k]) <= 1
  BY SelectionTypes, NamesTypes
<1> HIDE DEF s
<1>2. f \in Seq(S)
  BY <1>1, FlattenType
<1> HIDE DEF f
<1>3. Len(z) = Len(f) /\ \A i \in 1..Len(f) : z[i] = CanonicalField(f[i])
  BY <1>2, CanonicalFieldsTypes
<1> HIDE DEF z
<1>4. ASSUME NEW k \in 1..n, s[k] # <<>>
      PROVE  Of(k) # {} /\ s[k][1] = o[Max(Of(k))] /\ s[k][1].name = SIGNED_HEADERS[k]
  <2>1. PICK x : x = SIGNED_HEADERS[k]
    OBVIOUS
  <2>2. Positions(o, x) # {}
    BY <1>1, <1>4, <2>1, LastInstanceIs
  <2>3. LastInstance(o, x) = <<o[Max(Positions(o, x))]>> /\ Max(Positions(o, x)) \in Positions(o, x)
    BY <2>2, LastInstanceIs
  <2>4. o[Max(Positions(o, x))].name = x
    BY <2>3, Instances
  <2>5. s[k] = <<o[Max(Positions(o, x))]>>
    BY <1>1, <2>1, <2>3
  <2> QED
    BY <2>1, <2>2, <2>4, <2>5
<1>5. ASSUME NEW k \in 1..n, Of(k) # {} PROVE s[k] # <<>>
  <2>1. PICK y : y = o[Max(Of(k))]
    OBVIOUS
  <2>2. LastInstance(o, SIGNED_HEADERS[k]) = <<y>>
    BY <1>5, <2>1, LastInstanceIs
  <2>3. s[k] = <<y>>
    BY <1>1, <2>2
  <2> QED
    BY <2>3
<1> HIDE DEF Of
<1>6. ASSUME NEW p \in 1..Len(f), NEW q \in 1..Len(f), z[p].name = z[q].name PROVE p = q
  <2>1. PICK k, l \in 1..n : /\ s[k] # <<>> /\ f[p] = s[k][1]
                             /\ s[l] # <<>> /\ f[q] = s[l][1]
                             /\ p # q => k # l
    BY <1>1, FlattenDistinct DEF f
  <2>2. z[p].name = SIGNED_HEADERS[k] /\ z[q].name = SIGNED_HEADERS[l]
    <3>1. z[p] = CanonicalField(s[k][1]) /\ z[q] = CanonicalField(s[l][1])
      BY <1>3, <2>1
    <3>2. s[k][1].name = SIGNED_HEADERS[k] /\ s[l][1].name = SIGNED_HEADERS[l]
      BY <1>4, <2>1
    <3> QED
      BY <3>1, <3>2, NameIsKept
  <2>3. k = l
    BY <1>6, <2>2, NamesTypes
  <2> QED
    BY <2>1, <2>3
<1>7. ASSUME NEW k \in 1..n, Of(k) # {}
      PROVE  \E p \in 1..Len(z) : z[p] = CanonicalField(o[Max(Of(k))])
  <2>1. s[k] # <<>> /\ s[k][1] = o[Max(Of(k))] /\ k \in k..n
    BY <1>1, <1>4, <1>5, <1>7
  <2>2. \E p, q \in 1..Len(f) : f[p] = s[k][1] /\ f[q] = s[k][1] /\ (k < k => p < q)
    BY <1>1, <2>1, FlattenApart DEF f
  <2>3. PICK p \in 1..Len(f) : f[p] = s[k][1]
    BY <2>2
  <2>4. z[p] = CanonicalField(o[Max(Of(k))])
    BY <1>3, <2>1, <2>3
  <2> QED
    BY <1>3, <2>4
<1> QED
  BY <1>1, <1>3, <1>6, <1>7 DEF z, Of

(* The condition for a signature of o to verify on g *)
SameMessage(g, o) ==
    /\ Cardinality(Positions(g, "from")) = 1
    /\ \A x \in Range(SIGNED_HEADERS) : LastOf(o, x) # {} => LastOf(g, x) = LastOf(o, x)

(* If the verifier hashes what the signer hashed, nothing that is signed    *)
(* has changed.                                                             *)
LEMMA VerifiedMeansSame ==
    ASSUME NEW S, NEW o \in Seq(S), NEW g \in Seq(S), Positions(o, "from") # {},
           Verified(g, ListedNames(o)) = CanonicalFields(Selected(o))
    PROVE  SameMessage(g, o)
<1> DEFINE n == Len(SIGNED_HEADERS)
           h == ListedNames(o)
           z == CanonicalFields(Selected(o))
           c == Checks(g, h)
           C == AsCanonical(S)
           At(k) == Positions(g, h[k])
<1>1. n \in Nat \ {0} /\ SIGNED_HEADERS[1] = "from" /\ DOMAIN SIGNED_HEADERS = 1..n
  BY NamesTypes
<1>2. /\ Listing(o) \in Seq(Seq(STRING)) /\ Len(Listing(o)) = n /\ h = FlattenSeq(Listing(o))
  BY ListingTypes
<1>3. PICK t : IsFlattening(t, Listing(o), STRING)
  BY <1>2, FlattenTrace
<1>4. h = t[n] /\ n \in 0..n /\ n \in 1..n /\ h \in Seq(STRING)
  BY <1>1, <1>2, <1>3 DEF IsFlattening
<1> HIDE DEF h
<1>5. IsList(h, n)
  BY <1>3, <1>4, ListingIsList
<1>6. \A k \in 1..Len(h) : Nth(h, k) = IF k = 2 THEN 2 ELSE 1
  BY <1>5, NthMention
<1>7. /\ c \in Seq(Seq(C)) /\ Len(c) = Len(h) /\ Verified(g, h) = FlattenSeq(c)
      /\ \A k \in 1..Len(h) : c[k] = Checked(g, h, k) /\ Len(c[k]) <= 1
  <2>1. AreChecks(c, g, h, S)
    BY <1>4, ChecksTypes
  <2> HIDE DEF c
  <2> QED
    BY <2>1 DEF AreChecks
<1>8. /\ \A p \in 1..Len(z) : \A q \in 1..Len(z) : z[p].name = z[q].name => p = q
      /\ \A k \in 1..n : Positions(o, SIGNED_HEADERS[k]) # {} =>
            \E p \in 1..Len(z) : z[p] = CanonicalField(o[Max(Positions(o, SIGNED_HEADERS[k]))])
  BY HashedFields
<1>9. z = FlattenSeq(c)
  BY <1>7 DEF h
<1> HIDE DEF z, c, C
<1>20. ASSUME NEW k \in 1..Len(h) PROVE IsCheck(c[k], g, At(k), IF k = 2 THEN 2 ELSE 1)
  <2>1. IsCheck(Checked(g, h, k), g, At(k), Nth(h, k))
    BY CheckedIs
  <2>2. c[k] = Checked(g, h, k) /\ Nth(h, k) = IF k = 2 THEN 2 ELSE 1
    BY <1>6, <1>7
  <2> QED
    BY <2>1, <2>2
<1>10. ASSUME NEW k \in 1..Len(h), c[k] # <<>>
       PROVE  /\ Positions(g, h[k]) # {} /\ c[k][1].name = h[k]
              /\ k # 2 => c[k][1] = CanonicalField(g[Max(Positions(g, h[k]))])
  <2>1. PICK i \in At(k) : c[k] = <<CanonicalField(g[i])>>
    <3> HIDE DEF At
    <3> QED
      BY <1>10, <1>20 DEF IsCheck
  <2>2. g[i].name = h[k]
    BY Instances
  <2>3. c[k][1].name = h[k]
    <3>1. c[k][1] = CanonicalField(g[i])
      BY <2>1
    <3> QED
      BY <2>2, <3>1, NameIsKept
  <2>4. ASSUME k # 2 PROVE c[k][1] = CanonicalField(g[Max(Positions(g, h[k]))])
    <3>1. PICK y : y = CanonicalField(g[Max(Positions(g, h[k]))])
      OBVIOUS
    <3>2. IsCheck(c[k], g, At(k), 1) /\ At(k) # {} /\ y = CanonicalField(g[Max(At(k))])
      BY <1>20, <2>1, <2>4, <3>1
    <3>3. c[k] = <<y>>
      <4> HIDE DEF At
      <4> QED
        BY <3>2 DEF IsCheck
    <3> QED
      BY <3>1, <3>3
  <2> QED
    BY <2>1, <2>3, <2>4
<1>11. ASSUME NEW p \in 1..Len(z) PROVE \E k \in 1..Len(h) : c[k] # <<>> /\ z[p] = c[k][1]
  <2>1. p \in 1..Len(FlattenSeq(c)) /\ \A k \in 1..Len(c) : Len(c[k]) <= 1
    BY <1>7, <1>9
  <2>2. \E k, l \in 1..Len(c) : /\ c[k] # <<>> /\ FlattenSeq(c)[p] = c[k][1]
                                /\ c[l] # <<>> /\ FlattenSeq(c)[p] = c[l][1]
                                /\ p # p => k # l
    BY <1>7, <2>1, FlattenDistinct
  <2> QED
    BY <1>7, <1>9, <2>2
<1>12. Len(h) \in Nat /\ h[1] = "from" /\ h[2] = "from" /\ 1 \in 1..Len(h) /\ 2 \in 1..Len(h)
  BY <1>5 DEF IsList
<1>13. Positions(g, "from") # {}
  <2>1. PICK p \in 1..Len(z) : z[p] = CanonicalField(o[Max(Positions(o, "from"))])
    <3>1. 1 \in 1..n
      BY <1>1
    <3> QED
      BY <1>1, <1>8, <3>1
  <2>2. z[p].name = "from"
    <3>1. o[Max(Positions(o, "from"))].name = "from"
      BY LastInstanceIs, Instances
    <3> QED
      BY <2>1, <3>1, NameIsKept
  <2>3. PICK k \in 1..Len(h) : c[k] # <<>> /\ z[p] = c[k][1]
    BY <1>11
  <2> QED
    BY <1>10, <2>2, <2>3
<1>14. Cardinality(Positions(g, "from")) = 1
  <2>1. SUFFICES ASSUME Cardinality(Positions(g, "from")) # 1 PROVE FALSE
    OBVIOUS
  <2>2. IsCheck(c[1], g, Positions(g, "from"), 1) /\ IsCheck(c[2], g, Positions(g, "from"), 2)
    BY <1>12, <1>20
  <2>3. c[1] # <<>>
    <3>1. PICK y : y = CanonicalField(g[Max(Positions(g, "from"))])
      OBVIOUS
    <3>2. c[1] = <<y>>
      BY <1>13, <2>2, <3>1 DEF IsCheck
    <3> QED
      BY <3>2
  <2>4. c[2] # <<>>
    BY <1>13, <2>1, <2>2 DEF IsCheck
  <2>5. 1 \in 1..Len(c) /\ 2 \in 1..Len(c)
    BY <1>7, <1>12
  <2>6. \E p, q \in 1..Len(FlattenSeq(c)) :
           FlattenSeq(c)[p] = c[1][1] /\ FlattenSeq(c)[q] = c[2][1] /\ (1 < 2 => p < q)
    <3>1. 2 \in 1..Len(c)
      BY <2>5
    <3> QED
      BY <1>7, <2>3, <2>4, <2>5, <3>1, FlattenApart
  <2>7. PICK p, q \in 1..Len(z) : z[p] = c[1][1] /\ z[q] = c[2][1] /\ p # q
    BY <1>9, <2>6
  <2> QED
    BY <1>8, <1>10, <1>12, <2>3, <2>4, <2>7
<1>15. ASSUME NEW x \in Range(SIGNED_HEADERS), LastOf(o, x) # {}
       PROVE  LastOf(g, x) = LastOf(o, x)
  <2>1. PICK k \in 1..n : SIGNED_HEADERS[k] = x
    BY <1>1 DEF Range
  <2>2. Positions(o, x) # {}
    BY <1>15, LastInstanceIs
  <2>3. PICK p \in 1..Len(z) : z[p] = CanonicalField(o[Max(Positions(o, x))])
    BY <1>8, <2>1, <2>2
  <2>4. PICK m \in 1..Len(h) : c[m] # <<>> /\ z[p] = c[m][1]
    BY <1>11
  <2>5. h[m] = x
    <3>1. z[p].name = h[m]
      BY <1>10, <2>4
    <3>2. o[Max(Positions(o, x))].name = x
      BY <2>2, LastInstanceIs, Instances
    <3> QED
      BY <2>3, <3>1, <3>2, NameIsKept
  <2>6. m # 2
    <3>1. SUFFICES ASSUME m = 2 PROVE FALSE
      OBVIOUS
    <3>2. c[2] # <<>> /\ IsCheck(c[2], g, Positions(g, "from"), 2)
      BY <1>12, <1>20, <2>4, <3>1
    <3> QED
      BY <1>13, <1>14, <3>2 DEF IsCheck
  <2>7. Positions(g, x) # {} /\ z[p] = CanonicalField(g[Max(Positions(g, x))])
    BY <1>10, <2>4, <2>5, <2>6
  <2>8. LastOf(g, x) = {z[p]} /\ LastOf(o, x) = {z[p]}
    BY <2>2, <2>3, <2>7, LastInstanceIs
  <2> QED
    BY <2>8
<1> QED
  BY <1>14, <1>15 DEF SameMessage

(* One more field is one more canonical field. *)
LEMMA CanonicalAppend ==
    ASSUME NEW S, NEW f \in Seq(S), NEW v \in S
    PROVE  CanonicalFields(f \o <<v>>) = CanonicalFields(f) \o <<CanonicalField(v)>>
<1> DEFINE C == AsCanonical(S)
           one == <<v>>
           c == <<CanonicalField(v)>>
           e == f \o one
           a == CanonicalFields(e)
           d == CanonicalFields(f)
           b == d \o c
<1>1. CanonicalField(v) \in C
  BY DEF AsCanonical
<1>2. one \in Seq(S) /\ Len(one) = 1 /\ one[1] = v /\ c \in Seq(C) /\ Len(c) = 1 /\ c[1] = CanonicalField(v)
  <2> HIDE DEF C
  <2> QED
    BY <1>1
<1> HIDE DEF one, c
<1>3. /\ e \in Seq(S) /\ Len(f) \in Nat /\ Len(e) = Len(f) + 1
      /\ \A i \in 1..Len(f) : e[i] = f[i]
      /\ e[Len(f) + 1] = v
  BY <1>2, ConcatParts
<1> HIDE DEF e
<1>4. d \in Seq(C) /\ Len(d) = Len(f) /\ \A i \in 1..Len(f) : d[i] = CanonicalField(f[i])
  BY CanonicalFieldsTypes
<1>5. a \in Seq(C) /\ Len(a) = Len(e) /\ \A i \in 1..Len(e) : a[i] = CanonicalField(e[i])
  BY <1>3, CanonicalFieldsTypes
<1> HIDE DEF d, a, C
<1>6. /\ b \in Seq(C) /\ Len(b) = Len(f) + 1
      /\ \A i \in 1..Len(f) : b[i] = d[i]
      /\ b[Len(f) + 1] = CanonicalField(v)
  <2>1. PICK x : x = CanonicalField(v)
    OBVIOUS
  <2>2. c \in Seq(C) /\ d \in Seq(C) /\ Len(c) = 1 /\ c[1] = x /\ Len(d) = Len(f) /\ 1 \in 1..1
    BY <1>2, <1>4, <2>1
  <2>3. /\ b \in Seq(C) /\ Len(b) = Len(d) + 1 /\ (\A i \in 1..Len(d) : b[i] = d[i]) /\ b[Len(d) + 1] = x
    <3>0. Joined(d, c, b, C)
      BY <2>2, ConcatJoins
    <3> HIDE DEF b
    <3>1. /\ b \in Seq(C) /\ Len(d) \in Nat /\ Len(b) = Len(d) + Len(c)
          /\ \A i \in 1..Len(d) : b[i] = d[i]
      BY <3>0 DEF Joined
    <3>2. \A i \in 1..Len(c) : b[Len(d) + i] = c[i]
      BY <3>0 DEF Joined
    <3>3. b[Len(d) + 1] = c[1]
      BY <2>2, <3>2
    <3> QED
      BY <2>2, <3>1, <3>3
  <2> QED
    BY <2>1, <2>2, <2>3
<1> HIDE DEF b
<1>7. ASSUME NEW i \in 1..(Len(f) + 1) PROVE a[i] = b[i]
  <2>1. CASE i \in 1..Len(f)
    <3>1. i \in 1..Len(e)
      BY <1>3
    <3> QED
      BY <1>3, <1>4, <1>5, <1>6, <2>1, <3>1
  <2>2. CASE i = Len(f) + 1
    <3>1. i \in 1..Len(e)
      BY <1>3
    <3> QED
      BY <1>3, <1>5, <1>6, <2>2, <3>1
  <2>3. i \in 1..Len(f) \/ i = Len(f) + 1
    BY <1>3
  <2> QED
    BY <2>1, <2>2, <2>3
<1>8. a = b
  BY <1>3, <1>5, <1>6, <1>7, SeqEqual
<1> QED
  BY <1>8 DEF a, b, c, d, e, one

(* In a message that is the same, the last instances are the same. *)
LEMMA SameInstance ==
    ASSUME NEW S, NEW o \in Seq(S), NEW g \in Seq(S), SameMessage(g, o),
           NEW x \in Range(SIGNED_HEADERS), Positions(o, x) # {}
    PROVE  /\ Positions(g, x) # {}
           /\ CanonicalField(g[Max(Positions(g, x))]) = CanonicalField(o[Max(Positions(o, x))])
<1>1. PICK v, w : /\ v = CanonicalField(g[Max(Positions(g, x))])
                  /\ w = CanonicalField(o[Max(Positions(o, x))])
  OBVIOUS
<1>2. LastOf(o, x) = {w}
  BY <1>1, LastInstanceIs
<1>3. LastOf(g, x) = {w}
  BY <1>2 DEF SameMessage
<1>4. Positions(g, x) # {}
  BY <1>3, LastInstanceIs
<1>5. LastOf(g, x) = {v}
  BY <1>1, <1>4, LastInstanceIs
<1> QED
  BY <1>1, <1>3, <1>4, <1>5

(* If nothing that is signed has changed, the verifier hashes what the      *)
(* signer hashed.                                                           *)
LEMMA SameIsVerified ==
    ASSUME NEW S, NEW o \in Seq(S), NEW g \in Seq(S), Positions(o, "from") # {},
           SameMessage(g, o)
    PROVE  Verified(g, ListedNames(o)) = CanonicalFields(Selected(o))
<1> DEFINE n == Len(SIGNED_HEADERS)
           h == ListedNames(o)
           c == Checks(g, h)
           C == AsCanonical(S)
           s == Selection(o)
           l == Listing(o)
           Here(k) == Positions(o, SIGNED_HEADERS[k])
<1>1. /\ n \in Nat \ {0} /\ SIGNED_HEADERS[1] = "from" /\ DOMAIN SIGNED_HEADERS = 1..n
      /\ \A k \in 1..n : SIGNED_HEADERS[k] \in STRING /\ SIGNED_HEADERS[k] \in Range(SIGNED_HEADERS)
      /\ \A j, k \in 1..n : SIGNED_HEADERS[j] = SIGNED_HEADERS[k] => j = k
  BY NamesTypes DEF Range
<1>2. /\ l \in Seq(Seq(STRING)) /\ Len(l) = n /\ h = FlattenSeq(l)
      /\ \A k \in 1..n : l[k] = Mentions(o, SIGNED_HEADERS[k])
  BY ListingTypes
<1>3. /\ s \in Seq(Seq(S)) /\ Len(s) = n /\ Selected(o) = FlattenSeq(s)
      /\ \A k \in 1..n : s[k] = LastInstance(o, SIGNED_HEADERS[k])
  BY SelectionTypes
<1> HIDE DEF l, s
<1>4. PICK t : IsFlattening(t, l, STRING)
  BY <1>2, FlattenTrace
<1>5. PICK u : IsFlattening(u, s, S)
  BY <1>3, FlattenTrace
<1>6. h = t[n] /\ n \in 0..n /\ n \in 1..n /\ h \in Seq(STRING)
  <2>1. n \in 0..n /\ n \in 1..n
    BY <1>1
  <2> HIDE DEF h
  <2>2. h = t[n]
    BY <1>2, <1>4 DEF IsFlattening
  <2> QED
    BY <1>2, <1>4, <2>1, <2>2 DEF IsFlattening
<1> HIDE DEF h
<1>7. \A k \in 1..n : IsList(t[k], k)
  BY <1>4, ListingIsList DEF l
<1>8. IsList(h, n)
  BY <1>6, <1>7
<1>9. /\ c \in Seq(Seq(C)) /\ Len(c) = Len(h) /\ Verified(g, h) = FlattenSeq(c)
      /\ \A k \in 1..Len(h) : c[k] = Checked(g, h, k)
  <2>1. AreChecks(c, g, h, S)
    BY <1>6, ChecksTypes
  <2> HIDE DEF c
  <2> QED
    BY <2>1 DEF AreChecks
<1> HIDE DEF c
<1>10. PICK w : IsFlattening(w, c, C)
  BY <1>9, FlattenTrace
<1> HIDE DEF C
<1>11. ASSUME NEW k \in 1..Len(h)
       PROVE  IsCheck(c[k], g, Positions(g, h[k]), IF k = 2 THEN 2 ELSE 1)
  <2>1. IsCheck(Checked(g, h, k), g, Positions(g, h[k]), Nth(h, k))
    BY CheckedIs
  <2>2. c[k] = Checked(g, h, k) /\ Nth(h, k) = IF k = 2 THEN 2 ELSE 1
    BY <1>8, <1>9, NthMention
  <2> QED
    BY <2>1, <2>2
<1>12. ASSUME NEW k \in 1..n, Here(k) # {}
       PROVE  \E v \in S : /\ s[k] = <<v>>
                           /\ \A j \in 1..Len(h) : h[j] = SIGNED_HEADERS[k] /\ j # 2 =>
                                 c[j] = <<CanonicalField(v)>>
  <2>1. PICK x, v, P : x = SIGNED_HEADERS[k] /\ v = o[Max(Positions(o, x))] /\ P = Positions(g, x)
    OBVIOUS
  <2>2. x \in Range(SIGNED_HEADERS) /\ Positions(o, x) # {}
    BY <1>1, <1>12, <2>1
  <2>3. s[k] = <<v>> /\ v \in S
    BY <1>3, <2>1, <2>2, LastInstanceIs, Instances
  <2>4. P # {} /\ CanonicalField(g[Max(P)]) = CanonicalField(v)
    BY <2>1, <2>2, SameInstance
  <2>5. ASSUME NEW j \in 1..Len(h), h[j] = SIGNED_HEADERS[k], j # 2
        PROVE  c[j] = <<CanonicalField(v)>>
    <3>1. IsCheck(c[j], g, P, 1)
      BY <1>11, <2>1, <2>5
    <3>2. c[j] = <<CanonicalField(g[Max(P)])>>
      BY <2>4, <3>1 DEF IsCheck
    <3> QED
      BY <2>4, <3>2
  <2> QED
    BY <2>3, <2>5
<1>13. ASSUME NEW k \in 1..n, Here(k) = {} PROVE s[k] = <<>>
  BY <1>3, <1>13, LastInstanceIs
<1>14. /\ u[0] = <<>> /\ w[0] = <<>> /\ \A k \in 0..n : u[k] \in Seq(S)
       /\ \A k \in 1..n : u[k] = u[k - 1] \o s[k]
       /\ \A k \in 1..Len(h) : w[k] = w[k - 1] \o c[k]
       /\ \A k \in 0..Len(h) : w[k] \in Seq(C)
  BY <1>3, <1>5, <1>9, <1>10 DEF IsFlattening
<1> HIDE DEF Here
<1> DEFINE T == {k \in 0..n : k = 0 \/ w[Len(t[k])] = CanonicalFields(u[k])}
<1>15. 0 \in T
  BY <1>1
<1>16. 1 \in T
  <2>1. Len(h) \in Nat /\ h[1] = "from" /\ h[2] = "from" /\ 1 \in 1..Len(h) /\ 2 \in 1..Len(h)
    BY <1>8 DEF IsList
  <2>2. 1 \in 1..n /\ Here(1) # {} /\ 1 \in 0..n
    BY <1>1 DEF Here
  <2>3. PICK v \in S : s[1] = <<v>> /\ c[1] = <<CanonicalField(v)>>
    BY <1>1, <1>12, <2>1, <2>2
  <2>4. c[2] = <<>>
    <3>1. IsCheck(c[2], g, Positions(g, "from"), 2)
      BY <1>11, <2>1
    <3>2. Cardinality(Positions(g, "from")) = 1
      BY DEF SameMessage
    <3> QED
      BY <3>1, <3>2 DEF IsCheck
  <2>5. u[1] = <<>> \o <<v>> /\ w[1] = <<>> \o <<CanonicalField(v)>> /\ w[2] = w[1] \o <<>>
    <3>1. 1 - 1 = 0 /\ 2 - 1 = 1
      OBVIOUS
    <3> QED
      BY <1>14, <2>1, <2>2, <2>3, <2>4, <3>1
  <2>6. w[1] \in Seq(C) /\ 1 \in 0..Len(h)
    BY <1>14, <2>1
  <2>7. w[2] = w[1]
    BY <2>5, <2>6
  <2>8. Len(t[1]) = 2
    <3>1. l[1] = <<"from", "from">>
      BY <1>1, <1>2, <2>2, MentionsAre
    <3>2. PICK x, y, z : x = t[0] /\ y = l[1] /\ z = t[1]
      OBVIOUS
    <3>3. Joined(x, y, z, STRING) /\ x = <<>>
      <4>1. Joined(t[1 - 1], l[1], t[1], STRING) /\ t[0] = <<>>
        BY <1>2, <1>4, <2>2, FlattenStep DEF IsFlattening
      <4>2. 1 - 1 = 0
        OBVIOUS
      <4> QED
        BY <3>2, <4>1, <4>2
    <3>4. Len(x) = 0 /\ Len(y) = 2
      BY <3>1, <3>2, <3>3
    <3>5. Len(z) = 2
      BY <3>3, <3>4 DEF Joined
    <3> QED
      BY <3>2, <3>5
  <2>9. w[1] = CanonicalFields(u[1])
    <3>1. <<>> \in Seq(S)
      OBVIOUS
    <3>2. CanonicalFields(<<>> \o <<v>>) = CanonicalFields(<<>>) \o <<CanonicalField(v)>>
      BY <3>1, CanonicalAppend
    <3>3. CanonicalFields(<<>>) = <<>>
      <4>1. CanonicalFields(<<>>) \in Seq(AsCanonical(S)) /\ Len(CanonicalFields(<<>>)) = 0
        BY <3>1, CanonicalFieldsTypes, EmptySeq
      <4> QED
        BY <4>1, EmptySeq
    <3> QED
      BY <2>5, <3>2, <3>3
  <2> QED
    BY <2>2, <2>7, <2>8, <2>9
<1>17. ASSUME NEW k \in 1..n, k - 1 \in T PROVE k \in T
  <2>1. CASE k = 1
    BY <1>16, <2>1
  <2>2. CASE k # 1
    <3>1. k - 1 \in 1..n /\ k - 1 \in 0..n /\ k \in 0..n /\ n \in k..n /\ k - 1 # 0
      BY <1>1, <2>2
    <3>2. PICK x, y, z : x = t[k - 1] /\ y = l[k] /\ z = t[k]
      OBVIOUS
    <3>3. Joined(x, y, z, STRING)
      BY <1>2, <1>4, <3>2, FlattenStep
    <3>4. IsList(x, k - 1) /\ w[Len(x)] = CanonicalFields(u[k - 1])
      BY <1>7, <1>17, <3>1, <3>2
    <3>5. Len(x) \in Nat /\ Len(x) >= 2
      BY <3>4 DEF IsList
    <3>6. SIGNED_HEADERS[k] # "from" /\ "from" \in STRING
      <4>1. 1 \in 1..n
        BY <1>1
      <4> QED
        BY <1>1, <2>2, <4>1
    <3>7. y = IF Here(k) = {} THEN <<>> ELSE <<SIGNED_HEADERS[k]>>
      <4>1. PICK x2 : x2 = SIGNED_HEADERS[k]
        OBVIOUS
      <4>2. x2 \in STRING /\ x2 # "from" /\ y = Mentions(o, x2)
        BY <1>1, <1>2, <3>2, <3>6, <4>1
      <4>3. y = IF Positions(o, x2) = {} THEN <<>> ELSE <<x2>>
        BY <3>6, <4>2, MentionsAre
      <4> QED
        BY <4>1, <4>3 DEF Here
    <3>8. CASE Here(k) = {}
      <4>1. u[k] = u[k - 1] \o <<>> /\ u[k - 1] \in Seq(S)
        BY <1>13, <1>14, <3>1, <3>8
      <4>2. u[k] = u[k - 1]
        BY <4>1
      <4>3. Len(y) = 0
        BY <3>7, <3>8
      <4>4. Len(z) = Len(x)
        BY <3>3, <4>3 DEF Joined
      <4> QED
        BY <3>1, <3>2, <3>4, <4>2, <4>4
    <3>9. CASE Here(k) # {}
      <4>1. PICK i : i = Len(x) + 1
        OBVIOUS
      <4>2. Len(y) = 1 /\ y[1] = SIGNED_HEADERS[k]
        BY <3>7, <3>9
      <4>3. Len(z) = i /\ z[i] = SIGNED_HEADERS[k]
        <5>1. 1 \in 1..1
          OBVIOUS
        <5> QED
          BY <3>3, <4>1, <4>2, <5>1 DEF Joined
      <4>4. Len(t[k]) <= Len(t[n]) /\ \A j \in 1..Len(t[k]) : t[n][j] = t[k][j]
        BY <1>2, <1>4, <3>1, FlattenPrefix
      <4>5. i <= Len(h) /\ i \in 1..i /\ Len(h) \in Nat
        BY <1>6, <1>8, <3>2, <3>5, <4>1, <4>3, <4>4 DEF IsList
      <4>6. h[i] = SIGNED_HEADERS[k]
        BY <1>6, <3>2, <4>3, <4>4, <4>5
      <4>7. i \in 1..Len(h) /\ i # 2 /\ i - 1 = Len(x)
        BY <3>5, <4>1, <4>5
      <4>8. PICK v \in S : s[k] = <<v>> /\ c[i] = <<CanonicalField(v)>>
        BY <1>12, <3>9, <4>6, <4>7
      <4>9. w[i] = w[Len(x)] \o <<CanonicalField(v)>>
        BY <1>14, <4>7, <4>8
      <4>10. u[k] = u[k - 1] \o <<v>> /\ u[k - 1] \in Seq(S)
        BY <1>14, <3>1, <4>8
      <4>11. CanonicalFields(u[k - 1] \o <<v>>) = CanonicalFields(u[k - 1]) \o <<CanonicalField(v)>>
        BY <4>10, CanonicalAppend
      <4>12. w[i] = CanonicalFields(u[k])
        BY <3>4, <4>9, <4>10, <4>11
      <4> QED
        BY <3>1, <3>2, <4>3, <4>12
    <3> QED
      BY <3>8, <3>9
  <2> QED
    BY <2>1, <2>2
<1>18. 0..n \subseteq T
  <2> HIDE DEF T
  <2> QED
    BY <1>1, <1>15, <1>17, UpTo
<1>19. w[Len(t[n])] = CanonicalFields(u[n])
  BY <1>1, <1>6, <1>18
<1>20. Verified(g, h) = w[Len(h)] /\ Selected(o) = u[n]
  BY <1>3, <1>5, <1>9, <1>10 DEF IsFlattening
<1> QED
  BY <1>6, <1>19, <1>20 DEF h

-----------------------------------------------------------------------------
(* The signature lists and hashes what sign selects of the message signed *)
SigningInv ==
    /\ headers \in Seq(Headers) /\ original \in Seq(Headers)
    /\ signature # Unsigned =>
          /\ Positions(original, "from") # {}
          /\ signature.h = ListedNames(original)
          /\ signature.hashed = CanonicalFields(Selected(original))

(* An edited message is a message. *)
LEMMA EditsTypes ==
    ASSUME NEW f \in Seq(Headers)
    PROVE  /\ \A i \in 0..Len(f), x \in Headers :
                 SubSeq(f, 1, i) \o <<x>> \o SubSeq(f, i + 1, Len(f)) \in Seq(Headers)
           /\ \A i \in DOMAIN f : SubSeq(f, 1, i - 1) \o SubSeq(f, i + 1, Len(f)) \in Seq(Headers)
           /\ \A i \in DOMAIN f, x \in Headers : [f EXCEPT ![i] = x] \in Seq(Headers)
<1>1. Len(f) \in Nat /\ DOMAIN f = 1..Len(f)
  BY LenProperties
<1>2. \A i \in 0..Len(f) : SubSeq(f, 1, i) \in Seq(Headers) /\ SubSeq(f, i + 1, Len(f)) \in Seq(Headers)
  BY PrefixTypes, RestTypes
<1>3. ASSUME NEW i \in 0..Len(f), NEW x \in Headers
      PROVE  SubSeq(f, 1, i) \o <<x>> \o SubSeq(f, i + 1, Len(f)) \in Seq(Headers)
  <2>1. PICK a, b : a = SubSeq(f, 1, i) /\ b = SubSeq(f, i + 1, Len(f))
    OBVIOUS
  <2>2. a \in Seq(Headers) /\ b \in Seq(Headers) /\ <<x>> \in Seq(Headers)
    BY <1>2, <2>1
  <2>3. a \o <<x>> \o b \in Seq(Headers)
    BY <2>2
  <2> QED
    BY <2>1, <2>3
<1>4. ASSUME NEW i \in 1..Len(f)
      PROVE  SubSeq(f, 1, i - 1) \o SubSeq(f, i + 1, Len(f)) \in Seq(Headers)
  <2>1. PICK a, b : a = SubSeq(f, 1, i - 1) /\ b = SubSeq(f, i + 1, Len(f))
    OBVIOUS
  <2>2. i - 1 \in 0..Len(f) /\ i \in 0..Len(f)
    BY <1>1
  <2>3. a \in Seq(Headers) /\ b \in Seq(Headers)
    BY <1>2, <2>1, <2>2
  <2>4. a \o b \in Seq(Headers)
    BY <2>3
  <2> QED
    BY <2>1, <2>4
<1>5. ASSUME NEW i \in 1..Len(f), NEW x \in Headers PROVE [f EXCEPT ![i] = x] \in Seq(Headers)
  BY ExceptSeq
<1> QED
  BY <1>1, <1>3, <1>4, <1>5

(* A signature is made over the original message. *)
LEMMA SigningInvHolds == Spec => []SigningInv
<1>1. Init => SigningInv
  BY DEF Init, SigningInv
<1>2. SigningInv /\ [Next]_vars => SigningInv'
  <2> SUFFICES ASSUME SigningInv, [Next]_vars PROVE SigningInv'
    OBVIOUS
  <2>1. /\ headers \in Seq(Headers) /\ original \in Seq(Headers)
        /\ signature # Unsigned =>
              /\ Positions(original, "from") # {}
              /\ signature.h = ListedNames(original)
              /\ signature.hashed = CanonicalFields(Selected(original))
    BY DEF SigningInv
  <2>2. ASSUME headers' \in Seq(Headers), original' = original, signature' = signature
        PROVE  SigningInv'
    <3>1. Positions(original', "from") = Positions(original, "from")
      BY <2>2
    <3>2. ListedNames(original') = ListedNames(original) /\ Selected(original') = Selected(original)
      BY <2>2
    <3> QED
      BY <2>1, <2>2, <3>1, <3>2 DEF SigningInv, Unsigned
  <2>3. CASE Compose
    <3>1. PICK x \in Headers : headers' = Append(headers, x)
      BY <2>3 DEF Compose
    <3>2. headers' \in Seq(Headers)
      BY <2>1, <3>1
    <3> QED
      BY <2>2, <2>3, <3>2 DEF Compose
  <2>4. CASE Sign
    <3>1. /\ Eligible /\ original' = headers /\ headers' = headers
          /\ signature' = [h |-> ListedNames(headers), hashed |-> CanonicalFields(Selected(headers))]
      BY <2>4 DEF Sign
    <3>2. Positions(headers, "from") # {}
      <4>1. Cardinality(Positions(headers, "from")) = 1
        BY <3>1 DEF Eligible
      <4>2. Cardinality({}) = 0
        BY FS_EmptySet
      <4> QED
        BY <4>1, <4>2
    <3>3. signature'.h = ListedNames(headers) /\ signature'.hashed = CanonicalFields(Selected(headers))
      BY <3>1
    <3> QED
      BY <2>1, <3>1, <3>2, <3>3 DEF SigningInv
  <2>5. CASE Over \/ UNCHANGED vars
    <3>1. UNCHANGED vars
      BY <2>5 DEF Over
    <3> QED
      BY <2>1, <2>2, <3>1 DEF vars
  <2>6. ASSUME NEW i \in 0..Len(headers), NEW x \in Headers, Insert(i, x) PROVE SigningInv'
    <3>1. headers' \in Seq(Headers)
      BY <2>1, <2>6, EditsTypes DEF Insert, Edit
    <3> QED
      BY <2>2, <2>6, <3>1 DEF Insert, Edit
  <2>7. ASSUME NEW i \in DOMAIN headers, Delete(i) PROVE SigningInv'
    <3>1. headers' \in Seq(Headers)
      BY <2>1, <2>7, EditsTypes DEF Delete, Edit
    <3> QED
      BY <2>2, <2>7, <3>1 DEF Delete, Edit
  <2>8. ASSUME NEW i \in DOMAIN headers, NEW x \in Headers, Rewrite(i, x) PROVE SigningInv'
    <3>1. headers' \in Seq(Headers)
      BY <2>1, <2>8, EditsTypes DEF Rewrite, Edit
    <3> QED
      BY <2>2, <2>8, <3>1 DEF Rewrite, Edit
  <2> QED
    BY <2>3, <2>4, <2>5, <2>6, <2>7, <2>8 DEF Next
<1> QED
  BY <1>1, <1>2, PTL DEF Spec

(* What sign hashes and lists makes a verifier accept a message exactly     *)
(* while it has one From and the last instance of every signed name is as   *)
(* it was, for every list SIGNED_HEADERS that starts with From and lists no *)
(* name twice, and after any number of edits.                               *)
THEOREM SignatureProves == Spec => []VerifiesExactlyTheSigned
<1>1. SigningInv => VerifiesExactlyTheSigned
  <2> SUFFICES ASSUME SigningInv, signature # Unsigned
               PROVE  Verifies <=> SameMessage(headers, original)
    BY DEF VerifiesExactlyTheSigned, SameMessage
  <2>1. /\ headers \in Seq(Headers) /\ original \in Seq(Headers)
        /\ Positions(original, "from") # {}
        /\ signature.h = ListedNames(original)
        /\ signature.hashed = CanonicalFields(Selected(original))
    BY DEF SigningInv
  <2>2. Verifies <=> Verified(headers, ListedNames(original)) = CanonicalFields(Selected(original))
    BY <2>1 DEF Verifies
  <2> QED
    BY <2>1, <2>2, VerifiedMeansSame, SameIsVerified
<1> QED
  BY <1>1, SigningInvHolds, PTL

-----------------------------------------------------------------------------
(* Command lines *)

(* The words that are told apart. *)
LEMMA WordFacts ==
    /\ Unset \notin Words /\ Options \subseteq Words /\ "--help" \in Words
    /\ "--help" \notin Options /\ Unset \notin Options /\ Unset # "help" /\ Unset # "error"
  BY DEF Words, Options, Required, Unset, Flag

(* The states of parse_generate_args *)
Results == {Unset, "help", "error"}
Asked == [result : Results, pending : Words \cup {Unset}, given : [Options -> Words \cup {Unset}]]
NothingAsked == [result |-> Unset, pending |-> Unset, given |-> [option \in Options |-> Unset]]

IsAskTrace(t, w) ==
    /\ t \in [0..Len(w) -> Asked]
    /\ t[0] = NothingAsked
    /\ \A k \in 1..Len(w) : t[k] = GenerateWord(t[k - 1], w[k])
    /\ FoldLeft(GenerateWord, NothingAsked, w) = t[Len(w)]

(* What a word does *)
Asks(r, s, x) ==
    /\ r \in Asked
    /\ s.result # Unset => r = s
    /\ s.result = Unset /\ s.pending = Unset /\ x = "--help" => r.result = "help"
    /\ s.result = Unset /\ s.pending = Unset /\ x # "--help" =>
          r.result = Unset /\ r.pending = x /\ r.given = s.given
    /\ s.result = Unset /\ s.pending # Unset =>
          IF s.pending \in Options /\ s.given[s.pending] = Unset /\ Parses(s.pending, x)
          THEN r.result = Unset /\ r.pending = Unset /\ r.given = [s.given EXCEPT ![s.pending] = x]
          ELSE r.result = "error"

(* Case by case, as in the loop of parse_generate_args. *)
LEMMA AskStep ==
    ASSUME NEW s \in Asked, NEW x \in Words
    PROVE  Asks(GenerateWord(s, x), s, x)
<1>1. PICK r : r = GenerateWord(s, x)
  OBVIOUS
<1>2. /\ s.result \in Results /\ s.pending \in Words \cup {Unset}
      /\ s.given \in [Options -> Words \cup {Unset}]
      /\ s = [result |-> s.result, pending |-> s.pending, given |-> s.given]
  BY DEF Asked
<1>3. "help" \in Results /\ "error" \in Results /\ Unset \in Results
  BY DEF Results
<1>4. CASE s.result # Unset
  <2>1. r = s
    BY <1>1, <1>4 DEF GenerateWord
  <2>2. Asks(r, s, x)
    BY <1>4, <2>1 DEF Asks
  <2> QED
    BY <1>1, <2>2
<1>5. CASE s.result = Unset /\ s.pending = Unset
  <2>1. CASE x = "--help"
    <3>1. r = [s EXCEPT !.result = "help"]
      BY <1>1, <1>5, <2>1 DEF GenerateWord
    <3>2. r \in Asked /\ r.result = "help"
      BY <1>2, <1>3, <3>1 DEF Asked
    <3>3. Asks(r, s, x)
      BY <1>5, <2>1, <3>2 DEF Asks
    <3> QED
      BY <1>1, <3>3
  <2>2. CASE x # "--help"
    <3>1. r = [s EXCEPT !.pending = x]
      BY <1>1, <1>5, <2>2 DEF GenerateWord
    <3>2. r \in Asked /\ r.result = s.result /\ r.pending = x /\ r.given = s.given
      BY <1>2, <3>1 DEF Asked
    <3>3. Asks(r, s, x)
      BY <1>5, <2>2, <3>2 DEF Asks
    <3> QED
      BY <1>1, <3>3
  <2> QED
    BY <2>1, <2>2
<1>6. CASE s.result = Unset /\ s.pending # Unset
  <2> DEFINE good == s.pending \in Options /\ s.given[s.pending] = Unset /\ Parses(s.pending, x)
  <2>1. CASE good
    <3>1. r = [s EXCEPT !.given[s.pending] = x, !.pending = Unset]
      BY <1>1, <1>6, <2>1 DEF GenerateWord
    <3>2. PICK g : g = [s.given EXCEPT ![s.pending] = x]
      OBVIOUS
    <3>3. g \in [Options -> Words \cup {Unset}]
      BY <1>2, <3>2
    <3>4. r = [result |-> s.result, pending |-> Unset, given |-> g]
      BY <1>2, <3>1, <3>2
    <3>5. r \in Asked /\ r.result = s.result /\ r.pending = Unset /\ r.given = g
      BY <1>2, <3>3, <3>4 DEF Asked
    <3>6. Asks(r, s, x)
      BY <1>6, <2>1, <3>2, <3>5 DEF Asks
    <3> QED
      BY <1>1, <3>6
  <2>2. CASE ~good
    <3>1. r = [s EXCEPT !.result = "error"]
      BY <1>1, <1>6, <2>2 DEF GenerateWord
    <3>2. r \in Asked /\ r.result = "error"
      BY <1>2, <1>3, <3>1 DEF Asked
    <3>3. Asks(r, s, x)
      BY <1>6, <2>2, <3>2 DEF Asks
    <3> QED
      BY <1>1, <3>3
  <2> QED
    BY <2>1, <2>2
<1> QED
  BY <1>4, <1>5, <1>6

(* The state keeps its type. *)
LEMMA AskTypes ==
    NothingAsked \in Asked /\ \A s \in Asked, x \in Words : GenerateWord(s, x) \in Asked
<1>1. NothingAsked \in Asked
  BY DEF NothingAsked, Asked, Results
<1> QED
  BY <1>1, AskStep DEF Asks

(* The states of parse_generate_args, word after word. *)
LEMMA AskTrace ==
    ASSUME NEW w \in Seq(Words)
    PROVE  \E t : IsAskTrace(t, w)
<1> DEFINE n == Len(w)
           G == [k \in 1..n |-> [s \in Asked |-> GenerateWord(s, w[k])]]
           R(f) == f = [s \in SUBSET (1..n) |->
                          IF s = {} THEN NothingAsked ELSE GenerateWord(f[s \ {Max(s)}], w[Max(s)])]
           iter == CHOOSE f : R(f)
<1>1. n \in Nat /\ DOMAIN w = 1..n /\ \A k \in 1..n : w[k] \in Words
  BY LenProperties, ElementOfSeq
<1>2. NothingAsked \in Asked /\ \A s \in Asked, x \in Words : GenerateWord(s, x) \in Asked
  BY AskTypes
<1>3. G \in [1..n -> [Asked -> Asked]]
  BY <1>1, <1>2
<1>4. \A k \in 1..n, s \in Asked : G[k][s] = GenerateWord(s, w[k])
  OBVIOUS
<1>5. FoldLeft(GenerateWord, NothingAsked, w) = iter[1..n]
  BY <1>1, Zenon DEF FoldLeft, MapThenFoldSet
<1> HIDE DEF n, G
<1>6. PICK f : IsTable(f, NothingAsked, G, n, Asked)
  BY <1>1, <1>2, <1>3, TableExists
<1>7. R(f)
  <2>1. f \in [SUBSET (1..n) -> Asked]
    BY <1>6 DEF IsTable
  <2>2. ASSUME NEW s \in SUBSET (1..n)
        PROVE  f[s] = IF s = {} THEN NothingAsked ELSE GenerateWord(f[s \ {Max(s)}], w[Max(s)])
    <3>1. f[s] = IF s = {} THEN NothingAsked ELSE G[Max(s)][f[s \ {Max(s)}]]
      BY <1>6 DEF IsTable
    <3>2. CASE s = {}
      BY <3>1, <3>2
    <3>3. CASE s # {}
      <4>1. Max(s) \in s
        <5>1. s \in SUBSET (0..n)
          BY <1>1
        <5> QED
          BY <1>1, <3>3, <5>1, MaxIsGreatest
      <4>2. Max(s) \in 1..n /\ f[s \ {Max(s)}] \in Asked
        BY <2>1, <4>1
      <4> QED
        BY <1>4, <3>1, <3>3, <4>2
    <3> QED
      BY <3>2, <3>3
  <2> QED
    BY <2>1, <2>2
<1>8. R(iter)
  BY <1>7, Zenon
<1> HIDE DEF iter
<1> DEFINE t == [k \in 0..n |-> iter[1..k]]
           T == {k \in 0..n : iter[1..k] \in Asked}
<1>9. iter[1..0] = NothingAsked
  <2>1. 1..0 = {} /\ {} \in SUBSET (1..n)
    OBVIOUS
  <2> QED
    BY <1>8, <2>1
<1>10. ASSUME NEW k \in 1..n PROVE iter[1..k] = GenerateWord(iter[1..(k - 1)], w[k])
  <2>1. k \in Nat \ {0} /\ 1..k \in SUBSET (1..n) /\ 1..k # {}
    BY <1>1
  <2>2. Max(1..k) = k /\ (1..k) \ {Max(1..k)} = 1..(k - 1)
    BY <2>1, MaxOfInterval
  <2>3. iter[1..k] = GenerateWord(iter[(1..k) \ {Max(1..k)}], w[Max(1..k)])
    BY <1>8, <2>1
  <2> QED
    BY <2>2, <2>3
<1>11. 0 \in T
  BY <1>1, <1>2, <1>9
<1>12. ASSUME NEW k \in 1..n, k - 1 \in T PROVE k \in T
  BY <1>1, <1>2, <1>10, <1>12
<1>13. 0..n \subseteq T
  <2> HIDE DEF T
  <2> QED
    BY <1>1, <1>11, <1>12, UpTo
<1>14. t \in [0..n -> Asked]
  BY <1>13
<1>15. t[0] = NothingAsked
  BY <1>1, <1>9
<1>16. \A k \in 1..n : t[k] = GenerateWord(t[k - 1], w[k])
  <2> SUFFICES ASSUME NEW k \in 1..n PROVE t[k] = GenerateWord(t[k - 1], w[k])
    OBVIOUS
  <2>1. k \in 0..n /\ k - 1 \in 0..n
    BY <1>1
  <2> QED
    BY <1>10, <2>1
<1>17. FoldLeft(GenerateWord, NothingAsked, w) = t[n]
  BY <1>1, <1>5
<1> HIDE DEF t
<1> QED
  BY <1>14, <1>15, <1>16, <1>17 DEF IsAskTrace, n

(* The values taken from the first h pairs *)
Gives(g, h) ==
    \A o \in Options : /\ g[o] = Unset <=> \A k \in 1..h : Option(k) # o
                       /\ \A k \in 1..h : Option(k) = o => g[o] = Value(k)

(* What is known after m words: pairs that are good so far and perhaps the  *)
(* option of the next, or a help option, or the first pair that is not good *)
AskedSoFar(s, m) ==
    \/ /\ s.result = Unset
       /\ \E h \in Nat : /\ GoodUpTo(h) /\ Gives(s.given, h)
                         /\ \/ m = 2 * h /\ s.pending = Unset
                            \/ /\ m = 2 * h + 1 /\ s.pending = Option(h + 1)
                               /\ s.pending \in Words /\ s.pending # "--help"
    \/ /\ s.result = "help"
       /\ \E k \in Nat \ {0} : 2 * k - 1 <= m /\ Option(k) = "--help" /\ GoodUpTo(k - 1)
    \/ /\ s.result = "error"
       /\ \E k \in Nat \ {0} : /\ 2 * k <= m /\ Option(k) # "--help"
                               /\ GoodUpTo(k - 1) /\ ~GoodUpTo(k)

(* When one more pair is good. *)
LEMMA GoodNext ==
    ASSUME NEW h \in Nat, GoodUpTo(h)
    PROVE  GoodUpTo(h + 1) <=> /\ Option(h + 1) \in Options /\ Parses(Option(h + 1), Value(h + 1))
                               /\ \A j \in 1..h : Option(j) # Option(h + 1)
<1>1. h + 1 \in 1..(h + 1) /\ (h + 1) - 1 = h /\ \A k \in 1..(h + 1) : k = h + 1 \/ k \in 1..h
  OBVIOUS
<1> QED
  BY <1>1 DEF GoodUpTo

(* Good pairs stay good when later ones are left out. *)
LEMMA GoodLess ==
    ASSUME NEW h \in Nat, NEW k \in Nat, k <= h, GoodUpTo(h)
    PROVE  GoodUpTo(k)
<1>1. \A i \in 1..k : i \in 1..h
  OBVIOUS
<1> QED
  BY <1>1 DEF GoodUpTo

(* One more word of a generate-key command. *)
LEMMA AskedNext ==
    ASSUME NEW s \in Asked, NEW m \in Nat \ {0}, NEW x \in Words, x = args[m + 1],
           AskedSoFar(s, m - 1), NEW r, Asks(r, s, x)
    PROVE  AskedSoFar(r, m)
<1>1. CASE s.result = "help"
  <2>1. r = s
    BY <1>1, WordFacts DEF Asks
  <2>2. PICK k \in Nat \ {0} : 2 * k - 1 <= m - 1 /\ Option(k) = "--help" /\ GoodUpTo(k - 1)
    BY <1>1, WordFacts DEF AskedSoFar
  <2>3. 2 * k - 1 <= m
    BY <2>2
  <2> QED
    BY <1>1, <2>1, <2>2, <2>3 DEF AskedSoFar
<1>2. CASE s.result = "error"
  <2>1. r = s
    BY <1>2, WordFacts DEF Asks
  <2>2. PICK k \in Nat \ {0} : /\ 2 * k <= m - 1 /\ Option(k) # "--help"
                               /\ GoodUpTo(k - 1) /\ ~GoodUpTo(k)
    BY <1>2, WordFacts DEF AskedSoFar
  <2>3. 2 * k <= m
    BY <2>2
  <2> QED
    BY <1>2, <2>1, <2>2, <2>3 DEF AskedSoFar
<1>3. CASE s.result = Unset
  <2>1. PICK h \in Nat :
           /\ GoodUpTo(h) /\ Gives(s.given, h)
           /\ \/ m - 1 = 2 * h /\ s.pending = Unset
              \/ /\ m - 1 = 2 * h + 1 /\ s.pending = Option(h + 1)
                 /\ s.pending \in Words /\ s.pending # "--help"
    BY <1>3, WordFacts DEF AskedSoFar
  <2>2. CASE m - 1 = 2 * h /\ s.pending = Unset
    <3>1. m = 2 * h + 1 /\ m + 1 = 2 * (h + 1) /\ h + 1 \in Nat \ {0} /\ (h + 1) - 1 = h
          /\ 2 * (h + 1) - 1 <= m
      BY <2>2
    <3>2. x = Option(h + 1)
      BY <3>1 DEF Option
    <3>3. CASE x = "--help"
      <4>1. r.result = "help"
        BY <1>3, <2>2, <3>3 DEF Asks
      <4> QED
        BY <2>1, <3>1, <3>2, <3>3, <4>1 DEF AskedSoFar
    <3>4. CASE x # "--help"
      <4>1. r.result = Unset /\ r.pending = x /\ r.given = s.given
        BY <1>3, <2>2, <3>4 DEF Asks
      <4> QED
        BY <2>1, <3>1, <3>2, <3>4, <4>1 DEF AskedSoFar
    <3> QED
      BY <3>3, <3>4
  <2>3. CASE m - 1 = 2 * h + 1 /\ s.pending = Option(h + 1) /\ s.pending \in Words /\ s.pending # "--help"
    <3>1. m = 2 * (h + 1) /\ m + 1 = 2 * (h + 1) + 1 /\ h + 1 \in Nat \ {0} /\ (h + 1) - 1 = h
      BY <2>3
    <3>2. PICK p, g : p = s.pending /\ g = s.given
      OBVIOUS
    <3>3. x = Value(h + 1) /\ p = Option(h + 1) /\ p # Unset
      BY <2>3, <3>1, <3>2, WordFacts DEF Value
    <3>4. GoodUpTo(h + 1) <=> p \in Options /\ g[p] = Unset /\ Parses(p, x)
      <4>1. p \in Options => (g[p] = Unset <=> \A k \in 1..h : Option(k) # p)
        BY <2>1, <3>2 DEF Gives
      <4>2. GoodUpTo(h + 1) <=> p \in Options /\ Parses(p, x) /\ \A j \in 1..h : Option(j) # p
        BY <2>1, <3>3, GoodNext
      <4> QED
        BY <4>1, <4>2
    <3>5. CASE GoodUpTo(h + 1)
      <4>1. r.result = Unset /\ r.pending = Unset /\ r.given = [g EXCEPT ![p] = x]
        BY <1>3, <3>2, <3>3, <3>4, <3>5 DEF Asks
      <4>2. PICK f : f = r.given
        OBVIOUS
      <4>3. g \in [Options -> Words \cup {Unset}]
        BY <3>2 DEF Asked
      <4>4. p \in Options /\ f[p] = x /\ \A o \in Options : o # p => f[o] = g[o]
        BY <3>4, <3>5, <4>1, <4>2, <4>3
      <4>5. Gives(f, h + 1)
        <5>1. ASSUME NEW o \in Options
              PROVE  /\ f[o] = Unset <=> \A k \in 1..(h + 1) : Option(k) # o
                     /\ \A k \in 1..(h + 1) : Option(k) = o => f[o] = Value(k)
          <6>1. \A k \in 1..(h + 1) : k = h + 1 \/ k \in 1..h
            OBVIOUS
          <6>2. \A k \in 1..h : k \in 1..(h + 1)
            OBVIOUS
          <6>3. h + 1 \in 1..(h + 1)
            OBVIOUS
          <6>4. /\ g[o] = Unset <=> \A k \in 1..h : Option(k) # o
                /\ \A k \in 1..h : Option(k) = o => g[o] = Value(k)
            BY <2>1, <3>2 DEF Gives
          <6>5. CASE o = p
            <7>1. \A k \in 1..h : Option(k) # o
              BY <3>4, <3>5, <6>4, <6>5
            <7>2. f[o] = Value(h + 1) /\ Option(h + 1) = o /\ f[o] # Unset
              BY <3>3, <4>4, <6>5, WordFacts
            <7> QED
              BY <6>1, <6>3, <7>1, <7>2
          <6>6. CASE o # p
            <7>1. f[o] = g[o] /\ Option(h + 1) # o
              BY <3>3, <4>4, <6>6
            <7> QED
              BY <6>1, <6>2, <6>4, <7>1
          <6> QED
            BY <6>5, <6>6
        <5> QED
          BY <5>1 DEF Gives
      <4> QED
        BY <3>1, <3>5, <4>1, <4>2, <4>5 DEF AskedSoFar
    <3>6. CASE ~GoodUpTo(h + 1)
      <4>1. r.result = "error"
        BY <1>3, <3>2, <3>3, <3>4, <3>6 DEF Asks
      <4>2. 2 * (h + 1) <= m
        BY <3>1
      <4> QED
        BY <2>1, <2>3, <3>1, <3>2, <3>3, <3>6, <4>1, <4>2 DEF AskedSoFar
    <3> QED
      BY <3>5, <3>6
  <2> QED
    BY <2>1, <2>2, <2>3
<1>4. s.result \in {Unset, "help", "error"}
  BY DEF Asked, Results
<1> QED
  BY <1>1, <1>2, <1>3, <1>4

(* After the last word of a generate-key command *)
LEMMA AskedAll ==
    ASSUME args \in Seq(Words), args # <<>>, Head(args) = "generate-key"
    PROVE  \E s \in Asked :
              /\ AskedSoFar(s, Len(args) - 1)
              /\ Parse = IF s.result = "help" THEN Help
                         ELSE IF \/ s.result = "error" \/ s.pending # Unset
                                 \/ \E option \in Required : s.given[option] = Unset
                         THEN Rejected
                         ELSE [command |-> "generate-key", given |-> s.given]
<1>1. PICK a, w, n : a = args /\ w = Tail(a) /\ n = Len(w)
  OBVIOUS
<1>2. /\ Len(a) \in Nat \ {0} /\ w \in Seq(Words) /\ n = Len(a) - 1 /\ n \in Nat
      /\ \A i \in 1..n : w[i] = a[i + 1] /\ w[i] \in Words
  <2>1. a \in Seq(Words) /\ a # <<>>
    BY <1>1
  <2>2. Len(a) \in Nat \ {0}
    BY <2>1, EmptySeq, LenProperties
  <2>3. /\ w \in Seq(Words) /\ Len(w) = Len(a) - 1
        /\ \A i \in 1..Len(w) : w[i] = a[i + 1]
    BY <1>1, <2>1, HeadTailProperties
  <2>4. \A i \in 1..n : w[i] \in Words
    BY <1>1, <2>3, ElementOfSeq
  <2> QED
    BY <1>1, <2>2, <2>3, <2>4
<1>3. PICK t : IsAskTrace(t, w)
  BY <1>2, AskTrace
<1>4. /\ t \in [0..n -> Asked] /\ t[0] = NothingAsked
      /\ \A k \in 1..n : t[k] = GenerateWord(t[k - 1], w[k])
      /\ FoldLeft(GenerateWord, NothingAsked, w) = t[n]
  BY <1>1, <1>3 DEF IsAskTrace
<1> DEFINE T == {k \in 0..n : AskedSoFar(t[k], k)}
<1>5. 0 \in T
  <2>1. GoodUpTo(0)
    BY DEF GoodUpTo
  <2>2. Gives(NothingAsked.given, 0)
    BY DEF Gives, NothingAsked
  <2>3. NothingAsked.result = Unset /\ NothingAsked.pending = Unset
    BY DEF NothingAsked
  <2>4. 0 = 2 * 0 /\ 0 \in Nat
    OBVIOUS
  <2>5. AskedSoFar(NothingAsked, 0)
    BY <2>1, <2>2, <2>3, <2>4 DEF AskedSoFar
  <2> QED
    BY <1>2, <1>4, <2>5
<1>6. ASSUME NEW k \in 1..n, k - 1 \in T PROVE k \in T
  <2>1. PICK s, x, r : s = t[k - 1] /\ x = w[k] /\ r = t[k]
    OBVIOUS
  <2>2. k \in Nat \ {0} /\ k - 1 \in 0..n /\ k \in 0..n
    BY <1>2
  <2>3. s \in Asked /\ x \in Words /\ x = args[k + 1] /\ r = GenerateWord(s, x)
    BY <1>1, <1>2, <1>4, <2>1, <2>2
  <2>4. AskedSoFar(s, k - 1)
    BY <1>6, <2>1
  <2>5. Asks(r, s, x)
    BY <2>3, AskStep
  <2>6. AskedSoFar(r, k)
    BY <2>2, <2>3, <2>4, <2>5, AskedNext
  <2> QED
    BY <2>1, <2>2, <2>6
<1> HIDE DEF T
<1>7. 0..n \subseteq T
  BY <1>2, <1>5, <1>6, UpTo
<1>8. n \in 0..n
  BY <1>2
<1>9. AskedSoFar(t[n], Len(args) - 1) /\ t[n] \in Asked
  BY <1>1, <1>2, <1>4, <1>7, <1>8 DEF T
<1>10. Parse = ParseGenerate(w)
  BY <1>1 DEF Parse
<1>11. t[n] = FoldLeft(GenerateWord, [result |-> Unset, pending |-> Unset,
                                      given |-> [option \in Options |-> Unset]], w)
  BY <1>4 DEF NothingAsked
<1>12. ParseGenerate(w) =
          IF t[n].result = "help" THEN Help
          ELSE IF \/ t[n].result = "error" \/ t[n].pending # Unset
                  \/ \E option \in Required : t[n].given[option] = Unset
          THEN Rejected
          ELSE [command |-> "generate-key", given |-> t[n].given]
  BY <1>11, Zenon DEF ParseGenerate
<1> QED
  BY <1>9, <1>10, <1>12

(* The pairs of a command line with n words after the first *)
LEMMA PairsAre ==
    ASSUME NEW n \in Nat, NEW h \in Nat, n = 2 * h \/ n = 2 * h + 1, Len(args) = n + 1
    PROVE  /\ Pairs = 1..h /\ Cardinality(Pairs) = h
           /\ (Len(args) % 2 = 1) <=> n = 2 * h
           /\ 1..(Len(args) \div 2) = {k \in Nat \ {0} : 2 * k - 1 <= n}
<1>1. PICK d, e : d = Len(args) \div 2 /\ e = Len(args) % 2
  OBVIOUS
<1>2. d \in Nat /\ e \in {0, 1} /\ n + 1 = 2 * d + e
  BY <1>1
<1>3. \A k \in Nat \ {0} : k <= d <=> 2 * k - 1 <= n
  BY <1>2
<1>4. 1..d = {k \in Nat \ {0} : 2 * k - 1 <= n}
  BY <1>2, <1>3
<1>5. e = 1 <=> n = 2 * h
  BY <1>2
<1>6. Pairs = 1..h
  <2>1. \A k \in Nat \ {0} : k <= d /\ 2 * k + 1 <= n + 1 <=> k <= h
    BY <1>2
  <2>2. Pairs = {k \in 1..d : 2 * k + 1 <= n + 1}
    BY <1>1 DEF Pairs
  <2> QED
    BY <1>2, <2>1, <2>2
<1>7. Cardinality(1..h) = h
  <2>1. Cardinality(1..h) = IF 1 > h THEN 0 ELSE h - 1 + 1
    BY FS_Interval
  <2> QED
    BY <2>1
<1> QED
  BY <1>1, <1>4, <1>5, <1>6, <1>7

(* The command of a result is one of four, and decides which it is *)
LEMMA Commands ==
    /\ Help.command = "help" /\ Rejected.command = "error"
    /\ \A g : [command |-> "generate-key", given |-> g].command = "generate-key"
    /\ \A g : [command |-> "generate-key", given |-> g].given = g
  BY DEF Help, Rejected

(* parse_generate_args takes pairs, whatever their number *)
LEMMA GenerateTakesPairs ==
    ASSUME args \in Seq(Words)
    PROVE  GenerateKeepsItsPairs
<1> SUFFICES ASSUME args # <<>>, Head(args) = "generate-key"
             PROVE  /\ Parse = Help <=> HelpAsked
                    /\ Parse.command = "generate-key" <=>
                          /\ Len(args) % 2 = 1 /\ GoodUpTo(Cardinality(Pairs))
                          /\ \A option \in Required : \E k \in Pairs : Option(k) = option
                    /\ Parse.command = "generate-key" =>
                          \A option \in Options :
                              {Parse.given[option]} \ {Unset}
                                = {Value(k) : k \in {j \in Pairs : Option(j) = option}}
  BY DEF GenerateKeepsItsPairs
<1>1. PICK n : n = Len(args) - 1
  OBVIOUS
<1>2. n \in Nat /\ Len(args) = n + 1
  <2>1. Len(args) \in Nat \ {0}
    BY EmptySeq, LenProperties
  <2> QED
    BY <1>1, <2>1
<1>3. PICK s \in Asked :
         /\ AskedSoFar(s, n)
         /\ Parse = IF s.result = "help" THEN Help
                    ELSE IF \/ s.result = "error" \/ s.pending # Unset
                            \/ \E option \in Required : s.given[option] = Unset
                    THEN Rejected
                    ELSE [command |-> "generate-key", given |-> s.given]
  BY <1>1, AskedAll
<1>4. PICK h \in Nat : n = 2 * h \/ n = 2 * h + 1
  <2>1. n \div 2 \in Nat /\ (n = 2 * (n \div 2) \/ n = 2 * (n \div 2) + 1)
    BY <1>2
  <2> QED
    BY <2>1
<1>5. /\ Pairs = 1..h /\ Cardinality(Pairs) = h
      /\ (Len(args) % 2 = 1) <=> n = 2 * h
      /\ 1..(Len(args) \div 2) = {k \in Nat \ {0} : 2 * k - 1 <= n}
  BY <1>2, <1>4, PairsAre
<1>6. HelpAsked <=> \E k \in Nat \ {0} : 2 * k - 1 <= n /\ Option(k) = "--help" /\ GoodUpTo(k - 1)
  BY <1>5 DEF HelpAsked
<1>7. Required \subseteq Options /\ Required # {}
  BY DEF Required, Options
<1>8. \A k \in Nat \ {0}, m \in Nat : k <= m /\ GoodUpTo(m) => Option(k) \in Options
  BY DEF GoodUpTo
<1>9. CASE s.result = "help"
  <2>1. Parse = Help /\ Parse.command = "help"
    BY <1>3, <1>9, Commands
  <2>2. PICK k \in Nat \ {0} : 2 * k - 1 <= n /\ Option(k) = "--help" /\ GoodUpTo(k - 1)
    BY <1>3, <1>9, WordFacts DEF AskedSoFar
  <2>3. n = 2 * h => ~GoodUpTo(h)
    <3>1. SUFFICES ASSUME n = 2 * h, GoodUpTo(h) PROVE FALSE
      OBVIOUS
    <3>2. k <= h
      BY <1>4, <2>2, <3>1
    <3> QED
      BY <1>8, <2>2, <3>1, <3>2, WordFacts
  <2> QED
    BY <1>5, <1>6, <2>1, <2>2, <2>3
<1>10. CASE s.result = "error"
  <2>1. Parse = Rejected /\ Parse.command = "error" /\ Parse # Help
    BY <1>3, <1>10, Commands
  <2>2. PICK k \in Nat \ {0} : /\ 2 * k <= n /\ Option(k) # "--help"
                               /\ GoodUpTo(k - 1) /\ ~GoodUpTo(k)
    BY <1>3, <1>10, WordFacts DEF AskedSoFar
  <2>3. ~GoodUpTo(h)
    <3>1. k <= h /\ k \in Nat
      BY <1>4, <2>2
    <3> QED
      BY <2>2, <3>1, GoodLess
  <2>4. ~HelpAsked
    <3>1. SUFFICES ASSUME NEW i \in Nat \ {0}, Option(i) = "--help", GoodUpTo(i - 1) PROVE FALSE
      BY <1>6
    <3>2. CASE i < k
      <4>1. i <= k - 1 /\ k - 1 \in Nat
        BY <3>2
      <4> QED
        BY <1>8, <2>2, <3>1, <4>1, WordFacts
    <3>3. CASE i = k
      BY <2>2, <3>1, <3>3
    <3>4. CASE i > k
      <4>1. k <= i - 1 /\ i - 1 \in Nat /\ k \in Nat
        BY <3>4
      <4> QED
        BY <2>2, <3>1, <4>1, GoodLess
    <3> QED
      BY <3>2, <3>3, <3>4
  <2> QED
    BY <1>5, <2>1, <2>3, <2>4
<1>11. CASE s.result = Unset
  <2>1. PICK i \in Nat :
           /\ GoodUpTo(i) /\ Gives(s.given, i)
           /\ \/ n = 2 * i /\ s.pending = Unset
              \/ /\ n = 2 * i + 1 /\ s.pending = Option(i + 1)
                 /\ s.pending \in Words /\ s.pending # "--help"
    BY <1>3, <1>11, WordFacts DEF AskedSoFar
  <2>2. i = h
    BY <1>4, <2>1
  <2>3. GoodUpTo(h) /\ Gives(s.given, h)
    BY <2>1, <2>2
  <2>4. n = 2 * h <=> s.pending = Unset
    BY <2>1, <2>2, WordFacts
  <2>5. ~HelpAsked
    <3>1. SUFFICES ASSUME NEW k \in Nat \ {0}, 2 * k - 1 <= n, Option(k) = "--help" PROVE FALSE
      BY <1>6
    <3>2. CASE k <= h
      BY <1>8, <2>3, <3>1, <3>2, WordFacts
    <3>3. CASE k > h
      <4>1. k = h + 1 /\ n = 2 * h + 1
        BY <1>4, <3>1, <3>3
      <4> QED
        BY <2>1, <2>2, <3>1, <4>1
    <3> QED
      BY <3>2, <3>3
  <2>6. (\E option \in Required : s.given[option] = Unset)
           <=> ~(\A option \in Required : \E k \in 1..h : Option(k) = option)
    BY <1>7, <2>3 DEF Gives
  <2>7. CASE s.pending = Unset /\ \A option \in Required : \E k \in 1..h : Option(k) = option
    <3>1. Parse = [command |-> "generate-key", given |-> s.given]
      BY <1>3, <1>11, <2>6, <2>7, WordFacts
    <3>2. Parse.command = "generate-key" /\ Parse.given = s.given /\ Parse # Help
      BY <3>1, Commands
    <3>3. ASSUME NEW option \in Options
          PROVE  {s.given[option]} \ {Unset} = {Value(k) : k \in {j \in 1..h : Option(j) = option}}
      <4>1. PICK v : v = s.given[option]
        OBVIOUS
      <4>2. /\ v = Unset <=> \A k \in 1..h : Option(k) # option
            /\ \A k \in 1..h : Option(k) = option => v = Value(k)
        BY <2>3, <4>1 DEF Gives
      <4>3. CASE v = Unset
        <5>1. {j \in 1..h : Option(j) = option} = {}
          BY <4>2, <4>3
        <5> QED
          BY <4>1, <4>3, <5>1
      <4>4. CASE v # Unset
        <5>1. PICK k \in 1..h : Option(k) = option
          BY <4>2, <4>4
        <5>2. k \in {j \in 1..h : Option(j) = option} /\ Value(k) = v
          BY <4>2, <5>1
        <5>3. \A j \in {j \in 1..h : Option(j) = option} : Value(j) = v
          BY <4>2
        <5>4. {Value(j) : j \in {j \in 1..h : Option(j) = option}} = {v}
          BY <5>2, <5>3
        <5>5. {v} \ {Unset} = {v}
          BY <4>4
        <5> QED
          BY <4>1, <5>4, <5>5
      <4> QED
        BY <4>3, <4>4
    <3>4. n = 2 * h
      BY <2>4, <2>7
    <3> QED
      BY <1>5, <2>3, <2>5, <2>7, <3>2, <3>3, <3>4
  <2>8. CASE ~(s.pending = Unset /\ \A option \in Required : \E k \in 1..h : Option(k) = option)
    <3>1. Parse = Rejected
      BY <1>3, <1>11, <2>6, <2>8, WordFacts
    <3>2. Parse.command = "error" /\ Parse # Help
      BY <3>1, Commands
    <3>3. ~(n = 2 * h /\ \A option \in Required : \E k \in 1..h : Option(k) = option)
      BY <2>4, <2>8
    <3> QED
      BY <1>5, <2>5, <3>2, <3>3
  <2> QED
    BY <2>7, <2>8
<1>12. s.result \in {Unset, "help", "error"}
  BY DEF Asked, Results
<1> QED
  BY <1>9, <1>10, <1>11, <1>12

(* The states of parse_args *)
Served == [done : BOOLEAN, pending : BOOLEAN, config : Words \cup {Unset}, check : BOOLEAN]
NothingServed == [done |-> FALSE, pending |-> FALSE, config |-> Unset, check |-> FALSE]

IsServeTrace(t, w) ==
    /\ t \in [0..Len(w) -> Served]
    /\ t[0] = NothingServed
    /\ \A k \in 1..Len(w) : t[k] = ServeWord(t[k - 1], w[k])
    /\ FoldLeft(ServeWord, NothingServed, w) = t[Len(w)]

(* The four parts of a state *)
IsServed(s, done, pending, config, check) ==
    /\ s.done = done /\ s.pending = pending /\ s.config = config /\ s.check = check

(* What a word does *)
Serves(r, s, x) ==
    /\ r \in Served
    /\ s.done => r = s
    /\ ~s.done /\ s.pending => IsServed(r, FALSE, FALSE, x, s.check)
    /\ ~s.done /\ ~s.pending /\ x = Flag /\ ~s.check => IsServed(r, FALSE, FALSE, s.config, TRUE)
    /\ ~s.done /\ ~s.pending /\ x = "--config" /\ s.config = Unset =>
          IsServed(r, FALSE, TRUE, Unset, s.check)
    /\ ~s.done /\ ~s.pending /\ ~(x = Flag /\ ~s.check) /\ ~(x = "--config" /\ s.config = Unset) =>
          r.done = TRUE

(* Case by case, as in the loop of parse_args *)
LEMMA ServeStep ==
    ASSUME NEW s \in Served, NEW x \in Words
    PROVE  Serves(ServeWord(s, x), s, x)
<1>1. PICK r : r = ServeWord(s, x)
  OBVIOUS
<1>2. /\ s.done \in BOOLEAN /\ s.pending \in BOOLEAN /\ s.check \in BOOLEAN
      /\ s.config \in Words \cup {Unset}
      /\ s = [done |-> s.done, pending |-> s.pending, config |-> s.config, check |-> s.check]
  BY DEF Served
<1>3. Flag # "--config"
  BY DEF Flag
<1>4. CASE s.done
  <2>1. r = s
    BY <1>1, <1>4 DEF ServeWord
  <2>2. Serves(r, s, x)
    BY <1>4, <2>1 DEF Serves
  <2> QED
    BY <1>1, <2>2
<1>5. CASE ~s.done /\ s.pending
  <2>1. r = [s EXCEPT !.config = x, !.pending = FALSE]
    BY <1>1, <1>5 DEF ServeWord
  <2>2. r = [done |-> s.done, pending |-> FALSE, config |-> x, check |-> s.check]
    BY <1>2, <2>1
  <2>3. r \in Served
    BY <1>2, <2>2 DEF Served
  <2>4. IsServed(r, FALSE, FALSE, x, s.check)
    BY <1>2, <1>5, <2>2 DEF IsServed
  <2>5. Serves(r, s, x)
    BY <1>5, <2>3, <2>4 DEF Serves
  <2> QED
    BY <1>1, <2>5
<1>6. CASE ~s.done /\ ~s.pending /\ x = Flag /\ ~s.check
  <2>1. r = [s EXCEPT !.check = TRUE]
    BY <1>1, <1>6 DEF ServeWord
  <2>2. r = [done |-> s.done, pending |-> s.pending, config |-> s.config, check |-> TRUE]
    BY <1>2, <2>1
  <2>3. r \in Served
    BY <1>2, <2>2 DEF Served
  <2>4. IsServed(r, FALSE, FALSE, s.config, TRUE)
    BY <1>2, <1>6, <2>2 DEF IsServed
  <2>5. Serves(r, s, x)
    BY <1>3, <1>6, <2>3, <2>4 DEF Serves
  <2> QED
    BY <1>1, <2>5
<1>7. CASE ~s.done /\ ~s.pending /\ x = "--config" /\ s.config = Unset
  <2>1. r = [s EXCEPT !.pending = TRUE]
    BY <1>1, <1>3, <1>7 DEF ServeWord
  <2>2. r = [done |-> s.done, pending |-> TRUE, config |-> s.config, check |-> s.check]
    BY <1>2, <2>1
  <2>3. r \in Served
    BY <1>2, <2>2 DEF Served
  <2>4. IsServed(r, FALSE, TRUE, Unset, s.check)
    BY <1>2, <1>7, <2>2 DEF IsServed
  <2>5. Serves(r, s, x)
    BY <1>3, <1>7, <2>3, <2>4 DEF Serves
  <2> QED
    BY <1>1, <2>5
<1>8. CASE ~s.done /\ ~s.pending /\ ~(x = Flag /\ ~s.check) /\ ~(x = "--config" /\ s.config = Unset)
  <2>1. r = [s EXCEPT !.done = TRUE]
    BY <1>1, <1>8 DEF ServeWord
  <2>2. r = [done |-> TRUE, pending |-> s.pending, config |-> s.config, check |-> s.check]
    BY <1>2, <2>1
  <2>3. r \in Served /\ r.done = TRUE
    BY <1>2, <2>2 DEF Served
  <2>4. Serves(r, s, x)
    BY <1>8, <2>3 DEF Serves
  <2> QED
    BY <1>1, <2>4
<1> QED
  BY <1>4, <1>5, <1>6, <1>7, <1>8

(* The state keeps its type. *)
LEMMA ServeTypes ==
    NothingServed \in Served /\ \A s \in Served, x \in Words : ServeWord(s, x) \in Served
<1>1. NothingServed \in Served
  BY DEF NothingServed, Served
<1> QED
  BY <1>1, ServeStep DEF Serves

(* The states of parse_args, word after word. *)
LEMMA ServeTrace ==
    ASSUME NEW w \in Seq(Words)
    PROVE  \E t : IsServeTrace(t, w)
<1> DEFINE n == Len(w)
           G == [k \in 1..n |-> [s \in Served |-> ServeWord(s, w[k])]]
           R(f) == f = [s \in SUBSET (1..n) |->
                          IF s = {} THEN NothingServed ELSE ServeWord(f[s \ {Max(s)}], w[Max(s)])]
           iter == CHOOSE f : R(f)
<1>1. n \in Nat /\ DOMAIN w = 1..n /\ \A k \in 1..n : w[k] \in Words
  BY LenProperties, ElementOfSeq
<1>2. NothingServed \in Served /\ \A s \in Served, x \in Words : ServeWord(s, x) \in Served
  BY ServeTypes
<1>3. G \in [1..n -> [Served -> Served]]
  BY <1>1, <1>2
<1>4. \A k \in 1..n, s \in Served : G[k][s] = ServeWord(s, w[k])
  OBVIOUS
<1>5. FoldLeft(ServeWord, NothingServed, w) = iter[1..n]
  BY <1>1, Zenon DEF FoldLeft, MapThenFoldSet
<1> HIDE DEF n, G
<1>6. PICK f : IsTable(f, NothingServed, G, n, Served)
  BY <1>1, <1>2, <1>3, TableExists
<1>7. R(f)
  <2>1. f \in [SUBSET (1..n) -> Served]
    BY <1>6 DEF IsTable
  <2>2. ASSUME NEW s \in SUBSET (1..n)
        PROVE  f[s] = IF s = {} THEN NothingServed ELSE ServeWord(f[s \ {Max(s)}], w[Max(s)])
    <3>1. f[s] = IF s = {} THEN NothingServed ELSE G[Max(s)][f[s \ {Max(s)}]]
      BY <1>6 DEF IsTable
    <3>2. CASE s = {}
      BY <3>1, <3>2
    <3>3. CASE s # {}
      <4>1. Max(s) \in s
        <5>1. s \in SUBSET (0..n)
          BY <1>1
        <5> QED
          BY <1>1, <3>3, <5>1, MaxIsGreatest
      <4>2. Max(s) \in 1..n /\ f[s \ {Max(s)}] \in Served
        BY <2>1, <4>1
      <4> QED
        BY <1>4, <3>1, <3>3, <4>2
    <3> QED
      BY <3>2, <3>3
  <2> QED
    BY <2>1, <2>2
<1>8. R(iter)
  BY <1>7, Zenon
<1> HIDE DEF iter
<1> DEFINE t == [k \in 0..n |-> iter[1..k]]
           T == {k \in 0..n : iter[1..k] \in Served}
<1>9. iter[1..0] = NothingServed
  <2>1. 1..0 = {} /\ {} \in SUBSET (1..n)
    OBVIOUS
  <2> QED
    BY <1>8, <2>1
<1>10. ASSUME NEW k \in 1..n PROVE iter[1..k] = ServeWord(iter[1..(k - 1)], w[k])
  <2>1. k \in Nat \ {0} /\ 1..k \in SUBSET (1..n) /\ 1..k # {}
    BY <1>1
  <2>2. Max(1..k) = k /\ (1..k) \ {Max(1..k)} = 1..(k - 1)
    BY <2>1, MaxOfInterval
  <2>3. iter[1..k] = ServeWord(iter[(1..k) \ {Max(1..k)}], w[Max(1..k)])
    BY <1>8, <2>1
  <2> QED
    BY <2>2, <2>3
<1>11. 0 \in T
  BY <1>1, <1>2, <1>9
<1>12. ASSUME NEW k \in 1..n, k - 1 \in T PROVE k \in T
  BY <1>1, <1>2, <1>10, <1>12
<1>13. 0..n \subseteq T
  <2> HIDE DEF T
  <2> QED
    BY <1>1, <1>11, <1>12, UpTo
<1>14. t \in [0..n -> Served]
  BY <1>13
<1>15. t[0] = NothingServed
  BY <1>1, <1>9
<1>16. \A k \in 1..n : t[k] = ServeWord(t[k - 1], w[k])
  <2> SUFFICES ASSUME NEW k \in 1..n PROVE t[k] = ServeWord(t[k - 1], w[k])
    OBVIOUS
  <2>1. k \in 0..n /\ k - 1 \in 0..n
    BY <1>1
  <2> QED
    BY <1>10, <2>1
<1>17. FoldLeft(ServeWord, NothingServed, w) = t[n]
  BY <1>1, <1>5
<1> HIDE DEF t
<1> QED
  BY <1>14, <1>15, <1>16, <1>17 DEF IsServeTrace, n

(* Nothing wrong in the first m words w, and the state they lead to         *)
ServedWell(s, w, m) ==
    \/ m = 0 /\ IsServed(s, FALSE, FALSE, Unset, FALSE)
    \/ m = 1 /\ w[1] = Flag /\ IsServed(s, FALSE, FALSE, Unset, TRUE)
    \/ m = 1 /\ w[1] = "--config" /\ IsServed(s, FALSE, TRUE, Unset, FALSE)
    \/ m = 2 /\ w[1] = Flag /\ w[2] = "--config" /\ IsServed(s, FALSE, TRUE, Unset, TRUE)
    \/ m = 2 /\ w[1] = "--config" /\ IsServed(s, FALSE, FALSE, w[2], FALSE)
    \/ m = 3 /\ w[1] = Flag /\ w[2] = "--config" /\ IsServed(s, FALSE, FALSE, w[3], TRUE)
    \/ m = 3 /\ w[1] = "--config" /\ w[3] = Flag /\ IsServed(s, FALSE, FALSE, w[2], TRUE)

(* The first m words can be the beginning of a form *)
Begins(w, m) ==
    \/ m = 0
    \/ m = 1 /\ (w[1] = Flag \/ w[1] = "--config")
    \/ m = 2 /\ ((w[1] = Flag /\ w[2] = "--config") \/ w[1] = "--config")
    \/ m = 3 /\ ((w[1] = Flag /\ w[2] = "--config") \/ (w[1] = "--config" /\ w[3] = Flag))

ServedSoFar(s, w, m) == ServedWell(s, w, m) \/ (s.done = TRUE /\ ~Begins(w, m))

(* A word continues a form or ends the loop with an error *)
LEMMA ServedNext ==
    ASSUME NEW w, NEW s \in Served, NEW m \in Nat \ {0}, NEW x \in Words, x = w[m],
           m > 2 => w[2] # Unset, m > 3 => w[3] # Unset, ServedSoFar(s, w, m - 1), NEW r, Serves(r, s, x)
    PROVE  ServedSoFar(r, w, m)
<1>1. Flag # "--config" /\ x # Unset
  BY WordFacts DEF Flag
<1>2. CASE s.done = TRUE /\ ~Begins(w, m - 1)
  <2>1. r.done = TRUE
    BY <1>2 DEF Serves
  <2>2. ~Begins(w, m)
    BY <1>2 DEF Begins
  <2> QED
    BY <2>1, <2>2 DEF ServedSoFar
<1>3. CASE m = 1 /\ IsServed(s, FALSE, FALSE, Unset, FALSE)
  <2>1. ~s.done /\ ~s.pending /\ ~s.check /\ s.config = Unset
    BY <1>3 DEF IsServed
  <2>2. CASE x = Flag
    <3>1. IsServed(r, FALSE, FALSE, Unset, TRUE)
      BY <2>1, <2>2 DEF Serves
    <3> QED
      BY <1>3, <2>2, <3>1 DEF ServedSoFar, ServedWell, IsServed
  <2>3. CASE x = "--config"
    <3>1. IsServed(r, FALSE, TRUE, Unset, s.check) /\ s.check = FALSE
      BY <1>3, <2>1, <2>3 DEF Serves, IsServed
    <3>2. IsServed(r, FALSE, TRUE, Unset, FALSE)
      BY <3>1
    <3> QED
      BY <1>3, <2>3, <3>2 DEF ServedSoFar, ServedWell, IsServed
  <2>4. CASE x # Flag /\ x # "--config"
    <3>1. r.done = TRUE
      BY <2>1, <2>4 DEF Serves
    <3>2. ~Begins(w, m)
      BY <1>3, <2>4 DEF Begins
    <3> QED
      BY <3>1, <3>2 DEF ServedSoFar
  <2> QED
    BY <2>2, <2>3, <2>4
<1>4. CASE m = 2 /\ w[1] = Flag /\ IsServed(s, FALSE, FALSE, Unset, TRUE)
  <2>1. ~s.done /\ ~s.pending /\ s.check /\ s.config = Unset /\ s.check = TRUE
    BY <1>4 DEF IsServed
  <2>2. CASE x = "--config"
    <3>1. IsServed(r, FALSE, TRUE, Unset, s.check)
      BY <2>1, <2>2 DEF Serves
    <3>2. IsServed(r, FALSE, TRUE, Unset, TRUE)
      BY <2>1, <3>1
    <3> QED
      BY <1>4, <2>2, <3>2 DEF ServedSoFar, ServedWell, IsServed
  <2>3. CASE x # "--config"
    <3>1. r.done = TRUE
      BY <2>1, <2>3 DEF Serves
    <3>2. ~Begins(w, m)
      BY <1>1, <1>4, <2>3 DEF Begins
    <3> QED
      BY <3>1, <3>2 DEF ServedSoFar
  <2> QED
    BY <2>2, <2>3
<1>5. CASE m = 2 /\ w[1] = "--config" /\ IsServed(s, FALSE, TRUE, Unset, FALSE)
  <2>1. ~s.done /\ s.pending /\ s.check = FALSE
    BY <1>5 DEF IsServed
  <2>2. IsServed(r, FALSE, FALSE, x, FALSE)
    BY <2>1 DEF Serves
  <2> QED
    BY <1>5, <2>2 DEF ServedSoFar, ServedWell, IsServed
<1>6. CASE m = 3 /\ w[1] = Flag /\ w[2] = "--config" /\ IsServed(s, FALSE, TRUE, Unset, TRUE)
  <2>1. ~s.done /\ s.pending /\ s.check = TRUE
    BY <1>6 DEF IsServed
  <2>2. IsServed(r, FALSE, FALSE, x, s.check)
    BY <2>1 DEF Serves
  <2>3. IsServed(r, FALSE, FALSE, x, TRUE)
    BY <2>1, <2>2
  <2> QED
    BY <1>6, <2>3 DEF ServedSoFar, ServedWell, IsServed
<1>7. CASE m = 3 /\ w[1] = "--config" /\ IsServed(s, FALSE, FALSE, w[2], FALSE)
  <2>1. ~s.done /\ ~s.pending /\ ~s.check /\ s.config = w[2] /\ w[2] # Unset
    BY <1>7 DEF IsServed
  <2>2. CASE x = Flag
    <3>1. IsServed(r, FALSE, FALSE, w[2], TRUE)
      BY <2>1, <2>2 DEF Serves
    <3> QED
      BY <1>7, <2>2, <3>1 DEF ServedSoFar, ServedWell, IsServed
  <2>3. CASE x # Flag
    <3>1. r.done = TRUE
      BY <2>1, <2>3 DEF Serves
    <3>2. ~Begins(w, m)
      BY <1>1, <1>7, <2>3 DEF Begins
    <3> QED
      BY <3>1, <3>2 DEF ServedSoFar
  <2> QED
    BY <2>2, <2>3
<1>8. CASE m = 4 /\ IsServed(s, FALSE, FALSE, s.config, TRUE) /\ s.config # Unset
  <2>1. ~s.done /\ ~s.pending /\ s.check
    BY <1>8 DEF IsServed
  <2>2. r.done = TRUE
    BY <1>8, <2>1 DEF Serves
  <2>3. ~Begins(w, m)
    BY <1>8 DEF Begins
  <2> QED
    BY <2>2, <2>3 DEF ServedSoFar
<1>9. CASE ServedWell(s, w, m - 1)
  <2>1. CASE m - 1 = 0 /\ IsServed(s, FALSE, FALSE, Unset, FALSE)
    BY <1>3, <2>1
  <2>2. CASE m - 1 = 1 /\ w[1] = Flag /\ IsServed(s, FALSE, FALSE, Unset, TRUE)
    BY <1>4, <2>2
  <2>3. CASE m - 1 = 1 /\ w[1] = "--config" /\ IsServed(s, FALSE, TRUE, Unset, FALSE)
    BY <1>5, <2>3
  <2>4. CASE m - 1 = 2 /\ w[1] = Flag /\ w[2] = "--config" /\ IsServed(s, FALSE, TRUE, Unset, TRUE)
    BY <1>6, <2>4
  <2>5. CASE m - 1 = 2 /\ w[1] = "--config" /\ IsServed(s, FALSE, FALSE, w[2], FALSE)
    BY <1>7, <2>5
  <2>6. CASE m - 1 = 3 /\ w[1] = Flag /\ w[2] = "--config" /\ w[3] # Unset
             /\ IsServed(s, FALSE, FALSE, w[3], TRUE)
    <3>1. s.config = w[3] /\ s.done = FALSE /\ s.pending = FALSE /\ s.check = TRUE
      BY <2>6 DEF IsServed
    <3>2. m = 4 /\ s.config # Unset
      BY <2>6, <3>1
    <3>3. IsServed(s, FALSE, FALSE, s.config, TRUE)
      BY <3>1 DEF IsServed
    <3> QED
      BY <1>8, <3>2, <3>3
  <2>7. CASE m - 1 = 3 /\ w[2] # Unset /\ IsServed(s, FALSE, FALSE, w[2], TRUE)
    <3>1. s.config = w[2] /\ s.done = FALSE /\ s.pending = FALSE /\ s.check = TRUE
      BY <2>7 DEF IsServed
    <3>2. m = 4 /\ s.config # Unset
      BY <2>7, <3>1
    <3>3. IsServed(s, FALSE, FALSE, s.config, TRUE)
      BY <3>1 DEF IsServed
    <3> QED
      BY <1>8, <3>2, <3>3
  <2>8. m - 1 = 3 => w[2] # Unset /\ w[3] # Unset
    OBVIOUS
  <2> QED
    BY <1>9, <2>1, <2>2, <2>3, <2>4, <2>5, <2>6, <2>7, <2>8, Zenon DEF ServedWell
<1> QED
  BY <1>2, <1>9 DEF ServedSoFar


(* The words, the configuration and the flag of a form *)
OfForm(w, config, check) ==
    \/ Len(w) = 0 /\ config = Unset /\ check = FALSE
    \/ Len(w) = 1 /\ w[1] = Flag /\ config = Unset /\ check = TRUE
    \/ Len(w) = 2 /\ w[1] = "--config" /\ config = w[2] /\ check = FALSE
    \/ Len(w) = 3 /\ w[1] = Flag /\ w[2] = "--config" /\ config = w[3] /\ check = TRUE
    \/ Len(w) = 3 /\ w[1] = "--config" /\ w[3] = Flag /\ config = w[2] /\ check = TRUE

(* The forms are those records *)
LEMMA FormsAre ==
    /\ \A f \in ServeForms : /\ OfForm(f.words, f.config, f.check)
                             /\ f = [words |-> f.words, config |-> f.config, check |-> f.check]
    /\ \A w \in Seq(Words) : \A config, check :
          OfForm(w, config, check) => [words |-> w, config |-> config, check |-> check] \in ServeForms
<1>1. ASSUME NEW f \in ServeForms
      PROVE  /\ OfForm(f.words, f.config, f.check)
             /\ f = [words |-> f.words, config |-> f.config, check |-> f.check]
  <2>1. CASE f = [words |-> <<>>, config |-> Unset, check |-> FALSE]
    BY <2>1 DEF OfForm
  <2>2. CASE f = [words |-> <<Flag>>, config |-> Unset, check |-> TRUE]
    BY <2>2 DEF OfForm
  <2>3. ASSUME NEW word \in Words, f = [words |-> <<"--config", word>>, config |-> word, check |-> FALSE]
        PROVE  /\ OfForm(f.words, f.config, f.check)
               /\ f = [words |-> f.words, config |-> f.config, check |-> f.check]
    BY <2>3 DEF OfForm
  <2>4. ASSUME NEW word \in Words, f = [words |-> <<Flag, "--config", word>>, config |-> word, check |-> TRUE]
        PROVE  /\ OfForm(f.words, f.config, f.check)
               /\ f = [words |-> f.words, config |-> f.config, check |-> f.check]
    BY <2>4 DEF OfForm
  <2>5. ASSUME NEW word \in Words, f = [words |-> <<"--config", word, Flag>>, config |-> word, check |-> TRUE]
        PROVE  /\ OfForm(f.words, f.config, f.check)
               /\ f = [words |-> f.words, config |-> f.config, check |-> f.check]
    BY <2>5 DEF OfForm
  <2>6. \/ f = [words |-> <<>>, config |-> Unset, check |-> FALSE]
        \/ f = [words |-> <<Flag>>, config |-> Unset, check |-> TRUE]
        \/ \E word \in Words : \/ f = [words |-> <<"--config", word>>, config |-> word, check |-> FALSE]
                               \/ f = [words |-> <<Flag, "--config", word>>, config |-> word, check |-> TRUE]
                               \/ f = [words |-> <<"--config", word, Flag>>, config |-> word, check |-> TRUE]
    BY Zenon DEF ServeForms
  <2> QED
    BY <2>1, <2>2, <2>3, <2>4, <2>5, <2>6
<1>2. ASSUME NEW w \in Seq(Words), NEW config, NEW check, OfForm(w, config, check)
      PROVE  [words |-> w, config |-> config, check |-> check] \in ServeForms
  <2>0. \A word \in Words :
           /\ [words |-> <<"--config", word>>, config |-> word, check |-> FALSE] \in ServeForms
           /\ [words |-> <<Flag, "--config", word>>, config |-> word, check |-> TRUE] \in ServeForms
           /\ [words |-> <<"--config", word, Flag>>, config |-> word, check |-> TRUE] \in ServeForms
    <3> SUFFICES ASSUME NEW word \in Words, NEW S,
                        S = {[words |-> <<"--config", word>>, config |-> word, check |-> FALSE],
                             [words |-> <<Flag, "--config", word>>, config |-> word, check |-> TRUE],
                             [words |-> <<"--config", word, Flag>>, config |-> word, check |-> TRUE]}
                 PROVE  S \subseteq ServeForms
      BY Zenon
    <3> QED
      BY Zenon DEF ServeForms
  <2>1. CASE Len(w) = 0 /\ config = Unset /\ check = FALSE
    <3>1. w = <<>>
      BY <2>1, EmptySeq
    <3> QED
      BY <2>1, <3>1 DEF ServeForms
  <2>2. CASE Len(w) = 1 /\ w[1] = Flag /\ config = Unset /\ check = TRUE
    <3>1. w = <<Flag>>
      BY <2>2
    <3> QED
      BY <2>2, <3>1 DEF ServeForms
  <2>3. CASE Len(w) = 2 /\ w[1] = "--config" /\ config = w[2] /\ check = FALSE
    <3>1. w = <<"--config", config>> /\ config \in Words
      BY <2>3, ElementOfSeq
    <3> QED
      BY <2>0, <2>3, <3>1
  <2>4. CASE Len(w) = 3 /\ w[1] = Flag /\ w[2] = "--config" /\ config = w[3] /\ check = TRUE
    <3>1. w = <<Flag, "--config", config>> /\ config \in Words
      BY <2>4, ElementOfSeq
    <3> QED
      BY <2>0, <2>4, <3>1
  <2>5. CASE Len(w) = 3 /\ w[1] = "--config" /\ w[3] = Flag /\ config = w[2] /\ check = TRUE
    <3>1. w = <<"--config", config, Flag>> /\ config \in Words
      BY <2>5, ElementOfSeq
    <3> QED
      BY <2>0, <2>5, <3>1
  <2> QED
    BY <1>2, <2>1, <2>2, <2>3, <2>4, <2>5 DEF OfForm
<1> QED
  BY <1>1, <1>2

(* A daemon's command line is a form exactly when parse_args serves, with   *)
(* the configuration and the flag of that form                              *)
LEMMA ServeParsed ==
    ASSUME args \in Seq(Words), args = <<>> \/ Head(args) # "generate-key"
    PROVE  /\ Parse.command = "serve" => OfForm(args, Parse.config, Parse.check)
           /\ \A config, check : OfForm(args, config, check) => Parse.command = "serve"
<1>1. PICK w, n : w = args /\ n = Len(w)
  OBVIOUS
<1>2. n \in Nat /\ w \in Seq(Words) /\ \A i \in 1..n : w[i] \in Words
  BY <1>1, LenProperties, ElementOfSeq
<1>3. PICK t : IsServeTrace(t, w)
  BY <1>2, ServeTrace
<1>4. /\ t \in [0..n -> Served] /\ t[0] = NothingServed
      /\ \A k \in 1..n : t[k] = ServeWord(t[k - 1], w[k])
      /\ FoldLeft(ServeWord, NothingServed, w) = t[n]
  BY <1>1, <1>3 DEF IsServeTrace
<1> DEFINE T == {k \in 0..n : ServedSoFar(t[k], w, k)}
<1>5. 0 \in T
  <2>1. IsServed(NothingServed, FALSE, FALSE, Unset, FALSE)
    BY DEF NothingServed, IsServed
  <2>2. ServedSoFar(NothingServed, w, 0)
    BY <2>1 DEF ServedSoFar, ServedWell, IsServed
  <2> QED
    BY <1>2, <1>4, <2>2
<1>6. ASSUME NEW k \in 1..n, k - 1 \in T PROVE k \in T
  <2>1. PICK s, x, r : s = t[k - 1] /\ x = w[k] /\ r = t[k]
    OBVIOUS
  <2>2. k \in Nat \ {0} /\ k - 1 \in 0..n /\ k \in 0..n
    BY <1>2
  <2>3. s \in Served /\ x \in Words /\ r = ServeWord(s, x)
    BY <1>2, <1>4, <2>1, <2>2
  <2>4. ServedSoFar(s, w, k - 1)
    BY <1>6, <2>1
  <2>5. Serves(r, s, x)
    BY <2>3, ServeStep
  <2>6. (k > 2 => w[2] # Unset) /\ (k > 3 => w[3] # Unset)
    BY <1>2, WordFacts
  <2>7. ServedSoFar(r, w, k)
    BY <2>1, <2>2, <2>3, <2>4, <2>5, <2>6, ServedNext
  <2> QED
    BY <2>1, <2>2, <2>7
<1> HIDE DEF T
<1>7. 0..n \subseteq T
  BY <1>2, <1>5, <1>6, UpTo
<1>8. PICK s : s = t[n]
  OBVIOUS
<1>9. ServedSoFar(s, w, n)
  <2>1. n \in 0..n
    BY <1>2
  <2> QED
    BY <1>7, <1>8, <2>1 DEF T
<1>10. Parse = ParseServe(w)
  BY <1>1 DEF Parse
<1>11. s = FoldLeft(ServeWord, [done |-> FALSE, pending |-> FALSE, config |-> Unset,
                                check |-> FALSE], w)
  BY <1>4, <1>8 DEF NothingServed
<1>12. Parse = IF w = <<"--version">> THEN Version
               ELSE IF w = <<"--help">> THEN Help
               ELSE IF s.done \/ s.pending THEN Rejected
               ELSE [command |-> "serve", config |-> s.config, check |-> s.check]
  BY <1>10, <1>11, Zenon DEF ParseServe
<1>13. /\ Version.command # "serve" /\ Help.command # "serve" /\ Rejected.command # "serve"
       /\ Flag # "--version" /\ Flag # "--help" /\ Flag # "--config"
  BY DEF Version, Help, Rejected, Flag
<1>14. ASSUME Parse.command = "serve" PROVE OfForm(w, Parse.config, Parse.check)
  <2>1. ~s.done /\ ~s.pending
    BY <1>12, <1>13, <1>14
  <2>2. Parse = [command |-> "serve", config |-> s.config, check |-> s.check]
    BY <1>12, <1>13, <1>14
  <2>3. Parse.config = s.config /\ Parse.check = s.check
    BY <2>2
  <2>4. ServedWell(s, w, n)
    BY <1>9, <2>1 DEF ServedSoFar
  <2>5. OfForm(w, s.config, s.check)
    BY <1>1, <2>1, <2>4 DEF ServedWell, IsServed, OfForm
  <2> QED
    BY <2>3, <2>5
<1>15. ASSUME NEW config, NEW check, OfForm(w, config, check) PROVE Parse.command = "serve"
  <2>1. Begins(w, n)
    BY <1>1, <1>15 DEF OfForm, Begins
  <2>2. ServedWell(s, w, n)
    BY <1>9, <2>1 DEF ServedSoFar
  <2>3. ~s.done /\ ~s.pending
    <3>1. s.done = FALSE
      BY <2>2 DEF ServedWell, IsServed
    <3>2. s.pending = FALSE
      BY <1>1, <1>13, <1>15, <2>2 DEF OfForm, ServedWell, IsServed
    <3> QED
      BY <3>1, <3>2
  <2>4. w # <<"--version">> /\ w # <<"--help">>
    BY <1>1, <1>13, <1>15 DEF OfForm
  <2>5. Parse = [command |-> "serve", config |-> s.config, check |-> s.check]
    BY <1>12, <2>3, <2>4
  <2> QED
    BY <2>5
<1> QED
  BY <1>1, <1>14, <1>15

(* parse_args starts a daemon for its forms, and a key generation never is one *)
LEMMA ServesForms ==
    ASSUME args \in Seq(Words)
    PROVE  ServesOnlyItsForms
<1>1. PICK w, p : w = args /\ p = Parse
  OBVIOUS
<1>2. /\ p.command = "serve" => OfForm(w, p.config, p.check)
      /\ \A config, check : OfForm(w, config, check) => p.command = "serve"
  <2>1. CASE args = <<>> \/ Head(args) # "generate-key"
    BY <1>1, <2>1, ServeParsed
  <2>2. CASE args # <<>> /\ Head(args) = "generate-key"
    <3>1. p.command # "serve"
      <4>1. PICK s : Parse = IF s.result = "help" THEN Help
                             ELSE IF \/ s.result = "error" \/ s.pending # Unset
                                     \/ \E option \in Required : s.given[option] = Unset
                             THEN Rejected
                             ELSE [command |-> "generate-key", given |-> s.given]
        BY <2>2, AskedAll
      <4>2. p = Help \/ p = Rejected \/ p = [command |-> "generate-key", given |-> s.given]
        BY <1>1, <4>1
      <4> QED
        BY <4>2, Commands
    <3>2. ASSUME NEW config, NEW check, OfForm(w, config, check) PROVE FALSE
      <4>1. Len(w) \in Nat \ {0} /\ w[1] = "generate-key"
        BY <1>1, <2>2, EmptySeq, LenProperties, HeadTailProperties
      <4> QED
        BY <3>2, <4>1 DEF OfForm, Flag
    <3> QED
      BY <3>1, <3>2
  <2> QED
    BY <2>1, <2>2
<1>3. \A c1, k1, c2, k2 : OfForm(w, c1, k1) /\ OfForm(w, c2, k2) => c1 = c2 /\ k1 = k2
  <2> SUFFICES ASSUME NEW c1, NEW k1, NEW c2, NEW k2, OfForm(w, c1, k1), OfForm(w, c2, k2)
               PROVE  c1 = c2 /\ k1 = k2
    OBVIOUS
  <2>1. Flag # "--config"
    BY DEF Flag
  <2>2. CASE Len(w) = 0
    <3>1. c1 = Unset /\ k1 = FALSE
      BY <2>2 DEF OfForm
    <3>2. c2 = Unset /\ k2 = FALSE
      BY <2>2 DEF OfForm
    <3> QED
      BY <3>1, <3>2, Zenon
  <2>3. CASE Len(w) = 1
    BY <2>3 DEF OfForm
  <2>4. CASE Len(w) = 2
    <3>1. c1 = w[2] /\ k1 = FALSE
      BY <2>4 DEF OfForm
    <3>2. c2 = w[2] /\ k2 = FALSE
      BY <2>4 DEF OfForm
    <3> QED
      BY <3>1, <3>2, Zenon
  <2>5. CASE Len(w) = 3
    <3>1. k1 = TRUE /\ c1 = IF w[1] = Flag THEN w[3] ELSE w[2]
      BY <2>1, <2>5 DEF OfForm
    <3>2. k2 = TRUE /\ c2 = IF w[1] = Flag THEN w[3] ELSE w[2]
      BY <2>1, <2>5 DEF OfForm
    <3> QED
      BY <3>1, <3>2, Zenon
  <2>6. Len(w) \in {0, 1, 2, 3}
    BY DEF OfForm
  <2> QED
    BY <2>2, <2>3, <2>4, <2>5, <2>6
<1> DEFINE F == {f \in ServeForms : f.words = w}
           L == {[words |-> w, config |-> q.config, check |-> q.check] :
                    q \in {r \in {p} : r.command = "serve"}}
<1>4. CASE p.command = "serve"
  <2>1. PICK e : e = [words |-> w, config |-> p.config, check |-> p.check]
    OBVIOUS
  <2>2. L = {e}
    <3>1. {r \in {p} : r.command = "serve"} = {p}
      BY <1>4
    <3> QED
      BY <2>1, <3>1
  <2>3. e \in ServeForms /\ e.words = w
    BY <1>1, <1>2, <1>4, <2>1, FormsAre
  <2>4. ASSUME NEW g \in ServeForms, g.words = w PROVE g = e
    <3>1. OfForm(g.words, g.config, g.check)
      BY FormsAre
    <3>2. g = [words |-> g.words, config |-> g.config, check |-> g.check]
      BY FormsAre
    <3>3. g.config = p.config /\ g.check = p.check
      BY <1>2, <1>3, <1>4, <2>4, <3>1
    <3> QED
      BY <2>1, <2>4, <3>2, <3>3
  <2>5. F = {e}
    BY <2>3, <2>4
  <2>6. L = F
    BY <2>2, <2>5
  <2> QED
    BY <1>1, <2>6 DEF ServesOnlyItsForms
<1>5. CASE p.command # "serve"
  <2>1. L = {}
    BY <1>5
  <2>2. F = {}
    BY <1>2, <1>5, FormsAre
  <2>3. L = F
    BY <2>1, <2>2
  <2> QED
    BY <1>1, <2>3 DEF ServesOnlyItsForms
<1> QED
  BY <1>4, <1>5

(* parse_args and parse_generate_args accept their forms and nothing else,  *)
(* whatever the number of words: a value is never taken for an option, an   *)
(* option is given once, a daemon is started by no other words.             *)
THEOREM CommandLines ==
    ASSUME args \in Seq(Words)
    PROVE  ParsesItsForms
  BY GenerateTakesPairs, ServesForms DEF ParsesItsForms
=============================================================================
