--------------------------- MODULE SequenceLemmas ---------------------------
(***************************************************************************)
(* Induction over the naturals without a predicate as parameter, and what  *)
(* it gives about the recursive operators of the library that the models   *)
(* use: FlattenSeq, and the table behind FoldLeft.  The last lemmas are    *)
(* about the spellings of a domain name (AsciiText).                       *)
(*                                                                         *)
(* A recursive definition on a sequence is turned into its trace: the      *)
(* function from 0..n to the intermediate results.  Proofs about the       *)
(* definition are inductions along the trace.                              *)
(***************************************************************************)
EXTENDS Integers, AsciiText, Sequences, SequencesExt, FiniteSetsExt,
        WellFoundedInduction, SequenceTheorems, FiniteSetTheorems, TLAPS

(* Every non-empty set of naturals has a least element. *)
LEMMA Least ==
    ASSUME NEW T, T \subseteq Nat, T # {}
    PROVE  \E x \in T : \A y \in T : x <= y
<1> DEFINE R == OpToRel(<, Nat)
<1>1. IsWellFoundedOn(R, Nat)
  BY NatLessThanWellFounded
<1>2. \A x, y \in Nat : <<x, y>> \in R <=> x < y
  BY DEF OpToRel
<1> HIDE DEF R
<1>3. PICK x \in T : \A y \in T : ~(<<y, x>> \in R)
  BY <1>1, WFMin
<1>4. x \in Nat /\ \A y \in T : y \in Nat
  OBVIOUS
<1>5. \A y \in T : x <= y
  <2> SUFFICES ASSUME NEW y \in T PROVE x <= y
    OBVIOUS
  <2>1. y \in Nat /\ ~(<<y, x>> \in R)
    BY <1>3, <1>4
  <2>2. ~(y < x)
    BY <2>1, <1>2, <1>4
  <2> QED
    BY <2>1, <2>2, <1>4
<1> QED
  BY <1>5

(* Induction: the set of the numbers with a property is given instead of    *)
(* the property.                                                            *)
LEMMA SetInduction ==
    ASSUME NEW S, 0 \in S, \A n \in Nat : n \in S => n + 1 \in S
    PROVE  Nat \subseteq S
<1> DEFINE T == Nat \ S
<1>1. SUFFICES ASSUME T # {} PROVE FALSE
  OBVIOUS
<1>2. PICK x \in T : \A y \in T : x <= y
  <2>1. T \subseteq Nat
    OBVIOUS
  <2> HIDE DEF T
  <2> QED BY <1>1, <2>1, Least
<1>3. x # 0 /\ x - 1 \in Nat /\ x - 1 \in S
  BY <1>2
<1>4. (x - 1) + 1 \in S
  BY <1>3
<1> QED
  BY <1>2, <1>3, <1>4

(* The same along 0..n. *)
LEMMA UpTo ==
    ASSUME NEW n \in Nat, NEW S, 0 \in S, \A k \in 1..n : k - 1 \in S => k \in S
    PROVE  0..n \subseteq S
<1> DEFINE T == {k \in Nat : k <= n => k \in S}
<1>1. 0 \in T
  OBVIOUS
<1>2. ASSUME NEW k \in Nat, k \in T PROVE k + 1 \in T
  <2>1. CASE k + 1 <= n
    <3>1. k \in S /\ k + 1 \in 1..n
      BY <1>2, <2>1
    <3>2. (k + 1) - 1 \in S
      BY <3>1
    <3> QED
      BY <3>1, <3>2
  <2>2. CASE ~(k + 1 <= n)
    BY <2>2
  <2> QED
    BY <2>1, <2>2
<1> HIDE DEF T
<1>3. Nat \subseteq T
  BY <1>1, <1>2, SetInduction
<1> QED
  BY <1>3 DEF T

-----------------------------------------------------------------------------
(* Parts of sequences *)

LEMMA TableIsSeq ==
    ASSUME NEW S, NEW n \in Nat, NEW f \in [1..n -> S]
    PROVE  f \in Seq(S) /\ Len(f) = n
  BY SeqDef

(* A part of a sequence, from after position a. *)
LEMMA TakeTypes ==
    ASSUME NEW S, NEW s \in Seq(S), NEW a \in Nat, NEW n \in Nat, a + n <= Len(s)
    PROVE  /\ SubSeq(s, a + 1, a + n) \in Seq(S)
           /\ Len(SubSeq(s, a + 1, a + n)) = n
           /\ \A i \in 1..n : SubSeq(s, a + 1, a + n)[i] = s[a + i]
<1>1. \A i \in (a + 1)..(a + n) : s[i] \in S
  BY ElementOfSeq, LenProperties
<1> QED
  BY <1>1, SubSeqProperties

(* A prefix of a sequence. *)
LEMMA PrefixTypes ==
    ASSUME NEW S, NEW s \in Seq(S), NEW n \in 0..Len(s)
    PROVE  /\ SubSeq(s, 1, n) \in Seq(S)
           /\ Len(SubSeq(s, 1, n)) = n
           /\ \A i \in 1..n : SubSeq(s, 1, n)[i] = s[i]
<1>1. 0 \in Nat /\ n \in Nat /\ 0 + n <= Len(s) /\ 0 + 1 = 1 /\ 0 + n = n
  BY LenProperties
<1>2. /\ SubSeq(s, 0 + 1, 0 + n) \in Seq(S)
      /\ Len(SubSeq(s, 0 + 1, 0 + n)) = n
      /\ \A i \in 1..n : SubSeq(s, 0 + 1, 0 + n)[i] = s[0 + i]
  BY <1>1, TakeTypes, Zenon
<1> QED
  BY <1>1, <1>2

(* Two parts that adjoin *)
LEMMA Rejoin ==
    ASSUME NEW S, NEW s \in Seq(S), NEW w \in Nat, NEW n \in Nat, w + n <= Len(s)
    PROVE  SubSeq(s, 1, w) \o SubSeq(s, w + 1, w + n) = SubSeq(s, 1, w + n)
<1> DEFINE x == SubSeq(s, 1, w)
           y == SubSeq(s, w + 1, w + n)
           z == SubSeq(s, 1, w + n)
<1>1. w \in 0..Len(s) /\ w + n \in 0..Len(s)
  BY LenProperties
<1>2. x \in Seq(S) /\ Len(x) = w /\ \A i \in 1..w : x[i] = s[i]
  BY <1>1, PrefixTypes
<1>3. y \in Seq(S) /\ Len(y) = n /\ \A i \in 1..n : y[i] = s[w + i]
  BY TakeTypes
<1>4. z \in Seq(S) /\ Len(z) = w + n /\ \A i \in 1..(w + n) : z[i] = s[i]
  BY <1>1, PrefixTypes
<1> HIDE DEF x, y, z
<1>5. /\ x \o y \in Seq(S) /\ Len(x \o y) = w + n
      /\ \A i \in 1..(w + n) : (x \o y)[i] = IF i <= w THEN x[i] ELSE y[i - w]
  BY <1>2, <1>3, ConcatProperties
<1>6. \A i \in 1..(w + n) : (x \o y)[i] = z[i]
  <2> SUFFICES ASSUME NEW i \in 1..(w + n) PROVE (x \o y)[i] = z[i]
    OBVIOUS
  <2>1. CASE i <= w
    BY <2>1, <1>2, <1>4, <1>5
  <2>2. CASE ~(i <= w)
    <3>1. i - w \in 1..n /\ w + (i - w) = i
      BY <2>2
    <3> QED
      BY <3>1, <2>2, <1>3, <1>4, <1>5
  <2> QED
    BY <2>1, <2>2
<1>7. x \o y = z
  BY <1>4, <1>5, <1>6, SeqEqual
<1> QED
  BY <1>7 DEF x, y, z

(* The longest prefix is the sequence itself. *)
LEMMA WholePrefix ==
    ASSUME NEW S, NEW s \in Seq(S)
    PROVE  SubSeq(s, 1, Len(s)) = s
<1>1. Len(s) \in 0..Len(s)
  BY LenProperties
<1>2. /\ SubSeq(s, 1, Len(s)) \in Seq(S) /\ Len(SubSeq(s, 1, Len(s))) = Len(s)
      /\ \A i \in 1..Len(s) : SubSeq(s, 1, Len(s))[i] = s[i]
  BY <1>1, PrefixTypes
<1> QED
  BY <1>2, SeqEqual

(* What comes first in a concatenation is a prefix of it. *)
LEMMA ConcatPrefix ==
    ASSUME NEW S, NEW s \in Seq(S), NEW t \in Seq(S)
    PROVE  IsPrefix(s, s \o t) /\ IsPrefix(s, s)
<1>1. Len(s) \in Nat /\ Len(t) \in Nat
  BY LenProperties
<1>2. s \o t \in Seq(S) /\ Len(s \o t) = Len(s) + Len(t)
      /\ \A i \in 1..Len(s) : (s \o t)[i] = s[i]
  BY <1>1, ConcatProperties
<1>3. SubSeq(s, 1, Len(s)) = SubSeq(s \o t, 1, Len(s))
  BY <1>1, <1>2
<1> QED
  BY <1>1, <1>2, <1>3 DEF IsPrefix

(* What remains of a sequence after its first k elements *)
LEMMA RestTypes ==
    ASSUME NEW S, NEW s \in Seq(S), NEW k \in 0..Len(s)
    PROVE  /\ SubSeq(s, k + 1, Len(s)) \in Seq(S)
           /\ Len(SubSeq(s, k + 1, Len(s))) = Len(s) - k
           /\ \A i \in 1..(Len(s) - k) : SubSeq(s, k + 1, Len(s))[i] = s[k + i]
<1> DEFINE n == Len(s) - k
<1>1. k \in Nat /\ n \in Nat /\ k + n = Len(s) /\ k + n <= Len(s)
  BY LenProperties
<1> HIDE DEF n
<1>2. /\ SubSeq(s, k + 1, k + n) \in Seq(S)
      /\ Len(SubSeq(s, k + 1, k + n)) = n
      /\ \A i \in 1..n : SubSeq(s, k + 1, k + n)[i] = s[k + i]
  BY <1>1, TakeTypes
<1> QED
  BY <1>1, <1>2 DEF n

(* Appending to a sequence appends to each of its rests. *)
LEMMA RestAppend ==
    ASSUME NEW S, NEW s \in Seq(S), NEW x \in S, NEW k \in 0..Len(s)
    PROVE  SubSeq(Append(s, x), k + 1, Len(s) + 1) = Append(SubSeq(s, k + 1, Len(s)), x)
<1> DEFINE r == Append(s, x)
           d == SubSeq(s, k + 1, Len(s))
           e == SubSeq(r, k + 1, Len(r))
           c == Append(d, x)
<1>1. /\ Len(s) \in Nat /\ r \in Seq(S) /\ Len(r) = Len(s) + 1
      /\ \A i \in 1..Len(s) : r[i] = s[i]
      /\ r[Len(s) + 1] = x
  BY LenProperties, AppendProperties
<1>2. /\ d \in Seq(S) /\ Len(d) = Len(s) - k
      /\ \A i \in 1..(Len(s) - k) : d[i] = s[k + i]
  BY RestTypes
<1> HIDE DEF r, d
<1>3. /\ e \in Seq(S) /\ Len(e) = Len(r) - k
      /\ \A i \in 1..(Len(r) - k) : e[i] = r[k + i]
  <2>1. k \in 0..Len(r)
    BY <1>1
  <2> QED
    BY <1>1, <2>1, RestTypes
<1>4. /\ c \in Seq(S) /\ Len(c) = Len(d) + 1
      /\ \A i \in 1..Len(d) : c[i] = d[i]
      /\ c[Len(d) + 1] = x
  BY <1>2, AppendProperties
<1> HIDE DEF e, c
<1>5. Len(c) = Len(e)
  BY <1>1, <1>2, <1>3, <1>4
<1>6. ASSUME NEW i \in 1..Len(e) PROVE e[i] = c[i]
  <2>1. e[i] = r[k + i]
    BY <1>3
  <2>2. CASE i <= Len(d)
    <3>1. i \in 1..(Len(s) - k) /\ k + i \in 1..Len(s) /\ i \in 1..Len(d)
      BY <2>2, <1>1, <1>2
    <3> QED
      BY <3>1, <2>1, <1>1, <1>2, <1>4
  <2>3. CASE i = Len(d) + 1
    <3>1. k + i = Len(s) + 1
      BY <2>3, <1>1, <1>2
    <3> QED
      BY <3>1, <2>1, <2>3, <1>1, <1>4
  <2> QED
    BY <2>2, <2>3, <1>1, <1>2, <1>3
<1>7. e = c
  BY <1>3, <1>4, <1>5, <1>6, SeqEqual
<1> QED
  BY <1>1, <1>7 DEF r, d, e, c

(* A rest of a rest is a rest. *)
LEMMA RestOfRest ==
    ASSUME NEW S, NEW s \in Seq(S), NEW k \in 0..Len(s), NEW j \in 0..(Len(s) - k)
    PROVE  SubSeq(SubSeq(s, k + 1, Len(s)), j + 1, Len(s) - k)
             = SubSeq(s, k + j + 1, Len(s))
<1> DEFINE d == SubSeq(s, k + 1, Len(s))
           e == SubSeq(d, j + 1, Len(d))
           m == k + j
           f == SubSeq(s, m + 1, Len(s))
<1>1. Len(s) \in Nat /\ m \in 0..Len(s)
  BY LenProperties
<1>2. /\ d \in Seq(S) /\ Len(d) = Len(s) - k
      /\ \A i \in 1..(Len(s) - k) : d[i] = s[k + i]
  BY RestTypes
<1> HIDE DEF d
<1>3. /\ e \in Seq(S) /\ Len(e) = Len(d) - j
      /\ \A i \in 1..(Len(d) - j) : e[i] = d[j + i]
  BY <1>2, RestTypes
<1> HIDE DEF m
<1>4. /\ f \in Seq(S) /\ Len(f) = Len(s) - m
      /\ \A i \in 1..(Len(s) - m) : f[i] = s[m + i]
  BY <1>1, RestTypes
<1> HIDE DEF e, f
<1>5. Len(e) = Len(f)
  BY <1>1, <1>2, <1>3, <1>4 DEF m
<1>6. ASSUME NEW i \in 1..Len(e) PROVE e[i] = f[i]
  <2>1. j + i \in 1..(Len(s) - k) /\ i \in 1..(Len(s) - m) /\ k + (j + i) = m + i
    BY <1>1, <1>2, <1>3, <1>5, <1>4 DEF m
  <2> QED
    BY <2>1, <1>2, <1>3, <1>4
<1>7. e = f
  BY <1>3, <1>4, <1>5, <1>6, SeqEqual
<1> QED
  BY <1>2, <1>7 DEF d, e, f, m

(* The head and the tail of a rest. *)
LEMMA RestTail ==
    ASSUME NEW S, NEW s \in Seq(S), NEW k \in 0..(Len(s) - 1)
    PROVE  /\ SubSeq(s, k + 1, Len(s)) # <<>>
           /\ Head(SubSeq(s, k + 1, Len(s))) = s[k + 1]
           /\ Tail(SubSeq(s, k + 1, Len(s))) = SubSeq(s, k + 2, Len(s))
<1> DEFINE d == SubSeq(s, k + 1, Len(s))
           m == k + 1
           f == SubSeq(s, m + 1, Len(s))
<1>1. Len(s) \in Nat /\ k \in 0..Len(s) /\ m \in 0..Len(s)
  BY LenProperties
<1>2. /\ d \in Seq(S) /\ Len(d) = Len(s) - k
      /\ \A i \in 1..(Len(s) - k) : d[i] = s[k + i]
  BY <1>1, RestTypes
<1> HIDE DEF d
<1>3. d # <<>>
  <2>1. Len(d) # 0
    BY <1>1, <1>2
  <2> QED
    BY <2>1
<1>4. Head(d) = d[1] /\ d[1] = s[k + 1]
  <2>1. 1 \in 1..(Len(s) - k)
    BY <1>1
  <2> QED
    BY <1>2, <1>3, <2>1, HeadTailProperties
<1> HIDE DEF m
<1>5. /\ f \in Seq(S) /\ Len(f) = Len(s) - m
      /\ \A i \in 1..(Len(s) - m) : f[i] = s[m + i]
  BY <1>1, RestTypes
<1> HIDE DEF f
<1>6. /\ Tail(d) \in Seq(S) /\ Len(Tail(d)) = Len(d) - 1
      /\ \A i \in 1..Len(Tail(d)) : Tail(d)[i] = d[i + 1]
  BY <1>2, <1>3, HeadTailProperties
<1>7. Len(Tail(d)) = Len(f)
  BY <1>1, <1>2, <1>5, <1>6 DEF m
<1>8. ASSUME NEW i \in 1..Len(f) PROVE Tail(d)[i] = f[i]
  <2>1. i \in 1..Len(Tail(d)) /\ i + 1 \in 1..(Len(s) - k) /\ k + (i + 1) = m + i
        /\ i \in 1..(Len(s) - m)
    BY <1>1, <1>2, <1>5, <1>7 DEF m
  <2> QED
    BY <2>1, <1>2, <1>5, <1>6
<1>9. Tail(d) = f
  BY <1>5, <1>6, <1>7, <1>8, SeqEqual
<1>10. m + 1 = k + 2
  BY DEF m
<1> QED
  BY <1>3, <1>4, <1>9, <1>10 DEF d, f

-----------------------------------------------------------------------------
(* Max and Min of a set of positions *)

LEMMA MaxIsGreatest ==
    ASSUME NEW n \in Nat, NEW T \in SUBSET (0..n), T # {}
    PROVE  Max(T) \in T /\ \A y \in T : y <= Max(T)
<1> DEFINE U == {n - x : x \in T}
<1>1. U \subseteq Nat /\ U # {}
  <2>1. \A x \in T : n - x \in Nat
    OBVIOUS
  <2> QED
    BY <2>1
<1> HIDE DEF U
<1>2. PICK m \in U : \A y \in U : m <= y
  BY <1>1, Least
<1>3. PICK x \in T : m = n - x
  BY DEF U
<1>4. \A y \in T : x >= y
  <2> SUFFICES ASSUME NEW y \in T PROVE x >= y
    OBVIOUS
  <2>1. m <= n - y
    BY <1>2 DEF U
  <2> QED
    BY <2>1, <1>3
<1>5. \E z \in T : \A y \in T : z >= y
  BY <1>4
<1>6. Max(T) \in T /\ \A y \in T : Max(T) >= y
  BY <1>5 DEF Max
<1> QED
  BY <1>6

(* Min of FiniteSetsExt, on natural numbers. *)
LEMMA MinIsLeast ==
    ASSUME NEW T \in SUBSET Nat, T # {}
    PROVE  Min(T) \in T /\ \A y \in T : Min(T) <= y
<1>1. \E x \in T : \A y \in T : x <= y
  BY Least
<1> QED
  BY <1>1 DEF Min

(* Max takes the last position, as the folds of the library do. *)
LEMMA MaxOfInterval ==
    ASSUME NEW k \in Nat \ {0}
    PROVE  Max(1..k) = k /\ (1..k) \ {Max(1..k)} = 1..(k - 1)
<1>1. 1..k \in SUBSET (0..k) /\ 1..k # {} /\ k \in Nat /\ k \in 1..k
  OBVIOUS
<1>2. Max(1..k) \in 1..k /\ \A y \in 1..k : y <= Max(1..k)
  BY <1>1, MaxIsGreatest
<1>3. Max(1..k) = k
  BY <1>1, <1>2
<1> QED
  BY <1>3

-----------------------------------------------------------------------------
(* Traces *)

IsTrace(t, base, G, n, St) ==
    /\ t \in [0..n -> St]
    /\ t[0] = base
    /\ \A k \in 1..n : t[k] = G[k][t[k - 1]]

(* A computation that is defined step by step exists. *)
LEMMA TraceExists ==
    ASSUME NEW St, NEW base \in St, NEW n \in Nat, NEW G \in [1..n -> [St -> St]]
    PROVE  \E t : IsTrace(t, base, G, n, St)
<1> DEFINE T == {k \in Nat : k <= n => \E t : IsTrace(t, base, G, k, St)}
<1>1. 0 \in T
  <2> DEFINE t == [k \in 0..0 |-> base]
  <2>1. IsTrace(t, base, G, 0, St)
    BY DEF IsTrace
  <2> HIDE DEF t
  <2> QED
    BY <2>1
<1>2. ASSUME NEW k \in 1..n, k - 1 \in T PROVE k \in T
  <2>1. PICK t : IsTrace(t, base, G, k - 1, St)
    BY <1>2
  <2> DEFINE u == [i \in 0..k |-> IF i = k THEN G[k][t[k - 1]] ELSE t[i]]
  <2>2. t[k - 1] \in St /\ G[k] \in [St -> St] /\ t \in [0..(k - 1) -> St]
    BY <2>1 DEF IsTrace
  <2>3. u \in [0..k -> St]
    BY <2>2
  <2>4. u[0] = base
    BY <2>1 DEF IsTrace
  <2>5. \A i \in 1..k : u[i] = G[i][u[i - 1]]
    <3> SUFFICES ASSUME NEW i \in 1..k PROVE u[i] = G[i][u[i - 1]]
      OBVIOUS
    <3>1. CASE i = k
      BY <3>1
    <3>2. CASE i # k
      <4>1. i \in 1..(k - 1) /\ i - 1 \in 0..k /\ i \in 0..k /\ i - 1 # k
        BY <3>2
      <4>2. t[i] = G[i][t[i - 1]]
        BY <2>1, <4>1 DEF IsTrace
      <4> QED
        BY <4>1, <4>2, <3>2
    <3> QED
      BY <3>1, <3>2
  <2> HIDE DEF u
  <2>6. IsTrace(u, base, G, k, St)
    BY <2>3, <2>4, <2>5 DEF IsTrace
  <2> QED
    BY <2>6
<1> HIDE DEF T
<1>3. 0..n \subseteq T
  BY <1>1, <1>2, UpTo
<1> QED
  BY <1>3 DEF T

(* It is the only one with its equations. *)
LEMMA TraceUnique ==
    ASSUME NEW St, NEW base, NEW n \in Nat, NEW G,
           NEW t, IsTrace(t, base, G, n, St),
           NEW m \in Nat, m <= n,
           NEW u, u[0] = base, \A k \in 1..m : u[k] = G[k][u[k - 1]]
    PROVE  \A k \in 0..m : u[k] = t[k]
<1> DEFINE T == {k \in 0..m : u[k] = t[k]}
<1>1. 0 \in T
  BY DEF IsTrace
<1>2. ASSUME NEW k \in 1..m, k - 1 \in T PROVE k \in T
  BY <1>2 DEF IsTrace
<1> HIDE DEF T
<1>3. 0..m \subseteq T
  BY <1>1, <1>2, UpTo
<1> QED
  BY <1>3 DEF T

-----------------------------------------------------------------------------
(* FlattenSeq *)

IsFlattening(t, s, S) ==
    /\ t \in [0..Len(s) -> Seq(S)]
    /\ t[0] = <<>>
    /\ \A k \in 1..Len(s) : t[k] = t[k - 1] \o s[k]
    /\ FlattenSeq(s) = t[Len(s)]

(* FlattenSeq has a sequence of intermediate results. *)
LEMMA FlattenTrace ==
    ASSUME NEW S, NEW s \in Seq(Seq(S))
    PROVE  \E t : IsFlattening(t, s, S)
<1> DEFINE n == Len(s)
           G == [k \in 1..n |-> [x \in Seq(S) |-> x \o s[k]]]
           R(f) == f = [i \in 1..n |-> IF i = 1 THEN s[i] ELSE f[i - 1] \o s[i]]
           flatten == CHOOSE f : R(f)
<1>1. n \in Nat /\ \A k \in 1..n : s[k] \in Seq(S)
  BY LenProperties, ElementOfSeq
<1>2. G \in [1..n -> [Seq(S) -> Seq(S)]]
  BY <1>1, ConcatProperties
<1>3. <<>> \in Seq(S)
  BY EmptySeq
<1>4. \A k \in 1..n, x \in Seq(S) : G[k][x] = x \o s[k]
  OBVIOUS
<1> HIDE DEF n, G
<1>5. PICK t : IsTrace(t, <<>>, G, n, Seq(S))
  BY <1>1, <1>2, <1>3, TraceExists
<1>6. t \in [0..n -> Seq(S)] /\ t[0] = <<>>
  BY <1>5 DEF IsTrace
<1>7. \A k \in 1..n : t[k] = t[k - 1] \o s[k]
  <2> SUFFICES ASSUME NEW k \in 1..n PROVE t[k] = t[k - 1] \o s[k]
    OBVIOUS
  <2>1. k - 1 \in 0..n
    BY <1>1
  <2>2. t[k - 1] \in Seq(S)
    BY <2>1, <1>6
  <2>3. t[k] = G[k][t[k - 1]]
    BY <1>5 DEF IsTrace
  <2> QED
    BY <2>2, <2>3, <1>4
<1>8. CASE n = 0
  <2>1. FlattenSeq(s) = s /\ s = <<>>
    BY <1>8, <1>1, EmptySeq DEF FlattenSeq, n
  <2> QED
    BY <2>1, <1>6, <1>7, <1>8 DEF IsFlattening, n
<1>9. CASE n # 0
  <2> DEFINE f0 == [i \in 1..n |-> t[i]]
  <2>1. R(f0)
    <3>1. ASSUME NEW i \in 1..n
          PROVE  t[i] = IF i = 1 THEN s[i] ELSE f0[i - 1] \o s[i]
      <4>1. CASE i = 1
        <5>1. t[1] = <<>> \o s[1]
          <6>1. i - 1 = 0
            BY <4>1
          <6>2. t[i] = t[i - 1] \o s[i]
            BY <1>7
          <6> QED
            BY <4>1, <6>1, <6>2, <1>6
        <5>2. <<>> \o s[1] = s[1]
          BY <1>1, <4>1, ConcatEmptySeq
        <5> QED
          BY <4>1, <5>1, <5>2
      <4>2. CASE i # 1
        <5>1. i - 1 \in 1..n
          BY <4>2, <1>1
        <5> QED
          BY <4>2, <5>1, <1>7
      <4> QED
        BY <4>1, <4>2
    <3> QED
      BY <3>1
  <2> HIDE DEF f0
  <2>2. R(flatten)
    BY <2>1
  <2>3. FlattenSeq(s) = flatten[n]
    BY <1>9 DEF FlattenSeq, n
  <2> HIDE DEF flatten
  <2> DEFINE T == {k \in 0..n : k # 0 => flatten[k] = t[k]}
  <2>4. 0 \in T
    BY <1>1
  <2>5. ASSUME NEW k \in 1..n, k - 1 \in T PROVE k \in T
    <3>1. flatten[k] = IF k = 1 THEN s[k] ELSE flatten[k - 1] \o s[k]
      BY <2>2
    <3>2. t[k] = t[k - 1] \o s[k]
      BY <1>7
    <3>3. CASE k = 1
      <4>1. k - 1 = 0
        BY <3>3
      <4>2. t[1] = <<>> \o s[1]
        BY <4>1, <3>3, <3>2, <1>6
      <4>3. <<>> \o s[1] = s[1]
        BY <1>1, <3>3, ConcatEmptySeq
      <4> QED
        BY <3>1, <3>3, <4>2, <4>3, <1>1
    <3>4. CASE k # 1
      <4>1. k - 1 # 0 /\ k \in 0..n
        BY <3>4, <1>1
      <4>2. flatten[k - 1] = t[k - 1]
        BY <4>1, <2>5
      <4>3. flatten[k] = t[k]
        BY <3>1, <3>2, <3>4, <4>2
      <4> QED
        BY <4>1, <4>3
    <3> QED
      BY <3>3, <3>4, <1>1
  <2> HIDE DEF T
  <2>6. 0..n \subseteq T
    BY <1>1, <2>4, <2>5, UpTo
  <2>7. flatten[n] = t[n]
    BY <1>1, <1>9, <2>6 DEF T
  <2> QED
    BY <2>3, <2>7, <1>6, <1>7 DEF IsFlattening, n
<1> QED
  BY <1>8, <1>9

(* Nothing flattens to nothing. *)
LEMMA FlattenEmpty == FlattenSeq(<<>>) = <<>>
<1>1. Len(<<>>) = 0
  BY EmptySeq
<1> QED
  BY <1>1 DEF FlattenSeq

(* FlattenSeq yields a sequence of the elements. *)
LEMMA FlattenType ==
    ASSUME NEW S, NEW s \in Seq(Seq(S))
    PROVE  FlattenSeq(s) \in Seq(S)
<1>1. PICK t : IsFlattening(t, s, S)
  BY FlattenTrace
<1>2. Len(s) \in 0..Len(s)
  BY LenProperties
<1> QED
  BY <1>1, <1>2 DEF IsFlattening

(* FlattenSeq adds the last part at the end. *)
LEMMA FlattenAppend ==
    ASSUME NEW S, NEW s \in Seq(Seq(S)), NEW x \in Seq(S)
    PROVE  FlattenSeq(Append(s, x)) = FlattenSeq(s) \o x
<1> DEFINE r == Append(s, x)
<1>1. /\ Len(s) \in Nat /\ Len(r) = Len(s) + 1
      /\ r \in Seq(Seq(S))
      /\ \A k \in 1..Len(s) : r[k] = s[k]
      /\ r[Len(s) + 1] = x
  BY LenProperties, AppendProperties
<1> HIDE DEF r
<1>2. PICK t : IsFlattening(t, s, S)
  BY FlattenTrace
<1>3. PICK u : IsFlattening(u, r, S)
  BY <1>1, FlattenTrace
<1> DEFINE T == {k \in 0..Len(s) : u[k] = t[k]}
<1>4. 0 \in T
  BY <1>1, <1>2, <1>3 DEF IsFlattening
<1>5. ASSUME NEW k \in 1..Len(s), k - 1 \in T PROVE k \in T
  <2>1. k \in 1..Len(r) /\ k \in 0..Len(s)
    BY <1>1
  <2>2. u[k] = u[k - 1] \o r[k] /\ t[k] = t[k - 1] \o s[k]
    BY <2>1, <1>2, <1>3 DEF IsFlattening
  <2> QED
    BY <2>1, <2>2, <1>1, <1>5
<1> HIDE DEF T
<1>6. 0..Len(s) \subseteq T
  BY <1>1, <1>4, <1>5, UpTo
<1>7. u[Len(s)] = t[Len(s)]
  BY <1>1, <1>6 DEF T
<1>8. Len(r) \in 1..Len(r) /\ Len(r) - 1 = Len(s)
  BY <1>1
<1>9. u[Len(r)] = u[Len(s)] \o x
  BY <1>1, <1>3, <1>8 DEF IsFlattening
<1> QED
  BY <1>2, <1>3, <1>7, <1>9 DEF IsFlattening, r

(* The positions of a concatenation, part by part. *)
LEMMA ConcatParts ==
    ASSUME NEW S, NEW x \in Seq(S), NEW y \in Seq(S)
    PROVE  /\ x \o y \in Seq(S) /\ Len(x) \in Nat /\ Len(y) \in Nat
           /\ Len(x \o y) = Len(x) + Len(y)
           /\ \A i \in 1..Len(x) : (x \o y)[i] = x[i]
           /\ \A i \in 1..Len(y) : (x \o y)[Len(x) + i] = y[i]
           /\ Len(y) = 0 <=> y = <<>>
<1>1. Len(x) \in Nat /\ Len(y) \in Nat /\ (Len(y) = 0 <=> y = <<>>)
  BY LenProperties, EmptySeq
<1>2. x \o y \in Seq(S) /\ Len(x \o y) = Len(x) + Len(y) /\ \A i \in 1..Len(x) : (x \o y)[i] = x[i]
  BY <1>1
<1>3. ASSUME NEW i \in 1..Len(y) PROVE (x \o y)[Len(x) + i] = y[i]
  BY <1>1
<1> QED
  BY <1>1, <1>2, <1>3

Joined(x, y, z, S) ==
    /\ x \in Seq(S) /\ y \in Seq(S) /\ z \in Seq(S)
    /\ Len(x) \in Nat /\ Len(y) \in Nat /\ Len(z) \in Nat
    /\ Len(z) = Len(x) + Len(y)
    /\ \A i \in 1..Len(x) : z[i] = x[i]
    /\ \A i \in 1..Len(y) : z[Len(x) + i] = y[i]
    /\ Len(y) = 0 <=> y = <<>>

(* A concatenation is a joint of its parts. *)
LEMMA ConcatJoins ==
    ASSUME NEW S, NEW x \in Seq(S), NEW y \in Seq(S)
    PROVE  Joined(x, y, x \o y, S)
<1>1. PICK z : z = x \o y
  OBVIOUS
<1>2. z \in Seq(S) /\ Len(z) \in Nat
  BY <1>1, ConcatParts, LenProperties
<1> QED
  BY <1>1, <1>2, ConcatParts DEF Joined

(* Each intermediate result joins the one before it and a part. *)
LEMMA FlattenStep ==
    ASSUME NEW S, NEW s \in Seq(Seq(S)), NEW t, IsFlattening(t, s, S), NEW m \in 1..Len(s)
    PROVE  Joined(t[m - 1], s[m], t[m], S)
<1>1. m - 1 \in 0..Len(s) /\ m \in 0..Len(s)
  BY LenProperties
<1>2. t[m - 1] \in Seq(S) /\ t[m] = t[m - 1] \o s[m] /\ s[m] \in Seq(S)
  BY <1>1, ElementOfSeq DEF IsFlattening
<1>3. PICK x, y, z : x = t[m - 1] /\ y = s[m] /\ z = t[m]
  OBVIOUS
<1>4. x \in Seq(S) /\ y \in Seq(S) /\ z = x \o y
  BY <1>2, <1>3
<1>5. Joined(x, y, z, S)
  BY <1>4, ConcatJoins
<1> QED
  BY <1>3, <1>5

(* What is flattened first is in front *)
LEMMA FlattenPrefix ==
    ASSUME NEW S, NEW s \in Seq(Seq(S)), NEW t, IsFlattening(t, s, S),
           NEW a \in 0..Len(s), NEW b \in a..Len(s)
    PROVE  Len(t[a]) <= Len(t[b]) /\ \A j \in 1..Len(t[a]) : t[b][j] = t[a][j]
<1> DEFINE n == Len(s)
           T == {m \in 0..n : m < a \/ (/\ Len(t[a]) <= Len(t[m])
                                         /\ \A j \in 1..Len(t[a]) : t[m][j] = t[a][j])}
<1>1. n \in Nat /\ a \in Nat /\ b \in 0..n /\ b >= a
  BY LenProperties
<1>2. \A m \in 0..n : t[m] \in Seq(S) /\ Len(t[m]) \in Nat
  BY LenProperties DEF IsFlattening
<1>3. 0 \in T
  BY <1>1, <1>2
<1>4. ASSUME NEW m \in 1..n, m - 1 \in T PROVE m \in T
  <2>1. m - 1 \in 0..n /\ m \in 0..n /\ m \in Nat
    BY <1>1
  <2>2. CASE m < a
    BY <2>1, <2>2
  <2>3. CASE m = a
    BY <1>2, <2>1, <2>3
  <2>4. CASE m > a
    <3>1. Len(t[a]) <= Len(t[m - 1]) /\ \A j \in 1..Len(t[a]) : t[m - 1][j] = t[a][j]
      BY <1>1, <1>4, <2>1, <2>4
    <3>2. PICK x, y, z, w : x = t[m - 1] /\ y = s[m] /\ z = t[m] /\ w = t[a]
      OBVIOUS
    <3>3. Joined(x, y, z, S)
      BY <3>2, FlattenStep
    <3>4. Len(w) \in Nat /\ Len(w) <= Len(x) /\ \A j \in 1..Len(w) : x[j] = w[j]
      BY <1>2, <3>1, <3>2
    <3>5. Len(w) <= Len(z)
      BY <3>3, <3>4 DEF Joined
    <3>6. ASSUME NEW j \in 1..Len(w) PROVE z[j] = w[j]
      <4>1. j \in 1..Len(x)
        BY <3>3, <3>4 DEF Joined
      <4> QED
        BY <3>3, <3>4, <4>1 DEF Joined
    <3> QED
      BY <2>1, <3>2, <3>5, <3>6
  <2> QED
    BY <1>1, <2>1, <2>2, <2>3, <2>4
<1>5. 0..n \subseteq T
  <2> HIDE DEF T
  <2> QED
    BY <1>1, <1>3, <1>4, UpTo
<1>6. b \in T
  BY <1>1, <1>5
<1> QED
  BY <1>1, <1>6

(* Each part is found again, and of two parts the earlier one in front *)
LEMMA FlattenApart ==
    ASSUME NEW S, NEW s \in Seq(Seq(S)), NEW k \in 1..Len(s), s[k] # <<>>,
           NEW l \in k..Len(s), s[l] # <<>>
    PROVE  \E p, q \in 1..Len(FlattenSeq(s)) :
              FlattenSeq(s)[p] = s[k][1] /\ FlattenSeq(s)[q] = s[l][1] /\ (k < l => p < q)
<1> DEFINE n == Len(s)
           f == FlattenSeq(s)
<1>1. PICK t : IsFlattening(t, s, S)
  BY FlattenTrace
<1>2. n \in Nat /\ f = t[n] /\ n \in 0..n /\ l \in 1..n /\ k <= l /\ k \in Nat /\ l \in Nat
  BY <1>1, LenProperties DEF IsFlattening
<1>3. ASSUME NEW m \in 1..n, s[m] # <<>>
      PROVE  /\ t[m - 1] \in Seq(S) /\ Len(t[m - 1]) \in Nat
             /\ Len(t[m - 1]) + 1 <= Len(t[m]) /\ t[m][Len(t[m - 1]) + 1] = s[m][1]
             /\ Len(t[m - 1]) + 1 \in 1..Len(f) /\ f[Len(t[m - 1]) + 1] = s[m][1]
  <2> DEFINE p == Len(t[m - 1]) + 1
  <2>1. m - 1 \in 0..n /\ m \in 0..n /\ n \in m..n
    BY <1>2
  <2>2. PICK x, y, z : x = t[m - 1] /\ y = s[m] /\ z = t[m]
    OBVIOUS
  <2>3. Joined(x, y, z, S) /\ y # <<>>
    BY <1>1, <1>3, <2>2, FlattenStep
  <2> HIDE DEF p, f
  <2>4. Len(t[m]) <= Len(t[n]) /\ \A j \in 1..Len(t[m]) : t[n][j] = t[m][j]
    BY <1>1, <2>1, FlattenPrefix
  <2>5. Len(f) \in Nat /\ Len(z) <= Len(f) /\ \A j \in 1..Len(z) : f[j] = z[j]
    <3>1. Len(t[n]) \in Nat
      BY <1>1, <1>2, LenProperties DEF IsFlattening
    <3> QED
      BY <1>2, <2>2, <2>4, <3>1
  <2>6. 1 \in 1..Len(y) /\ Len(y) >= 1
    BY <2>3 DEF Joined
  <2>7. PICK o : o = Len(x) + 1
    OBVIOUS
  <2>8. z[o] = y[1] /\ o \in 1..Len(z)
    BY <2>3, <2>6, <2>7 DEF Joined
  <2>9. o \in 1..Len(f) /\ f[o] = y[1] /\ o <= Len(z)
    BY <2>3, <2>5, <2>8 DEF Joined
  <2>10. Len(x) + 1 <= Len(z) /\ z[Len(x) + 1] = y[1] /\ Len(x) + 1 \in 1..Len(f) /\ f[Len(x) + 1] = y[1]
    BY <2>7, <2>8, <2>9
  <2>11. x \in Seq(S) /\ Len(x) \in Nat
    BY <2>3 DEF Joined
  <2> QED
    BY <2>2, <2>10, <2>11, Zenon
<1>4. CASE k < l
  <2> DEFINE p == Len(t[k - 1]) + 1
             q == Len(t[l - 1]) + 1
  <2>1. k \in 0..n /\ l - 1 \in k..n /\ l - 1 \in 0..n
    BY <1>2, <1>4
  <2>2. Len(t[k]) <= Len(t[l - 1]) /\ Len(t[k]) \in Nat
    BY <1>1, <2>1, FlattenPrefix, LenProperties DEF IsFlattening
  <2>3. Len(t[l - 1]) \in Nat
    BY <1>2, <1>3
  <2>4. p < q
    <3>1. Len(t[k - 1]) \in Nat /\ Len(t[k - 1]) + 1 <= Len(t[k])
      BY <1>3
    <3>2. PICK x, y, z : x = Len(t[k - 1]) /\ y = Len(t[k]) /\ z = Len(t[l - 1])
      OBVIOUS
    <3>3. x \in Nat /\ y \in Nat /\ z \in Nat /\ x + 1 <= y /\ y <= z
      BY <2>2, <2>3, <3>1, <3>2
    <3>4. x + 1 < z + 1
      BY <3>3
    <3> QED
      BY <3>2, <3>4, Zenon
  <2> HIDE DEF p, q, f
  <2>5. p \in 1..Len(f) /\ f[p] = s[k][1]
    BY <1>2, <1>3 DEF p
  <2>6. q \in 1..Len(f) /\ f[q] = s[l][1]
    BY <1>2, <1>3 DEF q
  <2> QED
    BY <2>4, <2>5, <2>6 DEF f
<1>5. CASE ~(k < l)
  <2> HIDE DEF f
  <2>1. k = l
    BY <1>2, <1>5
  <2>2. Len(t[k - 1]) + 1 \in 1..Len(f) /\ f[Len(t[k - 1]) + 1] = s[k][1]
    BY <1>2, <1>3
  <2> QED
    BY <1>5, <2>1, <2>2 DEF f
<1> QED
  BY <1>4, <1>5

(* Where no part is longer than one, two places of the whole come from two  *)
(* parts *)
LEMMA FlattenDistinct ==
    ASSUME NEW S, NEW s \in Seq(Seq(S)), \A k \in 1..Len(s) : Len(s[k]) <= 1,
           NEW p \in 1..Len(FlattenSeq(s)), NEW q \in 1..Len(FlattenSeq(s))
    PROVE  \E k, l \in 1..Len(s) :
              /\ s[k] # <<>> /\ FlattenSeq(s)[p] = s[k][1]
              /\ s[l] # <<>> /\ FlattenSeq(s)[q] = s[l][1]
              /\ p # q => k # l
<1> DEFINE n == Len(s)
           f == FlattenSeq(s)
<1>1. PICK t : IsFlattening(t, s, S)
  BY FlattenTrace
<1>2. n \in Nat /\ f = t[n] /\ n \in 0..n
  BY <1>1, LenProperties DEF IsFlattening
<1> DEFINE From(m, i, k) == s[k] # <<>> /\ t[m][i] = s[k][1]
           T == {m \in 0..n : \A i, j \in 1..Len(t[m]) :
                    \E k, l \in 1..n : k <= m /\ l <= m /\ From(m, i, k) /\ From(m, j, l) /\ (i # j => k # l)}
<1>3. 0 \in T
  <2>1. Len(t[0]) = 0
    BY <1>1, EmptySeq DEF IsFlattening
  <2> QED
    BY <1>2, <2>1
<1>4. ASSUME NEW m \in 1..n, m - 1 \in T PROVE m \in T
  <2>1. m - 1 \in 0..n /\ m \in 0..n /\ m \in Nat
    BY <1>2
  <2>2. PICK x, y, z : x = t[m - 1] /\ y = s[m] /\ z = t[m]
    OBVIOUS
  <2>3. Joined(x, y, z, S) /\ Len(y) <= 1
    BY <1>1, <2>2, FlattenStep
  <2> DEFINE h == Len(x)
  <2>5. \A i, j \in 1..h :
           \E k, l \in 1..n : k <= m - 1 /\ l <= m - 1 /\ From(m - 1, i, k) /\ From(m - 1, j, l) /\ (i # j => k # l)
    BY <1>4, <2>2
  <2>6. ASSUME NEW i \in 1..Len(t[m]), i \notin 1..h
        PROVE  i = h + 1 /\ From(m, i, m)
    <3>1. i \in 1..Len(z)
      BY <2>2, <2>6
    <3>2. i = h + 1 /\ Len(y) = 1
      <4>1. PICK c, d, e : c = Len(x) /\ d = Len(y) /\ e = Len(z)
        OBVIOUS
      <4>2. c \in Nat /\ d \in Nat /\ d <= 1 /\ e = c + d
        BY <2>3, <4>1 DEF Joined
      <4>3. i \in 1..e /\ i \notin 1..c
        BY <2>6, <3>1, <4>1
      <4>4. i = c + 1 /\ d = 1
        BY <4>2, <4>3
      <4> QED
        BY <4>1, <4>4
    <3>3. z[h + 1] = y[1] /\ y # <<>>
      BY <2>3, <3>2 DEF Joined
    <3> QED
      BY <2>2, <3>2, <3>3
  <2>7. ASSUME NEW i \in 1..h, NEW k \in 1..n, From(m - 1, i, k) PROVE From(m, i, k)
    BY <2>2, <2>3, <2>7 DEF Joined
  <2>8. ASSUME NEW k \in 1..n, k <= m - 1 PROVE k <= m /\ k # m
    BY <2>1, <2>8
  <2> HIDE DEF h, From
  <2>9. ASSUME NEW i \in 1..Len(t[m]), NEW j \in 1..Len(t[m])
        PROVE  \E k, l \in 1..n : k <= m /\ l <= m /\ From(m, i, k) /\ From(m, j, l) /\ (i # j => k # l)
    <3>1. CASE i \in 1..h /\ j \in 1..h
      <4>1. PICK k, l \in 1..n : k <= m - 1 /\ l <= m - 1 /\ From(m - 1, i, k) /\ From(m - 1, j, l) /\ (i # j => k # l)
        BY <2>5, <3>1
      <4> QED
        BY <2>7, <2>8, <3>1, <4>1
    <3>2. CASE i \in 1..h /\ j \notin 1..h
      <4>1. PICK k \in 1..n : k <= m - 1 /\ From(m - 1, i, k)
        BY <2>5, <3>2
      <4>2. From(m, j, m) /\ m <= m
        BY <2>1, <2>6, <3>2
      <4> QED
        BY <2>7, <2>8, <3>2, <4>1, <4>2
    <3>3. CASE i \notin 1..h /\ j \in 1..h
      <4>1. PICK k \in 1..n : k <= m - 1 /\ From(m - 1, j, k)
        BY <2>5, <3>3
      <4>2. From(m, i, m) /\ m <= m
        BY <2>1, <2>6, <3>3
      <4> QED
        BY <2>7, <2>8, <3>3, <4>1, <4>2
    <3>4. CASE i \notin 1..h /\ j \notin 1..h
      <4>1. From(m, i, m) /\ From(m, j, m) /\ i = j /\ m <= m
        BY <2>1, <2>6, <3>4
      <4> QED
        BY <4>1
    <3> QED
      BY <3>1, <3>2, <3>3, <3>4
  <2> QED
    BY <2>1, <2>9
<1>5. 0..n \subseteq T
  <2> HIDE DEF T
  <2> QED
    BY <1>2, <1>3, <1>4, UpTo
<1>6. \A i, j \in 1..Len(t[n]) :
         \E k, l \in 1..n : From(n, i, k) /\ From(n, j, l) /\ (i # j => k # l)
  <2> HIDE DEF From
  <2>1. n \in T
    BY <1>2, <1>5
  <2> QED
    BY <2>1
<1>7. PICK k, l \in 1..n : From(n, p, k) /\ From(n, q, l) /\ (p # q => k # l)
  <2>1. p \in 1..Len(t[n]) /\ q \in 1..Len(t[n])
    BY <1>2
  <2> HIDE DEF From
  <2> QED
    BY <1>6, <2>1
<1> QED
  BY <1>2, <1>7

-----------------------------------------------------------------------------
(* FoldLeft *)

(* The table of MapThenFoldSet, for the sets of positions up to n, where    *)
(* the element chosen is the greatest.                                      *)
IsTable(f, base, G, n, St) ==
    /\ f \in [SUBSET (1..n) -> St]
    /\ \A s \in SUBSET (1..n) :
          f[s] = IF s = {} THEN base ELSE G[Max(s)][f[s \ {Max(s)}]]

(* The table of all intermediate results of a fold over subsets exists. *)
LEMMA TableExists ==
    ASSUME NEW St, NEW base \in St, NEW n \in Nat, NEW G \in [1..n -> [St -> St]]
    PROVE  \E f : IsTable(f, base, G, n, St)
<1> DEFINE T == {k \in Nat : k <= n => \E f : IsTable(f, base, G, k, St)}
<1>1. 0 \in T
  <2> DEFINE f == [s \in SUBSET (1..0) |-> base]
  <2>1. \A s \in SUBSET (1..0) : s = {}
    OBVIOUS
  <2>2. IsTable(f, base, G, 0, St)
    BY <2>1 DEF IsTable
  <2> HIDE DEF f
  <2> QED
    BY <2>2
<1>2. ASSUME NEW k \in 1..n, k - 1 \in T PROVE k \in T
  <2>1. PICK f : IsTable(f, base, G, k - 1, St)
    BY <1>2
  <2> DEFINE g == [s \in SUBSET (1..k) |->
                      IF k \in s THEN G[k][f[s \ {k}]] ELSE f[s]]
  <2>2. \A s \in SUBSET (1..k) : s \ {k} \in SUBSET (1..(k - 1))
    OBVIOUS
  <2>3. f \in [SUBSET (1..(k - 1)) -> St] /\ G[k] \in [St -> St]
    BY <2>1 DEF IsTable
  <2>4. g \in [SUBSET (1..k) -> St]
    <3> SUFFICES ASSUME NEW s \in SUBSET (1..k)
                 PROVE  (IF k \in s THEN G[k][f[s \ {k}]] ELSE f[s]) \in St
      OBVIOUS
    <3>1. CASE k \in s
      BY <3>1, <2>2, <2>3
    <3>2. CASE k \notin s
      <4>1. s \ {k} = s
        BY <3>2
      <4> QED
        BY <3>2, <4>1, <2>2, <2>3
    <3> QED
      BY <3>1, <3>2
  <2>5. ASSUME NEW s \in SUBSET (1..k)
        PROVE  g[s] = IF s = {} THEN base ELSE G[Max(s)][g[s \ {Max(s)}]]
    <3>1. CASE k \in s
      <4>1. Max(s) \in s /\ \A y \in s : y <= Max(s)
        <5>1. s \in SUBSET (0..k) /\ s # {} /\ k \in Nat
          BY <3>1
        <5> QED
          BY <5>1, MaxIsGreatest
      <4>2. Max(s) = k
        <5>1. k <= Max(s) /\ Max(s) \in 1..k
          BY <4>1, <3>1
        <5> QED
          BY <5>1
      <4>3. s \ {k} \in SUBSET (1..k) /\ k \notin s \ {k} /\ s # {}
        BY <3>1
      <4>4. g[s \ {k}] = f[s \ {k}]
        BY <4>3
      <4>5. g[s] = G[k][f[s \ {k}]]
        BY <3>1
      <4> QED
        BY <4>2, <4>3, <4>4, <4>5
    <3>2. CASE k \notin s
      <4>1. s \in SUBSET (1..(k - 1))
        BY <3>2, <2>2
      <4>2. f[s] = IF s = {} THEN base ELSE G[Max(s)][f[s \ {Max(s)}]]
        BY <4>1, <2>1 DEF IsTable
      <4>3. s \ {Max(s)} \in SUBSET (1..k) /\ k \notin s \ {Max(s)}
        BY <3>2
      <4>4. g[s] = f[s] /\ g[s \ {Max(s)}] = f[s \ {Max(s)}]
        BY <3>2, <4>3
      <4> QED
        BY <4>2, <4>4
    <3> QED
      BY <3>1, <3>2
  <2> HIDE DEF g
  <2>6. IsTable(g, base, G, k, St)
    BY <2>4, <2>5 DEF IsTable
  <2> QED
    BY <2>6
<1> HIDE DEF T
<1>3. 0..n \subseteq T
  BY <1>1, <1>2, UpTo
<1> QED
  BY <1>3 DEF T

-----------------------------------------------------------------------------
(* The text of domain names *)

(* Lower case of a text of any bytes. *)
LEMMA LowerTypes ==
    ASSUME NEW S, NEW v \in Seq(S)
    PROVE  /\ Lower(v) \in Seq(S \cup {"a"}) /\ Len(Lower(v)) = Len(v)
           /\ \A i \in 1..Len(v) : Lower(v)[i] = IF v[i] = "A" THEN "a" ELSE v[i]
           /\ Lower(Lower(v)) = Lower(v)
<1> DEFINE w == Lower(v)
<1>1. Len(v) \in Nat /\ DOMAIN v = 1..Len(v) /\ \A i \in 1..Len(v) : v[i] \in S
  BY LenProperties, ElementOfSeq
<1>2. w = [i \in 1..Len(v) |-> IF v[i] = "A" THEN "a" ELSE v[i]]
  BY <1>1 DEF Lower
<1>3. w \in [1..Len(v) -> S \cup {"a"}]
  BY <1>1, <1>2
<1>4. w \in Seq(S \cup {"a"}) /\ Len(w) = Len(v)
  BY <1>1, <1>3, TableIsSeq
<1>5. \A i \in 1..Len(v) : w[i] = IF v[i] = "A" THEN "a" ELSE v[i]
  BY <1>2
<1>6. Lower(w) = w
  <2> HIDE DEF w
  <2>1. DOMAIN w = 1..Len(v) /\ w = [i \in 1..Len(v) |-> w[i]]
    BY <1>3
  <2>2. Lower(w) = [i \in 1..Len(v) |-> IF w[i] = "A" THEN "a" ELSE w[i]]
    BY <2>1 DEF Lower
  <2>3. \A i \in 1..Len(v) : w[i] # "A"
    BY <1>5
  <2> QED
    BY <2>1, <2>2, <2>3
<1> QED
  BY <1>4, <1>5, <1>6

NotDots(v) == {i \in 1..Len(v) : v[i] # "."}

(* trim_end_matches leaves everything up to the last solid byte. *)
LEMMA StripTypes ==
    ASSUME NEW S, NEW v \in Seq(S)
    PROVE  /\ NotDots(v) # {} => Max(NotDots(v)) \in NotDots(v)
           /\ StripDots(v) = SubSeq(v, 1, IF NotDots(v) = {} THEN 0 ELSE Max(NotDots(v)))
           /\ StripDots(v) \in Seq(S)
<1>1. Len(v) \in Nat /\ DOMAIN v = 1..Len(v)
  BY LenProperties
<1> DEFINE T == NotDots(v)
           m == IF T = {} THEN 0 ELSE Max(T)
<1>2. T \in SUBSET (0..Len(v)) /\ T \subseteq 1..Len(v)
  BY <1>1 DEF NotDots
<1>3. T # {} => Max(T) \in T
  BY <1>1, <1>2, MaxIsGreatest
<1>4. m \in 0..Len(v)
  <2>1. T # {} => Max(T) \in 1..Len(v)
    BY <1>2, <1>3
  <2> HIDE DEF T
  <2>2. CASE T = {}
    BY <1>1, <2>2
  <2>3. CASE T # {}
    <3>1. Max(T) \in 0..Len(v)
      BY <1>1, <2>1, <2>3
    <3> QED
      BY <2>3, <3>1
  <2> QED
    BY <2>2, <2>3
<1>5. StripDots(v) = IF T = {} THEN <<>> ELSE SubSeq(v, 1, Max(T))
  BY <1>1 DEF StripDots, NotDots
<1>6. SubSeq(v, 1, m) \in Seq(S) /\ Len(SubSeq(v, 1, m)) = m
  <2> HIDE DEF m
  <2> QED
    BY <1>4, PrefixTypes
<1>7. CASE T = {}
  <2>1. m = 0
    BY <1>7
  <2>2. SubSeq(v, 1, m) = <<>>
    <3> HIDE DEF m
    <3> QED
      BY <1>6, <2>1, EmptySeq
  <2> QED
    BY <1>3, <1>5, <1>6, <1>7, <2>2
<1>8. CASE T # {}
  BY <1>3, <1>5, <1>6, <1>8
<1> QED
  BY <1>7, <1>8

(* Where the text without dots at the end stops, every byte after is a dot. *)
LEMMA StripIs ==
    ASSUME NEW S, NEW v \in Seq(S)
    PROVE  \E m \in 0..Len(v) :
              /\ StripDots(v) = SubSeq(v, 1, m) /\ StripDots(v) \in Seq(S) /\ Len(StripDots(v)) = m
              /\ \A i \in 1..m : StripDots(v)[i] = v[i]
              /\ m > 0 => v[m] # "."
              /\ \A i \in 1..Len(v) : i > m => v[i] = "."
<1> DEFINE T == NotDots(v)
           m == IF T = {} THEN 0 ELSE Max(T)
<1>1. Len(v) \in Nat /\ T \in SUBSET (0..Len(v)) /\ T \subseteq 1..Len(v)
  BY LenProperties DEF NotDots
<1>2. T # {} => Max(T) \in T /\ \A i \in T : i <= Max(T)
  BY <1>1, MaxIsGreatest
<1>3. \A i \in 1..Len(v) : i \in T <=> v[i] # "."
  BY DEF NotDots
<1>4. StripDots(v) = SubSeq(v, 1, m)
  BY StripTypes
<1> HIDE DEF T
<1>5. m \in 0..Len(v) /\ (m > 0 => v[m] # ".") /\ \A i \in 1..Len(v) : i > m => v[i] = "."
  <2>1. CASE T = {}
    BY <1>1, <1>3, <2>1
  <2>2. CASE T # {}
    <3>1. m = Max(T) /\ Max(T) \in T /\ \A i \in T : i <= Max(T)
      BY <1>2, <2>2
    <3> HIDE DEF m
    <3>2. m \in 1..Len(v) /\ v[m] # "."
      BY <1>1, <1>3, <3>1
    <3>3. \A i \in 1..Len(v) : i > m => v[i] = "."
      BY <1>1, <1>3, <3>1, <3>2
    <3>4. m \in 0..Len(v)
      BY <1>1, <3>2
    <3> QED
      BY <3>2, <3>3, <3>4
  <2> QED
    BY <2>1, <2>2
<1> HIDE DEF m
<1>6. SubSeq(v, 1, m) \in Seq(S) /\ Len(SubSeq(v, 1, m)) = m /\ \A i \in 1..m : SubSeq(v, 1, m)[i] = v[i]
  BY <1>5, PrefixTypes
<1> QED
  BY <1>4, <1>5, <1>6

(* Nothing is taken off a text that does not end with a dot. *)
LEMMA StripKeeps ==
    ASSUME NEW S, NEW v \in Seq(S), Len(v) > 0 => v[Len(v)] # "."
    PROVE  StripDots(v) = v
<1>1. PICK m \in 0..Len(v) :
        /\ StripDots(v) = SubSeq(v, 1, m)
        /\ \A i \in 1..Len(v) : i > m => v[i] = "."
  BY StripIs
<1>2. Len(v) \in Nat
  BY LenProperties
<1>3. m = Len(v)
  BY <1>1, <1>2
<1> QED
  BY <1>1, <1>3, WholePrefix

(* Two spellings are of the same name when they are alike without the dots  *)
(* at the end and in lower case.                                            *)
LEMMA SameNameIs ==
    ASSUME NEW S, NEW v \in Seq(S), NEW w \in Seq(S)
    PROVE  SameName(v, w) <=> Lower(StripDots(v)) = Lower(StripDots(w))
<1> DEFINE small(x) == IF x = "A" THEN "a" ELSE x
           Alike(x, y) == x = y \/ {x, y} = {"a", "A"}
<1>1. /\ Len(v) \in Nat /\ DOMAIN v = 1..Len(v)
      /\ Len(w) \in Nat /\ DOMAIN w = 1..Len(w)
  BY LenProperties
<1>2. PICK m \in 0..Len(v) :
        /\ StripDots(v) \in Seq(S) /\ Len(StripDots(v)) = m
        /\ \A i \in 1..m : StripDots(v)[i] = v[i]
        /\ m > 0 => v[m] # "."
        /\ \A i \in 1..Len(v) : i > m => v[i] = "."
  BY StripIs
<1>3. PICK n \in 0..Len(w) :
        /\ StripDots(w) \in Seq(S) /\ Len(StripDots(w)) = n
        /\ \A i \in 1..n : StripDots(w)[i] = w[i]
        /\ n > 0 => w[n] # "."
        /\ \A i \in 1..Len(w) : i > n => w[i] = "."
  BY StripIs
<1> DEFINE a == Lower(StripDots(v))
           b == Lower(StripDots(w))
<1>4. /\ a \in Seq(S \cup {"a"}) /\ Len(a) = m /\ \A i \in 1..m : a[i] = small(v[i])
      /\ b \in Seq(S \cup {"a"}) /\ Len(b) = n /\ \A i \in 1..n : b[i] = small(w[i])
  BY <1>2, <1>3, LowerTypes
<1>5. \A x, y : Alike(x, y) <=> small(x) = small(y)
  <2> SUFFICES ASSUME NEW x, NEW y PROVE Alike(x, y) <=> small(x) = small(y)
    OBVIOUS
  <2>1. {x, y} = {"a", "A"} <=> (x = "a" /\ y = "A") \/ (x = "A" /\ y = "a")
    OBVIOUS
  <2> QED
    BY <2>1
<1>6. /\ \A i \in 1..m : ByteOrDot(v, i) = v[i]
      /\ \A i \in Nat : i > m => ByteOrDot(v, i) = "."
      /\ \A i \in 1..n : ByteOrDot(w, i) = w[i]
      /\ \A i \in Nat : i > n => ByteOrDot(w, i) = "."
  BY <1>1, <1>2, <1>3 DEF ByteOrDot
<1>7. SameName(v, w) <=> \A i \in DOMAIN v \cup DOMAIN w : Alike(ByteOrDot(v, i), ByteOrDot(w, i))
  BY DEF SameName
<1>8. m \in Nat /\ n \in Nat /\ m <= Len(v) /\ n <= Len(w)
  BY <1>1
<1> HIDE DEF Alike, a, b
<1>9. ASSUME a = b PROVE SameName(v, w)
  <2>1. m = n
    BY <1>4, <1>9
  <2>2. ASSUME NEW i \in DOMAIN v \cup DOMAIN w PROVE Alike(ByteOrDot(v, i), ByteOrDot(w, i))
    <3>1. i \in Nat /\ i > 0
      BY <1>1
    <3>2. CASE i \in 1..m
      <4>1. ByteOrDot(v, i) = v[i] /\ ByteOrDot(w, i) = w[i]
        BY <1>6, <2>1, <3>2
      <4>2. small(v[i]) = small(w[i])
        BY <1>4, <1>9, <2>1, <3>2
      <4> QED
        BY <1>5, <4>1, <4>2
    <3>3. CASE i > m
      BY <1>5, <1>6, <2>1, <3>1, <3>3
    <3> QED
      BY <1>8, <3>1, <3>2, <3>3
  <2> QED
    BY <1>7, <2>2
<1>10. ASSUME SameName(v, w) PROVE a = b
  <2>1. \A i \in DOMAIN v \cup DOMAIN w : small(ByteOrDot(v, i)) = small(ByteOrDot(w, i))
    BY <1>5, <1>7, <1>10
  <2>2. ~(m > n)
    <3> SUFFICES ASSUME m > n PROVE FALSE
      OBVIOUS
    <3>1. m \in DOMAIN v /\ m \in 1..m /\ m > 0
      BY <1>1, <1>8
    <3>2. ByteOrDot(v, m) # "." /\ ByteOrDot(w, m) = "."
      BY <1>2, <1>6, <1>8, <3>1
    <3> QED
      BY <2>1, <3>1, <3>2
  <2>3. ~(n > m)
    <3> SUFFICES ASSUME n > m PROVE FALSE
      OBVIOUS
    <3>1. n \in DOMAIN w /\ n \in 1..n /\ n > 0
      BY <1>1, <1>8
    <3>2. ByteOrDot(w, n) # "." /\ ByteOrDot(v, n) = "."
      BY <1>3, <1>6, <1>8, <3>1
    <3> QED
      BY <2>1, <3>1, <3>2
  <2>4. m = n
    BY <1>8, <2>2, <2>3
  <2>5. \A i \in 1..m : a[i] = b[i]
    <3> SUFFICES ASSUME NEW i \in 1..m PROVE a[i] = b[i]
      OBVIOUS
    <3>1. i \in DOMAIN v
      BY <1>1, <1>8
    <3>2. ByteOrDot(v, i) = v[i] /\ ByteOrDot(w, i) = w[i] /\ a[i] = small(v[i]) /\ b[i] = small(w[i])
      BY <1>4, <1>6, <2>4
    <3> QED
      BY <2>1, <3>1, <3>2
  <2> QED
    BY <1>4, <2>4, <2>5, SeqEqual
<1> QED
  BY <1>9, <1>10 DEF a, b
=============================================================================
