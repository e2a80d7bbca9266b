-------------------------- MODULE FromDomainProofs --------------------------
(***************************************************************************)
(* from_domain accepts exactly the single mailboxes, whatever the length   *)
(* of the value and however deep its comments.                             *)
(*                                                                         *)
(* The code makes three passes: it unfolds the value and takes comments    *)
(* out (Lex), trims and cuts what is left (Kept) by the marks it finds     *)
(* outside of quoted strings (Scan), and looks at the pieces.  The grammar *)
(* is a set of tables over the places of the value.  Between the two stand *)
(* places: Top(i) is one at which the scan is outside of everything,       *)
(* Follows(i, j) leads over one token, a byte or fold, a comment or a      *)
(* quoted string, to the next such place, RunOf(F, i, j) over a run of     *)
(* tokens in F.  Each table is shown to relate the places so, and so is    *)
(* what the code finds in Slice(i, j), the part of Kept between two of     *)
(* them.  At the core of it, comments and quoted strings of the grammar    *)
(* end where the scan leaves them (CommentsClose, QuotesClose), and the    *)
(* second scan, of text the first one has shortened, is at every byte in   *)
(* the mode the first one had there (ScanIs).                              *)
(***************************************************************************)
EXTENDS OwnDomain, SequenceLemmas, FiniteSetTheorems

-----------------------------------------------------------------------------
(* Tables: functions on 1..n whose value at a place depends on the places   *)
(* above it                                                                 *)

(* Induction from the last place down *)
LEMMA FromLast ==
    ASSUME NEW n \in Nat, NEW S, \A i \in 1..n : (\A j \in 1..n : j > i => j \in S) => i \in S
    PROVE  1..n \subseteq S
<1> DEFINE T == (1..n) \ S
<1>1. SUFFICES ASSUME T # {} PROVE FALSE
  OBVIOUS
<1>2. T \in SUBSET (0..n) /\ T \subseteq 1..n
  OBVIOUS
<1>3. PICK m : m = Max(T)
  OBVIOUS
<1>4. m \in T /\ \A y \in T : y <= m
  <2> HIDE DEF T
  <2> QED
    BY <1>1, <1>2, <1>3, MaxIsGreatest
<1>5. \A j \in 1..n : j > m => j \in S
  BY <1>4
<1> QED
  BY <1>4, <1>5

Tabled(f, n, S, G) == f \in [1..n -> S] /\ \A i \in 1..n : f[i] = G[i][f]

(* A table of that kind exists. *)
LEMMA TableFromLast ==
    ASSUME NEW n \in Nat, NEW S, S # {}, NEW G \in [1..n -> [[1..n -> S] -> S]],
           \A i \in 1..n : \A f, g \in [1..n -> S] :
               (\A j \in 1..n : j > i => f[j] = g[j]) => G[i][f] = G[i][g]
    PROVE  \E f : Tabled(f, n, S, G)
<1> DEFINE D == [1..n -> S]
           step == [k \in 1..n |-> [f \in D |-> [f EXCEPT ![n + 1 - k] = G[n + 1 - k][f]]]]
<1>1. PICK x : x \in S
  OBVIOUS
<1> DEFINE base == [i \in 1..n |-> x]
<1>2. base \in D
  BY <1>1
<1>3. step \in [1..n -> [D -> D]]
  <2> SUFFICES ASSUME NEW k \in 1..n, NEW f \in D
               PROVE  [f EXCEPT ![n + 1 - k] = G[n + 1 - k][f]] \in D
    OBVIOUS
  <2>1. n + 1 - k \in 1..n
    OBVIOUS
  <2>2. G[n + 1 - k][f] \in S
    BY <2>1
  <2> QED
    BY <2>1, <2>2
<1>4. PICK t : IsTrace(t, base, step, n, D)
  <2> HIDE DEF D, step, base
  <2> QED
    BY <1>2, <1>3, TraceExists
<1>5. t \in [0..n -> D] /\ \A k \in 1..n : t[k] = step[k][t[k - 1]]
  BY <1>4 DEF IsTrace
<1>6. ASSUME NEW k \in 1..n
      PROVE  /\ t[k] \in D /\ t[k - 1] \in D /\ n + 1 - k \in 1..n
             /\ t[k] = [t[k - 1] EXCEPT ![n + 1 - k] = G[n + 1 - k][t[k - 1]]]
  <2>1. k - 1 \in 0..n /\ k \in 0..n /\ n + 1 - k \in 1..n
    OBVIOUS
  <2>2. t[k] \in D /\ t[k - 1] \in D
    BY <1>5, <2>1
  <2> QED
    BY <1>5, <2>1, <2>2
<1> DEFINE Done == {k \in 0..n : \A i \in 1..n : i > n - k => t[k][i] = G[i][t[k]]}
<1>7. 0 \in Done
  OBVIOUS
<1>8. ASSUME NEW k \in 1..n, k - 1 \in Done PROVE k \in Done
  <2> DEFINE f == t[k - 1]
             g == t[k]
             m == n + 1 - k
  <2>1. f \in D /\ g \in D /\ m \in 1..n /\ g = [f EXCEPT ![m] = G[m][f]]
    BY <1>6
  <2>2. \A i \in 1..n : i > m => f[i] = G[i][f]
    BY <1>8
  <2> HIDE DEF f, g
  <2>3. \A i \in 1..n : i # m => g[i] = f[i]
    BY <2>1
  <2>4. g[m] = G[m][f]
    BY <2>1
  <2>5. ASSUME NEW i \in 1..n, i >= m PROVE g[i] = G[i][g]
    <3>1. \A j \in 1..n : j > i => f[j] = g[j]
      BY <2>1, <2>3, <2>5
    <3>2. G[i][f] = G[i][g]
      <4>1. f \in [1..n -> S] /\ g \in [1..n -> S]
        BY <2>1
      <4> QED
        BY <4>1, <3>1, Zenon
    <3>3. CASE i = m
      BY <2>4, <3>2, <3>3
    <3>4. CASE i # m
      BY <2>1, <2>2, <2>3, <2>5, <3>2, <3>4
    <3> QED
      BY <3>3, <3>4
  <2>6. \A i \in 1..n : i > n - k => i >= m
    BY DEF m
  <2> QED
    BY <2>5, <2>6 DEF g
<1>9. 0..n \subseteq Done
  <2> HIDE DEF Done
  <2> QED
    BY <1>7, <1>8, UpTo
<1>10. t[n] \in D /\ \A i \in 1..n : t[n][i] = G[i][t[n]]
  <2>1. n \in Done /\ n \in 0..n
    BY <1>9
  <2> QED
    BY <1>5, <2>1
<1> QED
  BY <1>10 DEF Tabled

-----------------------------------------------------------------------------
(* The combinators of the grammar *)

(* The classes of bytes a From value may have *)
FromBytes == {"a", "A", "-", "!", ".", "@", "<", ">", ",", "(", ")", Quote, Escape, SP, TAB, CR, LF, "ctl"}

N == Len(value)
Tables == [Places -> SUBSET Places]

(* The places, by number. *)
LEMMA PlacesAre ==
    ASSUME value \in Seq(FromBytes)
    PROVE  N \in Nat /\ Places = 1..(N + 1)
  BY LenProperties DEF N, Places

(* SubSeq leaves a table as it is. *)
LEMMA TableIs ==
    ASSUME value \in Seq(FromBytes), NEW f \in Tables
    PROVE  Table(f) = f
<1>1. N \in Nat /\ Places = 1..(N + 1) /\ N + 1 \in Nat
  BY PlacesAre
<1>2. f \in Seq(SUBSET Places) /\ Len(f) = N + 1
  BY <1>1, TableIsSeq DEF Tables
<1>3. SubSeq(f, 1, Len(f)) = f
  BY <1>2, WholePrefix
<1> QED
  BY <1>2, <1>3 DEF Table, N

(* Byte leads over one byte of S. *)
LEMMA ByteIs ==
    ASSUME value \in Seq(FromBytes), NEW S
    PROVE  /\ Byte(S) \in Tables
           /\ \A i, j \in Places : j \in Byte(S)[i] <=> i <= N /\ value[i] \in S /\ j = i + 1
<1> DEFINE f == [i \in Places |-> IF i <= Len(value) /\ value[i] \in S THEN {i + 1} ELSE {}]
<1>1. f \in Tables
  BY PlacesAre DEF N, Tables
<1>2. Byte(S) = f
  <2>1. Byte(S) = Table(f)
    BY DEF Byte
  <2> HIDE DEF f
  <2> QED
    BY <1>1, <2>1, TableIs
<1> QED
  BY <1>1, <1>2 DEF N

(* Then composes the relations of two tables. *)
LEMMA ThenIs ==
    ASSUME value \in Seq(FromBytes), NEW A \in Tables, NEW B \in Tables
    PROVE  /\ Then(A, B) \in Tables
           /\ \A i, k \in Places : k \in Then(A, B)[i] <=> \E j \in Places : j \in A[i] /\ k \in B[j]
<1> DEFINE f == [i \in Places |-> UNION {B[j] : j \in A[i]}]
<1>0. /\ \A i \in Places : A[i] \subseteq Places
      /\ \A i \in Places : B[i] \subseteq Places
  BY DEF Tables
<1>1. ASSUME NEW i \in Places PROVE UNION {B[j] : j \in A[i]} \subseteq Places
  BY <1>0
<1>2. f \in Tables
  BY <1>1 DEF Tables
<1>3. Then(A, B) = f
  <2>1. Then(A, B) = Table(f)
    BY DEF Then
  <2> HIDE DEF f
  <2> QED
    BY <1>2, <2>1, TableIs
<1>4. ASSUME NEW i \in Places, NEW k \in Places
      PROVE  k \in UNION {B[j] : j \in A[i]} <=> \E j \in Places : j \in A[i] /\ k \in B[j]
  BY <1>0
<1> QED
  BY <1>2, <1>3, <1>4

(* Or unites them. *)
LEMMA OrIs ==
    ASSUME value \in Seq(FromBytes), NEW A \in Tables, NEW B \in Tables
    PROVE  /\ Or(A, B) \in Tables
           /\ \A i, k \in Places : k \in Or(A, B)[i] <=> k \in A[i] \/ k \in B[i]
<1> DEFINE f == [i \in Places |-> A[i] \cup B[i]]
<1>1. f \in Tables
  BY DEF Tables
<1>2. Or(A, B) = f
  <2>1. Or(A, B) = Table(f)
    BY DEF Or
  <2> HIDE DEF f
  <2> QED
    BY <1>1, <2>1, TableIs
<1> QED
  BY <1>1, <1>2

(* A phrase is never empty. *)
Moves(A) == \A i, j \in Places : j \in A[i] => j > i

(* The recursive function of Many exists, and leads over any number of      *)
(* steps of a table that moves on.                                          *)
LEMMA ManyIs ==
    ASSUME value \in Seq(FromBytes), NEW A \in Tables, Moves(A)
    PROVE  /\ Many(A) \in Tables
           /\ \A i, k \in Places : k \in Many(A)[i] <=>
                 k = i \/ \E j \in Places : j \in A[i] /\ k \in Many(A)[j]
<1> DEFINE n == N + 1
           S == SUBSET Places
           R(f) == f = [i \in Places |-> {i} \cup UNION {f[j] : j \in A[i]}]
           G == [i \in 1..n |-> [f \in [1..n -> S] |-> {i} \cup UNION {f[j] : j \in A[i]}]]
           reach == CHOOSE f : R(f)
<1>1. n \in Nat /\ Places = 1..n /\ S # {}
  <2>1. n \in Nat /\ Places = 1..n
    BY PlacesAre
  <2>2. {} \in S
    OBVIOUS
  <2> QED
    BY <2>1, <2>2
<1>2. /\ \A i \in 1..n : A[i] \subseteq 1..n
      /\ \A i, j \in 1..n : j \in A[i] => j > i
  BY <1>1 DEF Tables, Moves
<1>3. \A i \in 1..n, f \in [1..n -> S] : {i} \cup UNION {f[j] : j \in A[i]} \in S
  BY <1>1, <1>2
<1>4. G \in [1..n -> [[1..n -> S] -> S]]
  BY <1>3
<1>5. \A i \in 1..n, f \in [1..n -> S] : G[i][f] = {i} \cup UNION {f[j] : j \in A[i]}
  OBVIOUS
<1> HIDE DEF G
<1>6. ASSUME NEW i \in 1..n, NEW f \in [1..n -> S], NEW g \in [1..n -> S],
             \A j \in 1..n : j > i => f[j] = g[j]
      PROVE  G[i][f] = G[i][g]
  <2>1. \A j \in A[i] : f[j] = g[j]
    BY <1>2, <1>6
  <2>2. {f[j] : j \in A[i]} = {g[j] : j \in A[i]}
    BY <2>1
  <2> QED
    BY <1>5, <2>2
<1>7. PICK f : Tabled(f, n, S, G)
  <2> HIDE DEF n, S
  <2> QED
    BY <1>1, <1>4, <1>6, TableFromLast
<1>8. f \in [1..n -> S] /\ \A i \in 1..n : f[i] = {i} \cup UNION {f[j] : j \in A[i]}
  BY <1>5, <1>7 DEF Tabled
<1>9. R(f)
  BY <1>1, <1>8
<1>10. R(reach)
  BY <1>9, Zenon
<1>11. Many(A) = Table(reach)
  BY DEF Many
<1> HIDE DEF reach
<1>12. reach \in Tables
  <2> DEFINE I == {i \in 1..n : reach[i] \in S}
  <2>1. ASSUME NEW i \in 1..n, \A j \in 1..n : j > i => j \in I PROVE i \in I
    <3>1. \A j \in A[i] : reach[j] \in S
      BY <1>2, <2>1
    <3>2. reach[i] = {i} \cup UNION {reach[j] : j \in A[i]}
      BY <1>1, <1>10
    <3>3. reach[i] \in S
      BY <1>1, <3>1, <3>2
    <3> QED
      BY <3>3
  <2>2. 1..n \subseteq I
    <3> HIDE DEF I, n
    <3> QED
      BY <1>1, <2>1, FromLast
  <2> QED
    BY <1>1, <1>10, <2>2 DEF Tables
<1>13. Many(A) = reach
  BY <1>11, <1>12, TableIs
<1>14. ASSUME NEW i \in Places, NEW k \in Places
       PROVE  k \in reach[i] <=> k = i \/ \E j \in Places : j \in A[i] /\ k \in reach[j]
  <2>1. reach[i] = {i} \cup UNION {reach[j] : j \in A[i]}
    BY <1>10
  <2>2. A[i] \subseteq Places
    BY DEF Tables
  <2> QED
    BY <2>1, <2>2
<1> QED
  BY <1>12, <1>13, <1>14

(* What follows the bracket that opens a comment *)
CommentText == Or(Byte(Printable \ {"(", ")", Escape}), Or(Space(WSP), Pair(WSP)))

IsInside(f) ==
    /\ f \in Tables /\ Moves(f)
    /\ \A i, k \in Places :
          k \in f[i] <=> \/ k \in Byte({")"})[i]
                         \/ \E j \in Places : j \in CommentText[i] /\ k \in f[j]
                         \/ \E m, j \in Places : m \in Byte({"("})[i] /\ j \in f[m] /\ k \in f[j]

(* The recursive function of Comment exists, with what it is at each place. *)
LEMMA CommentIs ==
    ASSUME value \in Seq(FromBytes), CommentText \in Tables, Moves(CommentText)
    PROVE  \E f : IsInside(f) /\ Comment = Then(Byte({"("}), f)
<1> DEFINE n == N + 1
           S == SUBSET Places
           open == Byte({"("})
           close == Byte({")"})
           R(f) == f = [i \in Places |->
                          close[i] \cup UNION {f[j] : j \in CommentText[i]
                                                          \cup UNION {f[k] : k \in open[i]}}]
           Next(f, i) == {j \in CommentText[i] \cup UNION {f[k] : k \in open[i]} : j > i}
           G == [i \in 1..n |-> [f \in [1..n -> S] |->
                    close[i] \cup UNION {f[j] : j \in Next(f, i)}]]
           inside == CHOOSE f : R(f)
<1>1. n \in Nat /\ Places = 1..n /\ S # {}
  <2>1. n \in Nat /\ Places = 1..n
    BY PlacesAre
  <2>2. {} \in S
    OBVIOUS
  <2> QED
    BY <2>1, <2>2
<1>2. /\ \A i \in 1..n : CommentText[i] \subseteq 1..n /\ open[i] \subseteq 1..n /\ close[i] \subseteq 1..n
      /\ \A i, j \in 1..n : j \in CommentText[i] \/ j \in open[i] \/ j \in close[i] => j > i
  <2>1. open \in Tables /\ close \in Tables
    BY ByteIs
  <2>2. \A i \in 1..n : CommentText[i] \subseteq 1..n /\ open[i] \subseteq 1..n /\ close[i] \subseteq 1..n
    BY <1>1, <2>1 DEF Tables
  <2>3. \A i, j \in 1..n : j \in open[i] \/ j \in close[i] => j > i
    BY <1>1, ByteIs
  <2>4. \A i, j \in 1..n : j \in CommentText[i] => j > i
    BY <1>1 DEF Moves
  <2> QED
    BY <2>2, <2>3, <2>4
<1>o. /\ \A i, k \in Places : k \in open[i] <=> k \in Byte({"("})[i]
      /\ \A i, k \in Places : k \in close[i] <=> k \in Byte({")"})[i]
  OBVIOUS
<1>c. Comment = Then(Byte({"("}), Table(inside))
  BY DEF Comment, CommentText
<1> HIDE DEF open, close
<1>3. \A i \in 1..n, f \in [1..n -> S] :
         Next(f, i) \subseteq 1..n /\ close[i] \cup UNION {f[j] : j \in Next(f, i)} \in S
  <2> SUFFICES ASSUME NEW i \in 1..n, NEW f \in [1..n -> S]
               PROVE  Next(f, i) \subseteq 1..n /\ close[i] \cup UNION {f[j] : j \in Next(f, i)} \in S
    OBVIOUS
  <2>1. \A k \in 1..n : f[k] \subseteq 1..n
    BY <1>1
  <2>2. UNION {f[k] : k \in open[i]} \subseteq 1..n
    BY <1>2, <2>1
  <2>3. Next(f, i) \subseteq 1..n
    BY <1>2, <2>2
  <2> HIDE DEF Next
  <2>4. UNION {f[j] : j \in Next(f, i)} \subseteq 1..n
    BY <2>1, <2>3
  <2> QED
    BY <1>1, <1>2, <2>3, <2>4
<1>4. G \in [1..n -> [[1..n -> S] -> S]]
  <2> HIDE DEF Next, S
  <2> QED
    BY <1>3
<1>5. \A i \in 1..n, f \in [1..n -> S] : G[i][f] = close[i] \cup UNION {f[j] : j \in Next(f, i)}
  OBVIOUS
<1> HIDE DEF G
<1>6. ASSUME NEW i \in 1..n, NEW f \in [1..n -> S], NEW g \in [1..n -> S],
             \A j \in 1..n : j > i => f[j] = g[j]
      PROVE  G[i][f] = G[i][g]
  <2>1. \A j \in open[i] : f[j] = g[j]
    BY <1>2, <1>6
  <2>2. {f[j] : j \in open[i]} = {g[j] : j \in open[i]}
    BY <2>1
  <2>3. Next(f, i) = Next(g, i)
    BY <2>2
  <2>4. \A j \in Next(f, i) : f[j] = g[j]
    <3>1. \A j \in Next(f, i) : j > i
      OBVIOUS
    <3>2. Next(f, i) \subseteq 1..n
      BY <1>3
    <3> QED
      BY <1>6, <3>1, <3>2
  <2> HIDE DEF Next
  <2>5. {f[j] : j \in Next(f, i)} = {g[j] : j \in Next(f, i)}
    BY <2>4
  <2> HIDE DEF S
  <2>6. /\ G[i][f] = close[i] \cup UNION {f[j] : j \in Next(f, i)}
        /\ G[i][g] = close[i] \cup UNION {g[j] : j \in Next(g, i)}
    BY <1>5
  <2>7. UNION {f[j] : j \in Next(f, i)} = UNION {g[j] : j \in Next(g, i)}
    BY <2>3, <2>5
  <2> QED
    BY <2>6, <2>7
<1>7. PICK f : Tabled(f, n, S, G)
  <2> HIDE DEF n, S
  <2> QED
    BY <1>1, <1>4, <1>6, TableFromLast
<1>8. f \in [1..n -> S] /\ \A i \in 1..n : f[i] = close[i] \cup UNION {f[j] : j \in Next(f, i)}
  BY <1>5, <1>7 DEF Tabled
<1>9. ASSUME NEW g, R(g) \/ (\A i \in Places : g[i] = close[i] \cup UNION {g[j] : j \in Next(g, i)})
      PROVE  \A i, j \in Places : g[i] \subseteq Places /\ (j \in g[i] => j > i)
  <2> DEFINE I == {i \in 1..n : g[i] \subseteq {j \in 1..n : j > i}}
  <2>1. ASSUME NEW i \in 1..n, \A j \in 1..n : j > i => j \in I PROVE i \in I
    <3>1. \A j \in 1..n : j > i => g[j] \subseteq {k \in 1..n : k > i}
      <4> SUFFICES ASSUME NEW j \in 1..n, j > i PROVE g[j] \subseteq {k \in 1..n : k > i}
        OBVIOUS
      <4>1. g[j] \subseteq {k \in 1..n : k > j}
        BY <2>1
      <4>2. \A k \in 1..n : k > j => k > i
        BY <1>1
      <4> QED
        BY <4>1, <4>2
    <3>2. UNION {g[k] : k \in open[i]} \subseteq {k \in 1..n : k > i}
      BY <1>2, <3>1
    <3> DEFINE next == CommentText[i] \cup UNION {g[k] : k \in open[i]}
    <3>3. next \subseteq {k \in 1..n : k > i}
      BY <1>2, <3>2
    <3>4. Next(g, i) = next
      BY <3>3
    <3>5. g[i] = close[i] \cup UNION {g[j] : j \in next}
      <4>1. CASE R(g)
        BY <1>1, <4>1
      <4>2. CASE \A m \in Places : g[m] = close[m] \cup UNION {g[j] : j \in Next(g, m)}
        <5> HIDE DEF Next, next
        <5> QED
          BY <1>1, <4>2, <3>4
      <4> QED
        BY <1>9, <4>1, <4>2
    <3> HIDE DEF next
    <3>6. UNION {g[j] : j \in next} \subseteq {k \in 1..n : k > i}
      BY <3>1, <3>3
    <3>7. close[i] \subseteq {k \in 1..n : k > i}
      BY <1>2
    <3> QED
      BY <3>5, <3>6, <3>7
  <2>2. 1..n \subseteq I
    <3> HIDE DEF I, n
    <3> QED
      BY <1>1, <2>1, FromLast
  <2> QED
    BY <1>1, <2>2
<1>10. R(f)
  <2>1. \A i \in Places : f[i] = close[i] \cup UNION {f[j] : j \in Next(f, i)}
    BY <1>1, <1>8
  <2>2. \A i, j \in Places : f[i] \subseteq Places /\ (j \in f[i] => j > i)
    BY <1>9, <2>1
  <2>3. ASSUME NEW i \in Places
        PROVE  Next(f, i) = CommentText[i] \cup UNION {f[k] : k \in open[i]}
    <3>1. \A k \in open[i] : k \in Places /\ k > i
      BY <1>1, <1>2
    <3>2. \A k \in open[i] : \A j \in f[k] : j \in Places /\ j > k
      BY <2>2, <3>1
    <3>3. \A k \in open[i] : \A j \in f[k] : j > i
      BY <1>1, <3>1, <3>2
    <3>4. \A j \in CommentText[i] : j > i
      BY <1>1, <1>2
    <3>5. \A j \in UNION {f[k] : k \in open[i]} : j > i
      BY <3>3
    <3> QED
      BY <3>4, <3>5
  <2>4. \A i \in Places : f[i] = close[i] \cup UNION {f[j] : j \in CommentText[i]
                                                         \cup UNION {f[k] : k \in open[i]}}
    <3> HIDE DEF Next
    <3> QED
      BY <2>1, <2>3
  <2>5. f = [i \in Places |-> f[i]]
    BY <1>1, <1>8
  <2> QED
    BY <2>4, <2>5
<1>11. R(inside)
  BY <1>10, Zenon
<1> HIDE DEF inside
<1>12. \A i, j \in Places : inside[i] \subseteq Places /\ (j \in inside[i] => j > i)
  BY <1>9, <1>11
<1>13. inside \in Tables
  BY <1>11, <1>12 DEF Tables
<1>14. ASSUME NEW i \in Places, NEW k \in Places
       PROVE  k \in inside[i] <=>
                \/ k \in close[i]
                \/ \E j \in Places : j \in CommentText[i] /\ k \in inside[j]
                \/ \E m, j \in Places : m \in open[i] /\ j \in inside[m] /\ k \in inside[j]
  <2> DEFINE more == UNION {inside[m] : m \in open[i]}
             next == CommentText[i] \cup more
  <2>1. inside[i] = close[i] \cup UNION {inside[j] : j \in next}
    BY <1>11
  <2>2. open[i] \subseteq Places /\ CommentText[i] \subseteq Places
    BY <1>1, <1>2
  <2>3. \A j : j \in more <=> \E m \in Places : m \in open[i] /\ j \in inside[m]
    BY <2>2
  <2>4. \A j \in more : j \in Places
    BY <1>12, <2>3
  <2> HIDE DEF more
  <2>5. \A j : j \in next <=> j \in CommentText[i] \/ j \in more
    OBVIOUS
  <2> HIDE DEF next
  <2>6. k \in UNION {inside[j] : j \in next} <=> \E j \in next : k \in inside[j]
    OBVIOUS
  <2>7. k \in inside[i] <=> k \in close[i] \/ \E j \in next : k \in inside[j]
    BY <2>1, <2>6
  <2> QED
    BY <2>2, <2>3, <2>4, <2>5, <2>7
<1>15. IsInside(inside)
  BY <1>12, <1>13, <1>14, <1>o DEF IsInside, Moves
<1>16. Table(inside) = inside
  BY <1>13, TableIs
<1> QED
  BY <1>15, <1>16, <1>c

(* The bytes, told apart *)
LEMMA Bytes ==
    /\ Printable \subseteq FromBytes /\ WSP \subseteq FromBytes /\ WSP \subseteq White
    /\ White = WSP \cup {CR, LF}
    /\ CR \notin Printable /\ LF \notin Printable /\ "ctl" \notin Printable
    /\ CR \notin WSP /\ LF \notin WSP /\ "ctl" \notin WSP /\ CR # LF /\ "ctl" # CR /\ "ctl" # LF
    /\ FromBytes = Printable \cup WSP \cup {CR, LF, "ctl"}
    /\ Printable \cap White = {} /\ SP # TAB
    /\ {"(", ")", "<", ">", "@", ",", ".", "a", "A", "-", "!", Quote, Escape} = Printable
    /\ Quote \notin {"(", ")", "<", ">", "@", ",", ".", "a", "A", "-", "!", Escape}
    /\ Escape \notin {"(", ")", "<", ">", "@", ",", ".", "a", "A", "-", "!", Quote}
  BY DEF FromBytes, Printable, WSP, White, CR, LF, SP, TAB, Quote, Escape

(* One byte of S, or a fold whose white space is in S *)
Item(i, j, S) ==
    /\ i \in Places /\ j \in Places
    /\ \/ i <= N /\ value[i] \in S /\ j = i + 1
       \/ i + 2 <= N /\ value[i] = CR /\ value[i + 1] = LF /\ value[i + 2] \in S \cap WSP /\ j = i + 3

(* Text or white space that is not in X, or a pair *)
Textual(i, j, X, S) ==
    \/ Item(i, j, (Printable \ X) \cup WSP)
    \/ i \in Places /\ i <= N /\ value[i] = Escape /\ Item(i + 1, j, Printable \cup S)

(* Space leads over white space, folded or not. *)
LEMMA SpaceIs ==
    ASSUME value \in Seq(FromBytes), NEW S, S \subseteq WSP
    PROVE  /\ Space(S) \in Tables
           /\ \A i, j \in Places : j \in Space(S)[i] <=> Item(i, j, S)
<1>1. N \in Nat /\ Places = 1..(N + 1)
  BY PlacesAre
<1> DEFINE A == Byte(S)
           B == Byte({CR})
           C == Byte({LF})
           D == Then(C, A)
           E == Then(B, D)
<1>2. A \in Tables /\ B \in Tables /\ C \in Tables
  BY ByteIs
<1>3. D \in Tables /\ E \in Tables /\ Or(A, E) \in Tables
  <2> HIDE DEF A, B, C
  <2>1. D \in Tables
    BY <1>2, ThenIs
  <2> HIDE DEF D
  <2>2. E \in Tables
    BY <1>2, <2>1, ThenIs
  <2> HIDE DEF E
  <2> QED
    BY <1>2, <2>1, <2>2, OrIs
<1>4. \A i, j \in Places : j \in A[i] <=> i <= N /\ value[i] \in S /\ j = i + 1
  BY ByteIs
<1>5. \A i, j \in Places : j \in D[i] <=> i + 1 <= N /\ value[i] = LF /\ value[i + 1] \in S /\ j = i + 2
  <2> SUFFICES ASSUME NEW i \in Places, NEW j \in Places
               PROVE  j \in D[i] <=> i + 1 <= N /\ value[i] = LF /\ value[i + 1] \in S /\ j = i + 2
    OBVIOUS
  <2>1. j \in D[i] <=> \E m \in Places : m \in C[i] /\ j \in A[m]
    <3> HIDE DEF A, C
    <3> QED
      BY <1>2, ThenIs
  <2>2. \A m \in Places : m \in C[i] <=> i <= N /\ value[i] = LF /\ m = i + 1
    BY ByteIs
  <2> HIDE DEF A, C
  <2> QED
    BY <1>1, <1>4, <2>1, <2>2
<1>6. \A i, j \in Places : j \in E[i] <=> i + 2 <= N /\ value[i] = CR /\ value[i + 1] = LF
                                         /\ value[i + 2] \in S /\ j = i + 3
  <2> SUFFICES ASSUME NEW i \in Places, NEW j \in Places
               PROVE  j \in E[i] <=> i + 2 <= N /\ value[i] = CR /\ value[i + 1] = LF
                                     /\ value[i + 2] \in S /\ j = i + 3
    OBVIOUS
  <2>1. j \in E[i] <=> \E m \in Places : m \in B[i] /\ j \in D[m]
    <3> HIDE DEF B, D
    <3> QED
      BY <1>2, <1>3, ThenIs
  <2>2. \A m \in Places : m \in B[i] <=> i <= N /\ value[i] = CR /\ m = i + 1
    BY ByteIs
  <2> HIDE DEF B, D
  <2>3. j \in E[i] <=> i <= N /\ value[i] = CR /\ j \in D[i + 1]
    BY <1>1, <2>1, <2>2
  <2>4. ASSUME i <= N
        PROVE  j \in D[i + 1] <=> i + 2 <= N /\ value[i + 1] = LF /\ value[i + 2] \in S /\ j = i + 3
    <3>1. PICK m : m = i + 1
      OBVIOUS
    <3>2. m \in Places /\ m + 1 = i + 2 /\ m + 2 = i + 3
      BY <1>1, <2>4, <3>1
    <3>3. j \in D[m] <=> m + 1 <= N /\ value[m] = LF /\ value[m + 1] \in S /\ j = m + 2
      BY <1>5, <3>2
    <3> QED
      BY <3>1, <3>2, <3>3
  <2> QED
    BY <1>1, <2>3, <2>4
<1>7. Space(S) = Or(A, E)
  BY DEF Space
<1> HIDE DEF A, E
<1>8. \A i, j \in Places : j \in Or(A, E)[i] <=> j \in A[i] \/ j \in E[i]
  BY <1>2, <1>3, OrIs
<1> QED
  BY <1>1, <1>3, <1>4, <1>6, <1>7, <1>8 DEF Item

(* Pair leads over an escape and the item after it. *)
LEMMA PairIs ==
    ASSUME value \in Seq(FromBytes), NEW S, S \subseteq WSP
    PROVE  /\ Pair(S) \in Tables
           /\ \A i, j \in Places : j \in Pair(S)[i] <=>
                 i <= N /\ value[i] = Escape /\ Item(i + 1, j, Printable \cup S)
<1> DEFINE A == Byte({Escape})
           B == Byte(Printable)
           C == Space(S)
           D == Or(B, C)
<1>1. N \in Nat /\ Places = 1..(N + 1)
  BY PlacesAre
<1>2. A \in Tables /\ B \in Tables /\ C \in Tables
  BY ByteIs, SpaceIs
<1>3. \A i, j \in Places : j \in A[i] <=> i <= N /\ value[i] = Escape /\ j = i + 1
  BY ByteIs
<1>4. \A i, j \in Places : j \in B[i] <=> i <= N /\ value[i] \in Printable /\ j = i + 1
  BY ByteIs
<1>5. \A i, j \in Places : j \in C[i] <=> Item(i, j, S)
  BY SpaceIs
<1>6. Pair(S) = Then(A, D)
  BY DEF Pair
<1> HIDE DEF A, B, C
<1>7. D \in Tables /\ \A i, j \in Places : j \in D[i] <=> j \in B[i] \/ j \in C[i]
  BY <1>2, OrIs
<1>8. \A i, j \in Places : j \in D[i] <=> Item(i, j, Printable \cup S)
  <2> SUFFICES ASSUME NEW i \in Places, NEW j \in Places
               PROVE  j \in D[i] <=> Item(i, j, Printable \cup S)
    OBVIOUS
  <2>1. j \in D[i] <=> (i <= N /\ value[i] \in Printable /\ j = i + 1) \/ Item(i, j, S)
    BY <1>4, <1>5, <1>7
  <2>2. (Printable \cup S) \cap WSP = S \cap WSP
    BY Bytes
  <2> QED
    BY <2>1, <2>2 DEF Item
<1> HIDE DEF D
<1>9. Then(A, D) \in Tables
      /\ \A i, j \in Places : j \in Then(A, D)[i] <=> \E m \in Places : m \in A[i] /\ j \in D[m]
  BY <1>2, <1>7, ThenIs
<1>10. \A i, j \in Places : j \in Then(A, D)[i] <=>
          i <= N /\ value[i] = Escape /\ Item(i + 1, j, Printable \cup S)
  <2> SUFFICES ASSUME NEW i \in Places, NEW j \in Places
               PROVE  j \in Then(A, D)[i] <=>
                        i <= N /\ value[i] = Escape /\ Item(i + 1, j, Printable \cup S)
    OBVIOUS
  <2>1. j \in Then(A, D)[i] <=> i <= N /\ value[i] = Escape /\ j \in D[i + 1]
    BY <1>1, <1>3, <1>9
  <2>2. ASSUME i <= N PROVE j \in D[i + 1] <=> Item(i + 1, j, Printable \cup S)
    <3>1. i + 1 \in Places
      BY <1>1, <2>2
    <3> QED
      BY <1>8, <3>1
  <2> QED
    BY <2>1, <2>2
<1> QED
  BY <1>6, <1>9, <1>10

(* The text of comments and quoted strings. *)
LEMMA TextIs ==
    ASSUME value \in Seq(FromBytes), NEW X, NEW S, S \subseteq WSP
    PROVE  /\ Or(Byte(Printable \ X), Or(Space(WSP), Pair(S))) \in Tables
           /\ \A i, j \in Places :
                 j \in Or(Byte(Printable \ X), Or(Space(WSP), Pair(S)))[i] <=> Textual(i, j, X, S)
<1> DEFINE A == Byte(Printable \ X)
           B == Space(WSP)
           C == Pair(S)
           D == Or(B, C)
<1>1. N \in Nat /\ Places = 1..(N + 1)
  BY PlacesAre
<1>2. A \in Tables /\ B \in Tables /\ C \in Tables
  BY ByteIs, SpaceIs, PairIs
<1>3. \A i, j \in Places : j \in A[i] <=> i <= N /\ value[i] \in Printable \ X /\ j = i + 1
  BY ByteIs
<1>4. \A i, j \in Places : j \in B[i] <=> Item(i, j, WSP)
  BY SpaceIs
<1>5. \A i, j \in Places : j \in C[i] <=>
          i <= N /\ value[i] = Escape /\ Item(i + 1, j, Printable \cup S)
  BY PairIs
<1> HIDE DEF A, B, C
<1>6. D \in Tables /\ \A i, j \in Places : j \in D[i] <=> j \in B[i] \/ j \in C[i]
  BY <1>2, OrIs
<1> HIDE DEF D
<1>7. Or(A, D) \in Tables /\ \A i, j \in Places : j \in Or(A, D)[i] <=> j \in A[i] \/ j \in D[i]
  BY <1>2, <1>6, OrIs
<1>8. \A i, j \in Places : j \in Or(A, D)[i] <=> Textual(i, j, X, S)
  <2> SUFFICES ASSUME NEW i \in Places, NEW j \in Places
               PROVE  j \in Or(A, D)[i] <=> Textual(i, j, X, S)
    OBVIOUS
  <2>1. j \in Or(A, D)[i] <=> j \in A[i] \/ Item(i, j, WSP) \/
          (i <= N /\ value[i] = Escape /\ Item(i + 1, j, Printable \cup S))
    BY <1>4, <1>5, <1>6, <1>7
  <2>2. Item(i, j, (Printable \ X) \cup WSP) <=> j \in A[i] \/ Item(i, j, WSP)
    BY <1>1, <1>3, Bytes DEF Item
  <2> QED
    BY <2>1, <2>2 DEF Textual
<1> QED
  BY <1>7, <1>8 DEF A, B, C, D

-----------------------------------------------------------------------------
(* Every phrase covers a part of the value that unfolds.                    *)

Clean(i, j) ==
    /\ i <= j
    /\ \A m \in i..(j - 1) :
          /\ value[m] # "ctl"
          /\ value[m] = CR => m + 2 < j /\ value[m + 1] = LF /\ value[m + 2] \in WSP
          /\ value[m] = LF => m > i /\ value[m - 1] = CR

Good(A) == A \in Tables /\ \A i, j \in Places : j \in A[i] => Clean(i, j)

(* Two adjacent parts that unfold make one that does. *)
LEMMA CleanJoins ==
    ASSUME NEW i \in Nat, NEW j \in Nat, NEW k \in Nat, Clean(i, j), Clean(j, k)
    PROVE  Clean(i, k)
  BY DEF Clean

(* An item is read whole, with its fold. *)
LEMMA ItemIsClean ==
    ASSUME value \in Seq(FromBytes), NEW i, NEW j, NEW S, S \subseteq Printable \cup WSP, Item(i, j, S)
    PROVE  i \in Nat /\ j \in Nat /\ i < j /\ Clean(i, j)
<1>1. i \in Nat /\ j \in Nat /\ N \in Nat
  BY PlacesAre DEF Item
<1>2. CASE i <= N /\ value[i] \in S /\ j = i + 1
  <2>1. value[i] \in Printable \cup WSP /\ value[i] # CR /\ value[i] # LF /\ value[i] # "ctl"
    BY <1>2, Bytes
  <2>2. \A m \in i..(j - 1) : m = i
    BY <1>1, <1>2
  <2> QED
    BY <1>1, <1>2, <2>1, <2>2 DEF Clean
<1>3. CASE i + 2 <= N /\ value[i] = CR /\ value[i + 1] = LF /\ value[i + 2] \in S \cap WSP /\ j = i + 3
  <2>1. value[i + 2] \in WSP /\ value[i + 2] # CR /\ value[i + 2] # LF /\ value[i + 2] # "ctl"
    BY <1>3, Bytes
  <2>2. \A m \in i..(j - 1) : m = i \/ m = i + 1 \/ m = i + 2
    BY <1>1, <1>3
  <2>3. value[i] # LF /\ value[i] # "ctl" /\ value[i + 1] # CR /\ value[i + 1] # "ctl"
    BY <1>3, Bytes
  <2>4. ASSUME NEW m \in i..(j - 1)
        PROVE  /\ value[m] # "ctl"
               /\ value[m] = CR => m + 2 < j /\ value[m + 1] = LF /\ value[m + 2] \in WSP
               /\ value[m] = LF => m > i /\ value[m - 1] = CR
    <3>1. CASE m = i
      BY <1>1, <1>3, <2>1, <2>3, <3>1
    <3>2. CASE m = i + 1
      <4>1. m - 1 = i /\ m > i
        BY <1>1, <3>2
      <4> QED
        BY <1>3, <2>3, <3>2, <4>1
    <3>3. CASE m = i + 2
      BY <2>1, <3>3
    <3> QED
      BY <2>2, <3>1, <3>2, <3>3
  <2> QED
    BY <1>1, <1>3, <2>4 DEF Clean
<1> QED
  BY <1>1, <1>2, <1>3 DEF Item

(* So is text, be it a pair. *)
LEMMA TextIsClean ==
    ASSUME value \in Seq(FromBytes), NEW i, NEW j, NEW X, NEW S, S \subseteq WSP,
           Textual(i, j, X, S)
    PROVE  i \in Nat /\ j \in Nat /\ i < j /\ Clean(i, j)
<1>1. CASE Item(i, j, (Printable \ X) \cup WSP)
  <2>1. (Printable \ X) \cup WSP \subseteq Printable \cup WSP
    OBVIOUS
  <2> QED
    BY <1>1, <2>1, ItemIsClean
<1>2. CASE i \in Places /\ i <= N /\ value[i] = Escape /\ Item(i + 1, j, Printable \cup S)
  <2>1. Printable \cup S \subseteq Printable \cup WSP
    OBVIOUS
  <2>2. i \in Nat
    BY <1>2, PlacesAre
  <2>3. i + 1 \in Nat /\ j \in Nat /\ i + 1 < j /\ Clean(i + 1, j)
    BY <1>2, <2>1, ItemIsClean
  <2>4. value[i] # CR /\ value[i] # LF /\ value[i] # "ctl"
    BY <1>2 DEF Escape, CR, LF
  <2>5. Clean(i, i + 1)
    BY <2>2, <2>4 DEF Clean
  <2> QED
    BY <2>2, <2>3, <2>5, CleanJoins
<1> QED
  BY <1>1, <1>2 DEF Textual

(* A printable byte is no line end. *)
LEMMA GoodByte ==
    ASSUME value \in Seq(FromBytes), NEW S, S \subseteq Printable
    PROVE  Good(Byte(S)) /\ Moves(Byte(S))
<1>1. \A i, j \in Places : j \in Byte(S)[i] <=> i <= N /\ value[i] \in S /\ j = i + 1
  BY ByteIs
<1>2. Byte(S) \in Tables
  BY ByteIs
<1>3. ASSUME NEW i \in Places, NEW j \in Places, j \in Byte(S)[i]
      PROVE  j > i /\ Clean(i, j)
  <2>1. Item(i, j, S)
    BY <1>1, <1>3 DEF Item
  <2> QED
    BY <2>1, ItemIsClean
<1> QED
  BY <1>2, <1>3 DEF Good, Moves

(* White space is good, with its fold. *)
LEMMA GoodSpace ==
    ASSUME value \in Seq(FromBytes), NEW S, S \subseteq WSP
    PROVE  Good(Space(S)) /\ Moves(Space(S))
  BY SpaceIs, ItemIsClean DEF Good, Moves

(* The text of comments and quoted strings is good. *)
LEMMA GoodText ==
    ASSUME value \in Seq(FromBytes), NEW X, NEW S, S \subseteq WSP
    PROVE  /\ Good(Or(Byte(Printable \ X), Or(Space(WSP), Pair(S))))
           /\ Moves(Or(Byte(Printable \ X), Or(Space(WSP), Pair(S))))
  BY TextIs, TextIsClean DEF Good, Moves

(* Then keeps tables good. *)
LEMMA GoodThen ==
    ASSUME value \in Seq(FromBytes), NEW A, NEW B, Good(A), Good(B)
    PROVE  Good(Then(A, B)) /\ (Moves(A) \/ Moves(B) => Moves(Then(A, B)))
<1>1. A \in Tables /\ B \in Tables
  BY DEF Good
<1>2. /\ Then(A, B) \in Tables
      /\ \A i, k \in Places : k \in Then(A, B)[i] <=> \E j \in Places : j \in A[i] /\ k \in B[j]
  BY <1>1, ThenIs
<1>3. \A i \in Places : i \in Nat
  BY PlacesAre
<1>4. ASSUME NEW i \in Places, NEW k \in Places, k \in Then(A, B)[i]
      PROVE  Clean(i, k) /\ (Moves(A) \/ Moves(B) => k > i)
  <2>1. PICK j \in Places : j \in A[i] /\ k \in B[j]
    BY <1>2, <1>4
  <2>2. Clean(i, j) /\ Clean(j, k)
    BY <2>1 DEF Good
  <2>3. i <= j /\ j <= k
    BY <2>2 DEF Clean
  <2>4. Moves(A) \/ Moves(B) => k > i
    BY <1>3, <2>1, <2>3 DEF Moves
  <2> QED
    BY <1>3, <2>2, <2>4, CleanJoins
<1> QED
  BY <1>2, <1>4 DEF Good, Moves

(* Or keeps tables good. *)
LEMMA GoodOr ==
    ASSUME value \in Seq(FromBytes), NEW A, NEW B, Good(A), Good(B)
    PROVE  Good(Or(A, B)) /\ (Moves(A) /\ Moves(B) => Moves(Or(A, B)))
<1>1. A \in Tables /\ B \in Tables
  BY DEF Good
<1>2. /\ Or(A, B) \in Tables
      /\ \A i, k \in Places : k \in Or(A, B)[i] <=> k \in A[i] \/ k \in B[i]
  BY <1>1, OrIs
<1> QED
  BY <1>2 DEF Good, Moves

(* Many keeps tables good, following the table from the last place down. *)
LEMMA GoodMany ==
    ASSUME value \in Seq(FromBytes), NEW A, Good(A), Moves(A)
    PROVE  Good(Many(A))
<1>1. A \in Tables
  BY DEF Good
<1>2. /\ Many(A) \in Tables
      /\ \A i, k \in Places : k \in Many(A)[i] <=>
                 k = i \/ \E j \in Places : j \in A[i] /\ k \in Many(A)[j]
  BY <1>1, ManyIs
<1>3. N + 1 \in Nat /\ Places = 1..(N + 1)
  BY PlacesAre
<1> DEFINE I == {i \in Places : \A k \in Places : k \in Many(A)[i] => Clean(i, k)}
<1>4. ASSUME NEW i \in 1..(N + 1), \A j \in 1..(N + 1) : j > i => j \in I
      PROVE  i \in I
  <2> SUFFICES ASSUME NEW k \in Places, k \in Many(A)[i] PROVE Clean(i, k)
    BY <1>3
  <2>0. i \in Places /\ i \in Nat /\ k \in Nat
    BY <1>3
  <2>1. CASE k = i
    BY <2>0, <2>1 DEF Clean
  <2>2. CASE \E j \in Places : j \in A[i] /\ k \in Many(A)[j]
    <3>1. PICK j \in Places : j \in A[i] /\ k \in Many(A)[j]
      BY <2>2
    <3>2. j > i /\ Clean(i, j) /\ j \in Nat
      BY <1>3, <2>0, <3>1 DEF Good, Moves
    <3>3. Clean(j, k)
      BY <1>3, <1>4, <3>1, <3>2
    <3> QED
      BY <2>0, <3>2, <3>3, CleanJoins
  <2> QED
    BY <1>2, <2>0, <2>1, <2>2
<1>5. 1..(N + 1) \subseteq I
  <2> HIDE DEF I
  <2> QED
    BY <1>3, <1>4, FromLast
<1> QED
  BY <1>2, <1>3, <1>5 DEF Good

(* The text of a comment. *)
LEMMA CommentTextIs ==
    ASSUME value \in Seq(FromBytes)
    PROVE  /\ CommentText \in Tables /\ Moves(CommentText)
           /\ \A i, j \in Places : j \in CommentText[i] => Clean(i, j)
           /\ \A i, j \in Places : j \in CommentText[i] <=> Textual(i, j, {"(", ")", Escape}, WSP)
<1>1. Good(CommentText) /\ Moves(CommentText)
  BY GoodText DEF CommentText
<1>2. \A i, j \in Places : j \in CommentText[i] <=> Textual(i, j, {"(", ")", Escape}, WSP)
  BY TextIs DEF CommentText
<1> QED
  BY <1>1, <1>2 DEF Good

(* A comment covers a part that unfolds. *)
LEMMA GoodComment ==
    ASSUME value \in Seq(FromBytes)
    PROVE  Good(Comment) /\ Moves(Comment)
<1>1. PICK f : IsInside(f) /\ Comment = Then(Byte({"("}), f)
  BY CommentTextIs, CommentIs
<1>2. f \in Tables /\ Moves(f)
      /\ \A i, k \in Places :
          k \in f[i] => \/ k \in Byte({")"})[i]
                        \/ \E j \in Places : j \in CommentText[i] /\ k \in f[j]
                        \/ \E m, j \in Places : m \in Byte({"("})[i] /\ j \in f[m] /\ k \in f[j]
  BY <1>1 DEF IsInside
<1>3. N + 1 \in Nat /\ Places = 1..(N + 1) /\ \A i \in Places : i \in Nat
  BY PlacesAre
<1>4. /\ Good(Byte({")"})) /\ Moves(Byte({")"}))
      /\ Good(Byte({"("})) /\ Moves(Byte({"("}))
  BY GoodByte DEF Printable
<1> DEFINE I == {i \in Places : \A k \in Places : k \in f[i] => Clean(i, k)}
<1>5. ASSUME NEW i \in 1..(N + 1), \A j \in 1..(N + 1) : j > i => j \in I
      PROVE  i \in I
  <2> SUFFICES ASSUME NEW k \in Places, k \in f[i] PROVE Clean(i, k)
    BY <1>3
  <2>0. i \in Places /\ i \in Nat /\ k \in Nat
    BY <1>3
  <2>1. CASE k \in Byte({")"})[i]
    BY <1>4, <2>0, <2>1 DEF Good
  <2>2. CASE \E j \in Places : j \in CommentText[i] /\ k \in f[j]
    <3>1. PICK j \in Places : j \in CommentText[i] /\ k \in f[j]
      BY <2>2
    <3>2. j > i /\ Clean(i, j) /\ j \in Nat
      BY <1>3, <2>0, <3>1, CommentTextIs DEF Moves
    <3>3. Clean(j, k)
      BY <1>3, <1>5, <3>1, <3>2
    <3> QED
      BY <2>0, <3>2, <3>3, CleanJoins
  <2>3. CASE \E m, j \in Places : m \in Byte({"("})[i] /\ j \in f[m] /\ k \in f[j]
    <3>1. PICK m \in Places, j \in Places : m \in Byte({"("})[i] /\ j \in f[m] /\ k \in f[j]
      BY <2>3
    <3>2. m > i /\ Clean(i, m) /\ m \in Nat /\ j > m /\ j \in Nat
      BY <1>2, <1>3, <1>4, <2>0, <3>1 DEF Good, Moves
    <3>3. m \in I /\ j \in I
      BY <1>3, <1>5, <2>0, <3>2
    <3>4. Clean(m, j) /\ Clean(j, k)
      BY <3>1, <3>3
    <3> QED
      BY <2>0, <3>2, <3>4, CleanJoins
  <2> QED
    BY <1>2, <2>0, <2>1, <2>2, <2>3
<1>6. 1..(N + 1) \subseteq I
  <2> HIDE DEF I
  <2> QED
    BY <1>3, <1>5, FromLast
<1>7. Good(f)
  BY <1>2, <1>3, <1>6 DEF Good
<1> QED
  BY <1>1, <1>4, <1>7, GoodThen

-----------------------------------------------------------------------------
(* What from_domain reads: the value without folds and comments             *)

FromTexts == Seq(FromBytes)

IsUnfoldTrace(t, v) ==
    /\ t \in [0..Len(v) -> FromTexts]
    /\ t[0] = <<>>
    /\ \A k \in 1..Len(v) : t[k] = UnfoldByte(t[k - 1], v[k])
    /\ FoldLeft(UnfoldByte, <<>>, v) = t[Len(v)]

(* What the fold of Unfold walks over. *)
LEMMA UnfoldTypes ==
    <<>> \in FromTexts /\ \A s \in FromTexts, x \in FromBytes : UnfoldByte(s, x) \in FromTexts
<1>1. <<>> \in Seq(FromBytes)
  BY EmptySeq
<1>2. \A s \in Seq(FromBytes), x \in FromBytes : UnfoldByte(s, x) \in Seq(FromBytes)
  BY AppendProperties DEF UnfoldByte
<1> QED
  BY <1>1, <1>2 DEF FromTexts

(* The values of Unfold, byte after byte. *)
LEMMA UnfoldTrace ==
    ASSUME NEW v \in Seq(FromBytes)
    PROVE  \E t : IsUnfoldTrace(t, v)
<1> DEFINE n == Len(v)
           G == [k \in 1..n |-> [s \in FromTexts |-> UnfoldByte(s, v[k])]]
           R(f) == f = [s \in SUBSET (1..n) |->
                          IF s = {} THEN <<>> ELSE UnfoldByte(f[s \ {Max(s)}], v[Max(s)])]
           iter == CHOOSE f : R(f)
<1>1. n \in Nat /\ DOMAIN v = 1..n /\ \A k \in 1..n : v[k] \in FromBytes
  BY LenProperties, ElementOfSeq
<1>2. <<>> \in FromTexts /\ \A s \in FromTexts, x \in FromBytes : UnfoldByte(s, x) \in FromTexts
  BY UnfoldTypes
<1>3. G \in [1..n -> [FromTexts -> FromTexts]]
  BY <1>1, <1>2
<1>4. \A k \in 1..n, s \in FromTexts : G[k][s] = UnfoldByte(s, v[k])
  OBVIOUS
<1>5. FoldLeft(UnfoldByte, <<>>, v) = iter[1..n]
  BY <1>1, Zenon DEF FoldLeft, MapThenFoldSet
<1> HIDE DEF n, G
<1>6. PICK f : IsTable(f, <<>>, G, n, FromTexts)
  BY <1>1, <1>2, <1>3, TableExists
<1>7. R(f)
  <2>1. f \in [SUBSET (1..n) -> FromTexts]
    BY <1>6 DEF IsTable
  <2>2. ASSUME NEW s \in SUBSET (1..n)
        PROVE  f[s] = IF s = {} THEN <<>> ELSE UnfoldByte(f[s \ {Max(s)}], v[Max(s)])
    <3>1. f[s] = IF s = {} THEN <<>> ELSE G[Max(s)][f[s \ {Max(s)}]]
      BY <1>6 DEF IsTable
    <3>2. CASE s = {}
      BY <3>1, <3>2
    <3>3. CASE s # {}
      <4>1. Max(s) \in s
        <5>1. s \in SUBSET (0..n)
          BY <1>1
        <5> QED
          BY <1>1, <3>3, <5>1, MaxIsGreatest
      <4>2. Max(s) \in 1..n /\ f[s \ {Max(s)}] \in FromTexts
        BY <2>1, <4>1
      <4> QED
        BY <1>4, <3>1, <3>3, <4>2
    <3> QED
      BY <3>2, <3>3
  <2> QED
    BY <2>1, <2>2
<1>8. R(iter)
  BY <1>7, Zenon
<1> HIDE DEF iter
<1> DEFINE t == [k \in 0..n |-> iter[1..k]]
           T == {k \in 0..n : iter[1..k] \in FromTexts}
<1>9. iter[1..0] = <<>>
  <2>1. 1..0 = {} /\ {} \in SUBSET (1..n)
    OBVIOUS
  <2> QED
    BY <1>8, <2>1
<1>10. ASSUME NEW k \in 1..n PROVE iter[1..k] = UnfoldByte(iter[1..(k - 1)], v[k])
  <2>1. k \in Nat \ {0} /\ 1..k \in SUBSET (1..n) /\ 1..k # {}
    BY <1>1
  <2>2. Max(1..k) = k /\ (1..k) \ {Max(1..k)} = 1..(k - 1)
    BY <2>1, MaxOfInterval
  <2>3. iter[1..k] = UnfoldByte(iter[(1..k) \ {Max(1..k)}], v[Max(1..k)])
    BY <1>8, <2>1
  <2> QED
    BY <2>2, <2>3
<1>11. 0 \in T
  BY <1>1, <1>2, <1>9
<1>12. ASSUME NEW k \in 1..n, k - 1 \in T PROVE k \in T
  BY <1>1, <1>2, <1>10, <1>12
<1>13. 0..n \subseteq T
  <2> HIDE DEF T
  <2> QED
    BY <1>1, <1>11, <1>12, UpTo
<1>14. t \in [0..n -> FromTexts]
  BY <1>13
<1>15. t[0] = <<>>
  BY <1>1, <1>9
<1>16. \A k \in 1..n : t[k] = UnfoldByte(t[k - 1], v[k])
  <2> SUFFICES ASSUME NEW k \in 1..n PROVE t[k] = UnfoldByte(t[k - 1], v[k])
    OBVIOUS
  <2>1. k \in 0..n /\ k - 1 \in 0..n
    BY <1>1
  <2> QED
    BY <1>10, <2>1
<1>17. FoldLeft(UnfoldByte, <<>>, v) = t[n]
  BY <1>1, <1>5
<1> HIDE DEF t
<1> QED
  BY <1>14, <1>15, <1>16, <1>17 DEF IsUnfoldTrace, n

(* The states of the comment scan *)
LexStates ==
    {s \in [text : Seq(FromBytes), quoted : BOOLEAN, escaped : BOOLEAN, depth : Nat, stray : BOOLEAN] :
        (s.depth > 0 => ~s.quoted) /\ (s.escaped => s.depth > 0 \/ s.quoted)}
LexStart == [text |-> <<>>, quoted |-> FALSE, escaped |-> FALSE, depth |-> 0, stray |-> FALSE]

ModeOf(s) == IF s.depth > 0 THEN IF s.escaped THEN "cpair" ELSE "comment"
             ELSE IF s.quoted THEN IF s.escaped THEN "pair" ELSE "quoted"
             ELSE "top"

(* What a byte does *)
Lexed(r, s, c) ==
    /\ r \in LexStates
    /\ ModeOf(s) = "top" =>
          /\ ModeOf(r) = IF c = "(" THEN "comment" ELSE IF c = Quote THEN "quoted" ELSE "top"
          /\ r.depth = IF c = "(" THEN 1 ELSE 0
          /\ r.text = Append(s.text, IF c = "(" THEN SP ELSE c)
    /\ ModeOf(s) = "quoted" =>
          /\ ModeOf(r) = IF c = Escape THEN "pair" ELSE IF c = Quote THEN "top" ELSE "quoted"
          /\ r.depth = 0 /\ r.text = Append(s.text, c)
    /\ ModeOf(s) = "pair" => ModeOf(r) = "quoted" /\ r.depth = 0 /\ r.text = Append(s.text, c)
    /\ ModeOf(s) = "comment" =>
          /\ ModeOf(r) = IF c = Escape THEN "cpair"
                         ELSE IF c = ")" /\ s.depth = 1 THEN "top" ELSE "comment"
          /\ r.depth = IF c = "(" THEN s.depth + 1 ELSE IF c = ")" THEN s.depth - 1 ELSE s.depth
          /\ r.text = s.text
    /\ ModeOf(s) = "cpair" => ModeOf(r) = "comment" /\ r.depth = s.depth /\ r.text = s.text
    /\ (r.stray <=> s.stray \/ (ModeOf(s) = "top" /\ c = ")"))

(* The mode tells the flags of a state of ScanComment. *)
LEMMA LexState ==
    ASSUME NEW s \in LexStates
    PROVE  /\ s.text \in Seq(FromBytes) /\ s.depth \in Nat
           /\ s.quoted \in BOOLEAN /\ s.escaped \in BOOLEAN /\ s.stray \in BOOLEAN
           /\ ModeOf(s) \in {"top", "quoted", "pair", "comment", "cpair"}
           /\ ModeOf(s) = "top" <=> s.depth = 0 /\ ~s.quoted /\ ~s.escaped
           /\ ModeOf(s) = "quoted" <=> s.depth = 0 /\ s.quoted /\ ~s.escaped
           /\ ModeOf(s) = "pair" <=> s.depth = 0 /\ s.quoted /\ s.escaped
           /\ ModeOf(s) = "comment" <=> s.depth > 0 /\ ~s.quoted /\ ~s.escaped
           /\ ModeOf(s) = "cpair" <=> s.depth > 0 /\ ~s.quoted /\ s.escaped
<1>1. s \in [text : Seq(FromBytes), quoted : BOOLEAN, escaped : BOOLEAN, depth : Nat, stray : BOOLEAN]
      /\ (s.depth > 0 => ~s.quoted) /\ (s.escaped => s.depth > 0 \/ s.quoted)
  BY DEF LexStates
<1>2. /\ s.text \in Seq(FromBytes) /\ s.depth \in Nat
      /\ s.quoted \in BOOLEAN /\ s.escaped \in BOOLEAN /\ s.stray \in BOOLEAN
  BY <1>1
<1> QED
  BY <1>1, <1>2 DEF ModeOf

(* States are built from flags that agree. *)
LEMMA MakeLexState ==
    ASSUME NEW x \in Seq(FromBytes), NEW q \in BOOLEAN, NEW e \in BOOLEAN, NEW d \in Nat,
           NEW b \in BOOLEAN, d > 0 => ~q, e => d > 0 \/ q
    PROVE  [text |-> x, quoted |-> q, escaped |-> e, depth |-> d, stray |-> b] \in LexStates
  BY DEF LexStates

(* ScanComment, mode by mode. *)
LEMMA LexByte ==
    ASSUME NEW s \in LexStates, NEW c \in FromBytes
    PROVE  Lexed(ScanComment(s, c), s, c)
<1>0. PICK r : r = ScanComment(s, c)
  OBVIOUS
<1>1. PICK x, q, e, d, b :
        /\ x = s.text /\ q = s.quoted /\ e = s.escaped /\ d = s.depth /\ b = s.stray
  OBVIOUS
<1>2. /\ x \in Seq(FromBytes) /\ d \in Nat /\ q \in BOOLEAN /\ e \in BOOLEAN /\ b \in BOOLEAN
      /\ d > 0 => ~q
      /\ e => d > 0 \/ q
      /\ s = [text |-> x, quoted |-> q, escaped |-> e, depth |-> d, stray |-> b]
  BY <1>1 DEF LexStates
<1>3. PICK y, z : y = Append(x, c) /\ z = Append(x, SP)
  OBVIOUS
<1>4. y \in Seq(FromBytes) /\ z \in Seq(FromBytes)
  <2>1. SP \in FromBytes
    BY DEF FromBytes
  <2> QED
    BY <1>2, <1>3, <2>1, AppendProperties
<1>5. Escape # Quote /\ Escape # "(" /\ Escape # ")" /\ Quote # "(" /\ Quote # ")" /\ "(" # ")"
  BY DEF Escape, Quote
<1>6. CASE e /\ d = 0
  <2>1. r = [text |-> y, quoted |-> q, escaped |-> FALSE, depth |-> d, stray |-> b]
    BY <1>0, <1>1, <1>2, <1>3, <1>6 DEF ScanComment
  <2>2. r \in LexStates
    BY <1>2, <1>4, <1>6, <2>1, MakeLexState
  <2>3. r.text = y /\ r.depth = d /\ r.stray = b /\ ModeOf(r) = "quoted" /\ ModeOf(s) = "pair"
    BY <1>2, <1>6, <2>1 DEF ModeOf
  <2>4. Lexed(r, s, c)
    BY <1>1, <1>2, <1>3, <1>6, <2>2, <2>3 DEF Lexed
  <2> QED
    BY <1>0, <2>4
<1>7. CASE e /\ d > 0
  <2>1. r = [text |-> x, quoted |-> q, escaped |-> FALSE, depth |-> d, stray |-> b]
    <3>1. s.depth # 0 /\ s.escaped
      BY <1>1, <1>2, <1>7
    <3>2. r = [s EXCEPT !.escaped = FALSE, !.text = s.text]
      BY <1>0, <3>1 DEF ScanComment
    <3> QED
      BY <1>1, <1>2, <3>2
  <2>2. r \in LexStates
    <3>1. ~q /\ FALSE \in BOOLEAN
      BY <1>2, <1>7
    <3> QED
      BY <1>2, <2>1, <3>1, MakeLexState
  <2>3. r.text = x /\ r.depth = d /\ r.stray = b /\ ModeOf(r) = "comment" /\ ModeOf(s) = "cpair"
    BY <1>2, <1>7, <2>1 DEF ModeOf
  <2>4. Lexed(r, s, c)
    BY <1>1, <1>2, <1>3, <1>7, <2>2, <2>3 DEF Lexed
  <2> QED
    BY <1>0, <2>4
<1>8. CASE ~e /\ d > 0
  <2>1. PICK k : k = IF c = "(" THEN d + 1 ELSE IF c = ")" THEN d - 1 ELSE d
    OBVIOUS
  <2>2. k \in Nat
    BY <1>2, <1>8, <2>1
  <2>3. r = [text |-> x, quoted |-> q, escaped |-> c = Escape, depth |-> k, stray |-> b]
    BY <1>0, <1>1, <1>2, <1>3, <1>8, <2>1 DEF ScanComment
  <2>4. c = Escape => k > 0
    BY <1>5, <1>8, <2>1
  <2>5. ~q
    BY <1>2, <1>8
  <2>6. r \in LexStates
    BY <1>2, <1>4, <2>2, <2>3, <2>4, <2>5, MakeLexState
  <2>7. r.text = x /\ r.depth = k /\ r.stray = b /\ ModeOf(s) = "comment"
    BY <1>2, <1>8, <2>3 DEF ModeOf
  <2>8. ModeOf(r) = IF c = Escape THEN "cpair" ELSE IF c = ")" /\ d = 1 THEN "top" ELSE "comment"
    <3>1. r.depth = k /\ r.quoted = q /\ r.escaped = (c = Escape)
      BY <2>3
    <3>2. ModeOf(r) = IF k > 0 THEN IF c = Escape THEN "cpair" ELSE "comment" ELSE "top"
      BY <2>5, <3>1 DEF ModeOf
    <3>3. k > 0 <=> ~(c = ")" /\ d = 1)
      BY <1>2, <1>5, <1>8, <2>1
    <3> QED
      BY <1>5, <3>2, <3>3
  <2>9. Lexed(r, s, c)
    BY <1>1, <1>2, <1>3, <1>8, <2>1, <2>6, <2>7, <2>8 DEF Lexed
  <2> QED
    BY <1>0, <2>9
<1>9. CASE ~e /\ d = 0 /\ q
  <2>1. r = [text |-> y, quoted |-> c # Quote, escaped |-> c = Escape, depth |-> d, stray |-> b]
    BY <1>0, <1>1, <1>2, <1>3, <1>9 DEF ScanComment
  <2>2. r \in LexStates
    BY <1>2, <1>4, <1>5, <1>9, <2>1, MakeLexState
  <2>3. r.text = y /\ r.depth = d /\ r.stray = b /\ ModeOf(s) = "quoted"
    BY <1>2, <1>9, <2>1 DEF ModeOf
  <2>4. ModeOf(r) = IF c = Escape THEN "pair" ELSE IF c = Quote THEN "top" ELSE "quoted"
    <3>1. r.depth = 0 /\ (r.quoted <=> c # Quote) /\ (r.escaped <=> c = Escape)
      BY <1>9, <2>1
    <3>2. ModeOf(r) = IF c # Quote THEN IF c = Escape THEN "pair" ELSE "quoted" ELSE "top"
      BY <3>1 DEF ModeOf
    <3> QED
      BY <1>5, <3>2
  <2>5. Lexed(r, s, c)
    BY <1>1, <1>2, <1>3, <1>9, <2>2, <2>3, <2>4 DEF Lexed
  <2> QED
    BY <1>0, <2>5
<1>10. CASE ~e /\ d = 0 /\ ~q
  <2>1. PICK k, w : k = (IF c = "(" THEN 1 ELSE 0) /\ w = (IF c = "(" THEN z ELSE y)
    OBVIOUS
  <2>2. k \in Nat /\ w \in Seq(FromBytes) /\ w = Append(x, IF c = "(" THEN SP ELSE c)
    BY <1>3, <1>4, <2>1
  <2>3. PICK f : f = (b \/ c = ")")
    OBVIOUS
  <2>4. f \in BOOLEAN
    BY <2>3
  <2>5. r = [text |-> w, quoted |-> c = Quote, escaped |-> FALSE, depth |-> k, stray |-> f]
    <3>1. r = [s EXCEPT !.text = Append(x, IF c = "(" THEN SP ELSE c),
                        !.depth = IF c = "(" THEN 1 ELSE 0,
                        !.quoted = c = Quote,
                        !.stray = b \/ c = ")"]
      BY <1>0, <1>1, <1>10 DEF ScanComment
    <3>2. r = [s EXCEPT !.text = w, !.depth = k, !.quoted = c = Quote, !.stray = f]
      BY <2>1, <2>2, <2>3, <3>1
    <3> QED
      BY <1>2, <1>10, <3>2
  <2>6. k > 0 => ~(c = Quote)
    BY <1>5, <2>1
  <2>7. r \in LexStates
    BY <2>2, <2>4, <2>5, <2>6, MakeLexState
  <2>8. r.text = w /\ r.depth = k /\ r.stray = f /\ ModeOf(s) = "top"
    BY <1>2, <1>10, <2>5 DEF ModeOf
  <2>9. ModeOf(r) = IF c = "(" THEN "comment" ELSE IF c = Quote THEN "quoted" ELSE "top"
    <3>1. r.depth = k /\ (r.quoted <=> c = Quote) /\ ~r.escaped
      BY <2>5
    <3>2. CASE c = "("
      <4>1. r.depth = 1 /\ ~r.escaped
        BY <2>1, <3>1, <3>2
      <4> QED
        BY <3>2, <4>1 DEF ModeOf
    <3>3. CASE c # "("
      <4>1. r.depth = 0
        BY <2>1, <3>1, <3>3
      <4>2. ModeOf(r) = IF c = Quote THEN "quoted" ELSE "top"
        BY <3>1, <4>1 DEF ModeOf
      <4> QED
        BY <3>3, <4>2
    <3> QED
      BY <3>2, <3>3
  <2>10. Lexed(r, s, c)
    BY <1>1, <1>2, <1>10, <2>1, <2>2, <2>3, <2>7, <2>8, <2>9 DEF Lexed
  <2> QED
    BY <1>0, <2>10
<1> QED
  BY <1>2, <1>6, <1>7, <1>8, <1>9, <1>10

IsLexTrace(t, v) ==
    /\ t \in [0..Len(v) -> LexStates]
    /\ t[0] = LexStart
    /\ \A k \in 1..Len(v) : t[k] = ScanComment(t[k - 1], v[k])
    /\ FoldLeft(ScanComment, LexStart, v) = t[Len(v)]

(* The state keeps its type. *)
LEMMA LexTypes ==
    LexStart \in LexStates /\ \A s \in LexStates, x \in FromBytes : ScanComment(s, x) \in LexStates
<1>1. <<>> \in Seq(FromBytes)
  BY EmptySeq
<1>2. LexStart \in LexStates
  BY <1>1, MakeLexState DEF LexStart
<1>3. \A s \in LexStates, x \in FromBytes : ScanComment(s, x) \in LexStates
  BY LexByte DEF Lexed
<1> QED
  BY <1>2, <1>3

(* The states of the comment scan, byte after byte. *)
LEMMA LexTrace ==
    ASSUME NEW v \in Seq(FromBytes)
    PROVE  \E t : IsLexTrace(t, v)
<1> DEFINE n == Len(v)
           G == [k \in 1..n |-> [s \in LexStates |-> ScanComment(s, v[k])]]
           R(f) == f = [s \in SUBSET (1..n) |->
                          IF s = {} THEN LexStart ELSE ScanComment(f[s \ {Max(s)}], v[Max(s)])]
           iter == CHOOSE f : R(f)
<1>1. n \in Nat /\ DOMAIN v = 1..n /\ \A k \in 1..n : v[k] \in FromBytes
  BY LenProperties, ElementOfSeq
<1>2. LexStart \in LexStates /\ \A s \in LexStates, x \in FromBytes : ScanComment(s, x) \in LexStates
  BY LexTypes
<1>3. G \in [1..n -> [LexStates -> LexStates]]
  BY <1>1, <1>2
<1>4. \A k \in 1..n, s \in LexStates : G[k][s] = ScanComment(s, v[k])
  OBVIOUS
<1>5. FoldLeft(ScanComment, LexStart, v) = iter[1..n]
  BY <1>1, Zenon DEF FoldLeft, MapThenFoldSet
<1> HIDE DEF n, G
<1>6. PICK f : IsTable(f, LexStart, G, n, LexStates)
  BY <1>1, <1>2, <1>3, TableExists
<1>7. R(f)
  <2>1. f \in [SUBSET (1..n) -> LexStates]
    BY <1>6 DEF IsTable
  <2>2. ASSUME NEW s \in SUBSET (1..n)
        PROVE  f[s] = IF s = {} THEN LexStart ELSE ScanComment(f[s \ {Max(s)}], v[Max(s)])
    <3>1. f[s] = IF s = {} THEN LexStart ELSE G[Max(s)][f[s \ {Max(s)}]]
      BY <1>6 DEF IsTable
    <3>2. CASE s = {}
      BY <3>1, <3>2
    <3>3. CASE s # {}
      <4>1. Max(s) \in s
        <5>1. s \in SUBSET (0..n)
          BY <1>1
        <5> QED
          BY <1>1, <3>3, <5>1, MaxIsGreatest
      <4>2. Max(s) \in 1..n /\ f[s \ {Max(s)}] \in LexStates
        BY <2>1, <4>1
      <4> QED
        BY <1>4, <3>1, <3>3, <4>2
    <3> QED
      BY <3>2, <3>3
  <2> QED
    BY <2>1, <2>2
<1>8. R(iter)
  BY <1>7, Zenon
<1> HIDE DEF iter
<1> DEFINE t == [k \in 0..n |-> iter[1..k]]
           T == {k \in 0..n : iter[1..k] \in LexStates}
<1>9. iter[1..0] = LexStart
  <2>1. 1..0 = {} /\ {} \in SUBSET (1..n)
    OBVIOUS
  <2> QED
    BY <1>8, <2>1
<1>10. ASSUME NEW k \in 1..n PROVE iter[1..k] = ScanComment(iter[1..(k - 1)], v[k])
  <2>1. k \in Nat \ {0} /\ 1..k \in SUBSET (1..n) /\ 1..k # {}
    BY <1>1
  <2>2. Max(1..k) = k /\ (1..k) \ {Max(1..k)} = 1..(k - 1)
    BY <2>1, MaxOfInterval
  <2>3. iter[1..k] = ScanComment(iter[(1..k) \ {Max(1..k)}], v[Max(1..k)])
    BY <1>8, <2>1
  <2> QED
    BY <2>2, <2>3
<1>11. 0 \in T
  BY <1>1, <1>2, <1>9
<1>12. ASSUME NEW k \in 1..n, k - 1 \in T PROVE k \in T
  BY <1>1, <1>2, <1>10, <1>12
<1>13. 0..n \subseteq T
  <2> HIDE DEF T
  <2> QED
    BY <1>1, <1>11, <1>12, UpTo
<1>14. t \in [0..n -> LexStates]
  BY <1>13
<1>15. t[0] = LexStart
  BY <1>1, <1>9
<1>16. \A k \in 1..n : t[k] = ScanComment(t[k - 1], v[k])
  <2> SUFFICES ASSUME NEW k \in 1..n PROVE t[k] = ScanComment(t[k - 1], v[k])
    OBVIOUS
  <2>1. k \in 0..n /\ k - 1 \in 0..n
    BY <1>1
  <2> QED
    BY <1>10, <2>1
<1>17. FoldLeft(ScanComment, LexStart, v) = t[n]
  BY <1>1, <1>5
<1> HIDE DEF t
<1> QED
  BY <1>14, <1>15, <1>16, <1>17 DEF IsLexTrace, n

(* The state in front of every byte of the value, and at its end *)
IsLex(t) ==
    /\ t \in [Places -> LexStates]
    /\ t[1] = LexStart
    /\ \A i \in 1..N : t[i + 1] = IF value[i] \in {CR, LF} THEN t[i] ELSE ScanComment(t[i], value[i])
    /\ WithoutComments(Unfold(value)) = t[N + 1]
Lex == CHOOSE t : IsLex(t)

(* Lex has the states of the scan at the places of the value: CR and LF,    *)
(* which Unfold drops, leave them alone.                                    *)
LEMMA LexIs == ASSUME value \in Seq(FromBytes) PROVE IsLex(Lex)
<1>1. PICK u : IsUnfoldTrace(u, value)
  BY UnfoldTrace
<1>2. PICK w : w = Unfold(value)
  OBVIOUS
<1>3. /\ u \in [0..N -> Seq(FromBytes)] /\ u[0] = <<>> /\ w = u[N]
      /\ \A k \in 1..N : u[k] = UnfoldByte(u[k - 1], value[k])
  BY <1>1, <1>2 DEF IsUnfoldTrace, FromTexts, Unfold, N
<1>4. N \in Nat /\ Places = 1..(N + 1) /\ w \in Seq(FromBytes)
      /\ \A k \in 1..N : value[k] \in FromBytes
  <2>1. N \in Nat /\ Places = 1..(N + 1)
    BY PlacesAre
  <2>2. N \in 0..N
    BY <2>1
  <2> QED
    BY <1>3, <2>1, <2>2, ElementOfSeq DEF N
<1>5. ASSUME NEW k \in 1..N
      PROVE  /\ u[k] \in Seq(FromBytes) /\ u[k - 1] \in Seq(FromBytes)
             /\ Len(u[k]) \in Nat /\ Len(u[k - 1]) \in Nat
             /\ value[k] \in {CR, LF} => u[k] = u[k - 1]
             /\ value[k] \notin {CR, LF} =>
                   Len(u[k]) = Len(u[k - 1]) + 1 /\ u[k][Len(u[k])] = value[k]
             /\ Len(u[k - 1]) <= Len(u[k])
             /\ \A j \in 1..Len(u[k - 1]) : u[k][j] = u[k - 1][j]
  <2>1. k \in 0..N /\ k - 1 \in 0..N
    BY <1>4
  <2>2. PICK a, b : a = u[k - 1] /\ b = u[k]
    OBVIOUS
  <2>3. a \in Seq(FromBytes) /\ b \in Seq(FromBytes) /\ Len(a) \in Nat /\ Len(b) \in Nat
    BY <1>3, <2>1, <2>2, LenProperties
  <2>4. CASE value[k] \in {CR, LF}
    <3>1. b = a
      BY <1>3, <2>2, <2>4 DEF UnfoldByte
    <3> QED
      BY <2>2, <2>3, <2>4, <3>1
  <2>5. CASE value[k] \notin {CR, LF}
    <3>1. b = Append(a, value[k])
      BY <1>3, <2>2, <2>5 DEF UnfoldByte
    <3>2. PICK c : c = value[k] /\ c \in FromBytes
      BY <1>4
    <3>3. Len(b) = Len(a) + 1 /\ b[Len(a) + 1] = c /\ \A j \in 1..Len(a) : b[j] = a[j]
      BY <2>3, <3>1, <3>2, AppendProperties
    <3> QED
      BY <2>2, <2>3, <2>5, <3>2, <3>3
  <2> QED
    BY <2>4, <2>5
<1>6. ASSUME NEW k \in 0..N
      PROVE  Len(u[k]) \in 0..Len(w) /\ \A j \in 1..Len(u[k]) : w[j] = u[k][j]
  <2> DEFINE T == {m \in 0..N : m >= k => /\ Len(u[k]) <= Len(u[m])
                                         /\ \A j \in 1..Len(u[k]) : u[m][j] = u[k][j]}
  <2>0. \A m \in 0..N : Len(u[m]) \in Nat
    BY <1>3, LenProperties
  <2>1. 0 \in T
    BY <1>4, <2>0
  <2>2. ASSUME NEW m \in 1..N, m - 1 \in T PROVE m \in T
    <3>1. CASE m < k
      BY <3>1
    <3>2. CASE m = k
      BY <3>2, <2>0
    <3>3. CASE m > k
      <4>1. Len(u[k]) <= Len(u[m - 1]) /\ \A j \in 1..Len(u[k]) : u[m - 1][j] = u[k][j]
        BY <2>2, <3>3
      <4>2. Len(u[m]) \in Nat /\ Len(u[m - 1]) \in Nat /\ Len(u[m - 1]) <= Len(u[m])
            /\ \A j \in 1..Len(u[m - 1]) : u[m][j] = u[m - 1][j]
        BY <1>5
      <4>3. Len(u[k]) \in Nat /\ m \in 0..N
        BY <2>0
      <4>4. ASSUME NEW j \in 1..Len(u[k]) PROVE u[m][j] = u[k][j]
        <5>1. j \in 1..Len(u[m - 1])
          BY <4>1, <4>2, <4>3
        <5> QED
          BY <4>1, <4>2, <5>1
      <4>5. Len(u[k]) <= Len(u[m])
        BY <4>1, <4>2, <4>3
      <4> QED
        BY <4>3, <4>4, <4>5
    <3> QED
      BY <3>1, <3>2, <3>3
  <2>3. 0..N \subseteq T
    <3> HIDE DEF T
    <3> QED
      BY <1>4, <2>1, <2>2, UpTo
  <2>4. N \in T /\ N >= k
    BY <1>4, <2>3
  <2> QED
    BY <1>3, <2>0, <2>4
<1>7. PICK s : IsLexTrace(s, w)
  BY <1>4, LexTrace
<1>8. /\ s \in [0..Len(w) -> LexStates] /\ s[0] = LexStart
      /\ \A k \in 1..Len(w) : s[k] = ScanComment(s[k - 1], w[k])
      /\ WithoutComments(w) = s[Len(w)]
  BY <1>7 DEF IsLexTrace, WithoutComments, LexStart
<1> DEFINE t == [i \in Places |-> s[Len(u[i - 1])]]
<1>9. t \in [Places -> LexStates]
  <2>1. ASSUME NEW i \in Places PROVE s[Len(u[i - 1])] \in LexStates
    <3>1. i - 1 \in 0..N
      BY <1>4
    <3>2. Len(u[i - 1]) \in 0..Len(w)
      BY <1>6, <3>1
    <3> QED
      BY <1>8, <3>2
  <2> QED
    BY <2>1
<1>10. t[1] = LexStart
  <2>1. 1 \in Places /\ 1 - 1 = 0
    BY <1>4
  <2>2. Len(u[0]) = 0
    BY <1>3, EmptySeq
  <2> QED
    BY <1>8, <2>1, <2>2
<1>11. ASSUME NEW i \in 1..N
       PROVE  t[i + 1] = IF value[i] \in {CR, LF} THEN t[i] ELSE ScanComment(t[i], value[i])
  <2>1. i \in Places /\ i + 1 \in Places /\ (i + 1) - 1 = i /\ i \in 0..N
    BY <1>4
  <2>2. t[i] = s[Len(u[i - 1])] /\ t[i + 1] = s[Len(u[i])]
    BY <2>1
  <2>3. CASE value[i] \in {CR, LF}
    BY <1>5, <2>2, <2>3
  <2>4. CASE value[i] \notin {CR, LF}
    <3>1. PICK m : m = Len(u[i])
      OBVIOUS
    <3>2. m \in Nat /\ Len(u[i - 1]) = m - 1 /\ m - 1 \in Nat /\ u[i][m] = value[i]
      BY <1>5, <2>4, <3>1
    <3>3. m \in 0..Len(w) /\ m \in 1..Len(u[i])
      BY <1>6, <2>1, <3>1, <3>2
    <3>4. w[m] = value[i]
      BY <1>6, <2>1, <3>2, <3>3
    <3>5. s[m] = ScanComment(s[m - 1], w[m])
      BY <1>8, <3>2, <3>3
    <3> QED
      BY <2>2, <2>4, <3>1, <3>2, <3>4, <3>5
  <2> QED
    BY <2>3, <2>4
<1>12. WithoutComments(Unfold(value)) = t[N + 1]
  <2>1. N + 1 \in Places /\ (N + 1) - 1 = N
    BY <1>4
  <2>2. t[N + 1] = s[Len(u[N])]
    BY <2>1
  <2> QED
    BY <1>2, <1>3, <1>8, <2>2
<1> HIDE DEF t
<1>13. IsLex(t)
  BY <1>9, <1>10, <1>11, <1>12 DEF IsLex
<1> QED
  BY <1>13, Zenon DEF Lex

-----------------------------------------------------------------------------
(* The places of the value, as the comment scan meets them                  *)

Mode(i) == ModeOf(Lex[i])
Depth(i) == Lex[i].depth
Kept == Lex[N + 1].text             \* the text without comments
Spot(i) == Len(Lex[i].text) + 1     \* where the byte at i is in it

(* The state at a place. *)
LEMMA ModeAt ==
    ASSUME value \in Seq(FromBytes), NEW i \in Places
    PROVE  /\ Mode(i) \in {"top", "quoted", "pair", "comment", "cpair"}
           /\ Depth(i) \in Nat /\ Spot(i) \in Nat \ {0}
           /\ Depth(i) = 0 <=> Mode(i) \in {"top", "quoted", "pair"}
           /\ Lex[i] \in LexStates /\ Lex[i].text \in Seq(FromBytes)
<1>1. Lex[i] \in LexStates
  BY LexIs DEF IsLex
<1>2. PICK s : s = Lex[i] /\ s \in LexStates
  BY <1>1
<1>3. s.text \in Seq(FromBytes) /\ Len(s.text) \in Nat
  BY <1>2, LexState, LenProperties
<1> QED
  BY <1>2, <1>3, LexState DEF Mode, Depth, Spot

(* What the byte at i does *)
Stepped(i) ==
    LET c == value[i]
    IN  /\ i \in Places /\ i + 1 \in Places /\ c \in FromBytes
        /\ c \in {CR, LF} =>
              Mode(i + 1) = Mode(i) /\ Depth(i + 1) = Depth(i) /\ Spot(i + 1) = Spot(i)
        /\ c \notin {CR, LF} =>
              /\ Mode(i) = "top" =>
                    /\ Mode(i + 1) = IF c = "(" THEN "comment" ELSE IF c = Quote THEN "quoted" ELSE "top"
                    /\ Depth(i + 1) = IF c = "(" THEN 1 ELSE 0
              /\ Mode(i) = "quoted" =>
                    /\ Mode(i + 1) = IF c = Escape THEN "pair" ELSE IF c = Quote THEN "top" ELSE "quoted"
                    /\ Depth(i + 1) = 0
              /\ Mode(i) = "pair" => Mode(i + 1) = "quoted" /\ Depth(i + 1) = 0
              /\ Mode(i) = "comment" =>
                    /\ Mode(i + 1) = IF c = Escape THEN "cpair"
                                     ELSE IF c = ")" /\ Depth(i) = 1 THEN "top" ELSE "comment"
                    /\ Depth(i + 1) = IF c = "(" THEN Depth(i) + 1
                                      ELSE IF c = ")" THEN Depth(i) - 1 ELSE Depth(i)
              /\ Mode(i) = "cpair" => Mode(i + 1) = "comment" /\ Depth(i + 1) = Depth(i)
              /\ Mode(i) \in {"comment", "cpair"} => Spot(i + 1) = Spot(i)
              /\ Mode(i) \in {"top", "quoted", "pair"} => Spot(i + 1) = Spot(i) + 1

(* The byte kept for the one at i *)
KeptFor(i) == IF Mode(i) = "top" /\ value[i] = "(" THEN SP ELSE value[i]
Keeps(i) == Mode(i) \in {"top", "quoted", "pair"} /\ value[i] \notin {CR, LF}

(* What one byte of the value does to the scan. *)
LEMMA StepFacts ==
    ASSUME value \in Seq(FromBytes), NEW i \in 1..N
    PROVE  /\ Stepped(i)
           /\ Keeps(i) => Lex[i + 1].text = Append(Lex[i].text, KeptFor(i))
           /\ ~Keeps(i) => Lex[i + 1].text = Lex[i].text
           /\ Lex[i + 1].stray <=> Lex[i].stray \/ (Mode(i) = "top" /\ value[i] = ")")
<1>1. i \in Places /\ i + 1 \in Places /\ value[i] \in FromBytes
  BY PlacesAre, ElementOfSeq DEF N
<1>2. PICK s, r, c : s = Lex[i] /\ r = Lex[i + 1] /\ c = value[i]
  OBVIOUS
<1>3. s \in LexStates /\ r \in LexStates /\ c \in FromBytes
      /\ r = IF c \in {CR, LF} THEN s ELSE ScanComment(s, c)
  BY <1>1, <1>2, LexIs DEF IsLex
<1>4. /\ ModeOf(s) \in {"top", "quoted", "pair", "comment", "cpair"}
      /\ s.text \in Seq(FromBytes) /\ s.stray \in BOOLEAN /\ s.depth \in Nat
      /\ Mode(i) = ModeOf(s) /\ Mode(i + 1) = ModeOf(r) /\ Depth(i) = s.depth
      /\ Depth(i + 1) = r.depth /\ Spot(i) = Len(s.text) + 1 /\ Spot(i + 1) = Len(r.text) + 1
  BY <1>2, <1>3, LexState DEF Mode, Depth, Spot
<1>5. CASE c \in {CR, LF}
  <2>1. r = s /\ c # ")"
    BY <1>3, <1>5 DEF CR, LF
  <2> QED
    BY <1>1, <1>2, <1>4, <1>5, <2>1 DEF Stepped, Keeps
<1>6. CASE c \notin {CR, LF}
  <2>1. Lexed(r, s, c)
    BY <1>3, <1>6, LexByte
  <2>2. PICK k : k = IF ModeOf(s) = "top" /\ c = "(" THEN SP ELSE c
    OBVIOUS
  <2>3. k \in FromBytes /\ k = KeptFor(i)
    BY <1>2, <1>3, <1>4, <2>2 DEF KeptFor, FromBytes
  <2>4. /\ ModeOf(s) \in {"comment", "cpair"} => r.text = s.text
        /\ ModeOf(s) \in {"top", "quoted", "pair"} => r.text = Append(s.text, k)
    <3>1. ModeOf(s) = "top" => r.text = Append(s.text, IF c = "(" THEN SP ELSE c)
      BY <2>1 DEF Lexed
    <3>2. ModeOf(s) = "top" => k = IF c = "(" THEN SP ELSE c
      BY <2>2
    <3>3. ModeOf(s) \in {"quoted", "pair"} => k = c /\ r.text = Append(s.text, c)
      BY <2>1, <2>2 DEF Lexed
    <3>4. ModeOf(s) \in {"comment", "cpair"} => r.text = s.text
      BY <2>1 DEF Lexed
    <3> QED
      BY <3>1, <3>2, <3>3, <3>4
  <2>5. ModeOf(s) \in {"top", "quoted", "pair"} => Len(r.text) = Len(s.text) + 1
    <3>1. Len(Append(s.text, k)) = Len(s.text) + 1
      BY <1>4, <2>3, AppendProperties
    <3> QED
      BY <2>4, <3>1
  <2>6. Stepped(i)
    BY <1>1, <1>2, <1>4, <1>6, <2>1, <2>4, <2>5 DEF Stepped, Lexed
  <2>7. (r.stray <=> s.stray \/ (ModeOf(s) = "top" /\ c = ")"))
    BY <2>1 DEF Lexed
  <2> QED
    BY <1>2, <1>4, <1>6, <2>3, <2>4, <2>6, <2>7 DEF Keeps
<1> QED
  BY <1>5, <1>6

(* The scan begins outside of everything, and ends with what                *)
(* WithoutComments yields.                                                  *)
LEMMA LexEnds ==
    ASSUME value \in Seq(FromBytes)
    PROVE  /\ 1 \in Places /\ N + 1 \in Places
           /\ Mode(1) = "top" /\ Spot(1) = 1 /\ Spot(N + 1) = Len(Kept) + 1
           /\ Kept \in Seq(FromBytes) /\ Len(Kept) \in Nat
           /\ WithoutComments(Unfold(value)).text = Kept
           /\ Mode(N + 1) = "top" <=>
                 ~(\/ WithoutComments(Unfold(value)).quoted
                   \/ WithoutComments(Unfold(value)).escaped
                   \/ WithoutComments(Unfold(value)).depth # 0)
<1>1. 1 \in Places /\ N + 1 \in Places
  BY PlacesAre
<1>2. Lex[1] = LexStart /\ WithoutComments(Unfold(value)) = Lex[N + 1]
  BY LexIs DEF IsLex
<1>3. Len(<<>>) = 0
  BY EmptySeq
<1>4. Mode(1) = "top" /\ Spot(1) = 1
  BY <1>2, <1>3 DEF Mode, Spot, ModeOf, LexStart
<1>5. Lex[N + 1] \in LexStates /\ Kept \in Seq(FromBytes) /\ Len(Kept) \in Nat
  BY <1>1, ModeAt, LenProperties DEF Kept
<1>6. PICK s : s = Lex[N + 1]
  OBVIOUS
<1> QED
  BY <1>1, <1>2, <1>4, <1>5, <1>6, LexState DEF Mode, Spot, Kept

(* What a place is worth from there on is settled. *)
LEMMA KeptUpTo ==
    ASSUME value \in Seq(FromBytes), NEW i \in Places, NEW j \in Places, i <= j
    PROVE  /\ Spot(i) <= Spot(j)
           /\ \A p \in 1..(Spot(i) - 1) : Lex[j].text[p] = Lex[i].text[p]
<1>0. N \in Nat /\ Places = 1..(N + 1)
  BY PlacesAre
<1> DEFINE S == {m \in 0..N : m + 1 >= i =>
                   /\ Spot(i) <= Spot(m + 1)
                   /\ \A p \in 1..(Spot(i) - 1) : Lex[m + 1].text[p] = Lex[i].text[p]}
<1>1. 0 \in S
  BY <1>0, ModeAt
<1>2. ASSUME NEW m \in 1..N, m - 1 \in S PROVE m \in S
  <2>1. Stepped(m) /\ Spot(m) \in Nat /\ Spot(m + 1) \in Nat /\ Spot(i) \in Nat
        /\ m \in Places /\ m + 1 \in Places /\ m \in 0..N
    BY <1>0, StepFacts, ModeAt
  <2>2. Spot(m) <= Spot(m + 1) /\ \A p \in 1..(Spot(m) - 1) : Lex[m + 1].text[p] = Lex[m].text[p]
    <3>1. CASE ~Keeps(m)
      BY <2>1, <3>1, StepFacts DEF Spot
    <3>2. CASE Keeps(m)
      <4>1. PICK a, b, k : a = Lex[m].text /\ b = Lex[m + 1].text /\ k = KeptFor(m)
        OBVIOUS
      <4>2. a \in Seq(FromBytes) /\ b = Append(a, k) /\ Len(a) \in Nat
        BY <2>1, <3>2, <4>1, StepFacts, ModeAt, LenProperties
      <4>3. k \in FromBytes
        BY <2>1, <4>1 DEF KeptFor, Stepped, FromBytes
      <4>4. Len(b) = Len(a) + 1 /\ \A p \in 1..Len(a) : b[p] = a[p]
        BY <4>2, <4>3, AppendProperties
      <4> QED
        BY <4>1, <4>2, <4>4 DEF Spot
    <3> QED
      BY <3>1, <3>2
  <2>3. CASE m + 1 < i
    BY <1>0, <2>1, <2>3
  <2>4. CASE m + 1 = i
    BY <2>1, <2>4
  <2>5. CASE m + 1 > i
    <3>1. (m - 1) + 1 = m /\ m >= i
      BY <1>0, <2>5
    <3>2. Spot(i) <= Spot(m) /\ \A p \in 1..(Spot(i) - 1) : Lex[m].text[p] = Lex[i].text[p]
      BY <1>2, <3>1
    <3>3. Spot(i) <= Spot(m + 1)
      BY <2>1, <2>2, <3>2
    <3>4. ASSUME NEW p \in 1..(Spot(i) - 1) PROVE Lex[m + 1].text[p] = Lex[i].text[p]
      <4>1. p \in 1..(Spot(m) - 1)
        BY <2>1, <3>2
      <4> QED
        BY <2>2, <3>2, <4>1
    <3> QED
      BY <2>1, <3>3, <3>4
  <2> QED
    BY <1>0, <2>1, <2>3, <2>4, <2>5
<1>3. 0..N \subseteq S
  <2> HIDE DEF S
  <2> QED
    BY <1>0, <1>1, <1>2, UpTo
<1>4. j - 1 \in 0..N /\ (j - 1) + 1 = j
  <2> HIDE DEF S
  <2> QED
    BY <1>0
<1>5. j - 1 \in S
  <2> HIDE DEF S
  <2> QED
    BY <1>3, <1>4
<1> QED
  BY <1>4, <1>5

(* Where a byte that is kept is found in Kept. *)
LEMMA KeptAt ==
    ASSUME value \in Seq(FromBytes), NEW i \in 1..N, Keeps(i)
    PROVE  Kept[Spot(i)] = KeptFor(i) /\ Spot(i) \in 1..Len(Kept) /\ Spot(i + 1) = Spot(i) + 1
<1>1. i \in Places /\ i + 1 \in Places /\ N + 1 \in Places /\ i + 1 <= N + 1
  BY PlacesAre
<1>2. PICK a, b, k : a = Lex[i].text /\ b = Lex[i + 1].text /\ k = KeptFor(i)
  OBVIOUS
<1>3. a \in Seq(FromBytes) /\ b = Append(a, k) /\ Len(a) \in Nat
  BY <1>1, <1>2, StepFacts, ModeAt, LenProperties
<1>4. k \in FromBytes
  BY <1>2, StepFacts DEF KeptFor, Stepped, FromBytes
<1>5. Len(b) = Len(a) + 1 /\ b[Len(a) + 1] = k
  BY <1>3, <1>4, AppendProperties
<1>6. Spot(i) = Len(a) + 1 /\ Spot(i + 1) = Len(a) + 2
  BY <1>2, <1>3, <1>5 DEF Spot
<1>7. Spot(i + 1) <= Spot(N + 1) /\ \A p \in 1..(Spot(i + 1) - 1) : Kept[p] = b[p]
  BY <1>1, <1>2, KeptUpTo DEF Kept
<1>8. Len(a) + 1 \in 1..(Spot(i + 1) - 1)
  BY <1>3, <1>6
<1>9. Spot(N + 1) = Len(Kept) + 1 /\ Len(Kept) \in Nat
  BY LexEnds
<1> QED
  BY <1>2, <1>3, <1>5, <1>6, <1>7, <1>8, <1>9

(* The comment scan refuses a bracket that closes nothing. *)
LEMMA StrayIs ==
    ASSUME value \in Seq(FromBytes)
    PROVE  WithoutComments(Unfold(value)).stray <=> \E i \in 1..N : Mode(i) = "top" /\ value[i] = ")"
<1>0. N \in Nat /\ Places = 1..(N + 1)
  BY PlacesAre
<1>1. Lex[1] = LexStart /\ WithoutComments(Unfold(value)) = Lex[N + 1]
  BY LexIs DEF IsLex
<1> DEFINE S == {m \in 0..N : Lex[m + 1].stray <=> \E i \in 1..m : Mode(i) = "top" /\ value[i] = ")"}
<1>2. 0 \in S
  <2>1. ~Lex[0 + 1].stray
    BY <1>1 DEF LexStart
  <2> QED
    BY <1>0, <2>1
<1>3. ASSUME NEW m \in 1..N, m - 1 \in S PROVE m \in S
  <2>1. (m - 1) + 1 = m /\ m \in 0..N
    BY <1>0
  <2>2. Lex[m].stray <=> \E i \in 1..(m - 1) : Mode(i) = "top" /\ value[i] = ")"
    BY <1>3, <2>1
  <2>3. Lex[m + 1].stray <=> Lex[m].stray \/ (Mode(m) = "top" /\ value[m] = ")")
    BY StepFacts
  <2>4. \A i \in 1..m : i \in 1..(m - 1) \/ i = m
    BY <1>0
  <2>5. (\E i \in 1..m : Mode(i) = "top" /\ value[i] = ")") <=>
           (\E i \in 1..(m - 1) : Mode(i) = "top" /\ value[i] = ")") \/ (Mode(m) = "top" /\ value[m] = ")")
    BY <1>0, <2>4
  <2> QED
    BY <2>1, <2>2, <2>3, <2>5
<1>4. 0..N \subseteq S
  <2> HIDE DEF S
  <2> QED
    BY <1>0, <1>2, <1>3, UpTo
<1>5. N \in S
  BY <1>0, <1>4
<1> QED
  BY <1>1, <1>5

-----------------------------------------------------------------------------
(* A value that unfolds is read item by item: a byte, or a fold.            *)

Lexable == value \in Seq(FromBytes) /\ Foldable(value)
Whole(i) == i \in Places /\ (i = 1 \/ value[i - 1] \notin {CR, LF})
Sign(i) == IF value[i] = CR THEN value[i + 2] ELSE value[i]
After(i) == IF value[i] = CR THEN i + 3 ELSE i + 1

(* What an item is and does *)
Itemized(i) ==
    LET c == Sign(i)
        j == After(i)
    IN  /\ i \in Nat /\ j \in Nat /\ i < j /\ Whole(j) /\ j <= N + 1
        /\ c \in Printable \cup WSP
        /\ value[i] = CR <=> value[i] # c
        /\ value[i] # c => c \in WSP
        /\ j = i + 1 <=> value[i] = c
        /\ \A m \in Nat : i < m /\ m < j => ~Whole(m)
        /\ Mode(i) = "top" =>
              /\ Mode(j) = IF c = "(" THEN "comment" ELSE IF c = Quote THEN "quoted" ELSE "top"
              /\ Depth(j) = IF c = "(" THEN 1 ELSE 0
        /\ Mode(i) = "quoted" =>
              /\ Mode(j) = IF c = Escape THEN "pair" ELSE IF c = Quote THEN "top" ELSE "quoted"
              /\ Depth(j) = 0
        /\ Mode(i) = "pair" => Mode(j) = "quoted" /\ Depth(j) = 0
        /\ Mode(i) = "comment" =>
              /\ Mode(j) = IF c = Escape THEN "cpair"
                           ELSE IF c = ")" /\ Depth(i) = 1 THEN "top" ELSE "comment"
              /\ Depth(j) = IF c = "(" THEN Depth(i) + 1
                            ELSE IF c = ")" THEN Depth(i) - 1 ELSE Depth(i)
        /\ Mode(i) = "cpair" => Mode(j) = "comment" /\ Depth(j) = Depth(i)
        /\ Mode(i) \in {"comment", "cpair"} => Spot(j) = Spot(i)
        /\ Mode(i) \in {"top", "quoted", "pair"} =>
              /\ Spot(j) = Spot(i) + 1 /\ Spot(i) \in 1..Len(Kept)
              /\ Kept[Spot(i)] = IF Mode(i) = "top" /\ c = "(" THEN SP ELSE c

(* What follows a place depends on one item: a byte, or a fold as a whole. *)
LEMMA ItemFacts ==
    ASSUME Lexable, NEW i, Whole(i), i <= N
    PROVE  Itemized(i)
<1>0. /\ N \in Nat /\ Places = 1..(N + 1) /\ i \in Places /\ i \in 1..N /\ i \in Nat
      /\ value \in Seq(FromBytes)
  BY PlacesAre DEF Lexable, Whole
<1>f. \A m \in 1..N : /\ value[m] = CR => m + 2 <= N /\ value[m + 1] = LF /\ value[m + 2] \in WSP
                      /\ value[m] = LF => m > 1 /\ value[m - 1] = CR
                      /\ value[m] # "ctl"
  <2>1. DOMAIN value = 1..N
    BY <1>0, LenProperties DEF N
  <2> QED
    BY <2>1 DEF Lexable, Foldable, N
<1>b. \A m \in 1..N : value[m] \in FromBytes
  BY <1>0, ElementOfSeq DEF N
<1>1. CASE value[i] # CR
  <2>1. Sign(i) = value[i] /\ After(i) = i + 1
    BY <1>1 DEF Sign, After
  <2>2. value[i] # LF
    BY <1>0, <1>f DEF Whole
  <2>3. value[i] \in Printable \cup WSP
    BY <1>0, <1>1, <1>b, <1>f, <2>2, Bytes
  <2>4. Whole(i + 1)
    <3>1. (i + 1) - 1 = i /\ i + 1 \in Places
      BY <1>0
    <3> QED
      BY <1>1, <2>2, <3>1 DEF Whole
  <2>5. \A m \in Nat : ~(i < m /\ m < i + 1)
    BY <1>0
  <2>6. Stepped(i) /\ (Keeps(i) => /\ Kept[Spot(i)] = KeptFor(i) /\ Spot(i) \in 1..Len(Kept))
    BY <1>0, StepFacts, KeptAt
  <2>7. Mode(i) \in {"top", "quoted", "pair"} => Keeps(i)
    BY <1>1, <2>2 DEF Keeps
  <2> QED
    BY <1>0, <1>1, <2>1, <2>2, <2>3, <2>4, <2>5, <2>6, <2>7 DEF Itemized, Stepped, KeptFor
<1>2. CASE value[i] = CR
  <2>1. /\ Sign(i) = value[i + 2] /\ After(i) = i + 3 /\ i + 2 <= N /\ value[i + 1] = LF
        /\ value[i + 2] \in WSP
    BY <1>0, <1>2, <1>f DEF Sign, After
  <2>2. i + 1 \in 1..N /\ i + 2 \in 1..N /\ (i + 1) + 1 = i + 2 /\ (i + 2) + 1 = i + 3
    BY <1>0, <2>1
  <2>3. value[i + 2] \notin {CR, LF, "(", ")", Quote, Escape}
    BY <2>1, Bytes
  <2>4. Whole(i + 3)
    <3>1. (i + 3) - 1 = i + 2 /\ i + 3 \in Places
      BY <1>0, <2>2
    <3> QED
      BY <2>3, <3>1 DEF Whole
  <2>5. ASSUME NEW m \in Nat, i < m, m < i + 3 PROVE ~Whole(m)
    <3>1. CASE m = i + 1
      <4>1. m - 1 = i /\ m # 1
        BY <1>0, <3>1
      <4> QED
        BY <1>2, <4>1 DEF Whole
    <3>2. CASE m = i + 2
      <4>1. m - 1 = i + 1 /\ m # 1
        BY <1>0, <3>2
      <4> QED
        BY <2>1, <4>1 DEF Whole
    <3> QED
      BY <1>0, <2>5, <3>1, <3>2
  <2>6. /\ Mode(i + 1) = Mode(i) /\ Depth(i + 1) = Depth(i) /\ Spot(i + 1) = Spot(i)
        /\ Mode(i + 2) = Mode(i + 1) /\ Depth(i + 2) = Depth(i + 1) /\ Spot(i + 2) = Spot(i + 1)
    <3>1. Stepped(i) /\ Stepped(i + 1)
      BY <1>0, <2>2, StepFacts
    <3> QED
      BY <1>2, <2>1, <2>2, <3>1 DEF Stepped
  <2>7. PICK k : k = i + 2
    OBVIOUS
  <2>8. k \in 1..N /\ k + 1 = i + 3 /\ Mode(k) = Mode(i) /\ Depth(k) = Depth(i) /\ Spot(k) = Spot(i)
        /\ value[k] = Sign(i)
    BY <2>1, <2>2, <2>6, <2>7
  <2>9. Stepped(k) /\ (Keeps(k) => /\ Kept[Spot(k)] = KeptFor(k) /\ Spot(k) \in 1..Len(Kept))
    BY <1>0, <2>8, StepFacts, KeptAt
  <2>10. value[k] \notin {CR, LF, "(", ")", Quote, Escape} /\ value[k] \in WSP
    BY <2>1, <2>3, <2>8
  <2>11. Mode(k) \in {"top", "quoted", "pair"} => Keeps(k)
    BY <2>10 DEF Keeps
  <2> QED
    BY <1>0, <1>2, <2>1, <2>4, <2>5, <2>8, <2>9, <2>10, <2>11 DEF Itemized, Stepped, KeptFor
<1> QED
  BY <1>1, <1>2

(* The grammar and the scan read the same items. *)
LEMMA ItemIs ==
    ASSUME Lexable, NEW i, Whole(i), NEW j \in Places, NEW S, CR \notin S, LF \notin S
    PROVE  Item(i, j, S) <=> i <= N /\ Sign(i) \in S /\ j = After(i)
<1>0. /\ N \in Nat /\ Places = 1..(N + 1) /\ i \in Places /\ i \in Nat
      /\ value \in Seq(FromBytes)
  BY PlacesAre DEF Lexable, Whole
<1>1. CASE i <= N
  <2>1. DOMAIN value = 1..N /\ i \in 1..N
    BY <1>0, <1>1, LenProperties DEF N
  <2>2. value[i] = CR => i + 2 <= N /\ value[i + 1] = LF /\ value[i + 2] \in WSP
    BY <2>1 DEF Lexable, Foldable, N
  <2>3. CASE value[i] = CR
    BY <1>0, <1>1, <2>2, <2>3 DEF Item, Sign, After
  <2>4. CASE value[i] # CR
    BY <1>0, <1>1, <2>4 DEF Item, Sign, After
  <2> QED
    BY <2>3, <2>4
<1>2. CASE ~(i <= N)
  BY <1>0, <1>2 DEF Item
<1> QED
  BY <1>1, <1>2

(* Text, item by item: X holds bytes that are not to be in it *)
LEMMA TextualIs ==
    ASSUME Lexable, NEW i, Whole(i), NEW j \in Places, NEW X, Escape \in X, NEW S, S \subseteq WSP
    PROVE  Textual(i, j, X, S) <=>
              /\ i <= N
              /\ \/ Sign(i) \in (Printable \ X) \cup WSP /\ j = After(i)
                 \/ /\ Sign(i) = Escape /\ After(i) = i + 1 /\ After(i) <= N
                    /\ Sign(i + 1) \in Printable \cup S /\ j = After(i + 1)
<1>0. /\ N \in Nat /\ Places = 1..(N + 1) /\ i \in Places /\ i \in Nat
      /\ value \in Seq(FromBytes)
  BY PlacesAre DEF Lexable, Whole
<1>1. CASE i <= N
  <2>1. Itemized(i)
    BY <1>1, ItemFacts
  <2>2. PICK Y, Z : Y = (Printable \ X) \cup WSP /\ Z = Printable \cup S
    OBVIOUS
  <2>3. CR \notin Y /\ LF \notin Y /\ CR \notin Z /\ LF \notin Z /\ Escape \notin WSP /\ Escape # CR
    BY <2>2, Bytes
  <2>4. Item(i, j, Y) <=> i <= N /\ Sign(i) \in Y /\ j = After(i)
    BY <2>3, ItemIs
  <2>5. CASE value[i] = Escape
    <3>1. Sign(i) = Escape /\ After(i) = i + 1 /\ Whole(i + 1)
      BY <2>1, <2>3, <2>5 DEF Itemized, Sign, After
    <3>2. PICK k : k = i + 1
      OBVIOUS
    <3>3. Item(k, j, Z) <=> k <= N /\ Sign(k) \in Z /\ j = After(k)
      BY <2>3, <3>1, <3>2, ItemIs
    <3> QED
      BY <1>0, <1>1, <2>2, <2>4, <2>5, <3>1, <3>2, <3>3 DEF Textual
  <2>6. CASE value[i] # Escape
    <3>1. Sign(i) # Escape
      BY <2>1, <2>3, <2>6 DEF Itemized
    <3> QED
      BY <1>1, <2>2, <2>4, <2>6, <3>1 DEF Textual
  <2> QED
    BY <2>5, <2>6
<1>2. CASE ~(i <= N)
  <2>1. ~Item(i, j, (Printable \ X) \cup WSP)
    BY <1>0, <1>2 DEF Item
  <2> QED
    BY <1>2, <2>1 DEF Textual
<1> QED
  BY <1>1, <1>2

-----------------------------------------------------------------------------
(* Comments: the grammar nests them, the scan counts their brackets.        *)

(* j follows the bracket that closes the comment k is in *)
Falls(k, j) ==
    /\ Whole(j) /\ j > k /\ Depth(j) = Depth(k) - 1 /\ Mode(j) \in {"comment", "top"}
    /\ \A m \in Places : Whole(m) /\ k <= m /\ m < j => Depth(m) >= Depth(k)

(* Closing a comment from a later place is closing it from an earlier one   *)
(* if the depth does not fall between.                                      *)
LEMMA FallsOn ==
    ASSUME Lexable, NEW k \in Places, NEW a \in Places, NEW j, Falls(a, j), k < a,
           Depth(a) = Depth(k),
           \A m \in Places : Whole(m) /\ k <= m /\ m < a => Depth(m) >= Depth(k)
    PROVE  Falls(k, j)
<1>1. N \in Nat /\ Places = 1..(N + 1) /\ j \in Places
  BY PlacesAre DEF Lexable, Falls, Whole
<1>2. \A m \in Places : Whole(m) /\ k <= m /\ m < j => Depth(m) >= Depth(k)
  BY <1>1 DEF Falls
<1> QED
  BY <1>1, <1>2 DEF Falls

(* Every bracket that closes the comment is found, and the first of them.   *)
Closing(f, k) ==
    /\ \A j \in Places : j \in f[k] => Falls(k, j)
    /\ \A j \in Places : Whole(j) /\ j > k /\ Depth(j) < Depth(k) => \E e \in Places : e \in f[k] /\ e <= j

(* The grammar closes a comment where the depth of the scan falls, and only *)
(* there.                                                                   *)
LEMMA CommentsClose ==
    ASSUME Lexable, NEW f, IsInside(f)
    PROVE  \A k \in Places : Whole(k) /\ Mode(k) = "comment" => Closing(f, k)
<1>0. N \in Nat /\ N + 1 \in Nat /\ Places = 1..(N + 1) /\ value \in Seq(FromBytes)
      /\ \A m \in Places : m \in Nat /\ Depth(m) \in Nat
  BY PlacesAre, ModeAt DEF Lexable
<1>f. \A i, k \in Places :
          k \in f[i] <=> \/ i <= N /\ value[i] = ")" /\ k = i + 1
                         \/ \E j \in Places : Textual(i, j, {"(", ")", Escape}, WSP) /\ k \in f[j]
                         \/ \E j \in Places : i <= N /\ value[i] = "(" /\ j \in f[i + 1] /\ k \in f[j]
  <2> SUFFICES ASSUME NEW i \in Places, NEW k \in Places
               PROVE  k \in f[i] <=>
                         \/ i <= N /\ value[i] = ")" /\ k = i + 1
                         \/ \E j \in Places : Textual(i, j, {"(", ")", Escape}, WSP) /\ k \in f[j]
                         \/ \E j \in Places : i <= N /\ value[i] = "(" /\ j \in f[i + 1] /\ k \in f[j]
    OBVIOUS
  <2>1. k \in f[i] <=> \/ k \in Byte({")"})[i]
                       \/ \E j \in Places : j \in CommentText[i] /\ k \in f[j]
                       \/ \E m, j \in Places : m \in Byte({"("})[i] /\ j \in f[m] /\ k \in f[j]
    BY DEF IsInside
  <2>2. k \in Byte({")"})[i] <=> i <= N /\ value[i] = ")" /\ k = i + 1
    BY <1>0, ByteIs
  <2>3. \A j \in Places : j \in CommentText[i] <=> Textual(i, j, {"(", ")", Escape}, WSP)
    BY <1>0, CommentTextIs
  <2>4. \A m \in Places : m \in Byte({"("})[i] <=> i <= N /\ value[i] = "(" /\ m = i + 1
    BY <1>0, ByteIs
  <2>5. i <= N => i + 1 \in Places
    BY <1>0
  <2> QED
    BY <2>1, <2>2, <2>3, <2>4, <2>5
<1> DEFINE S == {k \in Places : Whole(k) /\ Mode(k) = "comment" => Closing(f, k)}
<1>1. ASSUME NEW k \in 1..(N + 1), \A j \in 1..(N + 1) : j > k => j \in S
      PROVE  k \in S
  <2> SUFFICES ASSUME Whole(k), Mode(k) = "comment" PROVE Closing(f, k)
    BY <1>0
  <2>0. k \in Places /\ k \in Nat /\ Depth(k) \in Nat /\ Depth(k) > 0
    <3>1. k \in Places /\ k \in Nat /\ Depth(k) \in Nat
      BY <1>0
    <3>2. Depth(k) # 0
      BY <1>0, <3>1, ModeAt
    <3> QED
      BY <3>1, <3>2
  <2>i. \A a \in Places : a > k /\ Whole(a) /\ Mode(a) = "comment" => Closing(f, a)
    BY <1>0, <1>1
  <2>t. ASSUME NEW j \in Places
        PROVE  Textual(k, j, {"(", ")", Escape}, WSP) <=>
                  /\ k <= N
                  /\ \/ Sign(k) \in (Printable \ {"(", ")", Escape}) \cup WSP /\ j = After(k)
                     \/ /\ Sign(k) = Escape /\ After(k) = k + 1 /\ After(k) <= N
                        /\ Sign(k + 1) \in Printable \cup WSP /\ j = After(k + 1)
    <3>1. PICK X : X = {"(", ")", Escape}
      OBVIOUS
    <3>2. Escape \in X /\ WSP \subseteq WSP
      BY <3>1
    <3>3. Textual(k, j, X, WSP) <=>
                  /\ k <= N
                  /\ \/ Sign(k) \in (Printable \ X) \cup WSP /\ j = After(k)
                     \/ /\ Sign(k) = Escape /\ After(k) = k + 1 /\ After(k) <= N
                        /\ Sign(k + 1) \in Printable \cup WSP /\ j = After(k + 1)
      BY <3>2, TextualIs
    <3> QED
      BY <3>1, <3>3
  <2>1. CASE k > N
    <3>1. \A j \in Places : ~(j > k) /\ ~(k <= N)
      BY <1>0, <2>0, <2>1
    <3>2. \A j \in Places : ~Textual(k, j, {"(", ")", Escape}, WSP)
      BY <2>t, <3>1
    <3>3. \A j \in Places : j \notin f[k]
      BY <1>f, <2>0, <3>1, <3>2
    <3> QED
      BY <3>1, <3>3 DEF Closing
  <2>2. CASE k <= N
    <3>0. Itemized(k)
      BY <2>2, ItemFacts
    <3>a. PICK a : a = After(k)
      OBVIOUS
    <3>b. /\ a \in Nat /\ a > k /\ a <= N + 1 /\ Whole(a) /\ a \in Places /\ Depth(a) \in Nat
          /\ \A m \in Places : Whole(m) /\ m > k => m >= a
      <4>1. a \in Nat /\ a > k /\ a <= N + 1 /\ Whole(a)
            /\ \A m \in Nat : k < m /\ m < a => ~Whole(m)
        BY <3>0, <3>a DEF Itemized
      <4>2. a \in Places /\ Depth(a) \in Nat
        BY <1>0, <2>0, <4>1
      <4> QED
        BY <1>0, <2>0, <4>1, <4>2
    <3>n. "(" # ")" /\ Escape # "(" /\ Escape # ")" /\ "(" \notin WSP /\ ")" \notin WSP /\ Escape \notin WSP
      BY Bytes
    <3>c. Sign(k) \in {"(", ")", Escape} => value[k] = Sign(k) /\ a = k + 1
      BY <3>0, <3>a, <3>n DEF Itemized
    <3>1. CASE Sign(k) = ")"
      <4>1. value[k] = ")" /\ a = k + 1 /\ Depth(a) = Depth(k) - 1 /\ Mode(a) \in {"comment", "top"}
        BY <3>0, <3>1, <3>a, <3>c, <3>n DEF Itemized
      <4>2. \A j \in Places : ~Textual(k, j, {"(", ")", Escape}, WSP)
        BY <2>t, <3>1, <3>n
      <4>3. \A j \in Places : j \in f[k] <=> j = a
        BY <1>f, <2>0, <2>2, <3>b, <3>n, <4>1, <4>2
      <4>4. Falls(k, a)
        BY <1>0, <2>0, <3>b, <4>1 DEF Falls
      <4> QED
        BY <3>b, <4>3, <4>4 DEF Closing
    <3>2. CASE Sign(k) = "("
      <4>1. value[k] = "(" /\ a = k + 1 /\ Depth(a) = Depth(k) + 1 /\ Mode(a) = "comment"
        BY <3>0, <3>2, <3>a, <3>c, <3>n DEF Itemized
      <4>2. \A j \in Places : ~Textual(k, j, {"(", ")", Escape}, WSP)
        BY <2>t, <3>2, <3>n
      <4>3. \A j \in Places : j \in f[k] <=> \E e \in Places : e \in f[a] /\ j \in f[e]
        BY <1>f, <2>0, <2>2, <3>n, <4>1, <4>2
      <4>4. Closing(f, a)
        BY <2>i, <3>b, <4>1
      <4>5. ASSUME NEW e \in Places, Falls(a, e)
            PROVE  e > k /\ Whole(e) /\ Depth(e) = Depth(k) /\ Mode(e) = "comment" /\ Closing(f, e)
        <5>1. e > a /\ Whole(e) /\ Depth(e) = Depth(a) - 1 /\ Mode(e) \in {"comment", "top"}
          BY <4>5 DEF Falls
        <5>2. e > k /\ Depth(e) = Depth(k)
          BY <1>0, <2>0, <3>b, <4>1, <5>1
        <5>3. Mode(e) = "comment"
          BY <1>0, <2>0, <5>1, <5>2, ModeAt
        <5> QED
          BY <2>i, <5>1, <5>2, <5>3
      <4>6. ASSUME NEW j \in Places, j \in f[k] PROVE Falls(k, j)
        <5>1. PICK e \in Places : e \in f[a] /\ j \in f[e]
          BY <4>3, <4>6
        <5>2. Falls(a, e)
          BY <4>4, <5>1 DEF Closing
        <5>3. e > k /\ Depth(e) = Depth(k) /\ Falls(e, j)
          BY <4>5, <5>1, <5>2 DEF Closing
        <5>4. ASSUME NEW m \in Places, Whole(m), k <= m, m < e PROVE Depth(m) >= Depth(k)
          <6>1. CASE m = k
            BY <1>0, <6>1
          <6>2. CASE m # k
            <7>1. m >= a
              BY <1>0, <2>0, <3>b, <5>4, <6>2
            <7>2. Depth(m) >= Depth(a)
              BY <5>2, <5>4, <7>1 DEF Falls
            <7> QED
              BY <1>0, <2>0, <3>b, <4>1, <7>2
          <6> QED
            BY <6>1, <6>2
        <5> QED
          BY <2>0, <5>3, <5>4, FallsOn
      <4>7. ASSUME NEW j \in Places, Whole(j), j > k, Depth(j) < Depth(k)
            PROVE  \E e \in Places : e \in f[k] /\ e <= j
        <5>1. j > a /\ Depth(j) < Depth(a)
          <6>1. j >= a /\ Depth(j) \in Nat
            BY <1>0, <3>b, <4>7
          <6>2. j # a
            BY <2>0, <4>1, <4>7, <6>1
          <6> QED
            BY <1>0, <2>0, <3>b, <4>1, <4>7, <6>1, <6>2
        <5>2. PICK e \in Places : e \in f[a] /\ e <= j
          BY <4>4, <4>7, <5>1 DEF Closing
        <5>3. e > k /\ Depth(e) = Depth(k) /\ Closing(f, e)
          BY <4>4, <4>5, <5>2 DEF Closing
        <5>4. j > e /\ Depth(j) < Depth(e)
          BY <1>0, <2>0, <4>7, <5>2, <5>3
        <5>5. PICK g \in Places : g \in f[e] /\ g <= j
          BY <4>7, <5>3, <5>4 DEF Closing
        <5> QED
          BY <4>3, <5>2, <5>5
      <4> QED
        BY <4>6, <4>7 DEF Closing
    <3>3. CASE Sign(k) = Escape
      <4>1. value[k] = Escape /\ a = k + 1 /\ Depth(a) = Depth(k) /\ Mode(a) = "cpair"
        BY <3>0, <3>3, <3>a, <3>c, <3>n DEF Itemized
      <4>2. CASE a > N
        <5>1. \A j \in Places : ~Textual(k, j, {"(", ")", Escape}, WSP)
          <6> SUFFICES ASSUME NEW j \in Places PROVE ~Textual(k, j, {"(", ")", Escape}, WSP)
            OBVIOUS
          <6>1. ~(After(k) <= N)
            BY <1>0, <3>a, <3>b, <4>2
          <6>2. Sign(k) \notin (Printable \ {"(", ")", Escape}) \cup WSP
            BY <3>3, <3>n
          <6> QED
            BY <2>t, <6>1, <6>2
        <5>2. \A j \in Places : j \notin f[k]
          BY <1>f, <2>0, <3>n, <4>1, <5>1
        <5>3. \A j \in Places : j > k => j = a
          BY <1>0, <2>0, <3>b, <4>1, <4>2
        <5>4. \A j \in Places : j > k => ~(Depth(j) < Depth(k))
          BY <2>0, <4>1, <5>3
        <5> QED
          BY <5>2, <5>4 DEF Closing
      <4>3. CASE a <= N
        <5>0. Itemized(a)
          BY <3>b, <4>3, ItemFacts
        <5>1. PICK b : b = After(a)
          OBVIOUS
        <5>2. /\ b > a /\ b \in Places /\ Whole(b) /\ Mode(b) = "comment" /\ Depth(b) = Depth(k)
              /\ Sign(a) \in Printable \cup WSP
              /\ \A m \in Places : Whole(m) /\ m > a => m >= b
          BY <1>0, <3>b, <4>1, <5>0, <5>1 DEF Itemized
        <5>3. \A j \in Places : Textual(k, j, {"(", ")", Escape}, WSP) <=> j = b
          BY <2>t, <2>2, <3>3, <3>a, <3>n, <4>1, <4>3, <5>1, <5>2
        <5>4. \A j \in Places : j \in f[k] <=> j \in f[b]
          <6> SUFFICES ASSUME NEW j \in Places PROVE j \in f[k] <=> j \in f[b]
            OBVIOUS
          <6>1. value[k] # ")" /\ value[k] # "("
            BY <3>n, <4>1
          <6>2. j \in f[k] <=> \E e \in Places : Textual(k, e, {"(", ")", Escape}, WSP) /\ j \in f[e]
            BY <1>f, <2>0, <6>1
          <6> QED
            BY <5>2, <5>3, <6>2
        <5>5. Closing(f, b)
          BY <1>0, <2>0, <2>i, <3>b, <5>2
        <5>6. ASSUME NEW m \in Places, Whole(m), k <= m, m < b PROVE Depth(m) >= Depth(k)
          <6>1. m = k \/ m = a
            BY <1>0, <2>0, <3>b, <5>2, <5>6
          <6> QED
            BY <2>0, <4>1, <6>1
        <5>7. k < b
          BY <1>0, <2>0, <3>b, <5>2
        <5>8. ASSUME NEW j \in Places, j \in f[k] PROVE Falls(k, j)
          <6>1. Falls(b, j)
            BY <5>4, <5>5, <5>8 DEF Closing
          <6> QED
            BY <2>0, <5>2, <5>6, <5>7, <6>1, FallsOn
        <5>9. ASSUME NEW j \in Places, Whole(j), j > k, Depth(j) < Depth(k)
              PROVE  \E e \in Places : e \in f[k] /\ e <= j
          <6>1. Depth(j) \in Nat /\ j # a /\ j # b
            BY <1>0, <2>0, <4>1, <5>2, <5>9
          <6>2. j > b
            BY <1>0, <3>b, <5>2, <5>9, <6>1
          <6>3. PICK e \in Places : e \in f[b] /\ e <= j
            BY <5>2, <5>5, <5>9, <6>2 DEF Closing
          <6> QED
            BY <5>4, <6>3
        <5> QED
          BY <5>8, <5>9 DEF Closing
      <4> QED
        BY <1>0, <3>b, <4>2, <4>3
    <3>4. CASE Sign(k) \notin {"(", ")", Escape}
      <4>1. /\ Depth(a) = Depth(k) /\ Mode(a) = "comment"
            /\ Sign(k) \in (Printable \ {"(", ")", Escape}) \cup WSP
        BY <3>0, <3>4, <3>a DEF Itemized
      <4>2. \A j \in Places : Textual(k, j, {"(", ")", Escape}, WSP) <=> j = a
        BY <2>t, <2>2, <3>4, <3>a, <4>1
      <4>3. value[k] \notin {"(", ")"}
        BY <3>0, <3>4, <3>n DEF Itemized, Sign, CR
      <4>4. \A j \in Places : j \in f[k] <=> j \in f[a]
        BY <1>f, <2>0, <3>b, <4>2, <4>3
      <4>5. Closing(f, a)
        BY <2>i, <3>b, <4>1
      <4>6. ASSUME NEW m \in Places, Whole(m), k <= m, m < a PROVE Depth(m) >= Depth(k)
        <5>1. m = k
          BY <1>0, <2>0, <3>b, <4>6
        <5> QED
          BY <2>0, <5>1
      <4>7. ASSUME NEW j \in Places, j \in f[k] PROVE Falls(k, j)
        <5>1. Falls(a, j)
          BY <4>4, <4>5, <4>7 DEF Closing
        <5> QED
          BY <2>0, <3>b, <4>1, <4>6, <5>1, FallsOn
      <4>8. ASSUME NEW j \in Places, Whole(j), j > k, Depth(j) < Depth(k)
            PROVE  \E e \in Places : e \in f[k] /\ e <= j
        <5>1. Depth(j) \in Nat /\ j # a
          BY <1>0, <2>0, <4>1, <4>8
        <5>2. j > a
          BY <1>0, <3>b, <4>8, <5>1
        <5>3. PICK e \in Places : e \in f[a] /\ e <= j
          BY <4>1, <4>5, <4>8, <5>2 DEF Closing
        <5> QED
          BY <4>4, <5>3
      <4> QED
        BY <4>7, <4>8 DEF Closing
    <3> QED
      BY <3>1, <3>2, <3>3, <3>4
  <2> QED
    BY <1>0, <2>0, <2>1, <2>2
<1>2. 1..(N + 1) \subseteq S
  <2> HIDE DEF S
  <2> QED
    BY <1>0, <1>1, FromLast
<1> QED
  BY <1>0, <1>2

-----------------------------------------------------------------------------
(* Quoted strings                                                           *)

QuotedRest(S) == Then(Many(Or(Byte(Printable \ {Quote, Escape}), Or(Space(WSP), Pair(S)))),
                      Byte({Quote}))

(* What follows an opening quote: the closing one, or text and what follows *)
(* that.                                                                    *)
LEMMA QuotedRestIs ==
    ASSUME value \in Seq(FromBytes), NEW S, S \subseteq WSP
    PROVE  /\ QuotedRest(S) \in Tables
           /\ \A i, k \in Places : k \in QuotedRest(S)[i] <=>
                 \/ i <= N /\ value[i] = Quote /\ k = i + 1
                 \/ \E j \in Places : Textual(i, j, {Quote, Escape}, S) /\ k \in QuotedRest(S)[j]
           /\ Good(QuotedRest(S)) /\ Quoted(S) = Then(Byte({Quote}), QuotedRest(S))
<1> DEFINE X == {Quote, Escape}
           A == Or(Byte(Printable \ X), Or(Space(WSP), Pair(S)))
           M == Many(A)
           B == Byte({Quote})
           R == Then(M, B)
<1>1. /\ A \in Tables /\ Good(A) /\ Moves(A)
      /\ \A i, j \in Places : j \in A[i] <=> Textual(i, j, X, S)
  <2> HIDE DEF X
  <2> QED
    BY TextIs, GoodText
<1>2. QuotedRest(S) = R /\ Quoted(S) = Then(Byte({Quote}), R)
  BY DEF QuotedRest, Quoted
<1>3. B \in Tables /\ Good(B) /\ \A i, j \in Places : j \in B[i] <=> i <= N /\ value[i] = Quote /\ j = i + 1
  <2>1. {Quote} \subseteq Printable
    BY DEF Printable
  <2>2. Good(B)
    BY <2>1, GoodByte
  <2>3. B \in Tables /\ \A i, j \in Places : j \in B[i] <=> i <= N /\ value[i] \in {Quote} /\ j = i + 1
    BY ByteIs
  <2> HIDE DEF B
  <2> QED
    BY <2>2, <2>3
<1> HIDE DEF A, B
<1>4. /\ M \in Tables /\ Good(M)
      /\ \A i, k \in Places : k \in M[i] <=> k = i \/ \E j \in Places : j \in A[i] /\ k \in M[j]
  BY <1>1, ManyIs, GoodMany
<1> HIDE DEF M
<1>5. /\ R \in Tables /\ Good(R)
      /\ \A i, k \in Places : k \in R[i] <=> \E j \in Places : j \in M[i] /\ k \in B[j]
  BY <1>3, <1>4, ThenIs, GoodThen
<1> HIDE DEF R
<1>6. ASSUME NEW i \in Places, NEW k \in Places
      PROVE  k \in R[i] <=> \/ k \in B[i]
                            \/ \E j \in Places : j \in A[i] /\ k \in R[j]
  <2>1. ASSUME k \in R[i] PROVE k \in B[i] \/ \E j \in Places : j \in A[i] /\ k \in R[j]
    <3>1. PICK m \in Places : m \in M[i] /\ k \in B[m]
      BY <1>5, <2>1
    <3>2. m = i \/ \E j \in Places : j \in A[i] /\ m \in M[j]
      BY <1>4, <3>1
    <3> QED
      BY <1>5, <3>1, <3>2
  <2>2. ASSUME k \in B[i] PROVE k \in R[i]
    BY <1>4, <1>5, <2>2
  <2>3. ASSUME NEW j \in Places, j \in A[i], k \in R[j] PROVE k \in R[i]
    <3>1. PICK m \in Places : m \in M[j] /\ k \in B[m]
      BY <1>5, <2>3
    <3>2. m \in M[i]
      BY <1>4, <2>3, <3>1
    <3> QED
      BY <1>5, <3>1, <3>2
  <2> QED
    BY <2>1, <2>2, <2>3
<1> QED
  BY <1>1, <1>2, <1>3, <1>5, <1>6

(* j follows the quote that ends the quoted string k is in, and what it     *)
(* escapes may be escaped                                                   *)
Unquotes(k, j, S) ==
    /\ Whole(j) /\ j > k /\ Mode(j) = "top"
    /\ \A m \in Places : Whole(m) /\ k <= m /\ m < j =>
          /\ Mode(m) \in {"quoted", "pair"}
          /\ Mode(m) = "pair" => Sign(m) \in Printable \cup S

(* As FallsOn, for quoted strings. *)
LEMMA UnquotesOn ==
    ASSUME Lexable, NEW k \in Places, NEW a \in Places, NEW j, NEW S, Unquotes(a, j, S), k < a,
           \A m \in Places : Whole(m) /\ k <= m /\ m < a =>
              Mode(m) \in {"quoted", "pair"} /\ (Mode(m) = "pair" => Sign(m) \in Printable \cup S)
    PROVE  Unquotes(k, j, S)
<1>1. N \in Nat /\ Places = 1..(N + 1) /\ j \in Places
  BY PlacesAre DEF Lexable, Unquotes, Whole
<1>2. ASSUME NEW m \in Places, Whole(m), k <= m, m < j
      PROVE  Mode(m) \in {"quoted", "pair"} /\ (Mode(m) = "pair" => Sign(m) \in Printable \cup S)
  <2>1. CASE m < a
    BY <1>2, <2>1
  <2>2. CASE ~(m < a)
    <3>1. a <= m
      BY <1>1, <2>2
    <3> QED
      BY <1>2, <3>1 DEF Unquotes
  <2> QED
    BY <2>1, <2>2
<1>3. j > k
  BY <1>1 DEF Unquotes
<1> QED
  BY <1>2, <1>3 DEF Unquotes

Unquoting(q, k, S) ==
    /\ \A j \in Places : j \in q[k] => Unquotes(k, j, S)
    /\ \A j \in Places :
          /\ Whole(j) /\ j > k /\ Mode(j) = "top"
          /\ \A m \in Places : Whole(m) /\ k <= m /\ m < j /\ Mode(m) = "pair" => Sign(m) \in Printable \cup S
          => \E e \in Places : e \in q[k] /\ e <= j

(* The grammar closes a quoted string where the scan leaves it, and only    *)
(* there.                                                                   *)
LEMMA QuotesClose ==
    ASSUME Lexable, NEW S, S \subseteq WSP
    PROVE  \A k \in Places : Whole(k) /\ Mode(k) = "quoted" => Unquoting(QuotedRest(S), k, S)
<1>0. N \in Nat /\ N + 1 \in Nat /\ Places = 1..(N + 1) /\ value \in Seq(FromBytes)
      /\ \A m \in Places : m \in Nat
  BY PlacesAre DEF Lexable
<1> DEFINE q == QuotedRest(S)
<1>f. \A i, k \in Places : k \in q[i] <=>
         \/ i <= N /\ value[i] = Quote /\ k = i + 1
         \/ \E j \in Places : Textual(i, j, {Quote, Escape}, S) /\ k \in q[j]
  BY <1>0, QuotedRestIs
<1> HIDE DEF q
<1> DEFINE I == {k \in Places : Whole(k) /\ Mode(k) = "quoted" => Unquoting(q, k, S)}
<1>1. ASSUME NEW k \in 1..(N + 1), \A j \in 1..(N + 1) : j > k => j \in I
      PROVE  k \in I
  <2> SUFFICES ASSUME Whole(k), Mode(k) = "quoted" PROVE Unquoting(q, k, S)
    BY <1>0
  <2>0. k \in Places /\ k \in Nat
    BY <1>0
  <2>i. \A a \in Places : a > k /\ Whole(a) /\ Mode(a) = "quoted" => Unquoting(q, a, S)
    BY <1>0, <1>1
  <2>t. ASSUME NEW j \in Places
        PROVE  Textual(k, j, {Quote, Escape}, S) <=>
                  /\ k <= N
                  /\ \/ Sign(k) \in (Printable \ {Quote, Escape}) \cup WSP /\ j = After(k)
                     \/ /\ Sign(k) = Escape /\ After(k) = k + 1 /\ After(k) <= N
                        /\ Sign(k + 1) \in Printable \cup S /\ j = After(k + 1)
    <3>1. PICK X : X = {Quote, Escape}
      OBVIOUS
    <3>2. Escape \in X
      BY <3>1
    <3>3. Textual(k, j, X, S) <=>
                  /\ k <= N
                  /\ \/ Sign(k) \in (Printable \ X) \cup WSP /\ j = After(k)
                     \/ /\ Sign(k) = Escape /\ After(k) = k + 1 /\ After(k) <= N
                        /\ Sign(k + 1) \in Printable \cup S /\ j = After(k + 1)
      BY <3>2, TextualIs
    <3> QED
      BY <3>1, <3>3
  <2>1. CASE k > N
    <3>1. \A j \in Places : ~(j > k) /\ ~(k <= N)
      BY <1>0, <2>0, <2>1
    <3>2. \A j \in Places : ~Textual(k, j, {Quote, Escape}, S)
      BY <2>t, <3>1
    <3>3. \A j \in Places : j \notin q[k]
      BY <1>f, <2>0, <3>1, <3>2
    <3> QED
      BY <3>1, <3>3 DEF Unquoting
  <2>2. CASE k <= N
    <3>0. Itemized(k)
      BY <2>2, ItemFacts
    <3>a. PICK a : a = After(k)
      OBVIOUS
    <3>b. /\ a \in Nat /\ a > k /\ a <= N + 1 /\ Whole(a) /\ a \in Places
          /\ \A m \in Places : Whole(m) /\ m > k => m >= a
      <4>1. a \in Nat /\ a > k /\ a <= N + 1 /\ Whole(a)
            /\ \A m \in Nat : k < m /\ m < a => ~Whole(m)
        BY <3>0, <3>a DEF Itemized
      <4>2. a \in Places
        BY <1>0, <2>0, <4>1
      <4> QED
        BY <1>0, <2>0, <4>1, <4>2
    <3>n. Escape # Quote /\ Quote \notin WSP /\ Escape \notin WSP
      BY Bytes
    <3>c. Sign(k) \in {Quote, Escape} => value[k] = Sign(k) /\ a = k + 1
      BY <3>0, <3>a, <3>n DEF Itemized
    <3>d. ASSUME NEW m \in Places, Whole(m), k <= m, m < a PROVE Mode(m) = "quoted"
      <4>1. m = k
        BY <1>0, <2>0, <3>b, <3>d
      <4> QED
        BY <4>1
    <3>1. CASE Sign(k) = Quote
      <4>1. value[k] = Quote /\ a = k + 1 /\ Mode(a) = "top"
        BY <3>0, <3>1, <3>a, <3>c, <3>n DEF Itemized
      <4>2. \A j \in Places : ~Textual(k, j, {Quote, Escape}, S)
        BY <2>t, <3>1, <3>n
      <4>3. \A j \in Places : j \in q[k] <=> j = a
        BY <1>f, <2>0, <2>2, <3>b, <3>n, <4>1, <4>2
      <4>4. Unquotes(k, a, S)
        BY <3>b, <3>d, <4>1 DEF Unquotes
      <4> QED
        BY <3>b, <4>3, <4>4 DEF Unquoting
    <3>2. CASE Sign(k) = Escape
      <4>1. value[k] = Escape /\ a = k + 1 /\ Mode(a) = "pair"
        BY <3>0, <3>2, <3>a, <3>c, <3>n DEF Itemized
      <4>2. CASE ~(a <= N /\ Sign(a) \in Printable \cup S)
        <5>1. ASSUME NEW j \in Places PROVE ~Textual(k, j, {Quote, Escape}, S)
          <6>1. Sign(k) \notin (Printable \ {Quote, Escape}) \cup WSP
            BY <3>2, <3>n
          <6>2. ~(After(k) <= N /\ Sign(k + 1) \in Printable \cup S)
            BY <3>a, <4>1, <4>2
          <6> QED
            BY <2>t, <6>1, <6>2
        <5>2. \A j \in Places : j \notin q[k]
          BY <1>f, <2>0, <3>n, <4>1, <5>1
        <5>3. ASSUME NEW j \in Places, Whole(j), j > k, Mode(j) = "top",
                     \A m \in Places : Whole(m) /\ k <= m /\ m < j /\ Mode(m) = "pair"
                                          => Sign(m) \in Printable \cup S
              PROVE  FALSE
          <6>1. j > a
            <7>1. j >= a /\ j # a
              BY <3>b, <4>1, <5>3
            <7> QED
              BY <1>0, <3>b, <7>1
          <6>2. k <= a /\ a <= N
            BY <1>0, <2>0, <3>b, <6>1
          <6>3. Sign(a) \in Printable \cup S
            BY <3>b, <4>1, <5>3, <6>1, <6>2
          <6> QED
            BY <4>2, <6>2, <6>3
        <5> QED
          BY <5>2, <5>3 DEF Unquoting
      <4>3. CASE a <= N /\ Sign(a) \in Printable \cup S
        <5>0. Itemized(a)
          BY <3>b, <4>3, ItemFacts
        <5>1. PICK b : b = After(a)
          OBVIOUS
        <5>2. /\ b > a /\ b \in Places /\ Whole(b) /\ Mode(b) = "quoted"
              /\ \A m \in Places : Whole(m) /\ m > a => m >= b
          BY <1>0, <3>b, <4>1, <5>0, <5>1 DEF Itemized
        <5>3. \A j \in Places : Textual(k, j, {Quote, Escape}, S) <=> j = b
          BY <2>t, <2>2, <3>2, <3>a, <3>n, <4>1, <4>3, <5>1, <5>2
        <5>4. \A j \in Places : j \in q[k] <=> j \in q[b]
          <6> SUFFICES ASSUME NEW j \in Places PROVE j \in q[k] <=> j \in q[b]
            OBVIOUS
          <6>1. j \in q[k] <=> \E e \in Places : Textual(k, e, {Quote, Escape}, S) /\ j \in q[e]
            BY <1>f, <2>0, <3>n, <4>1
          <6> QED
            BY <5>2, <5>3, <6>1
        <5>5. Unquoting(q, b, S)
          BY <1>0, <2>0, <2>i, <3>b, <5>2
        <5>6. ASSUME NEW m \in Places, Whole(m), k <= m, m < b
              PROVE  Mode(m) \in {"quoted", "pair"} /\ (Mode(m) = "pair" => Sign(m) \in Printable \cup S)
          <6>1. m = k \/ m = a
            BY <1>0, <2>0, <3>b, <5>2, <5>6
          <6> QED
            BY <4>1, <4>3, <6>1
        <5>7. k < b
          BY <1>0, <2>0, <3>b, <5>2
        <5>8. ASSUME NEW j \in Places, j \in q[k] PROVE Unquotes(k, j, S)
          <6>1. Unquotes(b, j, S)
            BY <5>4, <5>5, <5>8 DEF Unquoting
          <6> QED
            BY <2>0, <5>2, <5>6, <5>7, <6>1, UnquotesOn
        <5>9. ASSUME NEW j \in Places, Whole(j), j > k, Mode(j) = "top",
                     \A m \in Places : Whole(m) /\ k <= m /\ m < j /\ Mode(m) = "pair"
                                          => Sign(m) \in Printable \cup S
              PROVE  \E e \in Places : e \in q[k] /\ e <= j
          <6>1. j # a /\ j # b
            BY <4>1, <5>2, <5>9
          <6>2. j > b
            BY <1>0, <3>b, <5>2, <5>9, <6>1
          <6>3. \A m \in Places : Whole(m) /\ b <= m /\ m < j /\ Mode(m) = "pair"
                                          => Sign(m) \in Printable \cup S
            BY <1>0, <2>0, <5>2, <5>7, <5>9
          <6>4. PICK e \in Places : e \in q[b] /\ e <= j
            BY <5>5, <5>9, <6>2, <6>3 DEF Unquoting
          <6> QED
            BY <5>4, <6>4
        <5> QED
          BY <5>8, <5>9 DEF Unquoting
      <4> QED
        BY <4>2, <4>3
    <3>3. CASE Sign(k) \notin {Quote, Escape}
      <4>1. Mode(a) = "quoted" /\ Sign(k) \in (Printable \ {Quote, Escape}) \cup WSP
        BY <3>0, <3>3, <3>a DEF Itemized
      <4>2. \A j \in Places : Textual(k, j, {Quote, Escape}, S) <=> j = a
        BY <2>t, <2>2, <3>3, <3>a, <4>1
      <4>3. value[k] # Quote
        BY <3>0, <3>3, <3>n DEF Itemized, Sign, CR, Quote
      <4>4. \A j \in Places : j \in q[k] <=> j \in q[a]
        BY <1>f, <2>0, <3>b, <4>2, <4>3
      <4>5. Unquoting(q, a, S)
        BY <2>i, <3>b, <4>1
      <4>6. ASSUME NEW j \in Places, j \in q[k] PROVE Unquotes(k, j, S)
        <5>1. Unquotes(a, j, S)
          BY <4>4, <4>5, <4>6 DEF Unquoting
        <5> QED
          BY <2>0, <3>b, <3>d, <5>1, UnquotesOn
      <4>7. ASSUME NEW j \in Places, Whole(j), j > k, Mode(j) = "top",
                   \A m \in Places : Whole(m) /\ k <= m /\ m < j /\ Mode(m) = "pair"
                                        => Sign(m) \in Printable \cup S
            PROVE  \E e \in Places : e \in q[k] /\ e <= j
        <5>1. j # a
          BY <4>1, <4>7
        <5>2. j > a
          BY <1>0, <3>b, <4>7, <5>1
        <5>3. \A m \in Places : Whole(m) /\ a <= m /\ m < j /\ Mode(m) = "pair"
                                        => Sign(m) \in Printable \cup S
          BY <1>0, <2>0, <3>b, <4>7
        <5>4. PICK e \in Places : e \in q[a] /\ e <= j
          BY <4>5, <4>7, <5>2, <5>3 DEF Unquoting
        <5> QED
          BY <4>4, <5>4
      <4> QED
        BY <4>6, <4>7 DEF Unquoting
    <3> QED
      BY <3>1, <3>2, <3>3
  <2> QED
    BY <1>0, <2>0, <2>1, <2>2
<1>2. 1..(N + 1) \subseteq I
  <2> HIDE DEF I
  <2> QED
    BY <1>0, <1>1, FromLast
<1> QED
  BY <1>0, <1>2 DEF q

-----------------------------------------------------------------------------
(* Atoms and domains are read byte by byte.                                 *)

Letters(S, i, j) ==
    i \in Places /\ j \in Places /\ i <= j /\ \A m \in i..(j - 1) : value[m] \in S

(* Atoms with single dots between them *)
DotAtom(i, j) ==
    /\ Letters(AtomBytes \cup {"."}, i, j) /\ i < j
    /\ \A m \in i..(j - 1) : value[m] = "." => i < m /\ m + 1 < j /\ value[m + 1] # "."

(* A repeated byte covers letters. *)
LEMMA ManyLetters ==
    ASSUME value \in Seq(FromBytes), NEW S, S \subseteq Printable
    PROVE  /\ Many(Byte(S)) \in Tables /\ Good(Many(Byte(S)))
           /\ \A i, j \in Places : j \in Many(Byte(S))[i] <=> Letters(S, i, j)
<1>0. N \in Nat /\ N + 1 \in Nat /\ Places = 1..(N + 1)
  BY PlacesAre
<1> DEFINE A == Byte(S)
           M == Many(A)
<1>1. A \in Tables /\ Good(A) /\ Moves(A)
      /\ \A i, j \in Places : j \in A[i] <=> i <= N /\ value[i] \in S /\ j = i + 1
  BY ByteIs, GoodByte
<1> HIDE DEF A
<1>2. M \in Tables /\ Good(M)
      /\ \A i, k \in Places : k \in M[i] <=> k = i \/ \E j \in Places : j \in A[i] /\ k \in M[j]
  BY <1>1, ManyIs, GoodMany
<1> HIDE DEF M
<1> DEFINE I == {i \in Places : \A j \in Places : j \in M[i] <=> Letters(S, i, j)}
<1>3. ASSUME NEW i \in 1..(N + 1), \A j \in 1..(N + 1) : j > i => j \in I
      PROVE  i \in I
  <2> SUFFICES ASSUME NEW j \in Places PROVE j \in M[i] <=> Letters(S, i, j)
    BY <1>0
  <2>0. i \in Places /\ i \in Nat /\ j \in Nat
    BY <1>0
  <2>1. CASE i <= N /\ value[i] \in S
    <3>1. i + 1 \in Places /\ i + 1 \in I
      BY <1>0, <1>3, <2>1
    <3>2. j \in M[i] <=> j = i \/ j \in M[i + 1]
      BY <1>1, <1>2, <2>0, <2>1, <3>1
    <3>3. j \in M[i + 1] <=> Letters(S, i + 1, j)
      BY <3>1
    <3>4. Letters(S, i, j) <=> j = i \/ Letters(S, i + 1, j)
      <4>1. CASE j = i
        BY <2>0, <4>1 DEF Letters
      <4>2. CASE j # i
        <5>1. ASSUME Letters(S, i, j) PROVE Letters(S, i + 1, j)
          BY <2>0, <3>1, <4>2, <5>1 DEF Letters
        <5>2. ASSUME Letters(S, i + 1, j) PROVE Letters(S, i, j)
          <6>1. \A m \in i..(j - 1) : m = i \/ m \in (i + 1)..(j - 1)
            BY <2>0
          <6> QED
            BY <2>0, <2>1, <5>2, <6>1 DEF Letters
        <5> QED
          BY <4>2, <5>1, <5>2
      <4> QED
        BY <4>1, <4>2
    <3> QED
      BY <3>2, <3>3, <3>4
  <2>2. CASE ~(i <= N /\ value[i] \in S)
    <3>1. j \in M[i] <=> j = i
      BY <1>1, <1>2, <2>0, <2>2
    <3>2. Letters(S, i, j) <=> j = i
      BY <1>0, <2>0, <2>2 DEF Letters
    <3> QED
      BY <3>1, <3>2
  <2> QED
    BY <2>1, <2>2
<1>4. 1..(N + 1) \subseteq I
  <2> HIDE DEF I
  <2> QED
    BY <1>0, <1>3, FromLast
<1> QED
  BY <1>0, <1>2, <1>4 DEF A, M

AtomTable == Then(Byte(AtomBytes), Many(Byte(AtomBytes)))
DotAtomTable == Then(AtomTable, Many(Then(Byte({"."}), AtomTable)))
DomainTable == Then(Many(Byte(DomainBytes)), Byte(DomainBytes \ {"."}))

(* An atom is a run of atom bytes. *)
LEMMA AtomIs ==
    ASSUME value \in Seq(FromBytes)
    PROVE  /\ AtomTable \in Tables /\ Good(AtomTable) /\ Moves(AtomTable)
           /\ \A i, j \in Places : j \in AtomTable[i] <=> Letters(AtomBytes, i, j) /\ i < j
<1>0. N \in Nat /\ N + 1 \in Nat /\ Places = 1..(N + 1)
  BY PlacesAre
<1> DEFINE A == Byte(AtomBytes)
           M == Many(A)
<1>1. AtomBytes \subseteq Printable
  BY DEF AtomBytes, Printable
<1>2. A \in Tables /\ Good(A) /\ Moves(A)
      /\ \A i, j \in Places : j \in A[i] <=> i <= N /\ value[i] \in AtomBytes /\ j = i + 1
  BY <1>1, ByteIs, GoodByte
<1>3. M \in Tables /\ Good(M) /\ \A i, j \in Places : j \in M[i] <=> Letters(AtomBytes, i, j)
  BY <1>1, ManyLetters
<1>4. AtomTable = Then(A, M)
  BY DEF AtomTable
<1> HIDE DEF A, M
<1>5. Then(A, M) \in Tables /\ Good(Then(A, M)) /\ Moves(Then(A, M))
      /\ \A i, k \in Places : k \in Then(A, M)[i] <=> \E j \in Places : j \in A[i] /\ k \in M[j]
  BY <1>2, <1>3, ThenIs, GoodThen
<1>6. ASSUME NEW i \in Places, NEW k \in Places
      PROVE  k \in Then(A, M)[i] <=> Letters(AtomBytes, i, k) /\ i < k
  <2>0. i \in Nat /\ k \in Nat
    BY <1>0
  <2>1. ASSUME k \in Then(A, M)[i] PROVE Letters(AtomBytes, i, k) /\ i < k
    <3>1. PICK j \in Places : j \in A[i] /\ k \in M[j]
      BY <1>5, <2>1
    <3>2. value[i] \in AtomBytes /\ j = i + 1 /\ Letters(AtomBytes, j, k)
      BY <1>2, <1>3, <3>1
    <3>3. \A m \in i..(k - 1) : m = i \/ m \in j..(k - 1)
      BY <2>0, <3>2
    <3> QED
      BY <2>0, <3>2, <3>3 DEF Letters
  <2>2. ASSUME Letters(AtomBytes, i, k), i < k PROVE k \in Then(A, M)[i]
    <3>1. i + 1 \in Places /\ i <= N /\ value[i] \in AtomBytes
      BY <1>0, <2>0, <2>2 DEF Letters
    <3>2. Letters(AtomBytes, i + 1, k)
      BY <2>0, <2>2, <3>1 DEF Letters
    <3>3. i + 1 \in A[i] /\ k \in M[i + 1]
      BY <1>2, <1>3, <3>1, <3>2
    <3> QED
      BY <1>5, <3>1, <3>3
  <2> QED
    BY <2>1, <2>2
<1> QED
  BY <1>4, <1>5, <1>6

(* What follows the first atom *)
DotTail(i, j) ==
    /\ Letters(AtomBytes \cup {"."}, i, j)
    /\ i < j => value[i] = "."
    /\ \A m \in i..(j - 1) : value[m] = "." => m + 1 < j /\ value[m + 1] # "."

(* What follows the first atom: a dot before each further one. *)
LEMMA DotTailIs ==
    ASSUME value \in Seq(FromBytes)
    PROVE  LET D == Then(Byte({"."}), AtomTable)
           IN  /\ Many(D) \in Tables /\ Good(Many(D))
               /\ \A i, j \in Places : j \in Many(D)[i] <=> DotTail(i, j)
<1>0. N \in Nat /\ N + 1 \in Nat /\ Places = 1..(N + 1)
  BY PlacesAre
<1> DEFINE B == Byte({"."})
           D == Then(B, AtomTable)
           M == Many(D)
<1>1. {"."} \subseteq Printable /\ "." \notin AtomBytes
  BY DEF Printable, AtomBytes
<1>2. B \in Tables /\ \A i, j \in Places : j \in B[i] <=> i <= N /\ value[i] \in {"."} /\ j = i + 1
  BY ByteIs
<1>2a. Good(B) /\ Moves(B)
  BY <1>1, GoodByte
<1> HIDE DEF B
<1>3. D \in Tables /\ Good(D) /\ Moves(D)
      /\ \A i, k \in Places : k \in D[i] <=> \E j \in Places : j \in B[i] /\ k \in AtomTable[j]
  BY <1>2, <1>2a, AtomIs, ThenIs, GoodThen
<1> HIDE DEF D
<1>4. ASSUME NEW i \in Places, NEW k \in Places
      PROVE  k \in D[i] <=> i <= N /\ value[i] = "." /\ Letters(AtomBytes, i + 1, k) /\ i + 1 < k
  <2>1. i <= N => i + 1 \in Places
    BY <1>0
  <2>2. k \in D[i] <=> i <= N /\ value[i] = "." /\ k \in AtomTable[i + 1]
    BY <1>2, <1>3, <2>1
  <2> QED
    BY <2>1, <2>2, AtomIs
<1>5. M \in Tables /\ Good(M)
      /\ \A i, k \in Places : k \in M[i] <=> k = i \/ \E j \in Places : j \in D[i] /\ k \in M[j]
  BY <1>3, ManyIs, GoodMany
<1> HIDE DEF M
<1> DEFINE I == {i \in Places : \A j \in Places : j \in M[i] <=> DotTail(i, j)}
<1>6. ASSUME NEW i \in 1..(N + 1), \A j \in 1..(N + 1) : j > i => j \in I
      PROVE  i \in I
  <2> SUFFICES ASSUME NEW k \in Places PROVE k \in M[i] <=> DotTail(i, k)
    BY <1>0
  <2>0. i \in Places /\ i \in Nat /\ k \in Nat
    BY <1>0
  <2>1. ASSUME k \in M[i] PROVE DotTail(i, k)
    <3>1. CASE k = i
      BY <2>0, <3>1 DEF DotTail, Letters
    <3>2. CASE k # i
      <4>1. PICK j \in Places : j \in D[i] /\ k \in M[j]
        BY <1>5, <2>0, <2>1, <3>2
      <4>2. i <= N /\ value[i] = "." /\ Letters(AtomBytes, i + 1, j) /\ i + 1 < j
        BY <1>4, <2>0, <4>1
      <4>3. DotTail(j, k)
        BY <1>0, <1>6, <2>0, <4>1, <4>2
      <4>4. j \in Nat /\ j <= k
        BY <1>0, <4>3 DEF DotTail, Letters
      <4>5. \A m \in i..(k - 1) : m = i \/ m \in (i + 1)..(j - 1) \/ m \in j..(k - 1)
        BY <2>0, <4>2, <4>4
      <4>6. \A m \in (i + 1)..(j - 1) : value[m] \in AtomBytes /\ value[m] # "."
        BY <1>1, <4>2 DEF Letters
      <4>7. \A m \in i..(k - 1) : value[m] \in AtomBytes \cup {"."}
        BY <4>2, <4>3, <4>5, <4>6 DEF DotTail, Letters
      <4>8. i + 1 \in (i + 1)..(j - 1) /\ i + 1 < k
        BY <2>0, <4>2, <4>4
      <4>9. ASSUME NEW m \in i..(k - 1), value[m] = "." PROVE m + 1 < k /\ value[m + 1] # "."
        <5>1. m = i \/ m \in j..(k - 1)
          BY <4>5, <4>6, <4>9
        <5>2. CASE m = i
          BY <4>6, <4>8, <5>2
        <5>3. CASE m \in j..(k - 1)
          BY <4>3, <4>9, <5>3 DEF DotTail
        <5> QED
          BY <5>1, <5>2, <5>3
      <4> QED
        BY <2>0, <4>2, <4>4, <4>7, <4>9 DEF DotTail, Letters
    <3> QED
      BY <3>1, <3>2
  <2>2. ASSUME DotTail(i, k), k # i PROVE k \in M[i]
    <3>1. i < k /\ value[i] = "." /\ i <= N /\ i \in i..(k - 1)
      BY <1>0, <2>0, <2>2 DEF DotTail, Letters
    <3>2. i + 1 < k /\ value[i + 1] # "."
      BY <2>2, <3>1 DEF DotTail
    (* the atom ends at the next dot, or at k *)
    <3> DEFINE E == {m \in Nat : i + 1 < m /\ m <= k /\ (m = k \/ value[m] = ".")}
    <3>3. k \in E /\ E \subseteq Nat
      BY <2>0, <3>2
    <3>4. PICK j \in E : \A y \in E : j <= y
      <4> HIDE DEF E
      <4> QED
        BY <3>3, Least
    <3>5. j \in Nat /\ i + 1 < j /\ j <= k /\ (j = k \/ value[j] = ".") /\ j \in Places
      BY <1>0, <2>0, <3>4
    <3>6. ASSUME NEW m \in (i + 1)..(j - 1) PROVE value[m] \in AtomBytes
      <4>1. m \in i..(k - 1)
        BY <2>0, <3>5
      <4>2. value[m] \in AtomBytes \cup {"."}
        BY <2>2, <4>1 DEF DotTail, Letters
      <4>3. m # i + 1 => m \notin E
        BY <2>0, <3>4, <3>5
      <4>4. value[m] # "."
        BY <2>0, <3>2, <3>5, <4>3
      <4> QED
        BY <4>2, <4>4
    <3>7. j \in D[i]
      <4>1. i + 1 \in Places
        BY <1>0, <3>1
      <4>2. Letters(AtomBytes, i + 1, j)
        BY <3>5, <3>6, <4>1 DEF Letters
      <4> QED
        BY <1>4, <2>0, <3>1, <3>5, <4>2
    <3>8. DotTail(j, k)
      <4>1. \A m \in j..(k - 1) : m \in i..(k - 1)
        BY <2>0, <3>5
      <4> QED
        BY <2>0, <2>2, <3>5, <4>1 DEF DotTail, Letters
    <3>9. k \in M[j]
      BY <1>0, <1>6, <2>0, <3>5, <3>8
    <3> QED
      BY <1>5, <2>0, <3>5, <3>7, <3>9
  <2>3. k = i => k \in M[i]
    BY <1>5, <2>0
  <2> QED
    BY <2>1, <2>2, <2>3
<1>7. 1..(N + 1) \subseteq I
  <2> HIDE DEF I
  <2> QED
    BY <1>0, <1>6, FromLast
<1>8. \A i, j \in Places : j \in M[i] <=> DotTail(i, j)
  BY <1>0, <1>7
<1> QED
  BY <1>5, <1>8 DEF M, D, B

(* A dot-atom has no dot at its ends and no two in a row. *)
LEMMA DotAtomIs ==
    ASSUME value \in Seq(FromBytes)
    PROVE  /\ DotAtomTable \in Tables /\ Good(DotAtomTable)
           /\ \A i, j \in Places : j \in DotAtomTable[i] <=> DotAtom(i, j)
<1>0. N \in Nat /\ N + 1 \in Nat /\ Places = 1..(N + 1) /\ "." \notin AtomBytes
  BY PlacesAre DEF AtomBytes
<1> DEFINE M == Many(Then(Byte({"."}), AtomTable))
           R == Then(AtomTable, M)
<1>1. M \in Tables /\ Good(M) /\ \A i, j \in Places : j \in M[i] <=> DotTail(i, j)
  BY DotTailIs
<1>2. DotAtomTable = R
  BY DEF DotAtomTable
<1> HIDE DEF M
<1>3. R \in Tables /\ Good(R)
      /\ \A i, k \in Places : k \in R[i] <=> \E j \in Places : j \in AtomTable[i] /\ k \in M[j]
  BY <1>1, AtomIs, ThenIs, GoodThen
<1> HIDE DEF R
<1>4. ASSUME NEW i \in Places, NEW k \in Places, k \in R[i] PROVE DotAtom(i, k)
  <2>0. i \in Nat /\ k \in Nat
    BY <1>0
  <2>1. PICK j \in Places : j \in AtomTable[i] /\ k \in M[j]
    BY <1>3, <1>4
  <2>2. Letters(AtomBytes, i, j) /\ i < j /\ DotTail(j, k) /\ j \in Nat /\ j <= k
    BY <1>0, <1>1, <2>1, AtomIs DEF DotTail, Letters
  <2>3. \A m \in i..(k - 1) : m \in i..(j - 1) \/ m \in j..(k - 1)
    BY <2>0, <2>2
  <2>4. \A m \in i..(j - 1) : value[m] \in AtomBytes /\ value[m] # "."
    BY <1>0, <2>2 DEF Letters
  <2>5. \A m \in i..(k - 1) : value[m] \in AtomBytes \cup {"."}
    BY <2>2, <2>3, <2>4 DEF DotTail, Letters
  <2>6. ASSUME NEW m \in i..(k - 1), value[m] = "." PROVE i < m /\ m + 1 < k /\ value[m + 1] # "."
    <3>1. m \in j..(k - 1)
      BY <2>3, <2>4, <2>6
    <3> QED
      BY <2>0, <2>2, <2>6, <3>1 DEF DotTail
  <2> QED
    BY <2>0, <2>2, <2>5, <2>6 DEF DotAtom, Letters
<1>5. ASSUME NEW i \in Places, NEW k \in Places, DotAtom(i, k) PROVE k \in R[i]
  <2>0. i \in Nat /\ k \in Nat /\ i < k
    BY <1>0, <1>5 DEF DotAtom
  <2> DEFINE E == {m \in Nat : i < m /\ m <= k /\ (m = k \/ value[m] = ".")}
  <2>1. k \in E /\ E \subseteq Nat
    BY <2>0
  <2>2. PICK j \in E : \A y \in E : j <= y
    <3> HIDE DEF E
    <3> QED
      BY <2>1, Least
  <2>3. j \in Nat /\ i < j /\ j <= k /\ (j = k \/ value[j] = ".") /\ j \in Places
    BY <1>0, <2>0, <2>2
  <2>4. ASSUME NEW m \in i..(j - 1) PROVE value[m] \in AtomBytes
    <3>1. m \in i..(k - 1)
      BY <2>0, <2>3
    <3>2. value[m] \in AtomBytes \cup {"."} /\ (value[m] = "." => i < m)
      BY <1>5, <3>1 DEF DotAtom, Letters
    <3>3. m \notin E
      BY <2>0, <2>2, <2>3
    <3>4. value[m] # "."
      BY <2>0, <2>3, <3>2, <3>3
    <3> QED
      BY <3>2, <3>4
  <2>5. j \in AtomTable[i]
    <3>1. Letters(AtomBytes, i, j)
      BY <2>0, <2>3, <2>4 DEF Letters
    <3> QED
      BY <2>3, <3>1, AtomIs
  <2>6. DotTail(j, k)
    <3>1. \A m \in j..(k - 1) : m \in i..(k - 1)
      BY <2>0, <2>3
    <3> QED
      BY <1>5, <2>0, <2>3, <3>1 DEF DotTail, DotAtom, Letters
  <2> QED
    BY <1>1, <1>3, <2>3, <2>5, <2>6
<1> QED
  BY <1>2, <1>3, <1>4, <1>5

(* A domain does not end with a dot; those are left to what follows. *)
Domain(i, j) == Letters(DomainBytes, i, j) /\ i < j /\ value[j - 1] # "."

(* The table of domains holds what they are. *)
LEMMA DomainIs ==
    ASSUME value \in Seq(FromBytes)
    PROVE  /\ DomainTable \in Tables /\ Good(DomainTable)
           /\ \A i, j \in Places : j \in DomainTable[i] <=> Domain(i, j)
<1>0. N \in Nat /\ N + 1 \in Nat /\ Places = 1..(N + 1)
  BY PlacesAre
<1> DEFINE M == Many(Byte(DomainBytes))
           B == Byte(DomainBytes \ {"."})
           R == Then(M, B)
<1>1. DomainBytes \subseteq Printable /\ DomainBytes \ {"."} \subseteq Printable
  BY DEF DomainBytes, Printable
<1>2. M \in Tables /\ Good(M) /\ \A i, j \in Places : j \in M[i] <=> Letters(DomainBytes, i, j)
  BY <1>1, ManyLetters
<1>3. B \in Tables /\ Good(B)
      /\ \A i, j \in Places : j \in B[i] <=>
            i <= N /\ value[i] \in DomainBytes \ {"."} /\ j = i + 1
  <2>1. Good(B)
    BY <1>1, GoodByte
  <2>2. B \in Tables /\ \A i, j \in Places : j \in B[i] <=>
            i <= N /\ value[i] \in DomainBytes \ {"."} /\ j = i + 1
    BY ByteIs
  <2> HIDE DEF B
  <2> QED
    BY <1>1, <2>1, <2>2
<1>4. DomainTable = R
  BY DEF DomainTable
<1> HIDE DEF M, B
<1>5. R \in Tables /\ Good(R)
      /\ \A i, k \in Places : k \in R[i] <=> \E j \in Places : j \in M[i] /\ k \in B[j]
  BY <1>2, <1>3, ThenIs, GoodThen
<1> HIDE DEF R
<1>6. ASSUME NEW i \in Places, NEW k \in Places, k \in R[i] PROVE Domain(i, k)
  <2>1. PICK j \in Places : j \in M[i] /\ k \in B[j]
    BY <1>5, <1>6
  <2>2. Letters(DomainBytes, i, j) /\ j <= N /\ value[j] \in DomainBytes \ {"."} /\ k = j + 1
    BY <1>2, <1>3, <2>1
  <2>3. i \in Nat /\ j \in Nat /\ k - 1 = j
    BY <1>0, <2>2
  <2>4. \A m \in i..(k - 1) : m = j \/ m \in i..(j - 1)
    BY <2>2, <2>3
  <2> QED
    BY <1>1, <2>2, <2>3, <2>4 DEF Domain, Letters
<1>7. ASSUME NEW i \in Places, NEW k \in Places, Domain(i, k) PROVE k \in R[i]
  <2>1. PICK j : j = k - 1
    OBVIOUS
  <2>2. i \in Nat /\ k \in Nat /\ j \in Nat /\ k = j + 1 /\ j \in Places /\ i <= j /\ j <= N
    BY <1>0, <1>7, <2>1 DEF Domain
  <2>3. Letters(DomainBytes, i, j) /\ value[j] \in DomainBytes \ {"."}
    BY <1>7, <2>1, <2>2 DEF Domain, Letters
  <2> QED
    BY <1>2, <1>3, <1>5, <2>2, <2>3
<1> QED
  BY <1>4, <1>5, <1>6, <1>7

-----------------------------------------------------------------------------
(* Outside of comments and quoted strings the value is read token by token: *)
(* an item, a comment or a quoted string.                                   *)

Top(i) == Whole(i) /\ Mode(i) = "top"
Follows(i, j) == Top(i) /\ Top(j) /\ i < j /\ \A m \in Places : i < m /\ m < j => ~Top(m)

Gap == WSP \cup {"("}
Signed(S) == {i \in Places : i <= N /\ Sign(i) \in S}

(* What is known of a place outside of everything. *)
LEMMA TopIs ==
    ASSUME Lexable, NEW i, Top(i)
    PROVE  /\ i \in Places /\ i \in Nat /\ i >= 1 /\ i <= N + 1 /\ Whole(i) /\ Mode(i) = "top"
           /\ Spot(i) \in Nat /\ Spot(i) >= 1 /\ Depth(i) = 0
           /\ N \in Nat /\ Places = 1..(N + 1) /\ value \in Seq(FromBytes)
           /\ i <= N => Itemized(i) /\ (Sign(i) \in Printable => value[i] = Sign(i))
                        /\ (value[i] \in Printable => Sign(i) = value[i])
<1>1. i \in Places /\ Whole(i) /\ Mode(i) = "top" /\ value \in Seq(FromBytes)
  BY DEF Top, Whole, Lexable
<1>2. N \in Nat /\ Places = 1..(N + 1)
  BY <1>1, PlacesAre
<1>3. Spot(i) \in Nat \ {0} /\ Depth(i) = 0
  BY <1>1, ModeAt
<1>4. ASSUME i <= N
      PROVE  Itemized(i) /\ (Sign(i) \in Printable => value[i] = Sign(i))
                         /\ (value[i] \in Printable => Sign(i) = value[i])
  <2>1. Itemized(i)
    BY <1>1, <1>4, ItemFacts
  <2>2. Sign(i) \in Printable => Sign(i) \notin WSP
    BY Bytes
  <2> QED
    BY <2>1, <2>2, Bytes DEF Itemized
<1> QED
  BY <1>1, <1>2, <1>3, <1>4

(* There is one next place. *)
LEMMA FollowsUnique ==
    ASSUME Lexable, NEW i, NEW j, NEW k, Follows(i, j), Follows(i, k)
    PROVE  j = k
<1>1. Top(j) /\ Top(k) /\ i < j /\ i < k
      /\ (\A m \in Places : i < m /\ m < j => ~Top(m))
      /\ (\A m \in Places : i < m /\ m < k => ~Top(m))
  BY DEF Follows
<1>2. j \in Places /\ j \in Nat /\ k \in Places /\ k \in Nat
  BY <1>1, TopIs
<1> QED
  BY <1>1, <1>2

(* Between two tops there is a next one. *)
LEMMA FollowsExists ==
    ASSUME Lexable, NEW i, NEW k, Top(i), Top(k), i < k
    PROVE  \E j \in Places : Follows(i, j) /\ j <= k
<1> DEFINE E == {m \in Places : Top(m) /\ i < m}
<1>1. i \in Places /\ k \in E /\ E \subseteq Nat /\ E \subseteq Places /\ \A m \in Places : m \in Nat
  <2>1. i \in Places /\ k \in Places /\ Places = 1..(N + 1) /\ N \in Nat
    BY TopIs
  <2> QED
    BY <2>1
<1>2. PICK j \in E : \A y \in E : j <= y
  <2> HIDE DEF E
  <2> QED
    BY <1>1, Least
<1>3. j \in Places /\ Top(j) /\ i < j /\ j <= k
  BY <1>1, <1>2
<1>4. ASSUME NEW m \in Places, i < m, m < j PROVE ~Top(m)
  <2>1. ~(j <= m)
    BY <1>1, <1>3, <1>4
  <2> QED
    BY <1>2, <1>4, <2>1
<1> QED
  BY <1>3, <1>4 DEF Follows

(* An item that opens nothing *)
LEMMA FollowsItem ==
    ASSUME Lexable, NEW i, Top(i), i <= N, Sign(i) \notin {"(", Quote}
    PROVE  \A j : Follows(i, j) <=> j = After(i)
<1>1. Itemized(i) /\ i \in Nat
  BY TopIs
<1>2. Top(After(i)) /\ i < After(i) /\ (\A m \in Nat : i < m /\ m < After(i) => ~Whole(m))
  BY <1>1, TopIs DEF Itemized, Top
<1>3. \A m \in Places : m \in Nat
  BY TopIs
<1>4. Follows(i, After(i))
  BY <1>2, <1>3 DEF Follows, Top
<1> QED
  BY <1>4, FollowsUnique

(* A byte is a token. *)
LEMMA ByteFollows ==
    ASSUME Lexable, NEW i, Top(i), NEW S, S \subseteq Printable \ {"(", Quote}, NEW j \in Places
    PROVE  j \in Byte(S)[i] <=> i \in Signed(S) /\ Follows(i, j)
<1>0. i \in Places /\ i \in Nat /\ value \in Seq(FromBytes)
  BY TopIs
<1>1. j \in Byte(S)[i] <=> i <= N /\ value[i] \in S /\ j = i + 1
  BY <1>0, ByteIs
<1>2. CASE i <= N
  <2>1. Itemized(i) /\ (value[i] \in S <=> Sign(i) \in S)
    BY <1>2, TopIs
  <2>2. Sign(i) \in S => (Follows(i, j) <=> j = i + 1)
    <3> SUFFICES ASSUME Sign(i) \in S PROVE Follows(i, j) <=> j = i + 1
      OBVIOUS
    <3>1. value[i] = Sign(i)
      BY <1>2, TopIs
    <3>2. After(i) = i + 1
      BY <2>1, <3>1 DEF Itemized
    <3>3. Sign(i) \notin {"(", Quote}
      OBVIOUS
    <3> QED
      BY <1>2, <3>2, <3>3, FollowsItem
  <2> QED
    BY <1>0, <1>1, <1>2, <2>1, <2>2 DEF Signed
<1>3. CASE ~(i <= N)
  BY <1>1, <1>3 DEF Signed
<1> QED
  BY <1>2, <1>3

(* White space is a token, with its fold. *)
LEMMA SpaceFollows ==
    ASSUME Lexable, NEW i, Top(i), NEW j \in Places
    PROVE  j \in Space(WSP)[i] <=> i \in Signed(WSP) /\ Follows(i, j)
<1>0. i \in Places /\ i \in Nat /\ value \in Seq(FromBytes) /\ Whole(i)
  BY TopIs
<1>1. j \in Space(WSP)[i] <=> Item(i, j, WSP)
  BY <1>0, SpaceIs
<1>2. CR \notin WSP /\ LF \notin WSP /\ "(" \notin WSP /\ Quote \notin WSP
  BY Bytes
<1>3. Item(i, j, WSP) <=> i <= N /\ Sign(i) \in WSP /\ j = After(i)
  BY <1>0, <1>2, ItemIs
<1>4. ASSUME i <= N, Sign(i) \in WSP PROVE Follows(i, j) <=> j = After(i)
  <2>1. Sign(i) \notin {"(", Quote}
    BY <1>2, <1>4
  <2> QED
    BY <1>4, <2>1, FollowsItem
<1> QED
  BY <1>0, <1>1, <1>3, <1>4 DEF Signed

(* A comment of the grammar is one token of the scan. *)
LEMMA CommentFollows ==
    ASSUME Lexable, NEW i, Top(i), NEW j \in Places
    PROVE  j \in Comment[i] <=> i \in Signed({"("}) /\ Follows(i, j)
<1>0. i \in Places /\ i \in Nat /\ value \in Seq(FromBytes) /\ Whole(i) /\ Places = 1..(N + 1)
      /\ N \in Nat
  BY TopIs
<1>1. PICK f : IsInside(f) /\ Comment = Then(Byte({"("}), f)
  BY <1>0, CommentTextIs, CommentIs
<1>2. f \in Tables /\ Byte({"("}) \in Tables
      /\ \A m \in Places : m \in Byte({"("})[i] <=> i <= N /\ value[i] \in {"("} /\ m = i + 1
  BY <1>0, <1>1, ByteIs DEF IsInside
<1>3. j \in Comment[i] <=> \E m \in Places : m \in Byte({"("})[i] /\ j \in f[m]
  BY <1>0, <1>1, <1>2, ThenIs
<1>4. j \in Comment[i] <=> i <= N /\ value[i] = "(" /\ j \in f[i + 1]
  BY <1>0, <1>2, <1>3
<1>5. i <= N => (value[i] = "(" <=> Sign(i) = "(")
  <2>1. "(" \in Printable
    BY DEF Printable
  <2> QED
    BY <2>1, TopIs
<1>6. ASSUME i <= N, Sign(i) = "(" PROVE j \in f[i + 1] <=> Follows(i, j)
  <2>1. PICK a : a = i + 1
    OBVIOUS
  <2>2. Itemized(i) /\ value[i] = "("
    BY <1>5, <1>6, TopIs
  <2>3. a \in Places /\ a > i /\ Whole(a) /\ Mode(a) = "comment" /\ Depth(a) = 1
        /\ After(i) = a
    BY <1>0, <1>6, <2>1, <2>2, TopIs DEF Itemized
  <2>4. Closing(f, a)
    BY <1>1, <2>3, CommentsClose
  <2>5. ASSUME NEW e \in Places, Falls(a, e) PROVE Follows(i, e)
    <3>1. Whole(e) /\ e > a /\ Depth(e) = 0 /\ Mode(e) \in {"comment", "top"}
      BY <2>3, <2>5 DEF Falls
    <3>2. Mode(e) = "top"
      BY <1>0, <3>1, ModeAt
    <3>3. ASSUME NEW m \in Places, i < m, m < e PROVE ~Top(m)
      <4>1. a <= m
        BY <1>0, <2>1, <3>3
      <4>2. Whole(m) => Depth(m) >= 1
        BY <2>3, <2>5, <3>3, <4>1 DEF Falls
      <4>3. Top(m) => Depth(m) = 0
        BY TopIs
      <4> QED
        BY <4>2, <4>3 DEF Top
    <3>4. i < e
      BY <1>0, <2>3, <3>1
    <3> QED
      BY <3>1, <3>2, <3>3, <3>4 DEF Follows, Top
  <2>6. j \in f[a] => Follows(i, j)
    BY <2>4, <2>5 DEF Closing
  <2>7. ASSUME Follows(i, j) PROVE j \in f[a]
    <3>1. Top(j) /\ i < j
      BY <2>7 DEF Follows
    <3>2. Whole(j) /\ Depth(j) = 0 /\ j \in Nat /\ j # a
      BY <2>3, <3>1, TopIs
    <3>3. j > a
      BY <1>0, <2>1, <3>1, <3>2
    <3>4. PICK e \in Places : e \in f[a] /\ e <= j
      BY <2>3, <2>4, <3>2, <3>3 DEF Closing
    <3>5. Follows(i, e)
      BY <2>4, <2>5, <3>4 DEF Closing
    <3>6. e = j
      BY <2>7, <3>5, FollowsUnique
    <3> QED
      BY <3>4, <3>6
  <2> QED
    BY <2>1, <2>6, <2>7
<1> QED
  BY <1>0, <1>4, <1>5, <1>6 DEF Signed

(* No tab is escaped between two places. *)
Tabless(i, j, S) == \A m \in Places : Whole(m) /\ i <= m /\ m < j /\ Mode(m) = "pair"
                                         => Sign(m) \in Printable \cup S

(* So is a quoted string, whose pairs may be restricted. *)
LEMMA QuotedFollows ==
    ASSUME Lexable, NEW i, Top(i), NEW j \in Places, NEW S, S \subseteq WSP
    PROVE  j \in Quoted(S)[i] <=> i \in Signed({Quote}) /\ Follows(i, j) /\ Tabless(i, j, S)
<1>0. i \in Places /\ i \in Nat /\ value \in Seq(FromBytes) /\ Whole(i) /\ Places = 1..(N + 1)
      /\ N \in Nat /\ Mode(i) = "top"
  BY TopIs
<1>q. PICK q : q = QuotedRest(S)
  OBVIOUS
<1>b. PICK B : B = Byte({Quote})
  OBVIOUS
<1>1. q \in Tables /\ Quoted(S) = Then(B, q)
  BY <1>0, <1>q, <1>b, QuotedRestIs
<1>2. B \in Tables
      /\ \A m \in Places : m \in B[i] <=> i <= N /\ value[i] = Quote /\ m = i + 1
  BY <1>0, <1>b, ByteIs
<1>3. j \in Quoted(S)[i] <=> \E m \in Places : m \in B[i] /\ j \in q[m]
  BY <1>0, <1>1, <1>2, ThenIs
<1>4. j \in Quoted(S)[i] <=> i <= N /\ value[i] = Quote /\ j \in q[i + 1]
  BY <1>0, <1>2, <1>3
<1>5. i <= N => (value[i] = Quote <=> Sign(i) = Quote)
  <2>1. Quote \in Printable
    BY DEF Printable
  <2> QED
    BY <2>1, TopIs
<1>6. ASSUME i <= N, Sign(i) = Quote PROVE j \in q[i + 1] <=> Follows(i, j) /\ Tabless(i, j, S)
  <2>1. PICK a : a = i + 1
    OBVIOUS
  <2>2. Itemized(i) /\ value[i] = Quote /\ Quote # "("
    BY <1>5, <1>6, TopIs DEF Quote
  <2>3. a \in Places /\ a > i /\ Whole(a) /\ Mode(a) = "quoted" /\ After(i) = a
    BY <1>0, <1>6, <2>1, <2>2 DEF Itemized
  <2>4. Unquoting(q, a, S)
    BY <1>q, <2>3, QuotesClose
  <2>5. ASSUME NEW e \in Places, Unquotes(a, e, S) PROVE Follows(i, e) /\ Tabless(i, e, S)
    <3>1. Whole(e) /\ e > a /\ Mode(e) = "top"
      BY <2>5 DEF Unquotes
    <3>2. \A m \in Places : i < m => a <= m
      BY <1>0, <2>1
    <3>3. ASSUME NEW m \in Places, i < m, m < e PROVE ~Top(m)
      BY <2>5, <3>2, <3>3 DEF Unquotes, Top
    <3>4. i < e
      BY <1>0, <2>3, <3>1
    <3>5. Tabless(i, e, S)
      <4> SUFFICES ASSUME NEW m \in Places, Whole(m), i <= m, m < e, Mode(m) = "pair"
                   PROVE  Sign(m) \in Printable \cup S
        BY DEF Tabless
      <4>1. i < m
        BY <1>0
      <4> QED
        BY <2>5, <3>2, <4>1 DEF Unquotes
    <3> QED
      BY <3>1, <3>3, <3>4, <3>5 DEF Follows, Top
  <2>6. j \in q[a] => Follows(i, j) /\ Tabless(i, j, S)
    BY <2>4, <2>5 DEF Unquoting
  <2>7. ASSUME Follows(i, j), Tabless(i, j, S) PROVE j \in q[a]
    <3>1. Top(j) /\ i < j
      BY <2>7 DEF Follows
    <3>2. Whole(j) /\ Mode(j) = "top" /\ j \in Nat /\ j # a
      BY <2>3, <3>1, TopIs
    <3>3. j > a
      BY <1>0, <2>1, <3>1, <3>2
    <3>4. \A m \in Places : Whole(m) /\ a <= m /\ m < j /\ Mode(m) = "pair" => Sign(m) \in Printable \cup S
      BY <1>0, <2>1, <2>7 DEF Tabless
    <3>5. PICK e \in Places : e \in q[a] /\ e <= j
      BY <2>4, <3>2, <3>3, <3>4 DEF Unquoting
    <3>6. Follows(i, e)
      BY <2>4, <2>5, <3>5 DEF Unquoting
    <3>7. e = j
      BY <2>7, <3>6, FollowsUnique
    <3> QED
      BY <3>5, <3>7
  <2> QED
    BY <2>1, <2>6, <2>7
<1> QED
  BY <1>0, <1>4, <1>5, <1>6 DEF Signed

-----------------------------------------------------------------------------
(* Runs of tokens                                                           *)

RunOf(F, i, j) ==
    Top(i) /\ Top(j) /\ i <= j /\ \A m \in Places : Top(m) /\ i <= m /\ m < j => m \in F

(* A run, token by token. *)
LEMMA RunStep ==
    ASSUME Lexable, NEW F, NEW i, NEW j, NEW k, Follows(i, j)
    PROVE  RunOf(F, i, k) /\ i # k <=> i \in F /\ RunOf(F, j, k)
<1>1. Top(i) /\ Top(j) /\ i < j /\ \A m \in Places : i < m /\ m < j => ~Top(m)
  BY DEF Follows
<1>2. i \in Places /\ i \in Nat /\ j \in Places /\ j \in Nat /\ \A m \in Places : m \in Nat
  BY <1>1, TopIs
<1>3. ASSUME RunOf(F, i, k), i # k PROVE i \in F /\ RunOf(F, j, k)
  <2>1. Top(k) /\ i <= k /\ k \in Nat /\ k \in Places
        /\ \A m \in Places : Top(m) /\ i <= m /\ m < k => m \in F
    BY <1>3, TopIs DEF RunOf
  <2>2. i \in F /\ j <= k
    BY <1>1, <1>2, <1>3, <2>1
  <2>3. \A m \in Places : Top(m) /\ j <= m /\ m < k => m \in F
    BY <1>1, <1>2, <2>1
  <2> QED
    BY <1>1, <2>1, <2>2, <2>3 DEF RunOf
<1>4. ASSUME i \in F, RunOf(F, j, k) PROVE RunOf(F, i, k) /\ i # k
  <2>1. Top(k) /\ j <= k /\ k \in Nat /\ k \in Places
        /\ \A m \in Places : Top(m) /\ j <= m /\ m < k => m \in F
    BY <1>4, TopIs DEF RunOf
  <2>2. ASSUME NEW m \in Places, Top(m), i <= m, m < k PROVE m \in F
    <3>1. m = i \/ j <= m
      BY <1>1, <1>2, <2>2
    <3> QED
      BY <1>4, <2>1, <2>2, <3>1
  <2> QED
    BY <1>1, <1>2, <2>1, <2>2 DEF RunOf
<1> QED
  BY <1>3, <1>4

(* Many of a table that leads over tokens in F leads over runs in F. *)
LEMMA ManyRuns ==
    ASSUME Lexable, NEW A, Good(A), Moves(A), NEW F,
           \A i, j \in Places : Top(i) => (j \in A[i] <=> i \in F /\ Follows(i, j))
    PROVE  /\ Many(A) \in Tables /\ Good(Many(A))
           /\ \A i, j \in Places : Top(i) => (j \in Many(A)[i] <=> RunOf(F, i, j))
<1>0. N \in Nat /\ N + 1 \in Nat /\ Places = 1..(N + 1) /\ value \in Seq(FromBytes) /\ A \in Tables
  BY PlacesAre DEF Lexable, Good
<1> DEFINE M == Many(A)
<1>1. M \in Tables /\ Good(M)
      /\ \A i, k \in Places : k \in M[i] <=> k = i \/ \E j \in Places : j \in A[i] /\ k \in M[j]
  BY <1>0, ManyIs, GoodMany
<1> HIDE DEF M
<1> DEFINE I == {i \in Places : Top(i) => \A j \in Places : j \in M[i] <=> RunOf(F, i, j)}
<1>2. ASSUME NEW i \in 1..(N + 1), \A j \in 1..(N + 1) : j > i => j \in I
      PROVE  i \in I
  <2> SUFFICES ASSUME Top(i), NEW k \in Places PROVE k \in M[i] <=> RunOf(F, i, k)
    BY <1>0
  <2>0. i \in Places /\ i \in Nat
    BY <1>0
  <2>1. RunOf(F, i, i)
    BY <1>0 DEF RunOf
  <2>2. ASSUME NEW j \in Places, Follows(i, j) PROVE k \in M[j] <=> RunOf(F, j, k)
    <3>1. Top(j) /\ j > i
      BY <1>0, <2>2 DEF Follows
    <3> QED
      BY <1>0, <1>2, <2>2, <3>1
  <2>3. ASSUME k \in M[i], k # i PROVE RunOf(F, i, k)
    <3>1. PICK j \in Places : j \in A[i] /\ k \in M[j]
      BY <1>1, <2>0, <2>3
    <3>2. i \in F /\ Follows(i, j)
      BY <2>0, <3>1
    <3> QED
      BY <2>2, <3>1, <3>2, RunStep
  <2>4. ASSUME RunOf(F, i, k), k # i PROVE k \in M[i]
    <3>1. Top(k) /\ i < k
      BY <1>0, <2>4 DEF RunOf
    <3>2. PICK j \in Places : Follows(i, j)
      BY <3>1, FollowsExists
    <3>3. i \in F /\ RunOf(F, j, k)
      BY <2>4, <3>2, RunStep
    <3>4. j \in A[i] /\ k \in M[j]
      BY <2>0, <2>2, <3>2, <3>3
    <3> QED
      BY <1>1, <2>0, <3>4
  <2> QED
    BY <1>1, <2>0, <2>1, <2>3, <2>4
<1>3. 1..(N + 1) \subseteq I
  <2> HIDE DEF I
  <2> QED
    BY <1>0, <1>2, FromLast
<1> QED
  BY <1>0, <1>1, <1>3 DEF M

GapsTable == Many(Or(Space(WSP), Comment))

(* White space and comments are runs of gaps. *)
LEMMA GapsAre ==
    ASSUME Lexable
    PROVE  /\ GapsTable \in Tables
           /\ \A i, j \in Places : Top(i) => (j \in GapsTable[i] <=> RunOf(Signed(Gap), i, j))
<1>0. value \in Seq(FromBytes)
  BY DEF Lexable
<1> DEFINE A == Or(Space(WSP), Comment)
<1>1. Good(Space(WSP)) /\ Moves(Space(WSP)) /\ Good(Comment) /\ Moves(Comment)
  BY <1>0, GoodSpace, GoodComment
<1>2. Good(A) /\ Moves(A)
  BY <1>0, <1>1, GoodOr
<1>3. \A i, j \in Places : j \in A[i] <=> j \in Space(WSP)[i] \/ j \in Comment[i]
  BY <1>0, <1>1, OrIs DEF Good
<1>4. GapsTable = Many(A)
  BY DEF GapsTable
<1> HIDE DEF A
<1>5. \A i \in Places : i \in Signed(Gap) <=> i \in Signed(WSP) \/ i \in Signed({"("})
  BY DEF Signed, Gap
<1>6. \A i, j \in Places : Top(i) => (j \in A[i] <=> i \in Signed(Gap) /\ Follows(i, j))
  BY <1>3, <1>5, SpaceFollows, CommentFollows
<1> QED
  BY <1>2, <1>4, <1>6, ManyRuns

(* The tokens of a display name *)
Words == {i \in Places :
            /\ i <= N
            /\ \/ Sign(i) \in AtomBytes \cup {"."} \cup Gap
               \/ Sign(i) = Quote /\ \A j \in Places : Follows(i, j) => Tabless(i, j, {SP})}

PhraseTable == Many(Or(Byte(AtomBytes \cup {"."}), Or(Space(WSP), Or(Comment, Quoted({SP})))))

(* A quoted string covers a part that unfolds. *)
LEMMA GoodQuoted ==
    ASSUME value \in Seq(FromBytes), NEW S, S \subseteq WSP
    PROVE  Good(Quoted(S)) /\ Moves(Quoted(S))
<1>1. {Quote} \subseteq Printable
  BY DEF Printable
<1>2. Good(Byte({Quote})) /\ Moves(Byte({Quote}))
  BY <1>1, GoodByte
<1>3. Good(QuotedRest(S)) /\ Quoted(S) = Then(Byte({Quote}), QuotedRest(S))
  BY QuotedRestIs
<1> QED
  BY <1>2, <1>3, GoodThen

(* A display name is a run of words. *)
LEMMA PhraseIs ==
    ASSUME Lexable
    PROVE  /\ PhraseTable \in Tables
           /\ \A i, j \in Places : Top(i) => (j \in PhraseTable[i] <=> RunOf(Words, i, j))
<1>0. value \in Seq(FromBytes)
  BY DEF Lexable
<1> DEFINE S == AtomBytes \cup {"."}
           B == Byte(S)
           Q == Quoted({SP})
           C == Or(Comment, Q)
           D == Or(Space(WSP), C)
           A == Or(B, D)
<1>1. S \subseteq Printable /\ S \subseteq Printable \ {"(", Quote} /\ {SP} \subseteq WSP
  BY DEF AtomBytes, Printable, WSP, Quote
<1>2. Good(Space(WSP)) /\ Moves(Space(WSP)) /\ Good(Comment) /\ Moves(Comment)
      /\ Good(B) /\ Moves(B) /\ Good(Q) /\ Moves(Q)
  BY <1>0, <1>1, GoodSpace, GoodComment, GoodByte, GoodQuoted
<1>3. PhraseTable = Many(A)
  BY DEF PhraseTable
<1>4. /\ \A i, j \in Places : Top(i) => (j \in B[i] <=> i \in Signed(S) /\ Follows(i, j))
      /\ \A i, j \in Places : Top(i) => (j \in Q[i] <=>
            i \in Signed({Quote}) /\ Follows(i, j) /\ Tabless(i, j, {SP}))
  <2> HIDE DEF S
  <2> QED
    BY <1>1, ByteFollows, QuotedFollows
<1> HIDE DEF B, Q
<1>5. Good(C) /\ Moves(C) /\ \A i, j \in Places : j \in C[i] <=> j \in Comment[i] \/ j \in Q[i]
  BY <1>0, <1>2, OrIs, GoodOr DEF Good
<1> HIDE DEF C
<1>6. Good(D) /\ Moves(D) /\ \A i, j \in Places : j \in D[i] <=> j \in Space(WSP)[i] \/ j \in C[i]
  BY <1>0, <1>2, <1>5, OrIs, GoodOr DEF Good
<1> HIDE DEF D
<1>7. Good(A) /\ Moves(A) /\ \A i, j \in Places : j \in A[i] <=> j \in B[i] \/ j \in D[i]
  BY <1>0, <1>2, <1>6, OrIs, GoodOr DEF Good
<1> HIDE DEF A
<1>8. ASSUME NEW i \in Places, NEW j \in Places, Top(i)
      PROVE  j \in A[i] <=> i \in Words /\ Follows(i, j)
  <2>1. j \in A[i] <=> \/ i \in Signed(S) /\ Follows(i, j)
                       \/ i \in Signed(WSP) /\ Follows(i, j)
                       \/ i \in Signed({"("}) /\ Follows(i, j)
                       \/ i \in Signed({Quote}) /\ Follows(i, j) /\ Tabless(i, j, {SP})
    BY <1>4, <1>5, <1>6, <1>7, <1>8, SpaceFollows, CommentFollows
  <2>2. CASE Follows(i, j)
    <3>1. (\A k \in Places : Follows(i, k) => Tabless(i, k, {SP})) <=> Tabless(i, j, {SP})
      BY <2>2, FollowsUnique
    <3>2. i \in Words <=> \/ i \in Signed(S) \/ i \in Signed(WSP) \/ i \in Signed({"("})
                          \/ i \in Signed({Quote}) /\ Tabless(i, j, {SP})
      BY <3>1 DEF Words, Signed, Gap
    <3> QED
      BY <2>1, <2>2, <3>2
  <2> QED
    BY <2>1, <2>2
<1> QED
  BY <1>3, <1>7, <1>8, ManyRuns

-----------------------------------------------------------------------------
(* Every byte of the text without comments comes from a place.              *)

LEMMA SpotOrder ==
    ASSUME value \in Seq(FromBytes), NEW m \in 1..N, Keeps(m), NEW k \in Places
    PROVE  (m < k <=> Spot(m) < Spot(k)) /\ (k <= m <=> Spot(k) <= Spot(m))
<1>1. m \in Places /\ m + 1 \in Places /\ N \in Nat /\ Places = 1..(N + 1) /\ k \in Nat /\ m \in Nat
      /\ Spot(m) \in Nat /\ Spot(k) \in Nat
  BY PlacesAre, ModeAt
<1>2. Spot(m + 1) = Spot(m) + 1
  BY KeptAt
<1>3. m < k => Spot(m) < Spot(k)
  <2> SUFFICES ASSUME m < k PROVE Spot(m) < Spot(k)
    OBVIOUS
  <2>1. m + 1 <= k
    BY <1>1
  <2>2. Spot(m + 1) <= Spot(k)
    BY <1>1, <2>1, KeptUpTo
  <2> QED
    BY <1>1, <1>2, <2>2
<1>4. k <= m => Spot(k) <= Spot(m)
  BY <1>1, KeptUpTo
<1> QED
  BY <1>1, <1>3, <1>4

(* Every byte of Kept comes from a byte of the value. *)
LEMMA SpotUsed ==
    ASSUME value \in Seq(FromBytes), NEW p \in 1..Len(Kept)
    PROVE  \E m \in 1..N : Keeps(m) /\ Spot(m) = p
<1>1. N \in Nat /\ Places = 1..(N + 1) /\ Len(Kept) \in Nat /\ Spot(1) = 1 /\ Spot(N + 1) = Len(Kept) + 1
      /\ \A m \in Places : Spot(m) \in Nat
  BY PlacesAre, LexEnds, ModeAt
<1> DEFINE E == {m \in 1..N : Spot(m) <= p}
<1>2. E # {} /\ E \in SUBSET (0..N)
  <2>1. N # 0
    BY <1>1
  <2>2. 1 \in 1..N /\ Spot(1) <= p
    BY <1>1, <2>1
  <2> QED
    BY <2>2
<1>3. PICK m : m \in E /\ \A y \in E : y <= m
  <2> HIDE DEF E
  <2> QED
    BY <1>1, <1>2, MaxIsGreatest
<1>4. m \in 1..N /\ Spot(m) <= p /\ m \in Places /\ m + 1 \in Places
  BY <1>1, <1>3
<1>5. Spot(m + 1) > p
  <2>1. CASE m = N
    BY <1>1, <1>4, <2>1
  <2>2. CASE m # N
    <3>1. m + 1 \in 1..N /\ ~(m + 1 <= m)
      BY <1>1, <1>4, <2>2
    <3>2. m + 1 \notin E
      BY <1>3, <3>1
    <3> QED
      BY <1>1, <1>4, <3>1, <3>2
  <2> QED
    BY <2>1, <2>2
<1>6. Keeps(m)
  <2> SUFFICES ASSUME ~Keeps(m) PROVE FALSE
    OBVIOUS
  <2>1. Lex[m + 1].text = Lex[m].text
    BY <1>4, StepFacts
  <2>2. Spot(m + 1) = Spot(m)
    BY <2>1 DEF Spot
  <2> QED
    BY <1>1, <1>4, <1>5, <2>2
<1>7. Spot(m + 1) = Spot(m) + 1
  BY <1>4, <1>6, KeptAt
<1> QED
  BY <1>1, <1>4, <1>5, <1>6, <1>7

(* The item a byte belongs to *)
LEMMA Origin ==
    ASSUME Lexable, NEW m \in 1..N, value[m] \notin {CR, LF}
    PROVE  \E k \in Places : /\ Whole(k) /\ k <= m /\ k <= N /\ After(k) = m + 1 /\ Mode(k) = Mode(m)
                             /\ Spot(k) = Spot(m) /\ Sign(k) = value[m]
<1>0. /\ N \in Nat /\ Places = 1..(N + 1) /\ m \in Places /\ m \in Nat
      /\ value \in Seq(FromBytes)
  BY PlacesAre DEF Lexable
<1>f. \A i \in 1..N : /\ value[i] = CR => i + 2 <= N /\ value[i + 1] = LF /\ value[i + 2] \in WSP
                      /\ value[i] = LF => i > 1 /\ value[i - 1] = CR
  <2>1. DOMAIN value = 1..N
    BY <1>0, LenProperties DEF N
  <2> QED
    BY <2>1 DEF Lexable, Foldable, N
<1>1. CASE Whole(m)
  <2>1. After(m) = m + 1 /\ Sign(m) = value[m]
    BY DEF After, Sign
  <2> QED
    BY <1>0, <1>1, <2>1
<1>2. CASE ~Whole(m)
  <2>0. CR \notin WSP /\ LF \notin WSP /\ CR # LF
    BY Bytes
  <2>1. m > 1 /\ value[m - 1] \in {CR, LF} /\ m - 1 \in 1..N /\ (m - 1) + 1 = m
    BY <1>0, <1>2 DEF Whole
  <2>2. value[m - 1] # CR
    BY <1>f, <2>1
  <2>3. value[m - 1] = LF /\ m - 1 > 1 /\ value[(m - 1) - 1] = CR /\ (m - 1) - 1 = m - 2
    BY <1>0, <1>f, <2>1, <2>2
  <2>k. PICK k : k = m - 2
    OBVIOUS
  <2>4. k \in 1..N /\ k + 1 = m - 1 /\ k + 2 = m /\ k + 3 = m + 1 /\ k \in Places /\ k + 1 \in 1..N
        /\ (k + 1) + 1 = m
    BY <1>0, <2>1, <2>3, <2>k
  <2>5. value[k] = CR /\ value[k + 1] = LF
    BY <2>3, <2>4, <2>k
  <2>6. Whole(k)
    <3> SUFFICES ASSUME k # 1, value[k - 1] \in {CR, LF} PROVE FALSE
      BY <2>4 DEF Whole
    <3>1. k - 1 \in 1..N /\ (k - 1) + 1 = k /\ (k - 1) - 1 = k - 2 /\ (k - 2) + 2 = k
      BY <1>0, <2>4
    <3>2. value[k - 1] # CR
      BY <1>f, <2>0, <2>5, <3>1
    <3>3. k - 1 > 1 /\ value[k - 2] = CR /\ k - 2 \in 1..N
      BY <1>0, <1>f, <3>1, <3>2
    <3>4. value[k] \in WSP
      BY <1>f, <3>1, <3>3
    <3> QED
      BY <2>0, <2>5, <3>4
  <2>7. After(k) = m + 1 /\ Sign(k) = value[m]
    BY <2>4, <2>5 DEF After, Sign
  <2>8. Mode(k) = Mode(m) /\ Spot(k) = Spot(m)
    <3>1. Stepped(k) /\ Stepped(k + 1)
      BY <1>0, <2>4, StepFacts
    <3> QED
      BY <2>4, <2>5, <3>1 DEF Stepped
  <2> QED
    BY <1>0, <2>4, <2>6, <2>7, <2>8
<1> QED
  BY <1>1, <1>2

(* The byte kept for an item *)
LEMMA KeptByte ==
    ASSUME Lexable, NEW k, Whole(k), k <= N, Mode(k) \in {"top", "quoted", "pair"}
    PROVE  \E m \in 1..N : /\ Keeps(m) /\ value[m] = Sign(k) /\ Mode(m) = Mode(k) /\ Spot(m) = Spot(k)
                           /\ k <= m /\ m + 1 = After(k)
<1>0. /\ N \in Nat /\ Places = 1..(N + 1) /\ k \in 1..N /\ k \in Nat /\ value \in Seq(FromBytes)
      /\ CR \notin WSP /\ LF \notin WSP
  <2>1. CR \notin WSP /\ LF \notin WSP
    BY Bytes
  <2>2. value \in Seq(FromBytes) /\ k \in Places
    BY DEF Lexable, Whole
  <2> QED
    BY <2>1, <2>2, PlacesAre
<1>f. \A i \in 1..N : /\ value[i] = CR => i + 2 <= N /\ value[i + 1] = LF /\ value[i + 2] \in WSP
                      /\ value[i] = LF => i > 1 /\ value[i - 1] = CR
  <2>1. DOMAIN value = 1..N
    BY <1>0, LenProperties DEF N
  <2> QED
    BY <2>1 DEF Lexable, Foldable, N
<1>1. CASE value[k] = CR
  <2>1. k + 2 <= N /\ value[k + 1] = LF /\ value[k + 2] \in WSP
    BY <1>0, <1>1, <1>f
  <2>2. k + 1 \in 1..N /\ k + 2 \in 1..N /\ (k + 1) + 1 = k + 2 /\ (k + 2) + 1 = k + 3 /\ k <= k + 2
    BY <1>0, <2>1
  <2>3. Stepped(k) /\ Stepped(k + 1)
    BY <1>0, <2>2, StepFacts
  <2>4. Mode(k + 2) = Mode(k) /\ Spot(k + 2) = Spot(k)
    BY <1>1, <2>1, <2>2, <2>3 DEF Stepped
  <2>5. Sign(k) = value[k + 2] /\ After(k) = k + 3
    BY <1>1 DEF Sign, After
  <2>6. Keeps(k + 2)
    BY <1>0, <2>1, <2>4 DEF Keeps
  <2> QED
    BY <2>2, <2>4, <2>5, <2>6
<1>2. CASE value[k] # CR
  <2>1. value[k] # LF
    BY <1>0, <1>f, <1>2 DEF Whole
  <2>2. Sign(k) = value[k] /\ After(k) = k + 1 /\ Keeps(k) /\ k <= k
    BY <1>0, <1>2, <2>1 DEF Sign, After, Keeps
  <2> QED
    BY <1>0, <2>2
<1> QED
  BY <1>1, <1>2

-----------------------------------------------------------------------------
(* What a token keeps                                                       *)

(* No place inside of a bracket or quote that has been opened is a top. *)
LEMMA Within ==
    ASSUME Lexable, NEW i, NEW k, Follows(i, k), i <= N, NEW M,
           Mode(i + 1) \in M, i + 1 < k,
           M = {"comment", "cpair"} \/ M = {"quoted", "pair"}
    PROVE  \A m \in (i + 1)..(k - 1) : Mode(m) \in M
<1>0. /\ N \in Nat /\ Places = 1..(N + 1) /\ value \in Seq(FromBytes) /\ i \in Nat /\ k \in Nat
      /\ i >= 1 /\ k <= N + 1 /\ \A m \in Places : i < m /\ m < k => ~Top(m)
  BY TopIs DEF Follows
<1> DEFINE S == {m \in 0..N : i <= m /\ m < k - 1 => Mode(m + 1) \in M}
<1>1. 0 \in S
  BY <1>0
<1>2. ASSUME NEW m \in 1..N, m - 1 \in S PROVE m \in S
  <2> SUFFICES ASSUME i <= m, m < k - 1 PROVE Mode(m + 1) \in M
    BY <1>0
  <2>1. CASE m = i
    BY <2>1
  <2>2. CASE m # i
    <3>1. i <= m - 1 /\ m - 1 < k - 1 /\ (m - 1) + 1 = m /\ m + 1 \in Places /\ i < m + 1 /\ m + 1 < k
          /\ (m + 1) - 1 = m
      BY <1>0, <2>2
    <3>2. Mode(m) \in M
      BY <1>2, <3>1
    <3>3. Stepped(m) /\ ~Top(m + 1)
      BY <1>0, <3>1, StepFacts
    <3>4. CASE value[m] \in {CR, LF}
      BY <3>2, <3>3, <3>4 DEF Stepped
    <3>5. CASE value[m] \notin {CR, LF}
      <4>1. Mode(m + 1) # "top"
        BY <3>1, <3>3, <3>5 DEF Top, Whole
      <4> QED
        BY <3>2, <3>3, <3>5, <4>1 DEF Stepped
    <3> QED
      BY <3>4, <3>5
  <2> QED
    BY <2>1, <2>2
<1>3. 0..N \subseteq S
  <2> HIDE DEF S
  <2> QED
    BY <1>0, <1>1, <1>2, UpTo
<1> HIDE DEF S
<1>4. ASSUME NEW m \in (i + 1)..(k - 1) PROVE Mode(m) \in M
  <2>1. m - 1 \in 0..N /\ i <= m - 1 /\ m - 1 < k - 1 /\ (m - 1) + 1 = m
    BY <1>0
  <2>2. m - 1 \in S
    BY <1>3, <2>1
  <2> QED
    BY <2>1, <2>2 DEF S
<1> QED
  BY <1>4

(* A comment becomes a space, a quoted string keeps its quotes, and every   *)
(* other token is a byte.                                                   *)
LEMMA TokenIs ==
    ASSUME Lexable, NEW i, NEW k, Follows(i, k)
    PROVE  /\ i <= N /\ Spot(i) \in 1..Len(Kept) /\ Spot(i) < Spot(k) /\ Spot(k) - 1 \in 1..Len(Kept)
           /\ Kept[Spot(i)] = IF Sign(i) = "(" THEN SP ELSE Sign(i)
           /\ Sign(i) # Quote => Spot(k) = Spot(i) + 1
           /\ Sign(i) = "(" => \A m \in (i + 1)..(k - 1) : Mode(m) \in {"comment", "cpair"}
           /\ Sign(i) = Quote =>
                 /\ Spot(k) >= Spot(i) + 2 /\ Kept[Spot(k) - 1] = Quote
                 /\ k - 1 \in 1..N /\ i < k - 1 /\ Keeps(k - 1) /\ value[k - 1] = Quote
                 /\ Mode(k - 1) = "quoted" /\ Spot(k - 1) = Spot(k) - 1
                 /\ \A m \in (i + 1)..(k - 1) : Mode(m) \in {"quoted", "pair"}
           /\ Sign(i) \notin {"(", Quote} => k = After(i)
<1>0. /\ N \in Nat /\ Places = 1..(N + 1) /\ value \in Seq(FromBytes) /\ i \in Nat /\ k \in Nat
      /\ i >= 1 /\ k <= N + 1 /\ i < k /\ i <= N /\ i \in Places /\ k \in Places
      /\ Top(i) /\ Top(k) /\ Mode(i) = "top" /\ Mode(k) = "top" /\ Whole(i) /\ Whole(k)
  BY TopIs DEF Follows
<1>1. Itemized(i) /\ (Sign(i) \in Printable => value[i] = Sign(i))
  BY <1>0, TopIs
<1>2. /\ Spot(After(i)) = Spot(i) + 1 /\ Spot(i) \in 1..Len(Kept)
      /\ Kept[Spot(i)] = IF Sign(i) = "(" THEN SP ELSE Sign(i)
  BY <1>0, <1>1 DEF Itemized
<1>3. Quote # "(" /\ Quote \in Printable /\ "(" \in Printable
  BY DEF Quote, Printable
<1>4. ASSUME Sign(i) \notin {"(", Quote} PROVE k = After(i)
  BY <1>0, <1>4, FollowsItem
<1>5. ASSUME Sign(i) = "("
      PROVE  Spot(k) = Spot(i) + 1 /\ \A m \in (i + 1)..(k - 1) : Mode(m) \in {"comment", "cpair"}
  <2>1. After(i) = i + 1 /\ Mode(i + 1) = "comment" /\ i + 1 < k
    <3>1. After(i) = i + 1
      BY <1>1, <1>3, <1>5 DEF Itemized
    <3>2. Mode(i + 1) = "comment"
      BY <1>0, <1>1, <1>5, <3>1 DEF Itemized
    <3>3. i + 1 # k
      BY <1>0, <3>2
    <3> QED
      BY <1>0, <3>1, <3>2, <3>3
  <2>2. \A m \in (i + 1)..(k - 1) : Mode(m) \in {"comment", "cpair"}
    <3>1. PICK M : M = {"comment", "cpair"}
      OBVIOUS
    <3>2. \A m \in (i + 1)..(k - 1) : Mode(m) \in M
      BY <1>0, <2>1, <3>1, Within
    <3> QED
      BY <3>1, <3>2
  <2>3. Spot(k) = Spot(i + 1)
    <3>1. Spot(k) \in Nat /\ Spot(i + 1) \in Nat /\ i + 1 \in Places /\ i + 1 <= k
      BY <1>0, <2>1, ModeAt
    <3>2. Spot(i + 1) <= Spot(k)
      BY <1>0, <3>1, KeptUpTo
    <3>3. ASSUME Spot(i + 1) < Spot(k) PROVE FALSE
      <4>1. Spot(i + 1) \in 1..Len(Kept)
        <5>1. Spot(k) <= Spot(N + 1) /\ Spot(N + 1) = Len(Kept) + 1 /\ Len(Kept) \in Nat
          BY <1>0, KeptUpTo, LexEnds
        <5>2. Spot(i + 1) >= 1
          BY <3>1, ModeAt, <1>0
        <5> QED
          BY <3>1, <3>3, <5>1, <5>2
      <4>2. PICK m \in 1..N : Keeps(m) /\ Spot(m) = Spot(i + 1)
        BY <1>0, <4>1, SpotUsed
      <4>3. i + 1 <= m /\ m < k
        BY <1>0, <3>1, <3>3, <4>2, SpotOrder
      <4>4. m \in (i + 1)..(k - 1)
        BY <1>0, <4>3
      <4> QED
        BY <2>2, <4>2, <4>4 DEF Keeps
    <3> QED
      BY <3>1, <3>2, <3>3
  <2> QED
    BY <1>2, <2>1, <2>2, <2>3
<1>6. ASSUME Sign(i) = Quote
      PROVE  /\ Spot(k) >= Spot(i) + 2 /\ Kept[Spot(k) - 1] = Quote
             /\ k - 1 \in 1..N /\ i < k - 1 /\ Keeps(k - 1) /\ value[k - 1] = Quote
             /\ Mode(k - 1) = "quoted" /\ Spot(k - 1) = Spot(k) - 1
             /\ \A m \in (i + 1)..(k - 1) : Mode(m) \in {"quoted", "pair"}
  <2>1. After(i) = i + 1 /\ Mode(i + 1) = "quoted" /\ i + 1 < k
    <3>1. After(i) = i + 1
      BY <1>1, <1>3, <1>6 DEF Itemized
    <3>2. Mode(i + 1) = "quoted"
      BY <1>0, <1>1, <1>3, <1>6, <3>1 DEF Itemized
    <3>3. i + 1 # k
      BY <1>0, <3>2
    <3> QED
      BY <1>0, <3>1, <3>2, <3>3
  <2>2. \A m \in (i + 1)..(k - 1) : Mode(m) \in {"quoted", "pair"}
    <3>1. PICK M : M = {"quoted", "pair"}
      OBVIOUS
    <3>2. \A m \in (i + 1)..(k - 1) : Mode(m) \in M
      BY <1>0, <2>1, <3>1, Within
    <3> QED
      BY <3>1, <3>2
  <2>p. PICK l : l = k - 1
    OBVIOUS
  <2>3. l \in 1..N /\ i < l /\ l + 1 = k /\ l \in (i + 1)..(k - 1) /\ l \in Places /\ i + 1 <= l
        /\ i + 1 \in Places
    BY <1>0, <2>1, <2>p
  <2>4. Mode(l) \in {"quoted", "pair"} /\ Stepped(l)
    BY <1>0, <2>2, <2>3, StepFacts
  <2>5. value[l] \notin {CR, LF}
    BY <1>0, <2>3, <2>p DEF Whole
  <2>6. Mode(l) = "quoted" /\ value[l] = Quote
    BY <1>0, <2>3, <2>4, <2>5 DEF Stepped
  <2>7. Keeps(l) /\ KeptFor(l) = Quote
    BY <2>5, <2>6 DEF Keeps, KeptFor
  <2>8. Kept[Spot(l)] = Quote /\ Spot(k) = Spot(l) + 1 /\ Spot(l) \in Nat
    BY <1>0, <2>3, <2>7, KeptAt
  <2>9. Spot(i + 1) <= Spot(l) /\ Spot(i + 1) = Spot(i) + 1
    BY <1>0, <1>2, <2>1, <2>3, KeptUpTo
  <2> QED
    BY <1>0, <1>2, <2>2, <2>3, <2>6, <2>7, <2>8, <2>9, <2>p
<1>7. Sign(i) # Quote => Spot(k) = Spot(i) + 1
  BY <1>2, <1>4, <1>5
<1>8. Spot(i) < Spot(k) /\ Spot(k) - 1 \in 1..Len(Kept)
  <2>1. Spot(k) <= Spot(N + 1) /\ Spot(N + 1) = Len(Kept) + 1 /\ Len(Kept) \in Nat /\ Spot(k) \in Nat
    BY <1>0, KeptUpTo, LexEnds, ModeAt
  <2>2. Spot(i) < Spot(k)
    BY <1>2, <1>6, <1>7, <2>1
  <2> QED
    BY <1>2, <2>1, <2>2
<1> QED
  BY <1>0, <1>2, <1>4, <1>5, <1>6, <1>7, <1>8

(* Different places outside of everything are different in Kept. *)
LEMMA TopsRise ==
    ASSUME Lexable, NEW i, NEW j, Top(i), Top(j)
    PROVE  (i < j <=> Spot(i) < Spot(j)) /\ (i = j <=> Spot(i) = Spot(j))
<1>1. i \in Nat /\ j \in Nat /\ Spot(i) \in Nat /\ Spot(j) \in Nat /\ i \in Places /\ j \in Places
      /\ value \in Seq(FromBytes)
  BY TopIs
<1>2. ASSUME NEW a, NEW b, Top(a), Top(b), a < b PROVE Spot(a) < Spot(b)
  <2>1. PICK k \in Places : Follows(a, k) /\ k <= b
    BY <1>2, FollowsExists
  <2>2. Spot(a) < Spot(k) /\ Spot(k) <= Spot(b) /\ Spot(a) \in Nat /\ Spot(k) \in Nat /\ Spot(b) \in Nat
    BY <1>1, <1>2, <2>1, TokenIs, KeptUpTo, TopIs, ModeAt
  <2> QED
    BY <2>2
<1> QED
  BY <1>1, <1>2

-----------------------------------------------------------------------------
(* Runs                                                                     *)

LEMMA RunJoin ==
    ASSUME Lexable, NEW F, NEW i, NEW j, NEW k, RunOf(F, i, j), RunOf(F, j, k)
    PROVE  RunOf(F, i, k)
<1>1. Top(i) /\ Top(j) /\ Top(k) /\ i <= j /\ j <= k
      /\ (\A m \in Places : Top(m) /\ i <= m /\ m < j => m \in F)
      /\ (\A m \in Places : Top(m) /\ j <= m /\ m < k => m \in F)
  BY DEF RunOf
<1>2. i \in Nat /\ j \in Nat /\ k \in Nat /\ \A m \in Places : m \in Nat
  BY <1>1, TopIs
<1>3. i <= k /\ \A m \in Places : Top(m) /\ i <= m /\ m < k => m \in F
  BY <1>1, <1>2
<1> QED
  BY <1>1, <1>3 DEF RunOf

(* A part of a run is a run. *)
LEMMA RunWithin ==
    ASSUME Lexable, NEW F, NEW i, NEW k, RunOf(F, i, k), NEW a, NEW b,
           Top(a), Top(b), i <= a, a <= b, b <= k
    PROVE  RunOf(F, a, b)
<1>1. /\ Top(i) /\ Top(k)
      /\ \A m \in Places : Top(m) /\ i <= m /\ m < k => m \in F
  BY DEF RunOf
<1>2. i \in Nat /\ a \in Nat /\ b \in Nat /\ k \in Nat /\ \A m \in Places : m \in Nat
  BY <1>1, TopIs
<1>3. \A m \in Places : Top(m) /\ a <= m /\ m < b => m \in F
  BY <1>1, <1>2
<1> QED
  BY <1>3 DEF RunOf

(* A run of more tokens. *)
LEMMA RunWider ==
    ASSUME NEW F, NEW G, NEW i, NEW j, RunOf(F, i, j), F \subseteq G
    PROVE  RunOf(G, i, j)
BY DEF RunOf

(* The run of no token. *)
LEMMA RunNone ==
    ASSUME Lexable, NEW F, NEW i, Top(i)
    PROVE  RunOf(F, i, i)
<1>1. i \in Nat /\ \A m \in Places : m \in Nat
  BY TopIs
<1> QED
  BY <1>1 DEF RunOf

(* The run of one token. *)
LEMMA RunOne ==
    ASSUME Lexable, NEW F, NEW i, NEW j, Follows(i, j), i \in F
    PROVE  RunOf(F, i, j)
<1>1. Top(j)
  BY DEF Follows
<1>2. RunOf(F, j, j)
  BY <1>1, RunNone
<1> QED
  BY <1>2, RunStep

(* Letters are tokens of their own. *)
LEMMA LettersTop ==
    ASSUME Lexable, NEW S, S \subseteq Printable \ {"(", Quote}, NEW i, NEW j,
           Top(i), Letters(S, i, j)
    PROVE  /\ Top(j) /\ RunOf(Signed(S), i, j)
           /\ \A m \in i..j : Top(m) /\ Spot(m) = Spot(i) + (m - i)
           /\ \A m \in i..(j - 1) : Follows(m, m + 1) /\ Sign(m) = value[m] /\ Kept[Spot(m)] = value[m]
<1>0. /\ N \in Nat /\ Places = 1..(N + 1) /\ value \in Seq(FromBytes) /\ i \in Nat /\ j \in Nat
      /\ i \in Places /\ j \in Places /\ i <= j /\ j <= N + 1 /\ i >= 1
      /\ \A m \in i..(j - 1) : value[m] \in S
  BY TopIs DEF Letters
<1>1. ASSUME NEW m \in i..(j - 1), Top(m)
      PROVE  /\ Follows(m, m + 1) /\ Sign(m) = value[m] /\ Kept[Spot(m)] = value[m]
             /\ Spot(m + 1) = Spot(m) + 1
  <2>1. value[m] \in S /\ m <= N
    BY <1>0
  <2>2. Sign(m) = value[m] /\ Itemized(m)
    BY <1>1, <2>1, TopIs
  <2>3. After(m) = m + 1 /\ Sign(m) \notin {"(", Quote}
    BY <2>1, <2>2 DEF Itemized
  <2>4. Follows(m, m + 1)
    BY <1>1, <2>1, <2>3, FollowsItem
  <2>5. Kept[Spot(m)] = Sign(m) /\ Spot(m + 1) = Spot(m) + 1
    BY <2>3, <2>4, TokenIs
  <2> QED
    BY <2>2, <2>4, <2>5
<1> DEFINE I == {m \in 0..N : i <= m + 1 /\ m + 1 <= j => Top(m + 1) /\ Spot(m + 1) = Spot(i) + ((m + 1) - i)}
<1>2. Spot(i) \in Nat
  BY TopIs
<1>3. 0 \in I
  BY <1>0, <1>2
<1>4. ASSUME NEW m \in 1..N, m - 1 \in I PROVE m \in I
  <2> SUFFICES ASSUME i <= m + 1, m + 1 <= j
               PROVE  Top(m + 1) /\ Spot(m + 1) = Spot(i) + ((m + 1) - i)
    BY <1>0
  <2>1. CASE i = m + 1
    BY <1>0, <1>2, <2>1
  <2>2. CASE i # m + 1
    <3>1. i <= m /\ m <= j /\ (m - 1) + 1 = m /\ m \in i..(j - 1)
      BY <1>0, <2>2
    <3>2. Top(m) /\ Spot(m) = Spot(i) + (m - i)
      BY <1>4, <3>1
    <3>3. Top(m + 1) /\ Spot(m + 1) = Spot(m) + 1
      BY <1>1, <3>1, <3>2 DEF Follows
    <3> QED
      BY <1>0, <1>2, <3>1, <3>2, <3>3
  <2> QED
    BY <2>1, <2>2
<1>5. 0..N \subseteq I
  <2> HIDE DEF I
  <2> QED
    BY <1>0, <1>3, <1>4, UpTo
<1> HIDE DEF I
<1>6. ASSUME NEW m \in i..j PROVE Top(m) /\ Spot(m) = Spot(i) + (m - i)
  <2>1. m - 1 \in 0..N /\ (m - 1) + 1 = m
    BY <1>0
  <2>2. m - 1 \in I
    BY <1>5, <2>1
  <2> QED
    BY <1>0, <2>1, <2>2 DEF I
<1>7. \A m \in i..(j - 1) : Follows(m, m + 1) /\ Sign(m) = value[m] /\ Kept[Spot(m)] = value[m]
  BY <1>0, <1>1, <1>6
<1>8. RunOf(Signed(S), i, j)
  <2>1. ASSUME NEW m \in Places, i <= m, m < j PROVE m \in Signed(S)
    <3>1. m \in i..(j - 1) /\ m <= N
      BY <1>0, <2>1
    <3> QED
      BY <1>0, <1>7, <3>1 DEF Signed
  <2>2. j \in i..j
    BY <1>0
  <2> QED
    BY <1>0, <1>6, <2>1, <2>2 DEF RunOf
<1>9. Top(j)
  BY <1>0, <1>6
<1> QED
  BY <1>6, <1>7, <1>8, <1>9

-----------------------------------------------------------------------------
(* The scan of a text for quoted strings                                    *)

ScanStates == [at : Nat, pending : BOOLEAN, quoted : BOOLEAN, plain : SUBSET Nat, escaped : SUBSET Nat]
ScanStart == [at |-> 0, pending |-> FALSE, quoted |-> FALSE, plain |-> {}, escaped |-> {}]

IsScanTrace(t, v) ==
    /\ t \in [0..Len(v) -> ScanStates]
    /\ t[0] = ScanStart
    /\ \A k \in 1..Len(v) : t[k] = ScanByte(t[k - 1], v[k])
    /\ FoldLeft(ScanByte, ScanStart, v) = t[Len(v)]

(* The parts of a state of ScanByte. *)
LEMMA ScanState ==
    ASSUME NEW s \in ScanStates
    PROVE  /\ s.at \in Nat /\ s.pending \in BOOLEAN /\ s.quoted \in BOOLEAN
           /\ s.plain \subseteq Nat /\ s.escaped \subseteq Nat
  BY DEF ScanStates

(* What a byte does *)
Scanned(r, s, c) ==
    /\ r \in ScanStates
    /\ r.at = s.at + 1
    /\ s.pending => /\ ~r.pending /\ (r.quoted <=> s.quoted)
                    /\ r.plain = s.plain /\ r.escaped = s.escaped \cup {s.at + 1}
    /\ ~s.pending =>
          /\ r.pending <=> s.quoted /\ c = Escape
          /\ r.quoted <=> (s.quoted /\ c # Quote) \/ (~s.quoted /\ c = Quote)
          /\ r.plain = IF ~s.quoted /\ c # Quote THEN s.plain \cup {s.at + 1} ELSE s.plain
          /\ r.escaped = s.escaped

(* ScanByte, case by case. *)
LEMMA ScanStep ==
    ASSUME NEW s \in ScanStates, NEW c
    PROVE  Scanned(ScanByte(s, c), s, c)
<1>1. /\ s.at \in Nat /\ s.pending \in BOOLEAN /\ s.quoted \in BOOLEAN
      /\ s.plain \subseteq Nat /\ s.escaped \subseteq Nat
  BY ScanState
<1>q. Quote # Escape
  BY DEF Quote, Escape
<1>2. s.at + 1 \in Nat /\ s.plain \cup {s.at + 1} \subseteq Nat /\ s.escaped \cup {s.at + 1} \subseteq Nat
  BY <1>1
<1>3. CASE s.pending
  <2>1. ScanByte(s, c) = [s EXCEPT !.at = s.at + 1, !.pending = FALSE, !.escaped = @ \cup {s.at + 1}]
    BY <1>3 DEF ScanByte
  <2>2. PICK r : r = ScanByte(s, c)
    OBVIOUS
  <2>3. r \in ScanStates
    BY <1>1, <1>2, <2>1, <2>2 DEF ScanStates
  <2>4. /\ r.at = s.at + 1 /\ r.pending = FALSE /\ r.quoted = s.quoted /\ r.plain = s.plain
        /\ r.escaped = s.escaped \cup {s.at + 1}
    BY <2>1, <2>2 DEF ScanStates
  <2> QED
    BY <1>3, <2>2, <2>3, <2>4 DEF Scanned
<1>4. CASE ~s.pending /\ s.quoted /\ c = Escape
  <2>1. ScanByte(s, c) = [s EXCEPT !.at = s.at + 1, !.pending = TRUE]
    BY <1>4 DEF ScanByte
  <2>2. PICK r : r = ScanByte(s, c)
    OBVIOUS
  <2>3. r \in ScanStates
    BY <1>1, <1>2, <2>1, <2>2 DEF ScanStates
  <2>4. /\ r.at = s.at + 1 /\ r.pending = TRUE /\ r.quoted = s.quoted /\ r.plain = s.plain
        /\ r.escaped = s.escaped
    BY <2>1, <2>2 DEF ScanStates
  <2> QED
    BY <1>4, <1>q, <2>2, <2>3, <2>4 DEF Scanned
<1>5. CASE ~s.pending /\ c = Quote
  <2>1. ScanByte(s, c) = [s EXCEPT !.at = s.at + 1, !.quoted = ~s.quoted]
    BY <1>5, <1>q DEF ScanByte
  <2>2. PICK r : r = ScanByte(s, c)
    OBVIOUS
  <2>3. r \in ScanStates
    BY <1>1, <1>2, <2>1, <2>2 DEF ScanStates
  <2>4. /\ r.at = s.at + 1 /\ r.pending = s.pending /\ r.quoted = ~s.quoted /\ r.plain = s.plain
        /\ r.escaped = s.escaped
    BY <2>1, <2>2 DEF ScanStates
  <2> QED
    BY <1>5, <1>q, <2>2, <2>3, <2>4 DEF Scanned
<1>6. CASE ~s.pending /\ c # Quote /\ ~(s.quoted /\ c = Escape)
  <2>p. PICK p : p = IF s.quoted THEN s.plain ELSE s.plain \cup {s.at + 1}
    OBVIOUS
  <2>1. ScanByte(s, c) = [s EXCEPT !.at = s.at + 1, !.plain = p]
    BY <1>6, <2>p DEF ScanByte
  <2>2. PICK r : r = ScanByte(s, c)
    OBVIOUS
  <2>3. r \in ScanStates
    BY <1>1, <1>2, <2>1, <2>2, <2>p DEF ScanStates
  <2>4. /\ r.at = s.at + 1 /\ r.pending = s.pending /\ r.quoted = s.quoted /\ r.plain = p
        /\ r.escaped = s.escaped
    BY <2>1, <2>2 DEF ScanStates
  <2> QED
    BY <1>6, <2>2, <2>3, <2>4, <2>p DEF Scanned
<1> QED
  BY <1>3, <1>4, <1>5, <1>6

(* The state keeps its type. *)
LEMMA ScanTypes ==
    ScanStart \in ScanStates /\ \A s \in ScanStates, x \in FromBytes : ScanByte(s, x) \in ScanStates
<1>1. ScanStart \in ScanStates
  BY DEF ScanStart, ScanStates
<1>2. \A s \in ScanStates, x \in FromBytes : ScanByte(s, x) \in ScanStates
  BY ScanStep DEF Scanned
<1> QED
  BY <1>1, <1>2

(* The states of Scan, byte after byte. *)
LEMMA ScanTrace ==
    ASSUME NEW v \in Seq(FromBytes)
    PROVE  \E t : IsScanTrace(t, v)
<1> DEFINE n == Len(v)
           G == [k \in 1..n |-> [s \in ScanStates |-> ScanByte(s, v[k])]]
           R(f) == f = [s \in SUBSET (1..n) |->
                          IF s = {} THEN ScanStart ELSE ScanByte(f[s \ {Max(s)}], v[Max(s)])]
           iter == CHOOSE f : R(f)
<1>1. n \in Nat /\ DOMAIN v = 1..n /\ \A k \in 1..n : v[k] \in FromBytes
  BY LenProperties, ElementOfSeq
<1>2. ScanStart \in ScanStates /\ \A s \in ScanStates, x \in FromBytes : ScanByte(s, x) \in ScanStates
  BY ScanTypes
<1>3. G \in [1..n -> [ScanStates -> ScanStates]]
  BY <1>1, <1>2
<1>4. \A k \in 1..n, s \in ScanStates : G[k][s] = ScanByte(s, v[k])
  OBVIOUS
<1>5. FoldLeft(ScanByte, ScanStart, v) = iter[1..n]
  BY <1>1, Zenon DEF FoldLeft, MapThenFoldSet
<1> HIDE DEF n, G
<1>6. PICK f : IsTable(f, ScanStart, G, n, ScanStates)
  BY <1>1, <1>2, <1>3, TableExists
<1>7. R(f)
  <2>1. f \in [SUBSET (1..n) -> ScanStates]
    BY <1>6 DEF IsTable
  <2>2. ASSUME NEW s \in SUBSET (1..n)
        PROVE  f[s] = IF s = {} THEN ScanStart ELSE ScanByte(f[s \ {Max(s)}], v[Max(s)])
    <3>1. f[s] = IF s = {} THEN ScanStart ELSE G[Max(s)][f[s \ {Max(s)}]]
      BY <1>6 DEF IsTable
    <3>2. CASE s = {}
      BY <3>1, <3>2
    <3>3. CASE s # {}
      <4>1. Max(s) \in s
        <5>1. s \in SUBSET (0..n)
          BY <1>1
        <5> QED
          BY <1>1, <3>3, <5>1, MaxIsGreatest
      <4>2. Max(s) \in 1..n /\ f[s \ {Max(s)}] \in ScanStates
        BY <2>1, <4>1
      <4> QED
        BY <1>4, <3>1, <3>3, <4>2
    <3> QED
      BY <3>2, <3>3
  <2> QED
    BY <2>1, <2>2
<1>8. R(iter)
  BY <1>7, Zenon
<1> HIDE DEF iter
<1> DEFINE t == [k \in 0..n |-> iter[1..k]]
           T == {k \in 0..n : iter[1..k] \in ScanStates}
<1>9. iter[1..0] = ScanStart
  <2>1. 1..0 = {} /\ {} \in SUBSET (1..n)
    OBVIOUS
  <2> QED
    BY <1>8, <2>1
<1>10. ASSUME NEW k \in 1..n PROVE iter[1..k] = ScanByte(iter[1..(k - 1)], v[k])
  <2>1. k \in Nat \ {0} /\ 1..k \in SUBSET (1..n) /\ 1..k # {}
    BY <1>1
  <2>2. Max(1..k) = k /\ (1..k) \ {Max(1..k)} = 1..(k - 1)
    BY <2>1, MaxOfInterval
  <2>3. iter[1..k] = ScanByte(iter[(1..k) \ {Max(1..k)}], v[Max(1..k)])
    BY <1>8, <2>1
  <2> QED
    BY <2>2, <2>3
<1>11. 0 \in T
  BY <1>1, <1>2, <1>9
<1>12. ASSUME NEW k \in 1..n, k - 1 \in T PROVE k \in T
  BY <1>1, <1>2, <1>10, <1>12
<1>13. 0..n \subseteq T
  <2> HIDE DEF T
  <2> QED
    BY <1>1, <1>11, <1>12, UpTo
<1>14. t \in [0..n -> ScanStates]
  BY <1>13
<1>15. t[0] = ScanStart
  BY <1>1, <1>9
<1>16. \A k \in 1..n : t[k] = ScanByte(t[k - 1], v[k])
  <2> SUFFICES ASSUME NEW k \in 1..n PROVE t[k] = ScanByte(t[k - 1], v[k])
    OBVIOUS
  <2>1. k \in 0..n /\ k - 1 \in 0..n
    BY <1>1
  <2> QED
    BY <1>10, <2>1
<1>17. FoldLeft(ScanByte, ScanStart, v) = t[n]
  BY <1>1, <1>5
<1> HIDE DEF t
<1> QED
  BY <1>14, <1>15, <1>16, <1>17 DEF IsScanTrace, n

-----------------------------------------------------------------------------
(* The texts from_domain takes apart: slices of the text without comments   *)

Slice(i, j) == SubSeq(Kept, Spot(i), Spot(j) - 1)

(* A slice is the part of Kept between two places. *)
LEMMA SliceIs ==
    ASSUME value \in Seq(FromBytes), NEW i \in Places, NEW j \in Places, i <= j
    PROVE  /\ Slice(i, j) \in Seq(FromBytes) /\ Len(Slice(i, j)) = Spot(j) - Spot(i)
           /\ Spot(i) \in Nat \ {0} /\ Spot(j) \in Nat /\ Spot(i) <= Spot(j) /\ Spot(j) - 1 <= Len(Kept)
           /\ Len(Kept) \in Nat /\ Spot(j) - Spot(i) \in Nat
           /\ \A p \in 1..(Spot(j) - Spot(i)) : Slice(i, j)[p] = Kept[Spot(i) + p - 1]
<1>1. Spot(i) \in Nat \ {0} /\ Spot(j) \in Nat \ {0} /\ Kept \in Seq(FromBytes) /\ Len(Kept) \in Nat
      /\ Spot(N + 1) = Len(Kept) + 1 /\ N + 1 \in Places /\ j <= N + 1
  BY PlacesAre, ModeAt, LexEnds
<1>2. Spot(i) <= Spot(j) /\ Spot(j) <= Spot(N + 1)
  BY <1>1, KeptUpTo
<1>3. PICK a, n : a = Spot(i) - 1 /\ n = Spot(j) - Spot(i)
  OBVIOUS
<1>4. a \in Nat /\ n \in Nat /\ a + n <= Len(Kept) /\ a + 1 = Spot(i) /\ a + n = Spot(j) - 1
  <2>1. PICK x, y, l : x = Spot(i) /\ y = Spot(j) /\ l = Len(Kept)
    OBVIOUS
  <2>2. x \in Nat /\ x # 0 /\ y \in Nat /\ l \in Nat /\ x <= y /\ y <= l + 1 /\ a = x - 1 /\ n = y - x
    BY <1>1, <1>2, <1>3, <2>1
  <2>3. a \in Nat /\ n \in Nat /\ a + n <= l /\ a + 1 = x /\ a + n = y - 1
    BY <2>2
  <2> QED
    BY <2>1, <2>3
<1>5. /\ Slice(i, j) = SubSeq(Kept, a + 1, a + n)
      /\ SubSeq(Kept, a + 1, a + n) \in Seq(FromBytes)
      /\ Len(SubSeq(Kept, a + 1, a + n)) = n
      /\ \A p \in 1..n : SubSeq(Kept, a + 1, a + n)[p] = Kept[a + p]
  <2>1. Slice(i, j) = SubSeq(Kept, a + 1, a + n)
    BY <1>4 DEF Slice
  <2> QED
    BY <1>1, <1>4, <2>1, TakeTypes
<1>6. \A p \in 1..n : a + p = Spot(i) + p - 1
  BY <1>1, <1>4
<1> QED
  BY <1>1, <1>2, <1>3, <1>4, <1>5, <1>6

(* Where the scan of a slice has got to at a place *)
PlainBefore(i, m) ==
    {Spot(k) - Spot(i) + 1 : k \in {k \in 1..N : i <= k /\ k < m /\ Keeps(k) /\ Mode(k) = "top"
                                                      /\ value[k] # Quote}}
EscapedBefore(i, m) ==
    {Spot(k) - Spot(i) + 1 : k \in {k \in 1..N : i <= k /\ k < m /\ Keeps(k) /\ Mode(k) = "pair"}}
ScannedTo(s, i, m) ==
    /\ s \in ScanStates /\ s.at = Spot(m) - Spot(i)
    /\ s.pending <=> Mode(m) = "pair"
    /\ s.quoted <=> Mode(m) \in {"quoted", "pair"}
    /\ s.plain = PlainBefore(i, m) /\ s.escaped = EscapedBefore(i, m)

(* A byte that is not kept leaves Scan alone. *)
LEMMA ScanSkips ==
    ASSUME value \in Seq(FromBytes), NEW i \in Places, NEW m \in 1..N, i <= m, ~Keeps(m),
           NEW s, ScannedTo(s, i, m)
    PROVE  ScannedTo(s, i, m + 1) /\ Spot(m + 1) = Spot(m)
<1>1. Stepped(m)
  BY StepFacts
<1>2. N \in Nat /\ Places = 1..(N + 1) /\ m \in Nat /\ i \in Nat /\ m \in Places
  BY PlacesAre
<1>3. Mode(m) \in {"top", "quoted", "pair", "comment", "cpair"}
  BY <1>2, ModeAt
<1>4. /\ Spot(m + 1) = Spot(m)
      /\ (Mode(m + 1) = "pair" <=> Mode(m) = "pair")
      /\ (Mode(m + 1) \in {"quoted", "pair"} <=> Mode(m) \in {"quoted", "pair"})
  BY <1>1, <1>3 DEF Stepped, Keeps
<1>5. \A k \in 1..N : Keeps(k) => (k < m <=> k < m + 1)
  BY <1>2
<1>6. PlainBefore(i, m + 1) = PlainBefore(i, m) /\ EscapedBefore(i, m + 1) = EscapedBefore(i, m)
  BY <1>5 DEF PlainBefore, EscapedBefore
<1> QED
  BY <1>4, <1>6 DEF ScannedTo

(* One that is kept takes Scan on, in the mode of the first scan. *)
LEMMA ScanTakes ==
    ASSUME value \in Seq(FromBytes), NEW i \in Places, NEW m \in 1..N, i <= m, Keeps(m),
           NEW s, ScannedTo(s, i, m)
    PROVE  ScannedTo(ScanByte(s, KeptFor(m)), i, m + 1) /\ Spot(m + 1) = Spot(m) + 1
<1>1. Stepped(m) /\ Spot(m + 1) = Spot(m) + 1
  BY StepFacts, KeptAt
<1>2. /\ N \in Nat /\ Places = 1..(N + 1) /\ m \in Nat /\ i \in Nat /\ m \in Places
      /\ Spot(i) \in Nat /\ Spot(m) \in Nat /\ Spot(i) <= Spot(m)
  BY PlacesAre, ModeAt, KeptUpTo
<1>3. /\ Mode(m) \in {"top", "quoted", "pair"} /\ value[m] \notin {CR, LF}
      /\ Quote # "(" /\ Escape # "(" /\ SP # Quote /\ SP # Escape /\ Quote # Escape
  BY DEF Keeps, Quote, Escape, SP
<1>4. PICK c, r : c = KeptFor(m) /\ r = ScanByte(s, c)
  OBVIOUS
<1>5. Scanned(r, s, c) /\ s \in ScanStates
  BY <1>4, ScanStep DEF ScannedTo
<1>6. /\ Mode(m) \in {"quoted", "pair"} => c = value[m]
      /\ c = Quote <=> value[m] = Quote
      /\ Mode(m) = "top" /\ c = Escape => value[m] = Escape
  BY <1>3, <1>4 DEF KeptFor
<1>7. (r.pending <=> Mode(m + 1) = "pair") /\ (r.quoted <=> Mode(m + 1) \in {"quoted", "pair"})
  BY <1>1, <1>3, <1>5, <1>6 DEF Stepped, Scanned, ScannedTo
<1>8. r.at = Spot(m + 1) - Spot(i) /\ s.at + 1 = Spot(m) - Spot(i) + 1
  BY <1>1, <1>2, <1>5 DEF Scanned, ScannedTo
<1>9. \A k \in 1..N : k < m + 1 <=> k < m \/ k = m
  BY <1>2
<1>10. PICK x : x = Spot(m) - Spot(i) + 1
  OBVIOUS
<1>11. r.plain = PlainBefore(i, m + 1)
  <2>1. CASE Mode(m) = "top" /\ value[m] # Quote
    <3>1. r.plain = s.plain \cup {x}
      BY <1>3, <1>5, <1>6, <1>8, <1>10, <2>1 DEF Scanned, ScannedTo
    <3>2. PlainBefore(i, m + 1) = PlainBefore(i, m) \cup {x}
      BY <1>9, <1>10, <2>1 DEF PlainBefore
    <3> QED
      BY <3>1, <3>2 DEF ScannedTo
  <2>2. CASE ~(Mode(m) = "top" /\ value[m] # Quote)
    <3>1. r.plain = s.plain
      BY <1>3, <1>5, <1>6, <2>2 DEF Scanned, ScannedTo
    <3>2. PlainBefore(i, m + 1) = PlainBefore(i, m)
      BY <1>9, <2>2 DEF PlainBefore
    <3> QED
      BY <3>1, <3>2 DEF ScannedTo
  <2> QED
    BY <2>1, <2>2
<1>12. r.escaped = EscapedBefore(i, m + 1)
  <2>1. CASE Mode(m) = "pair"
    <3>1. r.escaped = s.escaped \cup {x}
      BY <1>5, <1>8, <1>10, <2>1 DEF Scanned, ScannedTo
    <3>2. EscapedBefore(i, m + 1) = EscapedBefore(i, m) \cup {x}
      BY <1>9, <1>10, <2>1 DEF EscapedBefore
    <3> QED
      BY <3>1, <3>2 DEF ScannedTo
  <2>2. CASE Mode(m) # "pair"
    <3>1. r.escaped = s.escaped
      BY <1>5, <2>2 DEF Scanned, ScannedTo
    <3>2. EscapedBefore(i, m + 1) = EscapedBefore(i, m)
      BY <1>9, <2>2 DEF EscapedBefore
    <3> QED
      BY <3>1, <3>2 DEF ScannedTo
  <2> QED
    BY <2>1, <2>2
<1> QED
  BY <1>1, <1>4, <1>5, <1>7, <1>8, <1>11, <1>12 DEF ScannedTo, Scanned

(* Scan of a slice that begins outside of everything finds the modes that   *)
(* the scan of the whole value had.                                         *)
LEMMA ScanIs ==
    ASSUME value \in Seq(FromBytes), NEW i \in Places, NEW j \in Places, i <= j, Mode(i) = "top"
    PROVE  /\ Scan(Slice(i, j)).plain = PlainBefore(i, j)
           /\ Scan(Slice(i, j)).escaped = EscapedBefore(i, j)
<1>0. N \in Nat /\ Places = 1..(N + 1) /\ i \in Nat /\ j \in Nat /\ i >= 1 /\ j <= N + 1
  BY PlacesAre
<1>1. PICK v : v = Slice(i, j)
  OBVIOUS
<1>2. /\ v \in Seq(FromBytes) /\ Len(v) = Spot(j) - Spot(i) /\ Spot(j) - Spot(i) \in Nat
      /\ \A p \in 1..(Spot(j) - Spot(i)) : v[p] = Kept[Spot(i) + p - 1]
  BY <1>1, SliceIs
<1>3. PICK t : IsScanTrace(t, v)
  BY <1>2, ScanTrace
<1>4. Spot(i) \in Nat /\ Spot(j) \in Nat /\ \A m \in Places : Spot(m) \in Nat
  BY ModeAt
<1> DEFINE I == {m \in 0..N : i <= m + 1 /\ m + 1 <= j => ScannedTo(t[Spot(m + 1) - Spot(i)], i, m + 1)}
<1>5. ScannedTo(t[Spot(i) - Spot(i)], i, i)
  <2>1. Spot(i) - Spot(i) = 0 /\ t[0] = ScanStart
    BY <1>3, <1>4 DEF IsScanTrace
  <2>2. PlainBefore(i, i) = {} /\ EscapedBefore(i, i) = {}
    BY <1>0 DEF PlainBefore, EscapedBefore
  <2> QED
    BY <2>1, <2>2, ScanTypes DEF ScannedTo, ScanStart
<1>6. 0 \in I
  <2>1. i <= 0 + 1 => i = 0 + 1
    BY <1>0
  <2> QED
    BY <1>0, <1>5, <2>1
<1>7. ASSUME NEW m \in 1..N, m - 1 \in I PROVE m \in I
  <2> SUFFICES ASSUME i <= m + 1, m + 1 <= j
               PROVE  ScannedTo(t[Spot(m + 1) - Spot(i)], i, m + 1)
    BY <1>0
  <2>1. CASE i = m + 1
    BY <1>5, <2>1
  <2>2. CASE i # m + 1
    <3>1. i <= m /\ m <= j /\ (m - 1) + 1 = m /\ m \in Places /\ m + 1 \in Places
      BY <1>0, <2>2
    <3>2. PICK s : s = t[Spot(m) - Spot(i)]
      OBVIOUS
    <3>3. ScannedTo(s, i, m)
      BY <1>7, <3>1, <3>2
    <3>4. CASE ~Keeps(m)
      BY <3>1, <3>2, <3>3, <3>4, ScanSkips
    <3>5. CASE Keeps(m)
      <4>1. ScannedTo(ScanByte(s, KeptFor(m)), i, m + 1) /\ Spot(m + 1) = Spot(m) + 1
        BY <3>1, <3>3, <3>5, ScanTakes
      <4>2. PICK x : x = Spot(m + 1) - Spot(i)
        OBVIOUS
      <4>3. Spot(i) <= Spot(m) /\ Spot(m + 1) <= Spot(j) /\ Spot(m) \in Nat
        BY <1>4, <3>1, KeptUpTo
      <4>4. x \in 1..(Spot(j) - Spot(i)) /\ x - 1 = Spot(m) - Spot(i) /\ Spot(i) + x - 1 = Spot(m)
        BY <1>4, <4>1, <4>2, <4>3
      <4>5. v[x] = KeptFor(m)
        BY <1>2, <3>5, <4>4, KeptAt
      <4>6. t[x] = ScanByte(t[x - 1], v[x])
        BY <1>2, <1>3, <4>4 DEF IsScanTrace
      <4> QED
        BY <3>2, <4>1, <4>2, <4>4, <4>5, <4>6
    <3> QED
      BY <3>4, <3>5
  <2> QED
    BY <2>1, <2>2
<1>8. 0..N \subseteq I
  <2> HIDE DEF I
  <2> QED
    BY <1>0, <1>6, <1>7, UpTo
<1> HIDE DEF I
<1>9. j - 1 \in 0..N /\ (j - 1) + 1 = j
  BY <1>0
<1>10. j - 1 \in I
  BY <1>8, <1>9
<1>11. ScannedTo(t[Len(v)], i, j)
  BY <1>0, <1>2, <1>9, <1>10 DEF I
<1>12. Scan(v) = t[Len(v)]
  BY <1>3 DEF IsScanTrace, Scan, ScanStart
<1> QED
  BY <1>1, <1>11, <1>12 DEF ScannedTo

(* The slice of a slice *)
LEMMA SubSlice ==
    ASSUME value \in Seq(FromBytes), NEW i \in Places, NEW j \in Places, NEW a \in Places, NEW b \in Places,
           i <= a, a <= b, b <= j
    PROVE  SubSeq(Slice(i, j), Spot(a) - Spot(i) + 1, Spot(b) - Spot(i)) = Slice(a, b)
<1>0. i \in Nat /\ j \in Nat /\ a \in Nat /\ b \in Nat /\ i <= j
  BY PlacesAre
<1>1. Spot(i) <= Spot(a) /\ Spot(a) <= Spot(b) /\ Spot(b) <= Spot(j)
  BY KeptUpTo
<1>2. PICK s, x, y, u, w : s = Slice(i, j) /\ x = Spot(i) /\ y = Spot(j) /\ u = Spot(a) /\ w = Spot(b)
  OBVIOUS
<1>3. /\ s \in Seq(FromBytes) /\ Len(s) = y - x /\ x \in Nat /\ y \in Nat /\ u \in Nat /\ w \in Nat
      /\ \A p \in 1..(y - x) : s[p] = Kept[x + p - 1]
      /\ Slice(a, b) \in Seq(FromBytes) /\ Len(Slice(a, b)) = w - u
      /\ \A p \in 1..(w - u) : Slice(a, b)[p] = Kept[u + p - 1]
      /\ x <= u /\ u <= w /\ w <= y
  BY <1>0, <1>1, <1>2, SliceIs
<1>4. PICK d, n : d = u - x /\ n = w - u
  OBVIOUS
<1>5. d \in Nat /\ n \in Nat /\ d + n <= Len(s) /\ d + 1 = u - x + 1 /\ d + n = w - x
  BY <1>3, <1>4
<1>6. /\ SubSeq(s, d + 1, d + n) \in Seq(FromBytes) /\ Len(SubSeq(s, d + 1, d + n)) = n
      /\ \A p \in 1..n : SubSeq(s, d + 1, d + n)[p] = s[d + p]
  BY <1>3, <1>5, TakeTypes
<1>7. ASSUME NEW p \in 1..n PROVE SubSeq(s, d + 1, d + n)[p] = Slice(a, b)[p]
  <2>1. d + p \in 1..(y - x) /\ x + (d + p) - 1 = u + p - 1 /\ p \in 1..(w - u)
    BY <1>3, <1>4, <1>5
  <2> QED
    BY <1>3, <1>6, <2>1
<1>8. SubSeq(s, d + 1, d + n) = Slice(a, b)
  BY <1>3, <1>4, <1>6, <1>7, SeqEqual
<1> QED
  BY <1>2, <1>5, <1>8

(* Where a byte that is kept is found in a slice. *)
LEMMA SliceAt ==
    ASSUME value \in Seq(FromBytes), NEW i \in Places, NEW j \in Places, i <= j,
           NEW m \in 1..N, Keeps(m), i <= m, m < j
    PROVE  /\ Spot(m) - Spot(i) + 1 \in 1..Len(Slice(i, j))
           /\ Slice(i, j)[Spot(m) - Spot(i) + 1] = KeptFor(m)
<1>1. m \in Places /\ Spot(i) <= Spot(m) /\ Spot(m) < Spot(j)
  BY PlacesAre, SpotOrder, KeptUpTo
<1>2. PICK x, y, z : x = Spot(i) /\ y = Spot(j) /\ z = Spot(m)
  OBVIOUS
<1>3. x \in Nat /\ y \in Nat /\ z \in Nat /\ x <= z /\ z < y
  BY <1>1, <1>2, ModeAt
<1>4. z - x + 1 \in 1..(y - x) /\ x + (z - x + 1) - 1 = z
  BY <1>3
<1>5. Len(Slice(i, j)) = y - x /\ \A p \in 1..(y - x) : Slice(i, j)[p] = Kept[x + p - 1]
  BY <1>2, SliceIs
<1>6. Slice(i, j)[z - x + 1] = Kept[z] /\ Kept[z] = KeptFor(m)
  <2>1. PICK d : d = z - x + 1
    OBVIOUS
  <2>2. d \in 1..(y - x) /\ x + d - 1 = z
    BY <1>4, <2>1
  <2> QED
    BY <1>2, <1>5, <2>1, <2>2, KeptAt
<1> QED
  BY <1>2, <1>4, <1>5, <1>6

(* Every byte of a slice comes from one between its places. *)
LEMMA SliceFrom ==
    ASSUME value \in Seq(FromBytes), NEW i \in Places, NEW j \in Places, i <= j,
           NEW p \in 1..Len(Slice(i, j))
    PROVE  \E m \in 1..N : Keeps(m) /\ i <= m /\ m < j /\ p = Spot(m) - Spot(i) + 1
<1>1. PICK x, y : x = Spot(i) /\ y = Spot(j)
  OBVIOUS
<1>2. x \in Nat \ {0} /\ y \in Nat /\ Len(Slice(i, j)) = y - x /\ y - 1 <= Len(Kept) /\ Len(Kept) \in Nat
  BY <1>1, SliceIs
<1>3. PICK z : z = x + p - 1
  OBVIOUS
<1>4. z \in 1..Len(Kept) /\ x <= z /\ z < y /\ p = z - x + 1
  BY <1>2, <1>3
<1>5. PICK m \in 1..N : Keeps(m) /\ Spot(m) = z
  BY <1>4, SpotUsed
<1>6. i \in Nat /\ j \in Nat /\ m \in Nat
  BY PlacesAre
<1>7. i <= m /\ m < j
  BY <1>1, <1>4, <1>5, SpotOrder
<1> QED
  BY <1>1, <1>4, <1>5, <1>7

-----------------------------------------------------------------------------
(* Trimming takes away white space and comments.                            *)

LEMMA GapsWhite ==
    ASSUME Lexable, NEW i, NEW j, RunOf(Signed(Gap), i, j), NEW m \in 1..N, Keeps(m), i <= m, m < j
    PROVE  KeptFor(m) \in White
<1>0. /\ N \in Nat /\ Places = 1..(N + 1) /\ value \in Seq(FromBytes) /\ i \in Nat /\ j \in Nat
      /\ Top(i) /\ Top(j) /\ m \in Places
  BY TopIs, PlacesAre DEF RunOf, Lexable
<1>1. value[m] \notin {CR, LF}
  BY DEF Keeps
<1>2. PICK k \in Places : /\ Whole(k) /\ k <= m /\ k <= N /\ After(k) = m + 1 /\ Mode(k) = Mode(m)
                          /\ Spot(k) = Spot(m) /\ Sign(k) = value[m]
  BY <1>1, Origin
<1> DEFINE E == {t \in 1..N : Top(t) /\ t <= k}
<1>3. k >= i
  <2>1. Itemized(k)
    BY <1>2, ItemFacts
  <2>2. \A x \in Nat : k < x /\ x < m + 1 => ~Whole(x)
    BY <1>2, <2>1 DEF Itemized
  <2>3. Whole(i)
    BY <1>0 DEF Top
  <2> QED
    BY <1>0, <2>2, <2>3
<1>4. i \in E /\ E \in SUBSET (0..N)
  <2>1. i \in 1..N /\ i <= k
    <3>1. i >= 1 /\ k \in Nat
      BY <1>0, TopIs
    <3> QED
      BY <1>0, <1>2, <1>3, <3>1
  <2>2. i \in E
    BY <1>0, <2>1
  <2>3. \A y \in E : y \in 0..N
    BY <1>0
  <2> QED
    BY <2>2, <2>3
<1>5. PICK t : t \in E /\ \A y \in E : y <= t
  <2> HIDE DEF E
  <2> QED
    BY <1>0, <1>4, MaxIsGreatest
<1>6. t \in 1..N /\ Top(t) /\ t <= k /\ i <= t /\ t < j /\ t \in Places
  BY <1>0, <1>2, <1>4, <1>5
<1>7. t \in Signed(Gap)
  BY <1>6 DEF RunOf
<1>8. Sign(t) \in Gap
  BY <1>7 DEF Signed
<1>9. PICK l \in Places : Follows(t, l) /\ l <= j
  BY <1>0, <1>6, FollowsExists
<1>10. l > k
  <2>1. l \in Nat /\ Top(l) /\ t < l
    BY <1>0, <1>9 DEF Follows
  <2>2. ASSUME l <= k PROVE FALSE
    <3>1. l \in E
      BY <1>0, <1>2, <2>1, <2>2
    <3>2. l <= t
      BY <1>5, <3>1
    <3> QED
      BY <1>0, <1>6, <2>1, <3>2
  <2> QED
    BY <1>0, <2>1, <2>2
<1>11. k = t
  <2> SUFFICES ASSUME k # t PROVE FALSE
    OBVIOUS
  <2>1. t < k
    BY <1>0, <1>6
  <2>2. CASE Sign(t) = "("
    <3>0. k \in Nat /\ t \in Nat /\ l \in Nat
      BY <1>0, <1>6
    <3>1. k \in (t + 1)..(l - 1)
      BY <1>10, <2>1, <3>0
    <3>2. Mode(k) \in {"comment", "cpair"}
      BY <1>9, <2>2, <3>1, TokenIs
    <3> QED
      BY <1>2, <3>2 DEF Keeps
  <2>3. CASE Sign(t) # "("
    <3>1. Sign(t) \in WSP /\ Sign(t) # Quote
      BY <1>8, <2>3, Bytes DEF Gap
    <3>2. l = After(t) /\ Itemized(t)
      BY <1>6, <1>9, <2>3, <3>1, TokenIs, TopIs
    <3>3. ~Whole(k)
      BY <1>0, <1>10, <2>1, <3>2 DEF Itemized
    <3> QED
      BY <1>2, <3>3
  <2> QED
    BY <2>2, <2>3
<1>12. Mode(m) = "top" /\ value[m] \in Gap
  BY <1>2, <1>6, <1>8, <1>11, TopIs
<1>13. SP \in White /\ WSP \subseteq White
  BY Bytes DEF WSP
<1> QED
  BY <1>12, <1>13 DEF KeptFor, Gap

(* It begins and ends with a token that is none of these. *)
Solid(a, b) == Top(a) /\ a \notin Signed(Gap) /\ \E l : Follows(l, b) /\ a <= l /\ l \notin Signed(Gap)
Trims(i, j, a, b) ==
    RunOf(Signed(Gap), i, a) /\ RunOf(Signed(Gap), b, j) /\ a <= b /\ (a = b \/ Solid(a, b))

(* Gaps can be taken off both ends. *)
LEMMA TrimsExist ==
    ASSUME Lexable, NEW i, NEW j, Top(i), Top(j), i <= j
    PROVE  \E a, b : Trims(i, j, a, b)
<1>0. /\ N \in Nat /\ Places = 1..(N + 1) /\ value \in Seq(FromBytes) /\ i \in Nat /\ j \in Nat
      /\ i \in Places /\ j \in Places /\ j <= N + 1
  BY TopIs
<1> DEFINE G == Signed(Gap)
<1> HIDE DEF G
<1> DEFINE A == {m \in Places : Top(m) /\ i <= m /\ (m = j \/ m \notin G)}
<1>1. j \in A /\ A \subseteq Nat
  BY <1>0
<1>2. PICK a : a \in A /\ \A y \in A : a <= y
  <2> HIDE DEF A
  <2> QED
    BY <1>1, Least
<1>3. a \in Places /\ a \in Nat /\ Top(a) /\ i <= a /\ (a = j \/ a \notin G) /\ a <= j
  BY <1>0, <1>1, <1>2
<1>4. RunOf(G, i, a)
  <2>1. ASSUME NEW m \in Places, Top(m), i <= m, m < a PROVE m \in G
    <3>1. ~(a <= m)
      BY <1>0, <1>3, <2>1
    <3>2. m \notin A
      BY <1>2, <3>1
    <3> QED
      BY <2>1, <3>2
  <2> QED
    BY <1>3, <2>1 DEF RunOf
<1> DEFINE B == {m \in Places : Top(m) /\ a <= m /\ RunOf(G, m, j)}
<1>5. RunOf(G, j, j)
  BY RunNone
<1>6. j \in B /\ B \subseteq Nat
  BY <1>0, <1>3, <1>5
<1>7. PICK b : b \in B /\ \A y \in B : b <= y
  <2> HIDE DEF B
  <2> QED
    BY <1>6, Least
<1>8. b \in Places /\ b \in Nat /\ Top(b) /\ a <= b /\ RunOf(G, b, j)
  BY <1>0, <1>7
<1>9. ASSUME a # b PROVE Solid(a, b)
  <2>0. a < b /\ b <= j
    BY <1>0, <1>3, <1>8, <1>9 DEF RunOf
  <2> DEFINE E == {m \in 1..N : Top(m) /\ a <= m /\ m < b}
  <2>1. a \in E /\ E \in SUBSET (0..N)
    BY <1>0, <1>3, <1>8, <2>0
  <2>2. PICK l : l \in E /\ \A y \in E : y <= l
    <3> HIDE DEF E
    <3> QED
      BY <1>0, <2>1, MaxIsGreatest
  <2>3. l \in Places /\ l \in Nat /\ Top(l) /\ a <= l /\ l < b
    BY <1>0, <2>2
  <2>4. Follows(l, b)
    <3>1. ASSUME NEW m \in Places, l < m, m < b PROVE ~Top(m)
      <4>1. m \in 1..N /\ a <= m /\ ~(m <= l)
        BY <1>0, <1>3, <1>8, <2>3, <3>1
      <4> QED
        BY <2>2, <3>1, <4>1
    <3> QED
      BY <1>8, <2>3, <3>1 DEF Follows
  <2>5. l \notin G
    <3> SUFFICES ASSUME l \in G PROVE FALSE
      OBVIOUS
    <3>1. RunOf(G, l, j)
      BY <1>8, <2>4, RunStep
    <3>2. b <= l
      BY <1>7, <2>3, <3>1
    <3> QED
      BY <1>8, <2>3, <3>2
  <2>6. a \notin G
    <3>1. a # j
      BY <1>0, <1>3, <1>8, <2>0
    <3> QED
      BY <1>3, <3>1
  <2> QED
    BY <1>3, <2>3, <2>4, <2>5, <2>6 DEF Solid, G
<1> QED
  BY <1>4, <1>8, <1>9 DEF Trims, G

(* Trim takes off the gaps, comments having become spaces, and nothing of   *)
(* what is between.                                                         *)
LEMMA TrimIs ==
    ASSUME Lexable, NEW i, NEW j, NEW a, NEW b, Trims(i, j, a, b)
    PROVE  Trim(Slice(i, j)) = Slice(a, b)
<1>0. /\ N \in Nat /\ Places = 1..(N + 1) /\ value \in Seq(FromBytes)
      /\ i \in Places /\ j \in Places /\ a \in Places /\ b \in Places
      /\ i \in Nat /\ j \in Nat /\ a \in Nat /\ b \in Nat
      /\ Top(i) /\ Top(j) /\ Top(a) /\ Top(b) /\ i <= a /\ a <= b /\ b <= j /\ i <= j
  <2>1. Top(i) /\ Top(j) /\ Top(a) /\ Top(b) /\ i <= a /\ a <= b /\ b <= j
    BY DEF Trims, RunOf
  <2>2. /\ N \in Nat /\ Places = 1..(N + 1) /\ value \in Seq(FromBytes)
        /\ i \in Places /\ j \in Places /\ a \in Places /\ b \in Places
        /\ i \in Nat /\ j \in Nat /\ a \in Nat /\ b \in Nat
    BY <2>1, TopIs
  <2> QED
    BY <2>1, <2>2
<1>1. PICK v : v = Slice(i, j)
  OBVIOUS
<1>2. v \in Seq(FromBytes) /\ DOMAIN v = 1..Len(v) /\ Len(v) \in Nat /\ Len(v) = Spot(j) - Spot(i)
  BY <1>0, <1>1, SliceIs, LenProperties
<1> DEFINE solid == {p \in DOMAIN v : v[p] \notin White}
<1>3. Trim(v) = IF solid = {} THEN <<>> ELSE SubSeq(v, Min(solid), Max(solid))
  BY DEF Trim
<1>4. PICK x, y, z, w : x = Spot(i) /\ y = Spot(j) /\ z = Spot(a) /\ w = Spot(b)
  OBVIOUS
<1>5. x \in Nat /\ y \in Nat /\ z \in Nat /\ w \in Nat /\ x <= z /\ z <= w /\ w <= y
  BY <1>0, <1>4, KeptUpTo, ModeAt
<1>6. ASSUME NEW p \in DOMAIN v, v[p] \notin White PROVE z - x + 1 <= p /\ p <= w - x
  <2>1. PICK m \in 1..N : Keeps(m) /\ i <= m /\ m < j /\ p = Spot(m) - Spot(i) + 1
    <3>1. p \in 1..Len(Slice(i, j))
      BY <1>1, <1>2
    <3> QED
      BY <1>0, <3>1, SliceFrom
  <2>2. KeptFor(m) \notin White
    BY <1>0, <1>1, <1>6, <2>1, SliceAt
  <2>3. a <= m
    BY <1>0, <2>1, <2>2, GapsWhite DEF Trims
  <2>4. m < b
    BY <1>0, <2>1, <2>2, GapsWhite DEF Trims
  <2>5. m \in Places /\ Spot(m) \in Nat /\ Spot(a) <= Spot(m) /\ Spot(m) < Spot(b)
    BY <1>0, <2>1, <2>3, <2>4, SpotOrder, KeptUpTo, ModeAt
  <2>6. PICK s : s = Spot(m)
    OBVIOUS
  <2>7. s \in Nat /\ z <= s /\ s < w /\ p = s - x + 1
    BY <1>4, <2>1, <2>5, <2>6
  <2> QED
    BY <1>5, <2>7
<1>7. CASE a = b
  <2>1. z = w
    BY <1>4, <1>7
  <2>2. \A p \in DOMAIN v : ~(z - x + 1 <= p /\ p <= w - x)
    BY <1>2, <1>5, <2>1
  <2>3. solid = {}
    BY <1>6, <2>2
  <2>4. Slice(a, b) = <<>>
    <3>1. Len(Slice(a, b)) = 0
      <4>1. Len(Slice(a, b)) = w - z
        BY <1>0, <1>4, SliceIs
      <4> QED
        BY <1>5, <2>1, <4>1
    <3> QED
      BY <1>0, <3>1, SliceIs, EmptySeq
  <2> QED
    BY <1>1, <1>3, <2>3, <2>4
<1>8. CASE a # b
  <2>1. Solid(a, b) /\ a < b
    BY <1>0, <1>8 DEF Trims
  <2>2. PICK l : Follows(l, b) /\ a <= l /\ l \notin Signed(Gap)
    BY <2>1 DEF Solid
  <2>3. a <= N /\ l <= N /\ Top(l) /\ l \in Places /\ l \in Nat /\ l < b
    BY <1>0, <2>1, <2>2, TopIs DEF Follows
  <2>4. Sign(a) \notin Gap /\ Sign(l) \notin Gap
    BY <1>0, <2>1, <2>2, <2>3 DEF Solid, Signed
  <2>5. Sign(a) \in Printable /\ Sign(l) \in Printable /\ Sign(a) # "(" /\ Sign(l) # "("
        /\ Quote \in Printable /\ Quote \notin White /\ \A c \in Printable : c \notin White
    <3>1. Itemized(a) /\ Itemized(l)
      BY <1>0, <2>3, TopIs
    <3>2. Sign(a) \in Printable \cup WSP /\ Sign(l) \in Printable \cup WSP
      BY <3>1 DEF Itemized
    <3> QED
      BY <2>4, <3>2, Bytes DEF Gap
  <2>6. Spot(a) \in 1..Len(Kept) /\ Kept[z] \notin White
    <3>1. PICK k \in Places : Follows(a, k)
      BY <1>0, <2>1, FollowsExists
    <3> QED
      BY <1>4, <2>5, <3>1, TokenIs
  <2>7. Spot(b) - 1 \in 1..Len(Kept) /\ Kept[w - 1] \notin White /\ Spot(l) < Spot(b)
    <3>1. /\ Kept[Spot(l)] = Sign(l) /\ Spot(b) - 1 \in 1..Len(Kept) /\ Spot(l) < Spot(b)
          /\ Sign(l) # Quote => Spot(b) = Spot(l) + 1
          /\ Sign(l) = Quote => Kept[Spot(b) - 1] = Quote
      BY <2>2, <2>5, TokenIs
    <3>2. Spot(l) \in Nat
      BY <2>3, TopIs
    <3>3. Sign(l) # Quote => Spot(b) - 1 = Spot(l)
      BY <3>1, <3>2
    <3> QED
      BY <1>4, <2>5, <3>1, <3>3
  <2>8. z < w
    <3>1. Spot(a) <= Spot(l) /\ Spot(l) \in Nat
      BY <1>0, <2>2, <2>3, KeptUpTo, TopIs
    <3> QED
      BY <1>4, <1>5, <2>7, <3>1
  <2>9. PICK p, q : p = z - x + 1 /\ q = w - x
    OBVIOUS
  <2>10. /\ p \in DOMAIN v /\ q \in DOMAIN v /\ x + p - 1 = z /\ x + q - 1 = w - 1
         /\ p \in 1..(y - x) /\ q \in 1..(y - x)
    <3>1. DOMAIN v = 1..(y - x)
      BY <1>2, <1>4
    <3>2. p \in 1..(y - x) /\ q \in 1..(y - x) /\ x + p - 1 = z /\ x + q - 1 = w - 1
      BY <1>5, <2>8, <2>9
    <3> QED
      BY <3>1, <3>2
  <2>11. p \in solid /\ q \in solid
    <3>1. v[p] = Kept[z] /\ v[q] = Kept[w - 1]
      <4>1. \A s \in 1..(y - x) : v[s] = Kept[x + s - 1]
        BY <1>0, <1>1, <1>4, SliceIs
      <4> QED
        BY <2>10, <4>1
    <3> QED
      BY <2>6, <2>7, <2>10, <3>1
  <2>12. /\ \A s \in solid : p <= s /\ s <= q
         /\ solid \in SUBSET (0..Len(v)) /\ solid \in SUBSET Nat
    BY <1>2, <1>6, <2>9
  <2> HIDE DEF solid
  <2>13. Min(solid) \in solid /\ (\A s \in solid : Min(solid) <= s)
         /\ Max(solid) \in solid /\ (\A s \in solid : s <= Max(solid))
    BY <1>2, <2>11, <2>12, MinIsLeast, MaxIsGreatest
  <2>14. Min(solid) \in Nat /\ Max(solid) \in Nat /\ p \in Nat /\ q \in Nat
    BY <2>11, <2>12, <2>13
  <2>15. Min(solid) = p /\ Max(solid) = q
    BY <2>11, <2>12, <2>13, <2>14
  <2>16. SubSeq(v, p, q) = Slice(a, b)
    BY <1>0, <1>1, <1>4, <2>9, SubSlice
  <2> QED
    BY <1>1, <1>3, <2>11, <2>15, <2>16
<1> QED
  BY <1>7, <1>8

-----------------------------------------------------------------------------
(* The bytes from_domain looks for outside of quoted strings                *)

Marks == {",", "<", ">", "@"}
Chars(i, j, c) == {k \in 1..N : Top(k) /\ i <= k /\ k < j /\ value[k] = c}

(* Plain finds the marks outside of everything. *)
LEMMA PlainIs ==
    ASSUME Lexable, NEW i, NEW j, Top(i), Top(j), i <= j, NEW c \in Marks
    PROVE  \A x : x \in Plain(Slice(i, j), c) <=> \E k \in Chars(i, j, c) : x = Spot(k) - Spot(i) + 1
<1>0. /\ N \in Nat /\ Places = 1..(N + 1) /\ value \in Seq(FromBytes)
      /\ i \in Places /\ j \in Places /\ i \in Nat /\ j \in Nat /\ Mode(i) = "top"
  BY TopIs
<1>1. c \in Printable /\ c \notin {SP, "(", Quote, CR, LF} /\ c \notin WSP
  <2>1. c \in Printable /\ c # "(" /\ c # Quote
    BY DEF Marks, Printable, Quote
  <2>2. c \notin WSP /\ c \notin {CR, LF} /\ SP \in WSP
    BY <2>1, Bytes DEF WSP
  <2> QED
    BY <2>1, <2>2
<1>2. Scan(Slice(i, j)).plain = PlainBefore(i, j)
  BY <1>0, ScanIs
<1>3. ASSUME NEW k \in 1..N, Keeps(k), Mode(k) = "top", KeptFor(k) = c PROVE Top(k) /\ value[k] = c
  <2>1. value[k] = c
    BY <1>1, <1>3 DEF KeptFor
  <2>2. PICK l \in Places : /\ Whole(l) /\ l <= k /\ l <= N /\ After(l) = k + 1 /\ Mode(l) = Mode(k)
                            /\ Spot(l) = Spot(k) /\ Sign(l) = value[k]
    BY <1>1, <2>1, Origin
  <2>3. Itemized(l)
    BY <2>2, ItemFacts
  <2>4. After(l) = l + 1 /\ l \in Nat
    BY <1>1, <2>1, <2>2, <2>3 DEF Itemized
  <2>5. l = k
    BY <1>0, <2>2, <2>4
  <2> QED
    BY <1>3, <2>1, <2>2, <2>5 DEF Top
<1>4. ASSUME NEW k \in Chars(i, j, c)
      PROVE  /\ Keeps(k) /\ Mode(k) = "top" /\ KeptFor(k) = c /\ value[k] # Quote
             /\ k \in 1..N /\ i <= k /\ k < j
  <2>1. k \in 1..N /\ Top(k) /\ i <= k /\ k < j /\ value[k] = c
    BY <1>4 DEF Chars
  <2> QED
    BY <1>1, <2>1 DEF Keeps, KeptFor, Top
<1> SUFFICES ASSUME NEW x
             PROVE  x \in Plain(Slice(i, j), c) <=> \E k \in Chars(i, j, c) : x = Spot(k) - Spot(i) + 1
  OBVIOUS
<1>5. x \in Plain(Slice(i, j), c) <=> x \in PlainBefore(i, j) /\ Slice(i, j)[x] = c
  BY <1>2 DEF Plain
<1>6. ASSUME x \in PlainBefore(i, j), Slice(i, j)[x] = c
      PROVE  \E k \in Chars(i, j, c) : x = Spot(k) - Spot(i) + 1
  <2>1. PICK k \in 1..N : i <= k /\ k < j /\ Keeps(k) /\ Mode(k) = "top" /\ x = Spot(k) - Spot(i) + 1
    BY <1>6 DEF PlainBefore
  <2>2. KeptFor(k) = c
    BY <1>0, <1>6, <2>1, SliceAt
  <2>3. k \in Chars(i, j, c)
    BY <1>3, <2>1, <2>2 DEF Chars
  <2> QED
    BY <2>1, <2>3
<1>7. ASSUME NEW k \in Chars(i, j, c), x = Spot(k) - Spot(i) + 1
      PROVE  x \in PlainBefore(i, j) /\ Slice(i, j)[x] = c
  <2>1. /\ Keeps(k) /\ Mode(k) = "top" /\ KeptFor(k) = c /\ value[k] # Quote
        /\ k \in 1..N /\ i <= k /\ k < j
    BY <1>4
  <2>2. Slice(i, j)[x] = c
    BY <1>0, <1>7, <2>1, SliceAt
  <2> QED
    BY <1>7, <2>1, <2>2 DEF PlainBefore
<1> QED
  BY <1>5, <1>6, <1>7

(* No mark is found where there is none. *)
LEMMA PlainNone ==
    ASSUME Lexable, NEW i, NEW j, Top(i), Top(j), i <= j, NEW c \in Marks
    PROVE  Plain(Slice(i, j), c) = {} <=> Chars(i, j, c) = {}
<1>1. \A x : x \in Plain(Slice(i, j), c) <=> \E k \in Chars(i, j, c) : x = Spot(k) - Spot(i) + 1
  BY PlainIs
<1> QED
  BY <1>1

(* One mark is found where there is one. *)
LEMMA PlainOne ==
    ASSUME Lexable, NEW i, NEW j, Top(i), Top(j), i <= j, NEW c \in Marks
    PROVE  /\ Cardinality(Plain(Slice(i, j), c)) = 1 => \E k : Chars(i, j, c) = {k}
           /\ \A k : Chars(i, j, c) = {k} =>
                 /\ Cardinality(Plain(Slice(i, j), c)) = 1
                 /\ Max(Plain(Slice(i, j), c)) = Spot(k) - Spot(i) + 1
<1>0. /\ N \in Nat /\ Places = 1..(N + 1) /\ value \in Seq(FromBytes) /\ Spot(i) \in Nat
      /\ i \in Places /\ j \in Places
  BY TopIs
<1>p. PICK P : P = Plain(Slice(i, j), c)
  OBVIOUS
<1>1. \A x : x \in P <=> \E k \in Chars(i, j, c) : x = Spot(k) - Spot(i) + 1
  BY <1>p, PlainIs
<1>2. \A k \in Chars(i, j, c) : k \in Places /\ Top(k) /\ i <= k /\ Spot(k) \in Nat /\ Spot(i) <= Spot(k)
  <2> SUFFICES ASSUME NEW k \in Chars(i, j, c)
               PROVE  k \in Places /\ Top(k) /\ i <= k /\ Spot(k) \in Nat /\ Spot(i) <= Spot(k)
    OBVIOUS
  <2>1. k \in Places /\ Top(k) /\ i <= k
    BY <1>0 DEF Chars
  <2> QED
    BY <1>0, <2>1, KeptUpTo, TopIs
<1>3. ASSUME Cardinality(P) = 1 PROVE \E k : Chars(i, j, c) = {k}
  <2>1. IsFiniteSet(P)
    <3>1. P \subseteq 1..Len(Kept)
      <4> SUFFICES ASSUME NEW x \in P PROVE x \in 1..Len(Kept)
        OBVIOUS
      <4>1. PICK k \in Chars(i, j, c) : x = Spot(k) - Spot(i) + 1
        BY <1>1
      <4>2. k \in 1..N /\ k + 1 \in Places /\ N + 1 \in Places /\ k + 1 <= N + 1
        BY <1>0 DEF Chars
      <4>3. Spot(i) >= 1
        BY <1>0, TopIs
      <4>4. Spot(k) < Spot(N + 1)
        <5>1. PICK l \in Places : Follows(k, l)
          BY <1>2, <4>1, FollowsExists DEF Chars
        <5>2. Spot(k) < Spot(l) /\ Spot(l) <= Spot(N + 1) /\ Spot(l) \in Nat /\ Spot(N + 1) \in Nat
          <6>1. l <= N + 1
            BY <1>0
          <6> QED
            BY <1>0, <4>2, <5>1, <6>1, TokenIs, KeptUpTo, ModeAt
        <5> QED
          BY <1>2, <4>1, <5>2
      <4>5. Spot(N + 1) = Len(Kept) + 1 /\ Len(Kept) \in Nat
        BY <1>0, LexEnds
      <4>6. PICK s, t : s = Spot(k) /\ t = Spot(i)
        OBVIOUS
      <4>7. s \in Nat /\ t \in Nat /\ t >= 1 /\ t <= s /\ s < Len(Kept) + 1 /\ x = s - t + 1
        BY <1>0, <1>2, <4>1, <4>3, <4>4, <4>5, <4>6
      <4> QED
        BY <4>5, <4>7
    <3>2. Len(Kept) \in Nat
      BY <1>0, LexEnds
    <3>3. PICK n : n = Len(Kept)
      OBVIOUS
    <3>4. IsFiniteSet(1..n)
      <4>1. 1 \in Int /\ n \in Int
        BY <3>2, <3>3
      <4> QED
        BY <4>1, FS_Interval
    <3> QED
      BY <3>1, <3>3, <3>4, FS_Subset
  <2>2. PICK x : P = {x}
    BY <1>3, <2>1, FS_Singleton
  <2>3. PICK k \in Chars(i, j, c) : x = Spot(k) - Spot(i) + 1
    BY <1>1, <2>2
  <2>4. ASSUME NEW l \in Chars(i, j, c) PROVE l = k
    <3>1. Spot(l) - Spot(i) + 1 = x
      BY <1>1, <2>2
    <3>2. Spot(l) = Spot(k)
      BY <1>0, <1>2, <2>3, <3>1
    <3> QED
      BY <1>2, <3>2, TopsRise
  <2> QED
    BY <2>4
<1>4. ASSUME NEW k, Chars(i, j, c) = {k}
      PROVE  Cardinality(P) = 1 /\ Max(P) = Spot(k) - Spot(i) + 1
  <2>1. PICK x : x = Spot(k) - Spot(i) + 1
    OBVIOUS
  <2>2. P = {x} /\ x \in Nat
    <3>1. \A y : y \in P <=> y = x
      BY <1>1, <1>4, <2>1
    <3>2. Spot(k) \in Nat /\ Spot(i) <= Spot(k)
      BY <1>2, <1>4
    <3> QED
      BY <1>0, <2>1, <3>1, <3>2
  <2>3. Cardinality(P) = 1
    BY <2>2, FS_Singleton
  <2>4. P \in SUBSET (0..x) /\ P # {}
    BY <2>2
  <2>5. Max(P) \in P
    BY <2>2, <2>4, MaxIsGreatest
  <2> QED
    BY <2>1, <2>2, <2>3, <2>5
<1> QED
  BY <1>p, <1>3, <1>4

(* What may precede the brackets *)
LEMMA DisplayIs ==
    ASSUME Lexable, NEW i, NEW j, Top(i), Top(j), i <= j
    PROVE  DisplayName(Slice(i, j)) <=> RunOf(Words, i, j)
<1>0. /\ N \in Nat /\ Places = 1..(N + 1) /\ value \in Seq(FromBytes)
      /\ i \in Places /\ j \in Places /\ i \in Nat /\ j \in Nat /\ Mode(i) = "top" /\ j <= N + 1
      /\ Whole(i) /\ Whole(j)
  BY TopIs
<1> DEFINE Plains == AtomBytes \cup {"."} \cup WSP
<1>b. /\ SP \in WSP /\ TAB \in WSP /\ "(" \notin Plains /\ Quote \notin Plains /\ TAB \notin Printable
      /\ SP # TAB /\ WSP = {SP, TAB}
  <2>1. "(" \notin AtomBytes \cup {"."} /\ Quote \notin AtomBytes \cup {"."} /\ SP \in WSP /\ TAB \in WSP
        /\ WSP = {SP, TAB}
    BY DEF AtomBytes, Quote, WSP
  <2>2. "(" \in Printable /\ Quote \in Printable /\ \A c \in WSP : c \notin Printable
    BY Bytes DEF Printable
  <2>3. SP # TAB
    BY Bytes
  <2> QED
    BY <2>1, <2>2, <2>3
<1>1. DisplayName(Slice(i, j)) <=>
         /\ \A m \in 1..N : i <= m /\ m < j /\ Keeps(m) /\ Mode(m) = "top" /\ value[m] # Quote
                               => KeptFor(m) \in Plains
         /\ \A m \in 1..N : i <= m /\ m < j /\ Keeps(m) /\ Mode(m) = "pair" => KeptFor(m) # TAB
  <2>1. DisplayName(Slice(i, j)) <=>
           /\ \A x \in PlainBefore(i, j) : Slice(i, j)[x] \in Plains
           /\ \A x \in EscapedBefore(i, j) : Slice(i, j)[x] # TAB
    BY <1>0, ScanIs DEF DisplayName
  <2>2. \A m \in 1..N : i <= m /\ m < j /\ Keeps(m) => Slice(i, j)[Spot(m) - Spot(i) + 1] = KeptFor(m)
    BY <1>0, SliceAt
  <2>3. (\A x \in PlainBefore(i, j) : Slice(i, j)[x] \in Plains) <=>
        \A m \in 1..N : i <= m /\ m < j /\ Keeps(m) /\ Mode(m) = "top" /\ value[m] # Quote
                               => KeptFor(m) \in Plains
    <3> HIDE DEF Plains
    <3> QED
      BY <2>2 DEF PlainBefore
  <2>4. (\A x \in EscapedBefore(i, j) : Slice(i, j)[x] # TAB) <=>
        \A m \in 1..N : i <= m /\ m < j /\ Keeps(m) /\ Mode(m) = "pair" => KeptFor(m) # TAB
    BY <2>2 DEF EscapedBefore
  <2> HIDE DEF Plains
  <2> QED
    BY <2>1, <2>3, <2>4
<1>w. \A k \in Places : k \in Words <=>
         k <= N /\ (\/ Sign(k) \in Plains \cup {"("}
                    \/ Sign(k) = Quote /\ \A l \in Places : Follows(k, l) => Tabless(k, l, {SP}))
  BY DEF Words, Gap
<1> HIDE DEF Plains
(* An item of the slice ends in it. *)
<1>2. ASSUME NEW k, Whole(k), k < j, k <= N PROVE After(k) <= j
  <2>1. Itemized(k) /\ \A m \in Nat : k < m /\ m < After(k) => ~Whole(m)
    BY <1>2, ItemFacts DEF Itemized
  <2>2. After(k) \in Nat
    BY <2>1 DEF Itemized
  <2> QED
    BY <1>0, <1>2, <2>1, <2>2
<1>3. ASSUME DisplayName(Slice(i, j)), NEW k \in Places, Top(k), i <= k, k < j PROVE k \in Words
  <2>0. k \in Nat /\ k <= N /\ Whole(k) /\ Mode(k) = "top"
    BY <1>0, <1>3, TopIs
  <2>1. CASE Sign(k) # Quote
    <3>1. PICK m \in 1..N : /\ Keeps(m) /\ value[m] = Sign(k) /\ Mode(m) = Mode(k) /\ Spot(m) = Spot(k)
                            /\ k <= m /\ m + 1 = After(k)
      BY <2>0, KeptByte
    <3>2. i <= m /\ m < j
      BY <1>0, <1>2, <1>3, <2>0, <3>1
    <3>3. KeptFor(m) \in Plains
      BY <1>1, <1>3, <2>0, <2>1, <3>1, <3>2
    <3>4. Sign(k) = "(" \/ KeptFor(m) = Sign(k)
      BY <3>1 DEF KeptFor
    <3> QED
      BY <1>w, <2>0, <3>3, <3>4
  <2>2. CASE Sign(k) = Quote
    <3>1. ASSUME NEW l \in Places, Follows(k, l), NEW m \in Places, Whole(m), k <= m, m < l, Mode(m) = "pair"
          PROVE  Sign(m) \in Printable \cup {SP}
      <4>1. PICK g \in Places : Follows(k, g) /\ g <= j
        BY <1>3, FollowsExists
      <4>2. l = g
        BY <3>1, <4>1, FollowsUnique
      <4>3. m \in Nat /\ m < j /\ m <= N /\ i <= m
        BY <1>0, <1>3, <2>0, <3>1, <4>1, <4>2
      <4>4. PICK n \in 1..N : /\ Keeps(n) /\ value[n] = Sign(m) /\ Mode(n) = Mode(m) /\ Spot(n) = Spot(m)
                              /\ m <= n /\ n + 1 = After(m)
        BY <3>1, <4>3, KeptByte
      <4>5. i <= n /\ n < j
        BY <1>0, <1>2, <3>1, <4>3, <4>4
      <4>6. KeptFor(n) # TAB /\ KeptFor(n) = Sign(m)
        BY <1>1, <1>3, <3>1, <4>4, <4>5 DEF KeptFor
      <4>7. Sign(m) \in Printable \cup WSP
        BY <3>1, <4>3, ItemFacts DEF Itemized
      <4> QED
        BY <1>b, <4>6, <4>7
    <3>2. \A l \in Places : Follows(k, l) => Tabless(k, l, {SP})
      BY <3>1 DEF Tabless
    <3> QED
      BY <1>w, <2>0, <2>2, <3>2
  <2> QED
    BY <2>1, <2>2
<1>4. ASSUME RunOf(Words, i, j) PROVE DisplayName(Slice(i, j))
  <2>o. ASSUME NEW m \in 1..N, i <= m, m < j, Keeps(m)
        PROVE  \E k \in Places : /\ Whole(k) /\ k <= m /\ k <= N /\ Mode(k) = Mode(m)
                                 /\ Sign(k) = value[m] /\ i <= k /\ k < j
    <3>1. value[m] \notin {CR, LF}
      BY <2>o DEF Keeps
    <3>2. PICK k \in Places : /\ Whole(k) /\ k <= m /\ k <= N /\ After(k) = m + 1 /\ Mode(k) = Mode(m)
                              /\ Spot(k) = Spot(m) /\ Sign(k) = value[m]
      BY <3>1, Origin
    <3>3. \A x \in Nat : k < x /\ x < m + 1 => ~Whole(x)
      BY <3>2, ItemFacts DEF Itemized
    <3>4. i <= k /\ k < j
      BY <1>0, <2>o, <3>2, <3>3
    <3> QED
      BY <3>2, <3>4
  <2>1. ASSUME NEW m \in 1..N, i <= m, m < j, Keeps(m), Mode(m) = "top", value[m] # Quote
        PROVE  KeptFor(m) \in Plains
    <3>1. PICK k \in Places : /\ Whole(k) /\ k <= N /\ Mode(k) = "top"
                              /\ Sign(k) = value[m] /\ i <= k /\ k < j
      BY <2>o, <2>1
    <3>2. k \in Words
      BY <1>4, <3>1 DEF RunOf, Top
    <3>3. value[m] \in Plains \cup {"("}
      BY <1>w, <2>1, <3>1, <3>2
    <3>4. SP \in Plains
      BY <1>b DEF Plains
    <3> QED
      BY <2>1, <3>3, <3>4 DEF KeptFor
  <2>2. ASSUME NEW m \in 1..N, i <= m, m < j, Keeps(m), Mode(m) = "pair" PROVE KeptFor(m) # TAB
    <3>1. PICK k \in Places : /\ Whole(k) /\ k <= N /\ Mode(k) = "pair"
                              /\ Sign(k) = value[m] /\ i <= k /\ k < j
      BY <2>o, <2>2
    <3>k. k \in Nat /\ i # k
      BY <1>0, <3>1
    <3> DEFINE E == {t \in 1..N : Top(t) /\ t <= k}
    <3>2. i \in E /\ E \in SUBSET (0..N)
      <4>1. i \in 1..N
        BY <1>0, <3>1, <3>k
      <4> QED
        BY <3>1, <4>1
    <3>3. PICK t : t \in E /\ \A y \in E : y <= t
      <4> HIDE DEF E
      <4> QED
        BY <1>0, <3>2, MaxIsGreatest
    <3>4. t \in 1..N /\ Top(t) /\ t <= k /\ i <= t /\ t < j /\ t \in Places /\ t \in Nat
      BY <1>0, <3>1, <3>2, <3>3, <3>k
    <3>5. t # k
      BY <3>1, <3>4 DEF Top
    <3>6. PICK l \in Places : Follows(t, l) /\ l <= j
      BY <3>4, FollowsExists
    <3>7. l > k /\ l \in Nat
      <4>1. l \in Nat /\ Top(l) /\ t < l
        BY <1>0, <3>6 DEF Follows
      <4>2. ASSUME l <= k PROVE FALSE
        <5>1. l \in E
          BY <1>0, <3>1, <4>1, <4>2
        <5>2. l <= t
          BY <3>3, <5>1
        <5> QED
          BY <3>4, <4>1, <5>2
      <4> QED
        BY <3>k, <4>1, <4>2
    <3>8. k \in (t + 1)..(l - 1) /\ t < k
      BY <3>4, <3>5, <3>7, <3>k
    <3>9. Sign(t) = Quote
      <4>1. ASSUME Sign(t) = "(" PROVE FALSE
        <5>1. Mode(k) \in {"comment", "cpair"}
          BY <3>6, <3>8, <4>1, TokenIs
        <5> QED
          BY <3>1, <5>1
      <4>2. ASSUME Sign(t) \notin {"(", Quote} PROVE FALSE
        <5>1. l = After(t) /\ Itemized(t)
          BY <3>4, <3>6, <4>2, TokenIs, TopIs
        <5>2. ~Whole(k)
          BY <3>7, <3>8, <3>k, <5>1 DEF Itemized
        <5> QED
          BY <3>1, <5>2
      <4> QED
        BY <4>1, <4>2
    <3>10. Tabless(t, l, {SP})
      <4>1. t \in Words
        BY <1>4, <3>4 DEF RunOf
      <4>2. Quote \notin Plains \cup {"("}
        BY <1>b DEF Quote
      <4> QED
        BY <1>w, <3>4, <3>6, <3>9, <4>1, <4>2
    <3>11. Sign(k) \in Printable \cup {SP}
      BY <3>1, <3>4, <3>7, <3>10 DEF Tabless
    <3>12. KeptFor(m) = Sign(k)
      BY <2>2, <3>1 DEF KeptFor
    <3> QED
      BY <1>b, <3>11, <3>12
  <2> QED
    BY <1>1, <2>1, <2>2
<1>5. ASSUME DisplayName(Slice(i, j)) PROVE RunOf(Words, i, j)
  BY <1>3, <1>5 DEF RunOf
<1> QED
  BY <1>4, <1>5

-----------------------------------------------------------------------------
(* Slices of letters                                                        *)

LEMMA LettersSlice ==
    ASSUME Lexable, NEW S, S \subseteq Printable \ {"(", Quote}, NEW i, NEW j,
           Top(i), Letters(S, i, j)
    PROVE  /\ Slice(i, j) = SubSeq(value, i, j - 1) /\ Len(Slice(i, j)) = j - i
           /\ \A p \in 1..(j - i) : Slice(i, j)[p] = value[i + p - 1] /\ i + p - 1 \in i..(j - 1)
<1>0. /\ N \in Nat /\ Places = 1..(N + 1) /\ value \in Seq(FromBytes) /\ i \in Nat /\ j \in Nat
      /\ i \in Places /\ j \in Places /\ i <= j /\ j <= N + 1 /\ i >= 1
  BY TopIs DEF Letters
<1>1. /\ \A m \in i..j : Spot(m) = Spot(i) + (m - i)
      /\ \A m \in i..(j - 1) : Kept[Spot(m)] = value[m]
  BY LettersTop
<1>2. PICK s, x, y : s = Slice(i, j) /\ x = Spot(i) /\ y = Spot(j)
  OBVIOUS
<1>3. x \in Nat /\ y = x + (j - i) /\ y - x = j - i
  <2>1. x \in Nat
    BY <1>2, TopIs
  <2>2. y = x + (j - i)
    BY <1>0, <1>1, <1>2
  <2> QED
    BY <1>0, <2>1, <2>2
<1>4. s \in Seq(FromBytes) /\ Len(s) = j - i /\ \A p \in 1..(j - i) : s[p] = Kept[x + p - 1]
  <2>1. s \in Seq(FromBytes) /\ Len(s) = y - x /\ \A p \in 1..(y - x) : s[p] = Kept[x + p - 1]
    BY <1>0, <1>2, SliceIs
  <2> QED
    BY <1>3, <2>1
<1>5. ASSUME NEW p \in 1..(j - i) PROVE s[p] = value[i + p - 1] /\ i + p - 1 \in i..(j - 1)
  <2>1. PICK m : m = i + p - 1
    OBVIOUS
  <2>2. m \in i..(j - 1) /\ m \in i..j /\ x + p - 1 = x + (m - i)
    BY <1>0, <1>3, <2>1
  <2>3. Spot(m) = x + p - 1
    BY <1>1, <1>2, <2>2
  <2> QED
    BY <1>1, <1>4, <2>1, <2>2, <2>3
<1>6. PICK a, n : a = i - 1 /\ n = j - i
  OBVIOUS
<1>7. a \in Nat /\ n \in Nat /\ a + n <= Len(value) /\ a + 1 = i /\ a + n = j - 1
  BY <1>0, <1>6 DEF N
<1>8. /\ SubSeq(value, a + 1, a + n) \in Seq(FromBytes) /\ Len(SubSeq(value, a + 1, a + n)) = n
      /\ \A p \in 1..n : SubSeq(value, a + 1, a + n)[p] = value[a + p]
  BY <1>0, <1>7, TakeTypes
<1>9. \A p \in 1..n : a + p = i + p - 1
  BY <1>0, <1>6
<1>10. s = SubSeq(value, a + 1, a + n)
  <2>1. PICK w : w = SubSeq(value, a + 1, a + n)
    OBVIOUS
  <2>2. w \in Seq(FromBytes) /\ Len(w) = n /\ \A p \in 1..n : w[p] = s[p]
    <3>1. \A p \in 1..n : w[p] = value[a + p] /\ s[p] = value[i + p - 1] /\ a + p = i + p - 1
      BY <1>5, <1>6, <1>8, <1>9, <2>1
    <3> QED
      BY <1>8, <2>1, <3>1
  <2>3. Len(s) = n /\ s \in Seq(FromBytes)
    BY <1>4, <1>6
  <2>4. s = w
    BY <2>2, <2>3, SeqEqual
  <2> QED
    BY <2>1, <2>4
<1> QED
  BY <1>2, <1>4, <1>5, <1>7, <1>10

(* Such a text comes from letters. *)
LEMMA LettersOfText ==
    ASSUME Lexable, NEW i, NEW j, Top(i), Top(j), i <= j, NEW S, S \subseteq Printable \ {"(", Quote},
           \A p \in 1..Len(Slice(i, j)) : Slice(i, j)[p] \in S
    PROVE  Letters(S, i, j)
<1>0. /\ N \in Nat /\ Places = 1..(N + 1) /\ value \in Seq(FromBytes)
      /\ i \in Places /\ j \in Places /\ i \in Nat /\ j \in Nat /\ j <= N + 1 /\ i >= 1 /\ Whole(j)
  BY TopIs
<1>b. SP \notin S
  BY Bytes DEF WSP
<1> DEFINE I == {m \in 0..N : i <= m + 1 /\ m + 1 <= j => Top(m + 1) /\ (i < m + 1 => value[m] \in S)}
<1>1. 0 \in I
  BY <1>0
<1>2. ASSUME NEW m \in 1..N, m - 1 \in I PROVE m \in I
  <2> SUFFICES ASSUME i < m + 1, m + 1 <= j PROVE Top(m + 1) /\ value[m] \in S
    BY <1>0
  <2>1. i <= m /\ m < j /\ (m - 1) + 1 = m /\ m <= N
    BY <1>0
  <2>2. Top(m)
    BY <1>0, <1>2, <2>1
  <2>3. Whole(m) /\ Mode(m) = "top" /\ Itemized(m)
    BY <2>1, <2>2, TopIs
  <2>4. PICK n \in 1..N : /\ Keeps(n) /\ value[n] = Sign(m) /\ Mode(n) = Mode(m) /\ Spot(n) = Spot(m)
                          /\ m <= n /\ n + 1 = After(m)
    BY <2>1, <2>3, KeptByte
  <2>5. i <= n /\ n < j
    <3>1. \A y \in Nat : m < y /\ y < After(m) => ~Whole(y)
      BY <2>3 DEF Itemized
    <3> QED
      BY <1>0, <2>1, <2>4, <3>1
  <2>6. KeptFor(n) \in S
    <3>1. PICK p : p = Spot(n) - Spot(i) + 1
      OBVIOUS
    <3>2. p \in 1..Len(Slice(i, j)) /\ Slice(i, j)[p] = KeptFor(n)
      BY <1>0, <2>4, <2>5, <3>1, SliceAt
    <3> QED
      BY <3>2
  <2>7. Sign(m) \in S
    BY <1>b, <2>3, <2>4, <2>6 DEF KeptFor
  <2>8. value[m] = Sign(m) /\ Sign(m) \notin {"(", Quote}
    BY <2>1, <2>2, <2>7, TopIs
  <2>9. After(m) = m + 1
    BY <2>3, <2>8 DEF Itemized
  <2>10. Follows(m, m + 1)
    BY <2>1, <2>2, <2>8, <2>9, FollowsItem
  <2> QED
    BY <2>7, <2>8, <2>10 DEF Follows
<1>3. 0..N \subseteq I
  <2> HIDE DEF I
  <2> QED
    BY <1>0, <1>1, <1>2, UpTo
<1> HIDE DEF I
<1>4. ASSUME NEW m \in i..(j - 1) PROVE value[m] \in S
  <2>1. m \in 0..N /\ i < m + 1 /\ m + 1 <= j /\ i <= m + 1
    BY <1>0
  <2>2. m \in I
    BY <1>3, <2>1
  <2> QED
    BY <2>1, <2>2 DEF I
<1> QED
  BY <1>0, <1>4 DEF Letters

-----------------------------------------------------------------------------
(* The local part                                                           *)

Local(a, b) == Top(a) /\ ((Follows(a, b) /\ Sign(a) = Quote) \/ DotAtom(a, b))

(* A local part begins and ends with what Trim leaves. *)
LEMMA LocalEnds ==
    ASSUME Lexable, NEW a, NEW b, Local(a, b)
    PROVE  Top(b) /\ a < b /\ Solid(a, b)
<1>0. Top(a) /\ a \in Nat
  BY TopIs DEF Local
<1>g. Quote \notin Gap /\ \A x \in AtomBytes \cup {"."} : x \notin Gap /\ x \in Printable \ {"(", Quote}
  <2>1. \A x \in AtomBytes \cup {".", Quote} : x \notin WSP
    BY Bytes DEF AtomBytes
  <2> QED
    BY <2>1 DEF Gap, AtomBytes, Printable, Quote
<1>1. CASE Follows(a, b) /\ Sign(a) = Quote
  <2>1. a \notin Signed(Gap)
    BY <1>1, <1>g DEF Signed
  <2> QED
    BY <1>0, <1>1, <2>1 DEF Follows, Solid
<1>2. CASE DotAtom(a, b)
  <2>1. Letters(AtomBytes \cup {"."}, a, b) /\ a < b /\ b \in Nat
    BY <1>2, PlacesAre DEF DotAtom, Letters, Lexable
  <2>2. PICK S : S = AtomBytes \cup {"."}
    OBVIOUS
  <2>3. /\ Top(b) /\ \A m \in a..(b - 1) : Follows(m, m + 1) /\ Sign(m) = value[m] /\ value[m] \in S
    <3>1. S \subseteq Printable \ {"(", Quote} /\ Letters(S, a, b)
      BY <1>g, <2>1, <2>2
    <3>2. \A m \in a..(b - 1) : value[m] \in S
      BY <3>1 DEF Letters
    <3> QED
      BY <1>0, <3>1, <3>2, LettersTop
  <2>4. PICK l : l = b - 1
    OBVIOUS
  <2>5. l \in a..(b - 1) /\ a \in a..(b - 1) /\ l + 1 = b /\ a <= l
    BY <1>0, <2>1, <2>4
  <2>6. a \notin Signed(Gap) /\ l \notin Signed(Gap)
    BY <1>g, <2>2, <2>3, <2>5 DEF Signed
  <2>7. Follows(l, b)
    BY <2>3, <2>5
  <2> QED
    BY <1>0, <2>1, <2>3, <2>5, <2>6, <2>7 DEF Solid
<1> QED
  BY <1>1, <1>2 DEF Local

(* local_part takes a quoted string that ends with the text for one token. *)
LEMMA LocalQuoted ==
    ASSUME Lexable, NEW a, NEW b, Top(a), Top(b), a < b, Sign(a) = Quote
    PROVE  LET t == Slice(a, b)
           IN  Follows(a, b) <=>
                 /\ Len(t) > 1 /\ t[Len(t)] = Quote /\ Len(t) \notin Scan(t).escaped
                 /\ \A p \in 2..(Len(t) - 1) : t[p] = Quote => p \in Scan(t).escaped
<1>0. /\ N \in Nat /\ Places = 1..(N + 1) /\ value \in Seq(FromBytes)
      /\ a \in Places /\ b \in Places /\ a \in Nat /\ b \in Nat /\ b <= N + 1 /\ a >= 1 /\ Mode(a) = "top"
      /\ a <= b
  BY TopIs
<1>1. PICK t, E, x, y : t = Slice(a, b) /\ E = Scan(t).escaped /\ x = Spot(a) /\ y = Spot(b)
  OBVIOUS
<1>2. x \in Nat /\ y \in Nat /\ Len(t) = y - x /\ Len(t) \in Nat
  BY <1>0, <1>1, SliceIs
<1>3. ASSUME NEW m \in 1..N, Keeps(m), a <= m, m < b
      PROVE  /\ Spot(m) - x + 1 \in 1..Len(t) /\ t[Spot(m) - x + 1] = KeptFor(m)
             /\ Spot(m) - x + 1 \in E <=> Mode(m) = "pair"
  <2>1. Spot(m) - x + 1 \in 1..Len(t) /\ t[Spot(m) - x + 1] = KeptFor(m)
    BY <1>0, <1>1, <1>3, SliceAt
  <2>2. E = EscapedBefore(a, b)
    BY <1>0, <1>1, ScanIs
  <2>3. ASSUME Mode(m) = "pair" PROVE Spot(m) - x + 1 \in E
    BY <1>1, <1>3, <2>2, <2>3 DEF EscapedBefore
  <2>4. ASSUME Spot(m) - x + 1 \in E PROVE Mode(m) = "pair"
    <3>1. PICK n \in 1..N : Keeps(n) /\ Mode(n) = "pair" /\ Spot(m) - x + 1 = Spot(n) - x + 1
      BY <1>1, <2>2, <2>4 DEF EscapedBefore
    <3>2. Spot(m) \in Nat /\ Spot(n) \in Nat /\ m \in Places /\ n \in Places
      BY <1>0, ModeAt
    <3>3. Spot(m) = Spot(n)
      BY <1>2, <3>1, <3>2
    <3>4. ~(m < n) /\ ~(n < m)
      BY <1>0, <1>3, <3>1, <3>2, <3>3, SpotOrder
    <3>5. m = n
      BY <3>4
    <3> QED
      BY <3>1, <3>5
  <2> QED
    BY <2>1, <2>3, <2>4
<1>4. PICK k \in Places : Follows(a, k) /\ k <= b
  BY FollowsExists
<1>5. PICK c : c = k - 1
  OBVIOUS
<1>6. /\ Spot(k) >= x + 2 /\ c \in 1..N /\ a < c /\ Keeps(c) /\ value[c] = Quote
      /\ Mode(c) = "quoted" /\ Spot(c) = Spot(k) - 1
      /\ (\A m \in (a + 1)..(k - 1) : Mode(m) \in {"quoted", "pair"})
  BY <1>1, <1>4, <1>5, TokenIs
<1>7. k \in Nat /\ c < k /\ c + 1 = k /\ Spot(k) \in Nat /\ Spot(k) <= y /\ c < b /\ a <= c
  <2>1. k \in Nat /\ c < k /\ c + 1 = k /\ c < b /\ a <= c
    BY <1>0, <1>4, <1>5, <1>6
  <2>2. Spot(k) \in Nat /\ Spot(k) <= y
    BY <1>0, <1>1, <1>4, KeptUpTo, ModeAt
  <2> QED
    BY <2>1, <2>2
<1>8. PICK p : p = Spot(k) - x
  OBVIOUS
<1>9. /\ p \in 1..Len(t) /\ p >= 2 /\ t[p] = Quote /\ p \notin E
  <2>1. Spot(c) - x + 1 = p
    BY <1>2, <1>6, <1>7, <1>8
  <2>2. KeptFor(c) = Quote
    BY <1>6 DEF KeptFor
  <2> QED
    BY <1>2, <1>3, <1>6, <1>7, <1>8, <2>1, <2>2
<1>10. ASSUME k = b
       PROVE  /\ Len(t) > 1 /\ t[Len(t)] = Quote /\ Len(t) \notin E
              /\ \A q \in 2..(Len(t) - 1) : t[q] = Quote => q \in E
  <2>1. p = Len(t)
    BY <1>1, <1>2, <1>8, <1>10
  <2>2. ASSUME NEW q \in 2..(Len(t) - 1), t[q] = Quote PROVE q \in E
    <3>1. q \in 1..Len(Slice(a, b))
      BY <1>1, <1>2
    <3>2. PICK m \in 1..N : Keeps(m) /\ a <= m /\ m < b /\ q = Spot(m) - Spot(a) + 1
      BY <1>0, <3>1, SliceFrom
    <3>3. m # a /\ m # c
      <4>1. m = a => q = 1
        BY <1>1, <1>2, <3>2
      <4>2. m = c => q = p
        <5>1. PICK z : z = Spot(k)
          OBVIOUS
        <5>2. m = c => q = (z - 1) - x + 1
          BY <1>1, <1>6, <3>2, <5>1
        <5>3. z \in Nat /\ p = z - x
          BY <1>7, <1>8, <5>1
        <5> QED
          BY <1>2, <5>2, <5>3
      <4> QED
        BY <1>2, <2>1, <4>1, <4>2
    <3>4. m \in (a + 1)..(k - 1) /\ m + 1 < k
      <4>1. m \in Nat /\ c \in Nat /\ m < k
        BY <1>0, <1>6, <1>10, <3>2
      <4> QED
        BY <1>0, <1>7, <3>2, <3>3, <4>1
    <3>5. Mode(m) \in {"quoted", "pair"} /\ Mode(m + 1) \in {"quoted", "pair"}
      <4>1. m + 1 \in (a + 1)..(k - 1)
        BY <1>0, <1>7, <3>4
      <4> QED
        BY <1>6, <3>4, <4>1
    <3>6. KeptFor(m) = Quote
      BY <1>1, <1>3, <2>2, <3>2
    <3>7. value[m] = Quote /\ Quote # Escape
      BY <3>5, <3>6 DEF KeptFor, Quote, Escape
    <3>8. Stepped(m) /\ value[m] \notin {CR, LF}
      BY <1>0, <3>2, StepFacts DEF Keeps
    <3>9. Mode(m) # "quoted"
      BY <3>5, <3>7, <3>8 DEF Stepped
    <3> QED
      BY <1>1, <1>3, <3>2, <3>5, <3>9
  <2> QED
    BY <1>2, <1>9, <2>1, <2>2
<1>11. ASSUME k # b, \A q \in 2..(Len(t) - 1) : t[q] = Quote => q \in E PROVE FALSE
  <2>1. k < b /\ Top(k)
    BY <1>0, <1>4, <1>7, <1>11 DEF Follows
  <2>2. Spot(k) < y
    BY <1>1, <2>1, TopsRise
  <2>3. p \in 2..(Len(t) - 1)
    BY <1>2, <1>6, <1>7, <1>8, <2>2
  <2> QED
    BY <1>9, <1>11, <2>3
<1>12. Follows(a, b) <=> k = b
  BY <1>4, FollowsUnique
<1> QED
  BY <1>1, <1>10, <1>11, <1>12

(* local_part takes a slice for what the grammar calls a local part. *)
LEMMA LocalIs ==
    ASSUME Lexable, NEW a, NEW b, Top(a), Top(b), a <= b
    PROVE  LocalPart(Slice(a, b)) <=> Local(a, b)
<1>0. /\ N \in Nat /\ Places = 1..(N + 1) /\ value \in Seq(FromBytes)
      /\ a \in Places /\ b \in Places /\ a \in Nat /\ b \in Nat /\ b <= N + 1 /\ a >= 1
  BY TopIs
<1>1. PICK t, x, y : t = Slice(a, b) /\ x = Spot(a) /\ y = Spot(b)
  OBVIOUS
<1>2. /\ x \in Nat /\ y \in Nat /\ t \in Seq(FromBytes) /\ Len(t) = y - x /\ Len(t) \in Nat
      /\ DOMAIN t = 1..Len(t) /\ \A p \in 1..(y - x) : t[p] = Kept[x + p - 1]
  BY <1>0, <1>1, SliceIs, LenProperties
<1>3. CASE a = b
  <2>1. Len(t) = 0
    BY <1>1, <1>2, <1>3
  <2>2. t = <<>>
    BY <1>2, <2>1, EmptySeq
  <2>3. ~LocalPart(t)
    BY <2>2 DEF LocalPart
  <2>4. ~(a < b)
    BY <1>0, <1>3
  <2>5. ~Local(a, b)
    BY <2>4, LocalEnds
  <2> QED
    BY <1>1, <2>3, <2>5
<1>4. CASE a # b
  <2>0. a < b /\ a <= N
    BY <1>0, <1>4
  <2>1. PICK k \in Places : Follows(a, k) /\ k <= b
    BY <2>0, FollowsExists
  <2>2. x < y
    BY <1>1, <2>0, TopsRise
  <2>3. t # <<>> /\ Head(t) = t[1] /\ 1 \in 1..(y - x) /\ x + 1 - 1 = x
    <3>1. Len(t) # 0 /\ 1 \in 1..(y - x) /\ x + 1 - 1 = x
      BY <1>2, <2>2
    <3>2. t # <<>>
      BY <3>1, EmptySeq
    <3> QED
      BY <1>2, <3>1, <3>2
  <2>4. Head(t) = IF Sign(a) = "(" THEN SP ELSE Sign(a)
    <3>1. Kept[x] = IF Sign(a) = "(" THEN SP ELSE Sign(a)
      BY <1>1, <2>1, TokenIs
    <3>2. t[1] = Kept[x]
      BY <1>2, <2>3
    <3> QED
      BY <2>3, <3>1, <3>2
  <2>5. Quote # SP /\ Quote # "("
    BY Bytes DEF WSP
  <2>6. CASE Sign(a) = Quote
    <3>1. Head(t) = Quote
      BY <2>4, <2>5, <2>6
    <3>2. LocalPart(t) <=> /\ Len(t) > 1 /\ t[Len(t)] = Quote /\ Len(t) \notin Scan(t).escaped
                           /\ \A p \in 2..(Len(t) - 1) : t[p] = Quote => p \in Scan(t).escaped
      BY <2>3, <3>1 DEF LocalPart
    <3>3. LocalPart(t) <=> Follows(a, b)
      BY <1>1, <2>0, <2>6, <3>2, LocalQuoted
    <3>4. ~DotAtom(a, b)
      <4>1. Quote \in Printable /\ Quote \notin AtomBytes \cup {"."}
        BY DEF Quote, Printable, AtomBytes
      <4>2. value[a] = Quote
        BY <2>0, <2>6, <4>1, TopIs
      <4>3. a \in a..(b - 1)
        BY <1>0, <2>0
      <4> QED
        BY <4>1, <4>2, <4>3 DEF DotAtom, Letters
    <3> QED
      BY <1>1, <2>6, <3>3, <3>4 DEF Local
  <2>7. CASE Sign(a) # Quote
    <3>1. Head(t) # Quote
      BY <2>4, <2>5, <2>7
    <3> DEFINE S == AtomBytes \cup {"."}
    <3>2. S \subseteq Printable \ {"(", Quote} /\ "." \notin AtomBytes
      BY DEF AtomBytes, Printable, Quote
    <3>3. LocalPart(t) <=> \A p \in 1..Len(t) : \/ t[p] \in AtomBytes
                                                \/ t[p] = "." /\ p \notin {1, Len(t)} /\ t[p + 1] # "."
      BY <1>2, <2>3, <3>1 DEF LocalPart
    <3>4. LocalPart(t) => Letters(S, a, b)
      <4>1. LocalPart(t) => \A p \in 1..Len(t) : t[p] \in S
        BY <3>3
      <4> HIDE DEF S
      <4> QED
        BY <1>1, <3>2, <4>1, LettersOfText
    <3>5. DotAtom(a, b) => Letters(S, a, b)
      BY DEF DotAtom
    <3>6. ASSUME Letters(S, a, b) PROVE LocalPart(t) <=> DotAtom(a, b)
      <4>1. Len(t) = b - a /\ \A p \in 1..(b - a) : t[p] = value[a + p - 1] /\ a + p - 1 \in a..(b - 1)
        <5>1. PICK T : T = S
          OBVIOUS
        <5>2. T \subseteq Printable \ {"(", Quote} /\ Letters(T, a, b)
          BY <3>2, <3>6, <5>1
        <5>3. /\ Len(Slice(a, b)) = b - a
              /\ \A p \in 1..(b - a) : Slice(a, b)[p] = value[a + p - 1] /\ a + p - 1 \in a..(b - 1)
          BY <5>2, LettersSlice
        <5> QED
          BY <1>1, <5>3
      <4>2. ASSUME LocalPart(t), NEW m \in a..(b - 1), value[m] = "."
            PROVE  a < m /\ m + 1 < b /\ value[m + 1] # "."
        <5>1. PICK p : p = m - a + 1
          OBVIOUS
        <5>2. p \in 1..(b - a) /\ a + p - 1 = m /\ a + (p + 1) - 1 = m + 1
          BY <1>0, <5>1
        <5>3. t[p] = "."
          BY <4>1, <4>2, <5>2
        <5>4. p # 1 /\ p # Len(t) /\ t[p + 1] # "."
          BY <3>2, <3>3, <4>1, <4>2, <5>2, <5>3
        <5>5. a < m /\ m + 1 < b /\ p + 1 \in 1..(b - a)
          BY <1>0, <4>1, <5>1, <5>4
        <5>6. t[p + 1] = value[m + 1]
          BY <4>1, <5>2, <5>5
        <5> QED
          BY <5>4, <5>5, <5>6
      <4>3. ASSUME DotAtom(a, b), NEW p \in 1..Len(t)
            PROVE  t[p] \in AtomBytes \/ (t[p] = "." /\ p \notin {1, Len(t)} /\ t[p + 1] # ".")
        <5>1. PICK m : m = a + p - 1
          OBVIOUS
        <5>2. m \in a..(b - 1) /\ t[p] = value[m] /\ p = m - a + 1 /\ a + (p + 1) - 1 = m + 1
          BY <1>0, <4>1, <5>1
        <5>3. value[m] \in S
          BY <3>6, <5>2 DEF Letters
        <5>4. CASE value[m] = "."
          <6>1. a < m /\ m + 1 < b /\ value[m + 1] # "."
            BY <4>3, <5>2, <5>4 DEF DotAtom
          <6>2. p # 1 /\ p # Len(t) /\ p + 1 \in 1..(b - a)
            BY <1>0, <4>1, <5>2, <6>1
          <6>3. t[p + 1] = value[m + 1]
            BY <4>1, <5>2, <6>2
          <6> QED
            BY <5>2, <5>4, <6>1, <6>2, <6>3
        <5>5. CASE value[m] # "."
          BY <5>2, <5>3, <5>5
        <5> QED
          BY <5>4, <5>5
      <4>4. LocalPart(t) => DotAtom(a, b)
        BY <2>0, <3>6, <4>2 DEF DotAtom
      <4>5. DotAtom(a, b) => LocalPart(t)
        BY <3>3, <4>3
      <4> QED
        BY <4>4, <4>5
    <3> QED
      BY <1>1, <2>7, <3>4, <3>5, <3>6 DEF Local
  <2> QED
    BY <2>6, <2>7
<1> QED
  BY <1>3, <1>4

-----------------------------------------------------------------------------
(* The domain                                                               *)

LEMMA LettersJoin ==
    ASSUME value \in Seq(FromBytes), NEW S, NEW i, NEW j, NEW k, Letters(S, i, j), Letters(S, j, k)
    PROVE  Letters(S, i, k)
<1>1. i \in Nat /\ j \in Nat /\ k \in Nat
  BY PlacesAre DEF Letters
<1>2. \A m \in i..(k - 1) : m \in i..(j - 1) \/ m \in j..(k - 1)
  BY <1>1
<1> QED
  BY <1>1, <1>2 DEF Letters

(* trim_end_matches takes off the dots after a domain. *)
LEMMA StripAt ==
    ASSUME Lexable, NEW p, NEW e, Top(p), NEW q, Domain(p, q), Letters({"."}, q, e)
    PROVE  LET d == StripDots(Slice(p, e))
           IN  d = SubSeq(value, p, q - 1) /\ d # <<>> /\ Range(d) \subseteq DomainBytes
<1>0. /\ N \in Nat /\ Places = 1..(N + 1) /\ value \in Seq(FromBytes) /\ p \in Nat /\ q \in Nat /\ e \in Nat
      /\ p \in Places /\ q \in Places /\ e \in Places /\ p < q /\ q <= e /\ value[q - 1] # "."
  BY TopIs DEF Domain, Letters
<1>b. DomainBytes \subseteq Printable \ {"(", Quote} /\ "." \in DomainBytes
  BY DEF DomainBytes, Printable, Quote
<1>1. Letters(DomainBytes, p, q) /\ Letters(DomainBytes, q, e)
  BY <1>b DEF Domain, Letters
<1>2. Letters(DomainBytes, p, e)
  BY <1>0, <1>1, LettersJoin
<1>3. PICK v : v = Slice(p, e)
  OBVIOUS
<1>c. DomainBytes \subseteq Printable \ {"(", Quote}
  BY <1>b
<1>4. Len(v) = e - p /\ \A x \in 1..(e - p) : v[x] = value[p + x - 1] /\ p + x - 1 \in p..(e - 1)
  <2>1. /\ Len(Slice(p, e)) = e - p
        /\ \A x \in 1..(e - p) : Slice(p, e)[x] = value[p + x - 1] /\ p + x - 1 \in p..(e - 1)
    BY <1>c, <1>2, LettersSlice
  <2> QED
    BY <1>3, <2>1
<1>5. v \in Seq(FromBytes) /\ DOMAIN v = 1..(e - p)
  <2>1. p <= e
    BY <1>0
  <2>2. Slice(p, e) \in Seq(FromBytes)
    BY <1>0, <2>1, SliceIs
  <2>3. v \in Seq(FromBytes)
    BY <1>3, <2>2
  <2> QED
    BY <1>4, <2>3, LenProperties
<1>6. PICK M : M = q - p
  OBVIOUS
<1>7. M \in 1..(e - p) /\ p + M - 1 = q - 1
  BY <1>0, <1>6
<1> DEFINE solid == {x \in DOMAIN v : v[x] # "."}
<1>8. StripDots(v) = IF solid = {} THEN <<>> ELSE SubSeq(v, 1, Max(solid))
  BY DEF StripDots
<1>9. M \in solid
  <2>1. v[M] # "."
    BY <1>0, <1>4, <1>7
  <2> QED
    BY <1>5, <1>7, <2>1
<1>10. ASSUME NEW x \in solid PROVE x <= M /\ x \in Nat
  <2>1. x \in 1..(e - p) /\ v[x] # "."
    BY <1>5
  <2>2. PICK m : m = p + x - 1
    OBVIOUS
  <2>3. value[m] # "." /\ m \in Nat /\ m < e
    BY <1>0, <1>4, <2>1, <2>2
  <2>4. ~(q <= m)
    BY <1>0, <2>3 DEF Letters
  <2> QED
    BY <1>0, <1>6, <2>1, <2>2, <2>4
<1>11. solid \in SUBSET (0..M)
  <2> HIDE DEF solid
  <2> QED
    BY <1>7, <1>10
<1> HIDE DEF solid
<1>12. Max(solid) = M
  <2>1. M \in Nat /\ solid # {}
    BY <1>7, <1>9
  <2>2. Max(solid) \in solid /\ M <= Max(solid)
    BY <1>9, <1>11, <2>1, MaxIsGreatest
  <2> QED
    BY <1>10, <2>1, <2>2
<1>13. StripDots(v) = SubSeq(v, 1, M)
  BY <1>8, <1>9, <1>12
<1>14. SubSeq(v, 1, M) = Slice(p, q)
  <2>1. Spot(q) = Spot(p) + (q - p)
    <3>1. q \in p..e
      BY <1>0
    <3> QED
      BY <1>b, <1>2, <3>1, LettersTop
  <2>2. Spot(p) - Spot(p) + 1 = 1 /\ Spot(q) - Spot(p) = M
    <3>1. Spot(p) \in Nat
      BY TopIs
    <3> QED
      BY <1>0, <1>6, <2>1, <3>1
  <2>3. SubSeq(Slice(p, e), Spot(p) - Spot(p) + 1, Spot(q) - Spot(p)) = Slice(p, q)
    BY <1>0, SubSlice
  <2> QED
    BY <1>3, <2>2, <2>3
<1>15. PICK d : d = Slice(p, q)
  OBVIOUS
<1>16. d = SubSeq(value, p, q - 1) /\ Len(d) = q - p
       /\ \A x \in 1..(q - p) : d[x] = value[p + x - 1] /\ p + x - 1 \in p..(q - 1)
  <2>1. /\ Slice(p, q) = SubSeq(value, p, q - 1) /\ Len(Slice(p, q)) = q - p
        /\ \A x \in 1..(q - p) : Slice(p, q)[x] = value[p + x - 1] /\ p + x - 1 \in p..(q - 1)
    BY <1>1, <1>c, LettersSlice
  <2> QED
    BY <1>15, <2>1
<1>17. d \in Seq(FromBytes) /\ DOMAIN d = 1..(q - p)
  <2>1. p <= q
    BY <1>0
  <2>2. Slice(p, q) \in Seq(FromBytes)
    BY <1>0, <2>1, SliceIs
  <2>3. d \in Seq(FromBytes)
    BY <1>15, <2>2
  <2> QED
    BY <1>16, <2>3, LenProperties
<1>18. d # <<>>
  <2>1. Len(d) # 0
    BY <1>0, <1>16
  <2> QED
    BY <2>1, EmptySeq
<1>19. Range(d) \subseteq DomainBytes
  BY <1>1, <1>16, <1>17 DEF Range, Letters
<1> QED
  BY <1>3, <1>13, <1>14, <1>15, <1>16, <1>18, <1>19

(* What it leaves, if it is of domain bytes, is a domain. *)
LEMMA StripFrom ==
    ASSUME Lexable, NEW p, NEW e, Top(p), Top(e), p <= e,
           StripDots(Slice(p, e)) # <<>>, Range(StripDots(Slice(p, e))) \subseteq DomainBytes
    PROVE  \E q : Domain(p, q) /\ Letters({"."}, q, e)
<1>0. /\ N \in Nat /\ Places = 1..(N + 1) /\ value \in Seq(FromBytes) /\ p \in Nat /\ e \in Nat
      /\ p \in Places /\ e \in Places
  BY TopIs
<1>b. DomainBytes \subseteq Printable \ {"(", Quote} /\ "." \in DomainBytes
  BY DEF DomainBytes, Printable, Quote
<1>3. PICK v, d : v = Slice(p, e) /\ d = StripDots(v)
  OBVIOUS
<1>4. v \in Seq(FromBytes) /\ DOMAIN v = 1..Len(v) /\ Len(v) \in Nat
  BY <1>0, <1>3, SliceIs, LenProperties
<1> DEFINE solid == {x \in DOMAIN v : v[x] # "."}
<1>5. d = IF solid = {} THEN <<>> ELSE SubSeq(v, 1, Max(solid))
  BY <1>3 DEF StripDots
<1>6. solid \in SUBSET (0..Len(v)) /\ \A x \in solid : x \in 1..Len(v) /\ v[x] # "."
  BY <1>4
<1>7. \A x \in 1..Len(v) : v[x] # "." => x \in solid
  BY <1>4
<1> HIDE DEF solid
<1>8. solid # {} /\ d = SubSeq(v, 1, Max(solid))
  BY <1>3, <1>5
<1>9. PICK M : M = Max(solid)
  OBVIOUS
<1>10. M \in solid /\ \A x \in solid : x <= M
  BY <1>4, <1>6, <1>8, <1>9, MaxIsGreatest
<1>11. M \in 1..Len(v) /\ v[M] # "."
  BY <1>6, <1>10
<1>12. d \in Seq(FromBytes) /\ Len(d) = M /\ \A x \in 1..M : d[x] = v[x]
  <2>1. M \in 0..Len(v)
    BY <1>11
  <2> QED
    BY <1>4, <1>8, <1>9, <2>1, PrefixTypes
<1>13. \A x \in 1..M : v[x] \in DomainBytes
  <2>1. DOMAIN d = 1..M
    BY <1>12, LenProperties
  <2>2. Range(d) \subseteq DomainBytes
    BY <1>3
  <2> QED
    BY <1>12, <2>1, <2>2 DEF Range
<1>14. ASSUME NEW x \in 1..Len(v) PROVE v[x] \in DomainBytes
  <2>1. CASE x <= M
    BY <1>4, <1>11, <1>13, <2>1
  <2>2. CASE ~(x <= M)
    BY <1>7, <1>10, <1>b, <2>2
  <2> QED
    BY <2>1, <2>2
<1>15. Letters(DomainBytes, p, e)
  BY <1>3, <1>14, <1>b, LettersOfText
<1>16. Len(v) = e - p /\ \A x \in 1..(e - p) : v[x] = value[p + x - 1] /\ p + x - 1 \in p..(e - 1)
  <2>1. DomainBytes \subseteq Printable \ {"(", Quote}
    BY <1>b
  <2>2. /\ Len(Slice(p, e)) = e - p
        /\ \A x \in 1..(e - p) : Slice(p, e)[x] = value[p + x - 1] /\ p + x - 1 \in p..(e - 1)
    BY <1>15, <2>1, LettersSlice
  <2> QED
    BY <1>3, <2>2
<1>17. PICK q : q = p + M
  OBVIOUS
<1>18. q \in Nat /\ q \in Places /\ p < q /\ q <= e /\ q - 1 = p + M - 1
  BY <1>0, <1>4, <1>11, <1>16, <1>17
<1>19. value[q - 1] # "."
  BY <1>11, <1>16, <1>18
<1>20. Letters(DomainBytes, p, q)
  <2>1. \A m \in p..(q - 1) : m \in p..(e - 1)
    BY <1>0, <1>18
  <2> QED
    BY <1>0, <1>15, <1>18, <2>1 DEF Letters
<1>21. ASSUME NEW m \in q..(e - 1) PROVE value[m] = "."
  <2>1. PICK x : x = m - p + 1
    OBVIOUS
  <2>2. x \in 1..(e - p) /\ p + x - 1 = m /\ ~(x <= M)
    BY <1>0, <1>11, <1>17, <1>18, <2>1
  <2>3. v[x] = "."
    BY <1>7, <1>10, <1>16, <2>2
  <2> QED
    BY <1>16, <2>2, <2>3
<1> QED
  BY <1>0, <1>18, <1>19, <1>20, <1>21 DEF Domain, Letters

(* A domain and its dots begin and end with what Trim leaves. *)
LEMMA DomainEnds ==
    ASSUME Lexable, NEW p, NEW q, NEW e, Top(p), Domain(p, q), Letters({"."}, q, e)
    PROVE  Top(e) /\ p < e /\ Solid(p, e) /\ Letters(DomainBytes, p, e)
<1>0. /\ N \in Nat /\ Places = 1..(N + 1) /\ value \in Seq(FromBytes) /\ p \in Nat /\ q \in Nat /\ e \in Nat
      /\ p < q /\ q <= e /\ p < e
  BY TopIs DEF Domain, Letters
<1>b. DomainBytes \subseteq Printable \ {"(", Quote} /\ "." \in DomainBytes
  BY DEF DomainBytes, Printable, Quote
<1>g. \A x \in DomainBytes : x \notin Gap
  <2>1. \A x \in DomainBytes : x \notin WSP
    BY Bytes DEF DomainBytes
  <2> QED
    BY <2>1 DEF Gap, DomainBytes
<1>1. Letters(DomainBytes, p, q) /\ Letters(DomainBytes, q, e)
  BY <1>b DEF Domain, Letters
<1>2. Letters(DomainBytes, p, e)
  BY <1>0, <1>1, LettersJoin
<1>3. Top(e) /\ \A m \in p..(e - 1) : Follows(m, m + 1) /\ Sign(m) = value[m]
  BY <1>2, <1>b, LettersTop
<1>4. PICK l : l = e - 1
  OBVIOUS
<1>5. l \in p..(e - 1) /\ p \in p..(e - 1) /\ l + 1 = e /\ p <= l
  BY <1>0, <1>4
<1>6. value[l] \in DomainBytes /\ value[p] \in DomainBytes
  BY <1>2, <1>5 DEF Letters
<1>7. p \notin Signed(Gap) /\ l \notin Signed(Gap)
  BY <1>3, <1>5, <1>6, <1>b, <1>g DEF Signed
<1>8. Follows(l, e)
  BY <1>3, <1>5
<1> QED
  BY <1>0, <1>2, <1>3, <1>5, <1>7, <1>8 DEF Solid

-----------------------------------------------------------------------------
(* The bytes that must not be met outside of quoted strings and comments    *)

Special == {",", "<", ">", "@", ")"}
Free == {m \in Places : m <= N /\ value[m] \notin Special}

(* Tokens that are not special hold nothing special. *)
LEMMA RunFree ==
    ASSUME Lexable, NEW F, NEW i, NEW j, RunOf(F, i, j),
           \A m \in F : Top(m) => m <= N /\ Sign(m) \notin Special
    PROVE  RunOf(Free, i, j)
<1>1. Special \subseteq Printable
  BY DEF Special, Printable
<1>2. ASSUME NEW m \in Places, Top(m), m \in F PROVE m \in Free
  <2>1. m <= N /\ Sign(m) \notin Special
    BY <1>2
  <2>2. value[m] \in Printable => Sign(m) = value[m]
    BY <1>2, <2>1, TopIs
  <2> QED
    BY <1>1, <1>2, <2>1, <2>2 DEF Free
<1> QED
  BY <1>2 DEF RunOf

(* Gaps hold nothing special. *)
LEMMA GapsFree ==
    ASSUME Lexable, NEW i, NEW j, RunOf(Signed(Gap), i, j)
    PROVE  RunOf(Free, i, j)
<1>1. \A c \in Gap : c \notin Special
  <2>1. Special \subseteq Printable /\ "(" \notin Special
    BY DEF Special, Printable
  <2> QED
    BY <2>1, Bytes DEF Gap
<1>2. \A m \in Signed(Gap) : m <= N /\ Sign(m) \notin Special
  BY <1>1 DEF Signed
<1> QED
  BY <1>2, RunFree

(* Display names hold nothing special. *)
LEMMA WordsFree ==
    ASSUME Lexable, NEW i, NEW j, RunOf(Words, i, j)
    PROVE  RunOf(Free, i, j)
<1>1. \A c \in AtomBytes \cup {"."} \cup Gap \cup {Quote} : c \notin Special
  <2>1. Special \subseteq Printable /\ "(" \notin Special /\ Quote \notin Special
        /\ \A c \in AtomBytes \cup {"."} : c \notin Special
    BY DEF Special, Printable, Quote, AtomBytes
  <2> QED
    BY <2>1, Bytes DEF Gap
<1>2. \A m \in Words : m <= N /\ Sign(m) \notin Special
  BY <1>1 DEF Words
<1> QED
  BY <1>2, RunFree

(* Letters hold nothing special. *)
LEMMA LettersFree ==
    ASSUME Lexable, NEW S, S \subseteq {"a", "A", "-", "!", "."}, NEW i, NEW j, Top(i), Letters(S, i, j)
    PROVE  RunOf(Free, i, j)
<1>1. S \subseteq Printable \ {"(", Quote} /\ \A c \in S : c \notin Special
  <2>1. {"a", "A", "-", "!", "."} \subseteq Printable \ {"(", Quote} /\ \A c \in {"a", "A", "-", "!", "."} : c \notin Special
    BY DEF Printable, Quote, Special
  <2> QED
    BY <2>1
<1>2. RunOf(Signed(S), i, j)
  BY <1>1, LettersTop
<1>3. \A m \in Signed(S) : m <= N /\ Sign(m) \notin Special
  BY <1>1 DEF Signed
<1> QED
  BY <1>2, <1>3, RunFree

(* Local parts hold nothing special. *)
LEMMA LocalFree ==
    ASSUME Lexable, NEW a, NEW b, Local(a, b)
    PROVE  RunOf(Free, a, b)
<1>1. Top(a)
  BY DEF Local
<1>2. CASE Follows(a, b) /\ Sign(a) = Quote
  <2>1. a \in Signed({Quote})
    BY <1>1, <1>2, TokenIs, TopIs DEF Signed
  <2>2. RunOf(Signed({Quote}), a, b)
    BY <1>2, <2>1, RunOne
  <2>3. \A m \in Signed({Quote}) : m <= N /\ Sign(m) \notin Special
    BY DEF Signed, Special, Quote
  <2> QED
    BY <2>2, <2>3, RunFree
<1>3. CASE DotAtom(a, b)
  <2>1. PICK S : S = AtomBytes \cup {"."}
    OBVIOUS
  <2>2. S \subseteq {"a", "A", "-", "!", "."} /\ Letters(S, a, b)
    BY <1>3, <2>1 DEF AtomBytes, DotAtom
  <2> QED
    BY <1>1, <2>2, LettersFree
<1> QED
  BY <1>2, <1>3 DEF Local

(* A mark is a token of its own. *)
LEMMA MarkIs ==
    ASSUME Lexable, NEW c, Top(c), c <= N, value[c] \in Marks
    PROVE  /\ Follows(c, c + 1) /\ Top(c + 1) /\ Spot(c + 1) = Spot(c) + 1 /\ Sign(c) = value[c]
           /\ c + 1 \in Places /\ c \in 1..N
<1>1. Marks \subseteq Printable \ {"(", Quote}
  BY DEF Marks, Printable, Quote
<1>2. Sign(c) = value[c] /\ Itemized(c) /\ c \in Nat /\ c >= 1 /\ N \in Nat /\ Places = 1..(N + 1)
  BY <1>1, TopIs
<1>3. After(c) = c + 1 /\ Sign(c) \notin {"(", Quote}
  BY <1>1, <1>2 DEF Itemized
<1>4. Follows(c, c + 1)
  BY <1>3, FollowsItem
<1>5. Spot(c + 1) = Spot(c) + 1
  BY <1>3, <1>4, TokenIs
<1> QED
  BY <1>2, <1>4, <1>5 DEF Follows

(* A run without marks has none. *)
LEMMA FreeChars ==
    ASSUME Lexable, NEW i, NEW j, RunOf(Free, i, j), NEW c \in Special
    PROVE  Chars(i, j, c) = {}
<1>1. N \in Nat /\ Places = 1..(N + 1)
  BY TopIs DEF RunOf
<1> QED
  BY <1>1 DEF RunOf, Free, Chars

(* A mark between two runs without marks is the only one. *)
LEMMA OneChar ==
    ASSUME Lexable, NEW i, NEW c, NEW j, RunOf(Free, i, c), c <= N, value[c] \in Special \cap Marks,
           RunOf(Free, c + 1, j)
    PROVE  /\ i <= c /\ c < j /\ Top(i) /\ Top(j) /\ Chars(i, j, value[c]) = {c}
           /\ \A d \in Special : d # value[c] => Chars(i, j, d) = {}
<1>1. Top(i) /\ Top(c) /\ Top(j) /\ i <= c /\ c + 1 <= j
  BY DEF RunOf
<1>2. N \in Nat /\ Places = 1..(N + 1) /\ c \in Nat /\ i \in Nat /\ j \in Nat /\ c \in 1..N
  BY <1>1, TopIs, MarkIs
<1>3. ASSUME NEW m \in 1..N, Top(m), i <= m, m < j, m # c PROVE value[m] \notin Special
  <2>1. m \in Places /\ ((i <= m /\ m < c) \/ (c + 1 <= m /\ m < j))
    BY <1>2, <1>3
  <2>2. m \in Free
    BY <1>3, <2>1 DEF RunOf
  <2> QED
    BY <2>2 DEF Free
<1>4. \A d \in Special : \A m \in Chars(i, j, d) : m = c
  BY <1>3 DEF Chars
<1>5. c \in Chars(i, j, value[c])
  BY <1>1, <1>2 DEF Chars
<1>6. \A d : c \in Chars(i, j, d) => d = value[c]
  BY DEF Chars
<1> QED
  BY <1>1, <1>2, <1>4, <1>5, <1>6

-----------------------------------------------------------------------------
(* An address                                                               *)

(* The local part from a to b, the at sign at c, the domain from p to q and *)
(* the dots after it to e                                                   *)
Parts(a, b, c, p, q, e) ==
    /\ Local(a, b) /\ RunOf(Signed(Gap), b, c) /\ c <= N /\ value[c] = "@"
    /\ RunOf(Signed(Gap), c + 1, p) /\ Domain(p, q) /\ Letters({"."}, q, e)

AddrSpec(i, j, p, q) ==
    \E a, b, c, e : RunOf(Signed(Gap), i, a) /\ Parts(a, b, c, p, q, e) /\ RunOf(Signed(Gap), e, j)

(* No part of a value is taken for the refusal. *)
LEMMA NotRefused ==
    ASSUME NEW s \in Seq(FromBytes)
    PROVE  s # Refused
<1>1. Refused[1] = "refused" /\ Len(Refused) = 1
  BY DEF Refused
<1>2. "refused" \notin FromBytes
  BY DEF FromBytes, Quote, Escape, SP, TAB, CR, LF
<1>3. Len(s) = 1 => s[1] \in FromBytes
  BY ElementOfSeq
<1> QED
  BY <1>1, <1>2, <1>3

(* What a mark splits a text into *)
LEMMA MarkSplits ==
    ASSUME Lexable, NEW i, NEW j, Top(i), Top(j), i <= j, NEW d \in Marks, NEW k, Chars(i, j, d) = {k}
    PROVE  LET s == Slice(i, j)
               M == Max(Plain(s, d))
           IN  /\ Cardinality(Plain(s, d)) = 1 /\ M = Spot(k) - Spot(i) + 1
               /\ M - 1 = Spot(k) - Spot(i) /\ M + 1 = Spot(k + 1) - Spot(i) + 1
               /\ Top(k) /\ Top(k + 1) /\ i <= k /\ k + 1 <= j /\ k \in 1..N /\ value[k] = d
               /\ SubSeq(s, 1, M - 1) = Slice(i, k) /\ SubSeq(s, M + 1, Len(s)) = Slice(k + 1, j)
<1>1. k \in 1..N /\ Top(k) /\ i <= k /\ k < j /\ value[k] = d
  BY DEF Chars
<1>2. /\ N \in Nat /\ Places = 1..(N + 1) /\ value \in Seq(FromBytes) /\ k \in Nat /\ i \in Nat /\ j \in Nat
      /\ i \in Places /\ j \in Places /\ k \in Places /\ k <= N
      /\ Spot(i) \in Nat /\ Spot(k) \in Nat /\ Spot(j) \in Nat
  BY <1>1, TopIs
<1>3. Top(k + 1) /\ Spot(k + 1) = Spot(k) + 1 /\ k + 1 \in Places
  BY <1>1, <1>2, MarkIs
<1>4. Cardinality(Plain(Slice(i, j), d)) = 1 /\ Max(Plain(Slice(i, j), d)) = Spot(k) - Spot(i) + 1
  BY PlainOne
<1>5. PICK M : M = Max(Plain(Slice(i, j), d))
  OBVIOUS
<1>6. M = Spot(k) - Spot(i) + 1 /\ M - 1 = Spot(k) - Spot(i) /\ M + 1 = Spot(k + 1) - Spot(i) + 1
  <2>1. PICK x, y, z : x = Spot(i) /\ y = Spot(k) /\ z = Spot(k + 1)
    OBVIOUS
  <2>2. x \in Nat /\ y \in Nat /\ z = y + 1 /\ M = y - x + 1
    BY <1>2, <1>3, <1>4, <1>5, <2>1
  <2>3. M - 1 = y - x /\ M + 1 = z - x + 1
    BY <2>2
  <2> QED
    BY <2>1, <2>2, <2>3
<1>7. k + 1 <= j /\ k <= j /\ i <= i /\ j <= j /\ i <= k + 1
  BY <1>1, <1>2
<1>8. SubSeq(Slice(i, j), Spot(i) - Spot(i) + 1, Spot(k) - Spot(i)) = Slice(i, k)
  BY <1>1, <1>2, <1>7, SubSlice
<1>9. Spot(i) - Spot(i) + 1 = 1
  BY <1>2
<1>10. SubSeq(Slice(i, j), Spot(k + 1) - Spot(i) + 1, Spot(j) - Spot(i)) = Slice(k + 1, j)
  <2>1. PICK n : n = k + 1
    OBVIOUS
  <2>2. n \in Places /\ i <= n /\ n <= j /\ j <= j
    BY <1>3, <1>7, <2>1
  <2>3. SubSeq(Slice(i, j), Spot(n) - Spot(i) + 1, Spot(j) - Spot(i)) = Slice(n, j)
    BY <1>2, <2>2, SubSlice
  <2> QED
    BY <2>1, <2>3
<1>11. Len(Slice(i, j)) = Spot(j) - Spot(i)
  BY <1>2, SliceIs
<1> QED
  BY <1>1, <1>3, <1>4, <1>5, <1>6, <1>7, <1>8, <1>9, <1>10, <1>11

(* The places of an address and the one at sign among them. *)
LEMMA PartsAre ==
    ASSUME Lexable, NEW a, NEW b, NEW c, NEW p, NEW q, NEW e, Parts(a, b, c, p, q, e)
    PROVE  /\ RunOf(Free, a, c) /\ RunOf(Free, c + 1, e) /\ c <= N /\ value[c] = "@"
           /\ Top(a) /\ Top(b) /\ Top(c) /\ Top(c + 1) /\ Top(p) /\ Top(e) /\ Solid(a, e)
           /\ a <= b /\ a < e /\ p < e /\ Solid(a, b) /\ Solid(p, e) /\ Chars(a, e, "@") = {c}
<1>1. /\ Local(a, b) /\ RunOf(Signed(Gap), b, c) /\ c <= N /\ value[c] = "@"
      /\ RunOf(Signed(Gap), c + 1, p) /\ Domain(p, q) /\ Letters({"."}, q, e)
  BY DEF Parts
<1>2. Top(b) /\ Top(c) /\ Top(c + 1) /\ Top(p) /\ b <= c /\ c + 1 <= p
  BY <1>1 DEF RunOf
<1>3. Top(a) /\ a < b /\ Solid(a, b)
  BY <1>1, LocalEnds DEF Solid
<1>4. Top(e) /\ p < e /\ Solid(p, e) /\ Letters(DomainBytes, p, e)
  BY <1>1, <1>2, DomainEnds
<1>5. RunOf(Free, a, c)
  <2>1. RunOf(Free, a, b)
    BY <1>1, LocalFree
  <2>2. RunOf(Free, b, c)
    BY <1>1, GapsFree
  <2> QED
    BY <2>1, <2>2, RunJoin
<1>6. RunOf(Free, c + 1, e)
  <2>1. RunOf(Free, c + 1, p)
    BY <1>1, GapsFree
  <2>2. DomainBytes \subseteq {"a", "A", "-", "!", "."}
    BY DEF DomainBytes
  <2>3. RunOf(Free, p, e)
    BY <1>2, <1>4, <2>2, LettersFree
  <2> QED
    BY <2>1, <2>3, RunJoin
<1>7. a \in Nat /\ b \in Nat /\ c \in Nat /\ p \in Nat /\ e \in Nat
  BY <1>2, <1>3, <1>4, TopIs
<1>8. a <= b /\ a < e /\ a <= p
  BY <1>2, <1>3, <1>4, <1>7
<1>9. Solid(a, e)
  <2>1. a \notin Signed(Gap)
    BY <1>3 DEF Solid
  <2>2. PICK l : Follows(l, e) /\ p <= l /\ l \notin Signed(Gap)
    BY <1>4 DEF Solid
  <2>3. l \in Nat
    BY <2>2, TopIs DEF Follows
  <2>4. a <= l
    BY <1>7, <1>8, <2>2, <2>3
  <2> QED
    BY <1>3, <2>1, <2>2, <2>4 DEF Solid
<1>10. value[c] \in Special \cap Marks
  BY <1>1 DEF Special, Marks
<1>11. Chars(a, e, value[c]) = {c}
  BY <1>1, <1>5, <1>6, <1>10, OneChar
<1> QED
  BY <1>1, <1>2, <1>3, <1>4, <1>5, <1>6, <1>8, <1>9, <1>11

(* What from_domain makes of the domain from p to q *)
Found(p, q) == Lower(SubSeq(value, p, q - 1))

(* domain of an address, from the local part and the domain *)
LEMMA AddressSplits ==
    ASSUME NEW s, NEW l, l = Trim(SubSeq(s, 1, Max(Plain(s, "@")) - 1)),
           NEW d, d = StripDots(Trim(SubSeq(s, Max(Plain(s, "@")) + 1, Len(s))))
    PROVE  DomainOfAddress(s) =
             IF /\ Cardinality(Plain(s, "@")) = 1 /\ LocalPart(l)
                /\ d # <<>> /\ Range(d) \subseteq DomainBytes
             THEN Lower(d) ELSE Refused
  BY DEF DomainOfAddress

(* The code finds the domain of an address of the grammar. *)
LEMMA PartsDomain ==
    ASSUME Lexable, NEW a, NEW b, NEW c, NEW p, NEW q, NEW e, Parts(a, b, c, p, q, e)
    PROVE  DomainOfAddress(Slice(a, e)) = Found(p, q)
<1>1. /\ Local(a, b) /\ RunOf(Signed(Gap), b, c) /\ c <= N /\ value[c] = "@"
      /\ RunOf(Signed(Gap), c + 1, p) /\ Domain(p, q) /\ Letters({"."}, q, e)
  BY DEF Parts
<1>2. /\ Top(a) /\ Top(b) /\ Top(p) /\ Top(e) /\ a <= b /\ a <= e /\ p <= e
      /\ Solid(a, b) /\ Solid(p, e) /\ Chars(a, e, "@") = {c}
  <2>1. /\ Top(a) /\ Top(b) /\ Top(p) /\ Top(e) /\ a <= b /\ a < e /\ p < e
        /\ Solid(a, b) /\ Solid(p, e) /\ Chars(a, e, "@") = {c}
    BY PartsAre
  <2>2. a \in Nat /\ e \in Nat /\ p \in Nat
    BY <2>1, TopIs
  <2> QED
    BY <2>1, <2>2
<1>3. PICK s : s = Slice(a, e)
  OBVIOUS
<1>4. PICK M : M = Max(Plain(s, "@"))
  OBVIOUS
<1>5. /\ Cardinality(Plain(s, "@")) = 1
      /\ SubSeq(s, 1, M - 1) = Slice(a, c) /\ SubSeq(s, M + 1, Len(s)) = Slice(c + 1, e)
  <2>1. "@" \in Marks
    BY DEF Marks
  <2> QED
    BY <1>2, <1>3, <1>4, <2>1, MarkSplits
<1>6. Trim(Slice(a, c)) = Slice(a, b)
  <2>1. RunOf(Signed(Gap), a, a)
    BY <1>2, RunNone
  <2>2. Trims(a, c, a, b)
    BY <1>1, <1>2, <2>1 DEF Trims
  <2> QED
    BY <2>2, TrimIs
<1>7. Trim(Slice(c + 1, e)) = Slice(p, e)
  <2>1. RunOf(Signed(Gap), e, e)
    BY <1>2, RunNone
  <2>2. Trims(c + 1, e, p, e)
    BY <1>1, <1>2, <2>1 DEF Trims
  <2> QED
    BY <2>2, TrimIs
<1>8. LocalPart(Slice(a, b))
  BY <1>1, <1>2, LocalIs
<1>9. PICK d : d = StripDots(Slice(p, e))
  OBVIOUS
<1>10. d = SubSeq(value, p, q - 1) /\ d # <<>> /\ Range(d) \subseteq DomainBytes
  BY <1>1, <1>2, <1>9, StripAt
<1>11. Slice(a, b) = Trim(SubSeq(s, 1, Max(Plain(s, "@")) - 1))
       /\ d = StripDots(Trim(SubSeq(s, Max(Plain(s, "@")) + 1, Len(s))))
  BY <1>4, <1>5, <1>6, <1>7, <1>9
<1>12. DomainOfAddress(s) = Lower(d)
  <2>1. PICK l : l = Slice(a, b)
    OBVIOUS
  <2>2. DomainOfAddress(s) =
             IF /\ Cardinality(Plain(s, "@")) = 1 /\ LocalPart(l)
                /\ d # <<>> /\ Range(d) \subseteq DomainBytes
             THEN Lower(d) ELSE Refused
    BY <1>11, <2>1, AddressSplits
  <2> QED
    BY <1>5, <1>8, <1>10, <2>1, <2>2
<1> QED
  BY <1>3, <1>10, <1>12 DEF Found

(* Where the code finds a domain the grammar has an address. *)
LEMMA DomainParts ==
    ASSUME Lexable, NEW i, NEW j, Top(i), Top(j), i <= j, DomainOfAddress(Slice(i, j)) # Refused
    PROVE  \E p, q : AddrSpec(i, j, p, q) /\ DomainOfAddress(Slice(i, j)) = Found(p, q)
<1>1. PICK s : s = Slice(i, j)
  OBVIOUS
<1>2. PICK M : M = Max(Plain(s, "@"))
  OBVIOUS
<1>3. PICK l, d : l = Trim(SubSeq(s, 1, M - 1)) /\ d = StripDots(Trim(SubSeq(s, M + 1, Len(s))))
  OBVIOUS
<1>4. DomainOfAddress(s) =
             IF /\ Cardinality(Plain(s, "@")) = 1 /\ LocalPart(l)
                /\ d # <<>> /\ Range(d) \subseteq DomainBytes
             THEN Lower(d) ELSE Refused
  BY <1>2, <1>3, AddressSplits
<1>5. /\ Cardinality(Plain(s, "@")) = 1 /\ LocalPart(l) /\ d # <<>> /\ Range(d) \subseteq DomainBytes
      /\ DomainOfAddress(s) = Lower(d)
  BY <1>1, <1>4
<1>m. "@" \in Marks
  BY DEF Marks
<1>6. PICK c : Chars(i, j, "@") = {c}
  BY <1>1, <1>5, <1>m, PlainOne
<1>7. /\ Top(c) /\ Top(c + 1) /\ i <= c /\ c + 1 <= j /\ c \in 1..N /\ value[c] = "@"
      /\ SubSeq(s, 1, M - 1) = Slice(i, c) /\ SubSeq(s, M + 1, Len(s)) = Slice(c + 1, j)
  BY <1>1, <1>2, <1>6, <1>m, MarkSplits
<1>8. PICK a, b : Trims(i, c, a, b)
  BY <1>7, TrimsExist
<1>9. PICK p, e : Trims(c + 1, j, p, e)
  BY <1>7, TrimsExist
<1>10. /\ RunOf(Signed(Gap), i, a) /\ RunOf(Signed(Gap), b, c) /\ a <= b
       /\ RunOf(Signed(Gap), c + 1, p) /\ RunOf(Signed(Gap), e, j) /\ p <= e
  BY <1>8, <1>9 DEF Trims
<1>11. Top(a) /\ Top(b) /\ Top(p) /\ Top(e)
  BY <1>10 DEF RunOf
<1>12. l = Slice(a, b) /\ d = StripDots(Slice(p, e))
  <2>1. Trim(Slice(i, c)) = Slice(a, b)
    BY <1>8, TrimIs
  <2>2. Trim(Slice(c + 1, j)) = Slice(p, e)
    BY <1>9, TrimIs
  <2> QED
    BY <1>3, <1>7, <2>1, <2>2
<1>13. Local(a, b)
  BY <1>5, <1>10, <1>11, <1>12, LocalIs
<1>14. PICK q : Domain(p, q) /\ Letters({"."}, q, e)
  BY <1>5, <1>10, <1>11, <1>12, StripFrom
<1>15. Lower(d) = Found(p, q)
  BY <1>11, <1>12, <1>14, StripAt DEF Found
<1>16. c <= N
  <2>1. N \in Nat
    BY TopIs
  <2> QED
    BY <1>7, <2>1
<1>17. Parts(a, b, c, p, q, e)
  BY <1>7, <1>10, <1>13, <1>14, <1>16 DEF Parts
<1>18. AddrSpec(i, j, p, q)
  BY <1>10, <1>17 DEF AddrSpec
<1> QED
  BY <1>1, <1>5, <1>15, <1>18

(* domain_of an address with white space around it *)
LEMMA AddressIs ==
    ASSUME Lexable, NEW i, NEW j, Top(i), Top(j), i <= j
    PROVE  LET d == DomainOfAddress(Trim(Slice(i, j)))
           IN  /\ \A p, q : AddrSpec(i, j, p, q) => d = Found(p, q)
               /\ d # Refused => \E p, q : AddrSpec(i, j, p, q) /\ d = Found(p, q)
<1>1. ASSUME NEW p, NEW q, AddrSpec(i, j, p, q)
      PROVE  DomainOfAddress(Trim(Slice(i, j))) = Found(p, q)
  <2>1. PICK a, b, c, e : RunOf(Signed(Gap), i, a) /\ Parts(a, b, c, p, q, e) /\ RunOf(Signed(Gap), e, j)
    BY <1>1 DEF AddrSpec
  <2>2. Solid(a, e) /\ a < e /\ Top(a) /\ Top(e)
    BY <2>1, PartsAre
  <2>3. a \in Nat /\ e \in Nat
    BY <2>2, TopIs
  <2>4. a <= e
    BY <2>2, <2>3
  <2>5. Trims(i, j, a, e)
    BY <2>1, <2>2, <2>4 DEF Trims
  <2>6. Trim(Slice(i, j)) = Slice(a, e)
    BY <2>5, TrimIs
  <2>7. DomainOfAddress(Slice(a, e)) = Found(p, q)
    BY <2>1, PartsDomain
  <2> QED
    BY <2>6, <2>7
<1>2. ASSUME DomainOfAddress(Trim(Slice(i, j))) # Refused
      PROVE  \E p, q : AddrSpec(i, j, p, q) /\ DomainOfAddress(Trim(Slice(i, j))) = Found(p, q)
  <2>1. PICK x, y : Trims(i, j, x, y)
    BY TrimsExist
  <2>2. RunOf(Signed(Gap), i, x) /\ RunOf(Signed(Gap), y, j) /\ x <= y
    BY <2>1 DEF Trims
  <2>3. Top(x) /\ Top(y)
    BY <2>2 DEF RunOf
  <2>4. Trim(Slice(i, j)) = Slice(x, y)
    BY <2>1, TrimIs
  <2>5. DomainOfAddress(Slice(x, y)) # Refused
    BY <1>2, <2>4
  <2>6. PICK p, q : AddrSpec(x, y, p, q) /\ DomainOfAddress(Slice(x, y)) = Found(p, q)
    BY <2>2, <2>3, <2>5, DomainParts
  <2>7. PICK a, b, c, e : RunOf(Signed(Gap), x, a) /\ Parts(a, b, c, p, q, e) /\ RunOf(Signed(Gap), e, y)
    BY <2>6 DEF AddrSpec
  <2>8. RunOf(Signed(Gap), i, a) /\ RunOf(Signed(Gap), e, j)
    BY <2>2, <2>7, RunJoin
  <2>9. AddrSpec(i, j, p, q)
    BY <2>7, <2>8 DEF AddrSpec
  <2> QED
    BY <2>4, <2>6, <2>9
<1> QED
  BY <1>1, <1>2

-----------------------------------------------------------------------------
(* The whole text                                                           *)

(* A phrase to s, an address between the brackets at s and g, gaps after it *)
Bracketed(s, g, p, q) ==
    /\ RunOf(Words, 1, s) /\ s <= N /\ value[s] = "<"
    /\ AddrSpec(s + 1, g, p, q) /\ g <= N /\ value[g] = ">"
    /\ RunOf(Signed(Gap), g + 1, N + 1)

Mailbox(p, q) == AddrSpec(1, N + 1, p, q) \/ \E s, g : Bracketed(s, g, p, q)

(* from_domain, once the folds are found sound *)
LEMMA Decides ==
    ASSUME Foldable(value), NEW k, k = WithoutComments(Unfold(value)), NEW t, t = Trim(k.text),
           NEW x, x = Address(t)
    PROVE  DomainOf(value) =
             IF k.stray \/ k.quoted \/ k.escaped \/ k.depth # 0 \/ Plain(t, ",") # {} THEN Refused
             ELSE IF x = Refused THEN Refused ELSE DomainOfAddress(x)
  BY DEF DomainOf

(* address, with the places of the brackets named. *)
LEMMA Addressed ==
    ASSUME NEW t, NEW s, s = Plain(t, "<"), NEW g, g = Plain(t, ">")
    PROVE  Address(t) =
             IF s = {} /\ g = {} THEN t
             ELSE IF /\ Cardinality(s) = 1 /\ Cardinality(g) = 1 /\ Max(s) < Max(g)
                     /\ DisplayName(SubSeq(t, 1, Max(s) - 1))
                     /\ Trim(SubSeq(t, Max(g) + 1, Len(t))) = <<>>
                  THEN Trim(SubSeq(t, Max(s) + 1, Max(g) - 1))
                  ELSE Refused
  BY DEF Address

(* The first place, and the last one if it is outside of everything *)
LEMMA TopEnds ==
    ASSUME Lexable
    PROVE  Top(1) /\ (Mode(N + 1) = "top" <=> Top(N + 1)) /\ 1 <= N + 1
<1>1. N \in Nat /\ Places = 1..(N + 1) /\ value \in Seq(FromBytes) /\ DOMAIN value = 1..N
  BY PlacesAre, LenProperties DEF Lexable, N
<1>2. Mode(1) = "top" /\ 1 \in Places /\ N + 1 \in Places
  BY <1>1, LexEnds
<1>3. Top(1)
  BY <1>2 DEF Top, Whole
<1>4. Whole(N + 1)
  <2>1. CASE N = 0
    BY <1>2, <2>1 DEF Whole
  <2>2. CASE N # 0
    <3>1. N \in 1..N /\ (N + 1) - 1 = N /\ ~(N + 2 <= N) /\ (N - 1) + 2 = N + 1 /\ ~(N + 1 <= N)
      BY <1>1, <2>2
    <3>2. value[N] # CR
      BY <1>1, <3>1 DEF Lexable, Foldable, N
    <3>3. value[N] # LF
      <4>1. SUFFICES ASSUME value[N] = LF PROVE FALSE
        OBVIOUS
      <4>2. N > 1 /\ value[N - 1] = CR
        BY <1>1, <3>1, <4>1 DEF Lexable, Foldable
      <4>3. PICK m : m = N - 1
        OBVIOUS
      <4>4. m \in 1..N /\ ~(m + 2 <= N)
        BY <1>1, <4>2, <4>3
      <4> QED
        BY <1>1, <4>2, <4>3, <4>4 DEF Lexable, Foldable, N
    <3> QED
      BY <1>2, <3>1, <3>2, <3>3 DEF Whole
  <2> QED
    BY <2>1, <2>2
<1> QED
  BY <1>1, <1>3, <1>4 DEF Top

(* The text is the slice from the first place to the last. *)
LEMMA TextIsSlice ==
    ASSUME Lexable
    PROVE  WithoutComments(Unfold(value)).text = Slice(1, N + 1)
<1>1. /\ Spot(1) = 1 /\ Spot(N + 1) = Len(Kept) + 1 /\ Kept \in Seq(FromBytes) /\ Len(Kept) \in Nat
      /\ WithoutComments(Unfold(value)).text = Kept
  BY LexEnds DEF Lexable
<1>2. SubSeq(Kept, 1, Len(Kept)) = Kept
  BY <1>1, WholePrefix
<1>3. Spot(N + 1) - 1 = Len(Kept)
  BY <1>1
<1> QED
  BY <1>1, <1>2, <1>3 DEF Slice

(* A stray bracket is a special byte. *)
LEMMA NoStray ==
    ASSUME Lexable, Top(N + 1), Chars(1, N + 1, ")") = {}
    PROVE  ~WithoutComments(Unfold(value)).stray
<1>1. SUFFICES ASSUME NEW m \in 1..N, Mode(m) = "top", value[m] = ")" PROVE FALSE
  BY StrayIs DEF Lexable
<1>2. value[m] \notin {CR, LF} /\ ")" \in Printable
  BY <1>1, Bytes DEF Printable
<1>3. PICK k \in Places : Whole(k) /\ k <= N /\ Mode(k) = Mode(m) /\ Sign(k) = value[m]
  BY <1>2, Origin
<1>4. Top(k)
  BY <1>1, <1>3 DEF Top
<1>5. value[k] = ")" /\ k \in 1..N /\ 1 <= k /\ k < N + 1
  BY <1>1, <1>2, <1>3, <1>4, TopIs
<1> QED
  BY <1>4, <1>5 DEF Chars

(* Gaps hold no mark, so an end of the trimmed text lies beyond every mark. *)
LEMMA MarkKept ==
    ASSUME Lexable, NEW i, NEW j, NEW x, NEW y, Trims(i, j, x, y), NEW c \in Special
    PROVE  Chars(x, y, c) = Chars(i, j, c)
<1>1. RunOf(Signed(Gap), i, x) /\ RunOf(Signed(Gap), y, j) /\ x <= y
  BY DEF Trims
<1>2. Chars(i, x, c) = {} /\ Chars(y, j, c) = {}
  BY <1>1, GapsFree, FreeChars
<1>3. Top(i) /\ Top(j) /\ Top(x) /\ Top(y) /\ i <= x /\ y <= j
  BY <1>1 DEF RunOf
<1>4. i \in Nat /\ j \in Nat /\ x \in Nat /\ y \in Nat /\ N \in Nat
  BY <1>3, TopIs
<1>5. ASSUME NEW k \in 1..N PROVE k \in Chars(x, y, c) <=> k \in Chars(i, j, c)
  <2>1. k \notin Chars(i, x, c) /\ k \notin Chars(y, j, c)
    BY <1>2
  <2>2. CASE k < x
    BY <1>1, <1>3, <1>4, <2>1, <2>2 DEF Chars
  <2>3. CASE k >= y
    BY <1>1, <1>3, <1>4, <2>1, <2>3 DEF Chars
  <2>4. CASE x <= k /\ k < y
    BY <1>1, <1>3, <1>4, <2>4 DEF Chars
  <2> QED
    BY <1>4, <2>2, <2>3, <2>4
<1>6. Chars(x, y, c) \subseteq 1..N /\ Chars(i, j, c) \subseteq 1..N
  BY DEF Chars
<1> QED
  BY <1>5, <1>6

(* The marks of an address *)
LEMMA AddrMarks ==
    ASSUME Lexable, NEW i, NEW j, NEW p, NEW q, AddrSpec(i, j, p, q)
    PROVE  /\ Top(i) /\ Top(j) /\ i < j
           /\ \A d \in Special : d # "@" => Chars(i, j, d) = {}
<1>1. PICK a, b, c, e : RunOf(Signed(Gap), i, a) /\ Parts(a, b, c, p, q, e) /\ RunOf(Signed(Gap), e, j)
  BY DEF AddrSpec
<1>2. RunOf(Free, a, c) /\ RunOf(Free, c + 1, e) /\ c <= N /\ value[c] = "@"
  BY <1>1, PartsAre
<1>3. RunOf(Free, i, a) /\ RunOf(Free, e, j)
  BY <1>1, GapsFree
<1>4. RunOf(Free, i, c) /\ RunOf(Free, c + 1, j)
  BY <1>2, <1>3, RunJoin
<1>5. value[c] \in Special \cap Marks
  BY <1>2 DEF Special, Marks
<1>6. /\ i <= c /\ c < j /\ Top(i) /\ Top(j)
      /\ \A d \in Special : d # value[c] => Chars(i, j, d) = {}
  BY <1>2, <1>4, <1>5, OneChar
<1>7. i \in Nat /\ j \in Nat /\ c \in Nat
  <2>1. Top(c)
    BY <1>4 DEF RunOf
  <2> QED
    BY <1>6, <2>1, TopIs
<1>8. i < j
  BY <1>6, <1>7
<1> QED
  BY <1>2, <1>6, <1>8

(* The marks of an address in brackets. *)
LEMMA BracketMarks ==
    ASSUME Lexable, NEW s, NEW g, NEW p, NEW q, Bracketed(s, g, p, q)
    PROVE  /\ Top(N + 1) /\ Top(s) /\ Top(g) /\ Top(s + 1) /\ Top(g + 1) /\ s + 1 <= g
           /\ Chars(1, N + 1, "<") = {s} /\ Chars(1, N + 1, ">") = {g}
           /\ Chars(1, N + 1, ",") = {} /\ Chars(1, N + 1, ")") = {}
<1>1. /\ RunOf(Words, 1, s) /\ s <= N /\ value[s] = "<"
      /\ AddrSpec(s + 1, g, p, q) /\ g <= N /\ value[g] = ">" /\ RunOf(Signed(Gap), g + 1, N + 1)
  BY DEF Bracketed
<1>2. /\ Top(s + 1) /\ Top(g) /\ s + 1 < g
      /\ \A d \in Special : d # "@" => Chars(s + 1, g, d) = {}
  BY <1>1, AddrMarks
<1>3. Top(s) /\ Top(g + 1) /\ Top(N + 1)
  BY <1>1 DEF RunOf
<1>4. RunOf(Free, 1, s) /\ RunOf(Free, g + 1, N + 1)
  BY <1>1, WordsFree, GapsFree
<1>5. \A d \in Special : Chars(1, s, d) = {} /\ Chars(g + 1, N + 1, d) = {}
  BY <1>4, FreeChars
<1>6. s \in Nat /\ g \in Nat /\ N \in Nat /\ s >= 1 /\ s \in 1..N /\ g \in 1..N /\ s < g
  <2>1. s \in Nat /\ g \in Nat /\ N \in Nat /\ s >= 1 /\ g >= 1
    BY <1>2, <1>3, TopIs
  <2> QED
    BY <1>1, <1>2, <2>1
<1>7. ASSUME NEW d \in Special, d # "@", NEW k \in Chars(1, N + 1, d) PROVE k = s \/ k = g
  <2>1. k \in 1..N /\ Top(k) /\ value[k] = d
    BY DEF Chars
  <2>2. Chars(1, s, d) = {} /\ Chars(s + 1, g, d) = {} /\ Chars(g + 1, N + 1, d) = {}
    BY <1>2, <1>5, <1>7
  <2>3. k \notin Chars(1, s, d) /\ k \notin Chars(s + 1, g, d) /\ k \notin Chars(g + 1, N + 1, d)
    BY <2>2
  <2>4. ~(1 <= k /\ k < s) /\ ~(s + 1 <= k /\ k < g) /\ ~(g + 1 <= k /\ k < N + 1)
    BY <2>1, <2>3 DEF Chars
  <2> QED
    BY <1>6, <2>1, <2>4
<1>8. s \in Chars(1, N + 1, "<") /\ g \in Chars(1, N + 1, ">")
  BY <1>1, <1>2, <1>3, <1>6 DEF Chars
<1>9. {"<", ">", ",", ")"} \subseteq Special
  BY DEF Special
<1>10. \A d : \A k \in Chars(1, N + 1, d) : value[k] = d
  BY DEF Chars
<1>11. Chars(1, N + 1, "<") = {s}
  <2>1. \A k \in Chars(1, N + 1, "<") : k = s
    BY <1>1, <1>7, <1>9, <1>10
  <2> QED
    BY <1>8, <2>1
<1>12. Chars(1, N + 1, ">") = {g}
  <2>1. \A k \in Chars(1, N + 1, ">") : k = g
    BY <1>1, <1>7, <1>9, <1>10
  <2> QED
    BY <1>8, <2>1
<1>13. Chars(1, N + 1, ",") = {}
  BY <1>1, <1>7, <1>9, <1>10
<1>14. Chars(1, N + 1, ")") = {}
  BY <1>1, <1>7, <1>9, <1>10
<1>15. s + 1 <= g
  BY <1>6
<1> QED
  BY <1>2, <1>3, <1>11, <1>12, <1>13, <1>14, <1>15

-----------------------------------------------------------------------------
(* What from_domain makes of a value that folds soundly                     *)

(* The scan ends outside of everything *)
LEMMA ScanEnds ==
    ASSUME Lexable, NEW k, k = WithoutComments(Unfold(value))
    PROVE  /\ k.text = Slice(1, N + 1)
           /\ Top(N + 1) <=> ~(k.quoted \/ k.escaped \/ k.depth # 0)
<1>1. Mode(N + 1) = "top" <=> ~(k.quoted \/ k.escaped \/ k.depth # 0)
  BY LexEnds DEF Lexable
<1>2. Mode(N + 1) = "top" <=> Top(N + 1)
  BY TopEnds
<1> QED
  BY <1>1, <1>2, TextIsSlice

(* Between two places outside of everything there is something in Kept. *)
LEMMA EmptySlice ==
    ASSUME Lexable, NEW x, NEW y, Top(x), Top(y), x <= y
    PROVE  Slice(x, y) = <<>> <=> x = y
<1>1. value \in Seq(FromBytes) /\ x \in Places /\ y \in Places /\ x \in Nat /\ y \in Nat
  BY TopIs
<1>2. /\ Slice(x, y) \in Seq(FromBytes) /\ Len(Slice(x, y)) = Spot(y) - Spot(x)
      /\ Spot(x) \in Nat /\ Spot(y) \in Nat
  BY <1>1, SliceIs
<1>3. Slice(x, y) = <<>> <=> Len(Slice(x, y)) = 0
  BY <1>2, EmptySeq
<1>4. x = y <=> Spot(x) = Spot(y)
  BY TopsRise
<1>5. Spot(y) - Spot(x) = 0 <=> Spot(x) = Spot(y)
  <2>1. PICK a, b : a = Spot(x) /\ b = Spot(y)
    OBVIOUS
  <2>2. b - a = 0 <=> a = b
    BY <1>2, <2>1
  <2> QED
    BY <2>1, <2>2
<1> QED
  BY <1>2, <1>3, <1>4, <1>5

(* Nothing but gaps *)
LEMMA TrimEmpty ==
    ASSUME Lexable, NEW i, NEW j, Top(i), Top(j), i <= j
    PROVE  Trim(Slice(i, j)) = <<>> <=> RunOf(Signed(Gap), i, j)
<1>1. ASSUME Trim(Slice(i, j)) = <<>> PROVE RunOf(Signed(Gap), i, j)
  <2>1. PICK x, y : Trims(i, j, x, y)
    BY TrimsExist
  <2>2. RunOf(Signed(Gap), i, x) /\ RunOf(Signed(Gap), y, j) /\ x <= y
    BY <2>1 DEF Trims
  <2>3. Top(x) /\ Top(y)
    BY <2>2 DEF RunOf
  <2>4. Slice(x, y) = <<>>
    BY <1>1, <2>1, TrimIs
  <2>5. x = y
    BY <2>2, <2>3, <2>4, EmptySlice
  <2> QED
    BY <2>2, <2>5, RunJoin
<1>2. ASSUME RunOf(Signed(Gap), i, j) PROVE Trim(Slice(i, j)) = <<>>
  <2>1. j \in Nat /\ j <= j /\ RunOf(Signed(Gap), j, j)
    BY TopIs, RunNone
  <2>2. Trims(i, j, j, j)
    BY <1>2, <2>1 DEF Trims
  <2>3. Trim(Slice(i, j)) = Slice(j, j)
    BY <2>2, TrimIs
  <2>4. Slice(j, j) = <<>>
    BY <2>1, EmptySlice
  <2> QED
    BY <2>3, <2>4
<1> QED
  BY <1>1, <1>2

(* A slice is not taken for the refusal. *)
LEMMA SliceNotRefused ==
    ASSUME Lexable, NEW x, NEW y, Top(x), Top(y), x <= y
    PROVE  Slice(x, y) # Refused
<1>1. value \in Seq(FromBytes) /\ x \in Places /\ y \in Places
  BY TopIs
<1>2. Slice(x, y) \in Seq(FromBytes)
  BY <1>1, SliceIs
<1> QED
  BY <1>2, NotRefused

(* Nor is a trimmed one. *)
LEMMA TrimNotRefused ==
    ASSUME Lexable, NEW i, NEW j, Top(i), Top(j), i <= j
    PROVE  Trim(Slice(i, j)) # Refused
<1>1. PICK x, y : Trims(i, j, x, y)
  BY TrimsExist
<1>2. x <= y /\ Top(x) /\ Top(y)
  BY <1>1 DEF Trims, RunOf
<1>3. Trim(Slice(i, j)) = Slice(x, y)
  BY <1>1, TrimIs
<1> QED
  BY <1>2, <1>3, SliceNotRefused

(* Gaps belong to a display name too. *)
LEMMA GapsAreWords ==
    ASSUME Lexable, NEW i, NEW j, RunOf(Signed(Gap), i, j)
    PROVE  RunOf(Words, i, j)
<1>1. Signed(Gap) \subseteq Words
  BY DEF Signed, Words
<1> QED
  BY <1>1, RunWider

(* A display name may begin with gaps. *)
LEMMA WordsAround ==
    ASSUME Lexable, NEW i, NEW x, NEW k, RunOf(Signed(Gap), i, x), Top(k), x <= k
    PROVE  RunOf(Words, i, k) <=> RunOf(Words, x, k)
<1>1. RunOf(Words, i, x) /\ Top(i) /\ Top(x) /\ i <= x
  BY GapsAreWords DEF RunOf
<1>2. RunOf(Words, x, k) => RunOf(Words, i, k)
  BY <1>1, RunJoin
<1>3. k \in Nat /\ k <= k
  BY TopIs
<1>4. RunOf(Words, i, k) => RunOf(Words, x, k)
  BY <1>1, <1>3, RunWithin
<1> QED
  BY <1>2, <1>4

(* Gaps may go on with gaps. *)
LEMMA GapsAround ==
    ASSUME Lexable, NEW k, NEW y, NEW j, RunOf(Signed(Gap), y, j), Top(k), k <= y
    PROVE  RunOf(Signed(Gap), k, j) <=> RunOf(Signed(Gap), k, y)
<1>1. Top(y) /\ Top(j) /\ y <= j
  BY DEF RunOf
<1>2. RunOf(Signed(Gap), k, y) => RunOf(Signed(Gap), k, j)
  BY RunJoin
<1>3. k \in Nat /\ k <= k
  BY TopIs
<1>4. RunOf(Signed(Gap), k, j) => RunOf(Signed(Gap), k, y)
  BY <1>1, <1>3, RunWithin
<1> QED
  BY <1>2, <1>4

(* The text between two marks *)
LEMMA BetweenMarks ==
    ASSUME Lexable, NEW x, NEW y, Top(x), Top(y), x <= y,
           NEW s, Chars(x, y, "<") = {s}, NEW g, Chars(x, y, ">") = {g}
    PROVE  LET t == Slice(x, y)
               S == Max(Plain(t, "<"))
               G == Max(Plain(t, ">"))
           IN  /\ S < G <=> s < g
               /\ s < g => SubSeq(t, S + 1, G - 1) = Slice(s + 1, g)
<1>1. "<" \in Marks /\ ">" \in Marks
  BY DEF Marks
<1>2. PICK t, S, G : t = Slice(x, y) /\ S = Max(Plain(t, "<")) /\ G = Max(Plain(t, ">"))
  OBVIOUS
<1>3. /\ S = Spot(s) - Spot(x) + 1 /\ S + 1 = Spot(s + 1) - Spot(x) + 1
      /\ Top(s) /\ Top(s + 1) /\ x <= s /\ s \in 1..N
  BY <1>1, <1>2, MarkSplits
<1>4. G = Spot(g) - Spot(x) + 1 /\ G - 1 = Spot(g) - Spot(x) /\ Top(g) /\ g + 1 <= y /\ g \in 1..N
  BY <1>1, <1>2, MarkSplits
<1>5. PICK a, b, c : a = Spot(x) /\ b = Spot(s) /\ c = Spot(g)
  OBVIOUS
<1>6. a \in Nat /\ b \in Nat /\ c \in Nat
  BY <1>3, <1>4, <1>5, TopIs
<1>7. S < G <=> b < c
  BY <1>3, <1>4, <1>5, <1>6
<1>8. s < g <=> b < c
  BY <1>3, <1>4, <1>5, TopsRise
<1>9. ASSUME s < g PROVE SubSeq(t, S + 1, G - 1) = Slice(s + 1, g)
  <2>1. PICK n : n = s + 1
    OBVIOUS
  <2>2. /\ n \in Places /\ g \in Places /\ x \in Places /\ y \in Places /\ value \in Seq(FromBytes)
        /\ n \in Nat /\ g \in Nat /\ x \in Nat /\ y \in Nat /\ s \in Nat
    BY <1>3, <1>4, <2>1, TopIs
  <2>3. x <= n /\ n <= g /\ g <= y
    BY <1>3, <1>4, <1>9, <2>1, <2>2
  <2>4. SubSeq(Slice(x, y), Spot(n) - Spot(x) + 1, Spot(g) - Spot(x)) = Slice(n, g)
    BY <2>2, <2>3, SubSlice
  <2> QED
    BY <1>2, <1>3, <1>4, <2>1, <2>4
<1> QED
  BY <1>2, <1>7, <1>8, <1>9

-----------------------------------------------------------------------------
(* The address of the text                                                  *)

LEMMA AddressFound ==
    ASSUME Lexable, NEW x, NEW y, Trims(1, N + 1, x, y)
    PROVE  LET a == Address(Slice(x, y))
               open == Chars(1, N + 1, "<")
               close == Chars(1, N + 1, ">")
           IN  /\ open = {} /\ close = {} => a = Slice(x, y)
               /\ \A s, g : open = {s} /\ close = {g} /\ s < g =>
                     a = IF RunOf(Words, 1, s) /\ RunOf(Signed(Gap), g + 1, N + 1)
                         THEN Trim(Slice(s + 1, g)) ELSE Refused
               /\ a # Refused => \/ open = {} /\ close = {}
                                 \/ \E s, g : open = {s} /\ close = {g} /\ s < g
<1>1. RunOf(Signed(Gap), 1, x) /\ RunOf(Signed(Gap), y, N + 1) /\ x <= y
  BY DEF Trims
<1>2. Top(x) /\ Top(y)
  BY <1>1 DEF RunOf
<1>3. Chars(1, N + 1, "<") = Chars(x, y, "<") /\ Chars(1, N + 1, ">") = Chars(x, y, ">")
  <2>1. "<" \in Special /\ ">" \in Special
    BY DEF Special
  <2> QED
    BY <2>1, MarkKept
<1>m. "<" \in Marks /\ ">" \in Marks
  BY DEF Marks
<1>4. PICK t, open, close, S, G :
         /\ t = Slice(x, y) /\ open = Plain(t, "<") /\ close = Plain(t, ">")
         /\ S = Max(open) /\ G = Max(close)
  OBVIOUS
<1>5. Address(t) =
         IF open = {} /\ close = {} THEN t
         ELSE IF /\ Cardinality(open) = 1 /\ Cardinality(close) = 1 /\ S < G
                 /\ DisplayName(SubSeq(t, 1, S - 1))
                 /\ Trim(SubSeq(t, G + 1, Len(t))) = <<>>
              THEN Trim(SubSeq(t, S + 1, G - 1))
              ELSE Refused
  BY <1>4, Addressed
<1>6. (open = {} <=> Chars(x, y, "<") = {}) /\ (close = {} <=> Chars(x, y, ">") = {})
  BY <1>1, <1>2, <1>4, <1>m, PlainNone
<1>7. ASSUME NEW s, NEW g, Chars(x, y, "<") = {s}, Chars(x, y, ">") = {g}
      PROVE  /\ Cardinality(open) = 1 /\ Cardinality(close) = 1 /\ (S < G <=> s < g)
             /\ DisplayName(SubSeq(t, 1, S - 1)) <=> RunOf(Words, 1, s)
             /\ Trim(SubSeq(t, G + 1, Len(t))) = <<>> <=> RunOf(Signed(Gap), g + 1, N + 1)
             /\ s < g => SubSeq(t, S + 1, G - 1) = Slice(s + 1, g)
  <2>1. /\ Cardinality(open) = 1 /\ Top(s) /\ x <= s /\ SubSeq(t, 1, S - 1) = Slice(x, s)
    BY <1>1, <1>2, <1>4, <1>7, <1>m, MarkSplits
  <2>2. /\ Cardinality(close) = 1 /\ Top(g + 1) /\ g + 1 <= y /\ SubSeq(t, G + 1, Len(t)) = Slice(g + 1, y)
    BY <1>1, <1>2, <1>4, <1>7, <1>m, MarkSplits
  <2>3. (S < G <=> s < g) /\ (s < g => SubSeq(t, S + 1, G - 1) = Slice(s + 1, g))
    BY <1>1, <1>2, <1>4, <1>7, BetweenMarks
  <2>4. DisplayName(SubSeq(t, 1, S - 1)) <=> RunOf(Words, x, s)
    BY <1>2, <2>1, DisplayIs
  <2>5. RunOf(Words, x, s) <=> RunOf(Words, 1, s)
    BY <1>1, <2>1, WordsAround
  <2>6. Trim(SubSeq(t, G + 1, Len(t))) = <<>> <=> RunOf(Signed(Gap), g + 1, y)
    BY <1>2, <2>2, TrimEmpty
  <2>7. RunOf(Signed(Gap), g + 1, y) <=> RunOf(Signed(Gap), g + 1, N + 1)
    BY <1>1, <2>2, GapsAround
  <2> QED
    BY <2>1, <2>2, <2>3, <2>4, <2>5, <2>6, <2>7
<1>8. ASSUME Cardinality(open) = 1, Cardinality(close) = 1
      PROVE  \E s, g : Chars(x, y, "<") = {s} /\ Chars(x, y, ">") = {g}
  <2>1. Cardinality(Plain(Slice(x, y), "<")) = 1 /\ Cardinality(Plain(Slice(x, y), ">")) = 1
    BY <1>4, <1>8
  <2>2. \E s : Chars(x, y, "<") = {s}
    BY <1>1, <1>2, <1>m, <2>1, PlainOne
  <2>3. \E g : Chars(x, y, ">") = {g}
    BY <1>1, <1>2, <1>m, <2>1, PlainOne
  <2> QED
    BY <2>2, <2>3
<1>9. Chars(x, y, "<") = {} /\ Chars(x, y, ">") = {} => Address(t) = t
  BY <1>5, <1>6
<1>10. ASSUME NEW s, NEW g, Chars(x, y, "<") = {s}, Chars(x, y, ">") = {g}, s < g
       PROVE  Address(t) = IF RunOf(Words, 1, s) /\ RunOf(Signed(Gap), g + 1, N + 1)
                           THEN Trim(Slice(s + 1, g)) ELSE Refused
  <2>1. open # {}
    BY <1>6, <1>10
  <2>2. Cardinality(open) = 1 /\ Cardinality(close) = 1 /\ S < G
        /\ SubSeq(t, S + 1, G - 1) = Slice(s + 1, g)
    BY <1>7, <1>10
  <2>3. /\ DisplayName(SubSeq(t, 1, S - 1)) <=> RunOf(Words, 1, s)
        /\ Trim(SubSeq(t, G + 1, Len(t))) = <<>> <=> RunOf(Signed(Gap), g + 1, N + 1)
    BY <1>7, <1>10
  <2>4. Address(t) = IF /\ DisplayName(SubSeq(t, 1, S - 1)) /\ Trim(SubSeq(t, G + 1, Len(t))) = <<>>
                     THEN Trim(Slice(s + 1, g)) ELSE Refused
    BY <1>5, <2>1, <2>2
  <2> QED
    BY <2>3, <2>4
<1>11. ASSUME Address(t) # Refused, ~(open = {} /\ close = {})
       PROVE  \E s, g : Chars(x, y, "<") = {s} /\ Chars(x, y, ">") = {g} /\ s < g
  <2>1. Cardinality(open) = 1 /\ Cardinality(close) = 1 /\ S < G
    BY <1>5, <1>11
  <2>2. PICK s, g : Chars(x, y, "<") = {s} /\ Chars(x, y, ">") = {g}
    BY <1>8, <2>1
  <2> QED
    BY <1>7, <2>1, <2>2
<1> QED
  BY <1>3, <1>4, <1>6, <1>9, <1>10, <1>11

(* from_domain finds the domain of every mailbox. *)
LEMMA FindsMailbox ==
    ASSUME Lexable, NEW p, NEW q, Mailbox(p, q)
    PROVE  DomainOf(value) = Found(p, q)
<1>1. Top(N + 1) /\ Chars(1, N + 1, ",") = {} /\ Chars(1, N + 1, ")") = {}
  <2>1. CASE AddrSpec(1, N + 1, p, q)
    BY <2>1, AddrMarks DEF Special
  <2>2. CASE \E s, g : Bracketed(s, g, p, q)
    BY <2>2, BracketMarks
  <2> QED
    BY <2>1, <2>2 DEF Mailbox
<1>2. Top(1) /\ 1 <= N + 1
  BY TopEnds
<1>3. PICK x, y : Trims(1, N + 1, x, y)
  BY <1>1, <1>2, TrimsExist
<1>4. PICK k, t, a : k = WithoutComments(Unfold(value)) /\ t = Trim(k.text) /\ a = Address(t)
  OBVIOUS
<1>5. k.text = Slice(1, N + 1) /\ ~(k.quoted \/ k.escaped \/ k.depth # 0)
  BY <1>1, <1>4, ScanEnds
<1>6. ~k.stray
  BY <1>1, <1>4, NoStray
<1>7. t = Slice(x, y)
  BY <1>3, <1>4, <1>5, TrimIs
<1>8. Top(x) /\ Top(y) /\ x <= y
  BY <1>3 DEF Trims, RunOf
<1>9. Plain(t, ",") = {}
  <2>1. "," \in Special /\ "," \in Marks
    BY DEF Special, Marks
  <2>2. Chars(x, y, ",") = {}
    <3>1. PICK d : d = ","
      OBVIOUS
    <3>2. d \in Special
      BY <2>1, <3>1
    <3>3. Chars(x, y, d) = Chars(1, N + 1, d)
      BY <1>3, <3>2, MarkKept
    <3> QED
      BY <1>1, <3>1, <3>3
  <2> QED
    BY <1>7, <1>8, <2>1, <2>2, PlainNone
<1>10. DomainOf(value) = IF a = Refused THEN Refused ELSE DomainOfAddress(a)
  <2>1. Foldable(value)
    BY DEF Lexable
  <2>2. DomainOf(value) =
           IF k.stray \/ k.quoted \/ k.escaped \/ k.depth # 0 \/ Plain(t, ",") # {} THEN Refused
           ELSE IF a = Refused THEN Refused ELSE DomainOfAddress(a)
    BY <1>4, <2>1, Decides
  <2> QED
    BY <1>5, <1>6, <1>9, <2>2
<1>11. CASE AddrSpec(1, N + 1, p, q)
  <2>1. Chars(1, N + 1, "<") = {} /\ Chars(1, N + 1, ">") = {}
    BY <1>11, AddrMarks DEF Special
  <2>2. a = Slice(x, y)
    <3>1. Address(Slice(x, y)) = Slice(x, y)
      BY <1>3, <2>1, AddressFound
    <3> QED
      BY <1>4, <1>7, <3>1
  <2>3. a # Refused /\ a = Trim(Slice(1, N + 1))
    <3>1. Slice(x, y) # Refused
      BY <1>8, SliceNotRefused
    <3>2. t = Trim(Slice(1, N + 1))
      BY <1>4, <1>5
    <3> QED
      BY <1>7, <2>2, <3>1, <3>2
  <2>4. DomainOfAddress(Trim(Slice(1, N + 1))) = Found(p, q)
    <3>1. PICK n : n = N + 1
      OBVIOUS
    <3>2. Top(1) /\ Top(n) /\ 1 <= n /\ AddrSpec(1, n, p, q)
      BY <1>1, <1>2, <1>11, <3>1
    <3>3. DomainOfAddress(Trim(Slice(1, n))) = Found(p, q)
      BY <3>2, AddressIs
    <3> QED
      BY <3>1, <3>3
  <2> QED
    BY <1>10, <2>3, <2>4
<1>12. ASSUME NEW s, NEW g, Bracketed(s, g, p, q) PROVE DomainOf(value) = Found(p, q)
  <2>1. /\ Top(s) /\ Top(g) /\ Top(s + 1) /\ s + 1 <= g
        /\ Chars(1, N + 1, "<") = {s} /\ Chars(1, N + 1, ">") = {g}
    BY <1>12, BracketMarks
  <2>2. RunOf(Words, 1, s) /\ RunOf(Signed(Gap), g + 1, N + 1) /\ AddrSpec(s + 1, g, p, q)
    BY <1>12 DEF Bracketed
  <2>3. s < g
    <3>1. s \in Nat /\ g \in Nat
      BY <2>1, TopIs
    <3> QED
      BY <2>1, <3>1
  <2>4. a = Trim(Slice(s + 1, g))
    <3>1. Address(Slice(x, y)) = IF RunOf(Words, 1, s) /\ RunOf(Signed(Gap), g + 1, N + 1)
                                 THEN Trim(Slice(s + 1, g)) ELSE Refused
      BY <1>3, <2>1, <2>3, AddressFound
    <3> QED
      BY <1>4, <1>7, <2>2, <3>1
  <2>5. a # Refused
    BY <2>1, <2>4, TrimNotRefused
  <2>6. DomainOfAddress(a) = Found(p, q)
    BY <2>1, <2>2, <2>4, AddressIs
  <2> QED
    BY <1>10, <2>5, <2>6
<1> QED
  BY <1>11, <1>12 DEF Mailbox

(* What from_domain finds is the domain of a mailbox. *)
LEMMA MailboxFound ==
    ASSUME Lexable, DomainOf(value) # Refused
    PROVE  \E p, q : Mailbox(p, q) /\ DomainOf(value) = Found(p, q)
<1>1. PICK k, t, a : k = WithoutComments(Unfold(value)) /\ t = Trim(k.text) /\ a = Address(t)
  OBVIOUS
<1>2. DomainOf(value) =
           IF k.stray \/ k.quoted \/ k.escaped \/ k.depth # 0 \/ Plain(t, ",") # {} THEN Refused
           ELSE IF a = Refused THEN Refused ELSE DomainOfAddress(a)
  <2>1. Foldable(value)
    BY DEF Lexable
  <2> QED
    BY <1>1, <2>1, Decides
<1>3. /\ ~(k.quoted \/ k.escaped \/ k.depth # 0)
      /\ a # Refused /\ DomainOf(value) = DomainOfAddress(a)
  BY <1>2
<1>4. Top(N + 1) /\ k.text = Slice(1, N + 1)
  BY <1>1, <1>3, ScanEnds
<1>5. Top(1) /\ 1 <= N + 1
  BY TopEnds
<1>6. PICK x, y : Trims(1, N + 1, x, y)
  BY <1>4, <1>5, TrimsExist
<1>7. t = Slice(x, y) /\ t = Trim(Slice(1, N + 1))
  BY <1>1, <1>4, <1>6, TrimIs
<1>8. CASE Chars(1, N + 1, "<") = {} /\ Chars(1, N + 1, ">") = {}
  <2>1. a = Slice(x, y)
    BY <1>1, <1>6, <1>7, <1>8, AddressFound
  <2>2. DomainOfAddress(Trim(Slice(1, N + 1))) # Refused
    BY <1>2, <1>3, <1>7, <2>1
  <2>3. PICK p, q : /\ AddrSpec(1, N + 1, p, q)
                    /\ DomainOfAddress(Trim(Slice(1, N + 1))) = Found(p, q)
    BY <1>4, <1>5, <2>2, AddressIs
  <2>4. DomainOf(value) = Found(p, q)
    BY <1>3, <1>7, <2>1, <2>3
  <2> QED
    BY <2>3, <2>4 DEF Mailbox
<1>9. ASSUME NEW s, NEW g, Chars(1, N + 1, "<") = {s}, Chars(1, N + 1, ">") = {g}, s < g
      PROVE  \E p, q : Mailbox(p, q) /\ DomainOf(value) = Found(p, q)
  <2>1. a = IF RunOf(Words, 1, s) /\ RunOf(Signed(Gap), g + 1, N + 1)
            THEN Trim(Slice(s + 1, g)) ELSE Refused
    <3>1. Address(Slice(x, y)) = IF RunOf(Words, 1, s) /\ RunOf(Signed(Gap), g + 1, N + 1)
                                 THEN Trim(Slice(s + 1, g)) ELSE Refused
      BY <1>6, <1>9, AddressFound
    <3> QED
      BY <1>1, <1>7, <3>1
  <2>2. RunOf(Words, 1, s) /\ RunOf(Signed(Gap), g + 1, N + 1) /\ a = Trim(Slice(s + 1, g))
    BY <1>3, <2>1
  <2>3. /\ s \in 1..N /\ g \in 1..N /\ Top(s) /\ Top(g) /\ value[s] = "<" /\ value[g] = ">"
    BY <1>9 DEF Chars
  <2>4. N \in Nat /\ s <= N /\ g <= N /\ s + 1 <= g
    BY <1>4, <1>9, <2>3, TopIs
  <2>5. Top(s + 1)
    <3>1. value[s] \in Marks
      BY <2>3 DEF Marks
    <3> QED
      BY <2>3, <2>4, <3>1, MarkIs
  <2>6. DomainOfAddress(Trim(Slice(s + 1, g))) # Refused
    BY <1>2, <1>3, <2>2
  <2>7. PICK p, q : /\ AddrSpec(s + 1, g, p, q)
                    /\ DomainOfAddress(Trim(Slice(s + 1, g))) = Found(p, q)
    BY <2>3, <2>4, <2>5, <2>6, AddressIs
  <2>8. Bracketed(s, g, p, q)
    BY <2>2, <2>3, <2>4, <2>7 DEF Bracketed
  <2>9. DomainOf(value) = Found(p, q)
    BY <1>3, <2>2, <2>7
  <2> QED
    BY <2>8, <2>9 DEF Mailbox
<1>10. \/ Chars(1, N + 1, "<") = {} /\ Chars(1, N + 1, ">") = {}
       \/ \E s, g : Chars(1, N + 1, "<") = {s} /\ Chars(1, N + 1, ">") = {g} /\ s < g
  BY <1>1, <1>3, <1>6, <1>7, AddressFound
<1> QED
  BY <1>8, <1>9, <1>10

-----------------------------------------------------------------------------
(* The tables of the grammar                                                *)

LocalTable == Or(Quoted(WSP), DotAtomTable)
AtTable == Then(Byte({"@"}), GapsTable)
TailTable == Then(GapsTable, AtTable)
MidTable == Then(LocalTable, TailTable)
ToDomain == Then(GapsTable, MidTable)
AfterDomain == Then(Many(Byte({"."})), GapsTable)
LessTable == Then(Byte({"<"}), ToDomain)
OpenTable == Then(PhraseTable, LessTable)
GreaterTable == Then(Byte({">"}), GapsTable)
CloseTable == Then(AfterDomain, GreaterTable)

(* The tables of the grammar cover parts that unfold. *)
LEMMA GoodParts ==
    ASSUME value \in Seq(FromBytes)
    PROVE  /\ Good(GapsTable) /\ Good(PhraseTable) /\ Good(LocalTable) /\ Good(DotAtomTable)
           /\ Good(Quoted(WSP))
           /\ Good(Many(Byte({"."}))) /\ Good(DomainTable)
           /\ \A c \in Marks : Good(Byte({c}))
<1>1. /\ {SP} \subseteq WSP /\ WSP \subseteq WSP
      /\ AtomBytes \cup {"."} \subseteq Printable /\ {"."} \subseteq Printable
      /\ \A c \in Marks : {c} \subseteq Printable
  BY DEF AtomBytes, Printable, WSP, Marks
<1>2. /\ Good(Space(WSP)) /\ Moves(Space(WSP)) /\ Good(Comment) /\ Moves(Comment)
      /\ Good(Quoted(WSP)) /\ Good(Quoted({SP})) /\ Moves(Quoted({SP}))
  BY <1>1, GoodSpace, GoodComment, GoodQuoted
<1>3. PICK S : S = AtomBytes \cup {"."}
  OBVIOUS
<1>4. Good(Byte(S)) /\ Moves(Byte(S))
  BY <1>1, <1>3, GoodByte
<1>5. Good(GapsTable)
  <2>1. Good(Or(Space(WSP), Comment)) /\ Moves(Or(Space(WSP), Comment))
    BY <1>2, GoodOr
  <2> QED
    BY <2>1, GoodMany DEF GapsTable
<1>6. Good(PhraseTable)
  <2>1. PICK C : C = Or(Comment, Quoted({SP}))
    OBVIOUS
  <2>2. Good(C) /\ Moves(C)
    BY <1>2, <2>1, GoodOr
  <2>3. PICK D : D = Or(Space(WSP), C)
    OBVIOUS
  <2>4. Good(D) /\ Moves(D)
    BY <1>2, <2>2, <2>3, GoodOr
  <2>5. PICK A : A = Or(Byte(S), D)
    OBVIOUS
  <2>6. Good(A) /\ Moves(A)
    BY <1>4, <2>4, <2>5, GoodOr
  <2>7. PhraseTable = Many(A)
    BY <1>3, <2>1, <2>3, <2>5 DEF PhraseTable
  <2> QED
    BY <2>6, <2>7, GoodMany
<1>7. Good(DotAtomTable) /\ Good(DomainTable)
  BY DotAtomIs, DomainIs
<1>8. Good(LocalTable)
  BY <1>2, <1>7, GoodOr DEF LocalTable
<1>9. Good(Many(Byte({"."})))
  BY <1>1, ManyLetters
<1> QED
  BY <1>1, <1>2, <1>5, <1>6, <1>7, <1>8, <1>9, GoodByte

(* So do those built from them. *)
LEMMA GoodTables ==
    ASSUME value \in Seq(FromBytes)
    PROVE  /\ Good(AtTable) /\ Good(TailTable) /\ Good(MidTable) /\ Good(ToDomain) /\ Good(AfterDomain)
           /\ Good(LessTable) /\ Good(OpenTable) /\ Good(GreaterTable) /\ Good(CloseTable)
<1>1. /\ Good(GapsTable) /\ Good(PhraseTable) /\ Good(LocalTable)
      /\ Good(Many(Byte({"."}))) /\ Good(Byte({"@"})) /\ Good(Byte({"<"})) /\ Good(Byte({">"}))
  <2>1. "@" \in Marks /\ "<" \in Marks /\ ">" \in Marks
    BY DEF Marks
  <2> QED
    BY <2>1, GoodParts
<1>2. Good(AtTable)
  BY <1>1, GoodThen DEF AtTable
<1>3. Good(TailTable)
  BY <1>1, <1>2, GoodThen DEF TailTable
<1>4. Good(MidTable)
  BY <1>1, <1>3, GoodThen DEF MidTable
<1>5. Good(ToDomain)
  BY <1>1, <1>4, GoodThen DEF ToDomain
<1>6. Good(AfterDomain)
  BY <1>1, GoodThen DEF AfterDomain
<1>7. Good(LessTable)
  BY <1>1, <1>5, GoodThen DEF LessTable
<1>8. Good(OpenTable)
  BY <1>1, <1>7, GoodThen DEF OpenTable
<1>9. Good(GreaterTable)
  BY <1>1, GoodThen DEF GreaterTable
<1>10. Good(CloseTable)
  BY <1>6, <1>9, GoodThen DEF CloseTable
<1> QED
  BY <1>2, <1>3, <1>4, <1>5, <1>6, <1>7, <1>8, <1>9, <1>10

(* A mailbox in the tables *)
Tabulated(A, p, q, B) ==
    p \in Places /\ q \in Places /\ p \in A[1] /\ q \in DomainTable[p] /\ Len(value) + 1 \in B[q]
MailboxesFrom(A, B) ==
    {SubSeq(value, m[1], m[2] - 1) :
        m \in {o \in Places \X Places : /\ o[1] \in A[1]
                                        /\ o[2] \in DomainTable[o[1]]
                                        /\ Len(value) + 1 \in B[o[2]]}}

(* Mailboxes, by its tables. *)
LEMMA MailboxesAre ==
    /\ Mailboxes = MailboxesFrom(ToDomain, AfterDomain) \cup MailboxesFrom(OpenTable, CloseTable)
<1> QED
  BY DEF Mailboxes, MailboxesFrom, ToDomain, AfterDomain, OpenTable, CloseTable, LessTable, GreaterTable,
         MidTable, TailTable, AtTable, LocalTable, GapsTable, PhraseTable, DomainTable,
         DotAtomTable, AtomTable

(* The members of a set of mailboxes. *)
LEMMA FromTables ==
    ASSUME NEW A, NEW B, NEW x
    PROVE  x \in MailboxesFrom(A, B) <=> \E p, q : Tabulated(A, p, q, B) /\ x = SubSeq(value, p, q - 1)
<1>1. ASSUME x \in MailboxesFrom(A, B)
      PROVE  \E p, q : Tabulated(A, p, q, B) /\ x = SubSeq(value, p, q - 1)
  <2>1. PICK m \in Places \X Places : /\ m[1] \in A[1] /\ m[2] \in DomainTable[m[1]]
                                      /\ Len(value) + 1 \in B[m[2]]
                                      /\ x = SubSeq(value, m[1], m[2] - 1)
    BY <1>1 DEF MailboxesFrom
  <2>2. Tabulated(A, m[1], m[2], B)
    BY <2>1 DEF Tabulated
  <2> QED
    BY <2>1, <2>2
<1>2. ASSUME NEW p, NEW q, Tabulated(A, p, q, B), x = SubSeq(value, p, q - 1)
      PROVE  x \in MailboxesFrom(A, B)
  <2>1. <<p, q>> \in Places \X Places
    BY <1>2 DEF Tabulated
  <2>2. <<p, q>>[1] = p /\ <<p, q>>[2] = q
    OBVIOUS
  <2> QED
    BY <1>2, <2>1, <2>2 DEF Tabulated, MailboxesFrom
<1> QED
  BY <1>1, <1>2

(* A value that has a mailbox folds soundly. *)
LEMMA TabulatedFolds ==
    ASSUME value \in Seq(FromBytes), NEW A, NEW B, Good(A), Good(B), NEW p, NEW q, Tabulated(A, p, q, B)
    PROVE  Foldable(value)
<1>1. N \in Nat /\ Places = 1..(N + 1) /\ DOMAIN value = 1..N /\ 1 \in Places /\ N + 1 \in Places
  BY PlacesAre, LenProperties DEF N
<1>2. p \in Places /\ q \in Places /\ p \in A[1] /\ q \in DomainTable[p] /\ N + 1 \in B[q]
  BY DEF Tabulated, N
<1>3. Clean(1, p) /\ Clean(q, N + 1)
  BY <1>1, <1>2 DEF Good
<1>4. Clean(p, q)
  BY <1>2, GoodParts DEF Good
<1>5. Clean(1, N + 1)
  <2>1. p \in Nat /\ q \in Nat /\ 1 \in Nat /\ N + 1 \in Nat
    BY <1>1, <1>2
  <2>2. Clean(1, q)
    BY <1>3, <1>4, <2>1, CleanJoins
  <2> QED
    BY <1>3, <2>1, <2>2, CleanJoins
<1>6. \A m \in 1..N : /\ value[m] # "ctl"
                      /\ value[m] = CR => m + 2 <= N /\ value[m + 1] = LF /\ value[m + 2] \in WSP
                      /\ value[m] = LF => m > 1 /\ value[m - 1] = CR
  <2> SUFFICES ASSUME NEW m \in 1..N
               PROVE  /\ value[m] # "ctl"
                      /\ value[m] = CR => m + 2 <= N /\ value[m + 1] = LF /\ value[m + 2] \in WSP
                      /\ value[m] = LF => m > 1 /\ value[m - 1] = CR
    OBVIOUS
  <2>1. m \in 1..((N + 1) - 1) /\ (m + 2 < N + 1 => m + 2 <= N)
    BY <1>1
  <2> QED
    BY <1>5, <2>1 DEF Clean
<1> QED
  BY <1>1, <1>6 DEF Foldable, N

-----------------------------------------------------------------------------
(* What the tables tell of a value that folds soundly                       *)

LEMMA LocalTableIs ==
    ASSUME Lexable, NEW i, Top(i), NEW j \in Places
    PROVE  j \in LocalTable[i] <=> Local(i, j)
<1>1. value \in Seq(FromBytes) /\ i \in Places /\ N \in Nat
  BY TopIs
<1>2. Good(Quoted(WSP)) /\ Good(DotAtomTable)
  BY <1>1, GoodParts
<1>3. j \in LocalTable[i] <=> j \in Quoted(WSP)[i] \/ j \in DotAtomTable[i]
  BY <1>1, <1>2, OrIs DEF Good, LocalTable
<1>4. j \in DotAtomTable[i] <=> DotAtom(i, j)
  BY <1>1, DotAtomIs
<1>5. j \in Quoted(WSP)[i] <=> Follows(i, j) /\ Sign(i) = Quote
  <2>1. j \in Quoted(WSP)[i] <=> i \in Signed({Quote}) /\ Follows(i, j) /\ Tabless(i, j, WSP)
    BY QuotedFollows
  <2>2. Tabless(i, j, WSP)
    <3>1. SUFFICES ASSUME NEW m \in Places, Whole(m), m < j PROVE Sign(m) \in Printable \cup WSP
      BY DEF Tabless
    <3>2. m <= N
      <4>1. Places = 1..(N + 1)
        BY TopIs
      <4> QED
        BY <1>1, <3>1, <4>1
    <3> QED
      BY <3>1, <3>2, ItemFacts DEF Itemized
  <2>3. Follows(i, j) => i <= N
    BY TokenIs
  <2> QED
    BY <1>1, <2>1, <2>2, <2>3 DEF Signed
<1> QED
  BY <1>3, <1>4, <1>5 DEF Local

(* One mark, and gaps after it *)
LEMMA MarkThen ==
    ASSUME Lexable, NEW i, Top(i), NEW c \in Marks, NEW A, Good(A), NEW j \in Places
    PROVE  j \in Then(Byte({c}), A)[i] <=> i <= N /\ value[i] = c /\ j \in A[i + 1]
<1>1. value \in Seq(FromBytes) /\ i \in Places /\ N \in Nat /\ Places = 1..(N + 1)
  BY TopIs
<1>2. Good(Byte({c}))
  BY <1>1, GoodParts
<1>3. j \in Then(Byte({c}), A)[i] <=> \E k \in Places : k \in Byte({c})[i] /\ j \in A[k]
  <2>1. PICK B : B = Byte({c})
    OBVIOUS
  <2>2. A \in Tables /\ B \in Tables
    BY <1>2, <2>1 DEF Good
  <2>3. j \in Then(B, A)[i] <=> \E k \in Places : k \in B[i] /\ j \in A[k]
    BY <1>1, <2>2, ThenIs
  <2> QED
    BY <2>1, <2>3
<1>4. \A k \in Places : k \in Byte({c})[i] <=> i <= N /\ value[i] = c /\ k = i + 1
  <2>1. \A S : \A k \in Places : k \in Byte(S)[i] <=> i <= N /\ value[i] \in S /\ k = i + 1
    BY <1>1, ByteIs
  <2>2. value[i] \in {c} <=> value[i] = c
    OBVIOUS
  <2> QED
    BY <2>1, <2>2
<1>5. i <= N => i + 1 \in Places
  BY <1>1
<1> QED
  BY <1>3, <1>4, <1>5

(* What leads to the domain *)
Leads(i, p) ==
    \E a, b, c : /\ RunOf(Signed(Gap), i, a) /\ Local(a, b) /\ RunOf(Signed(Gap), b, c)
                 /\ c <= N /\ value[c] = "@" /\ RunOf(Signed(Gap), c + 1, p)

(* What ends an address *)
Trails(q, j) == \E e : Letters({"."}, q, e) /\ RunOf(Signed(Gap), e, j)

(* The ends of a run. *)
LEMMA RunPlaces ==
    ASSUME Lexable, NEW F, NEW i, NEW j, RunOf(F, i, j)
    PROVE  i \in Places /\ j \in Places /\ Top(i) /\ Top(j)
  BY TopIs DEF RunOf

(* The table up to the domain. *)
LEMMA ToDomainIs ==
    ASSUME Lexable, NEW i, Top(i), NEW p \in Places
    PROVE  p \in ToDomain[i] <=> Leads(i, p)
<1>1. value \in Seq(FromBytes) /\ i \in Places /\ N \in Nat /\ Places = 1..(N + 1)
  BY TopIs
<1>2. Good(GapsTable) /\ Good(LocalTable) /\ Good(AtTable) /\ Good(TailTable) /\ Good(MidTable)
  BY <1>1, GoodParts, GoodTables
<1>3. "@" \in Marks
  BY DEF Marks
<1>4. \A k \in Places : Top(k) =>
        (p \in AtTable[k] <=> k <= N /\ value[k] = "@" /\ RunOf(Signed(Gap), k + 1, p))
  <2> SUFFICES ASSUME NEW k \in Places, Top(k)
               PROVE  p \in AtTable[k] <=> k <= N /\ value[k] = "@" /\ RunOf(Signed(Gap), k + 1, p)
    OBVIOUS
  <2>1. p \in AtTable[k] <=> k <= N /\ value[k] = "@" /\ p \in GapsTable[k + 1]
    BY <1>2, <1>3, MarkThen DEF AtTable
  <2>2. ASSUME k <= N, value[k] = "@" PROVE p \in GapsTable[k + 1] <=> RunOf(Signed(Gap), k + 1, p)
    <3>1. Top(k + 1) /\ k + 1 \in Places
      BY <1>3, <2>2, MarkIs
    <3> QED
      BY <3>1, GapsAre
  <2> QED
    BY <2>1, <2>2
<1>5. \A b \in Places : Top(b) =>
        (p \in TailTable[b] <=> \E c \in Places : RunOf(Signed(Gap), b, c) /\ p \in AtTable[c])
  <2>1. \A b \in Places : p \in TailTable[b] <=> \E c \in Places : c \in GapsTable[b] /\ p \in AtTable[c]
    BY <1>1, <1>2, ThenIs DEF Good, TailTable
  <2> QED
    BY <2>1, GapsAre
<1>6. \A a \in Places : Top(a) =>
        (p \in MidTable[a] <=> \E b \in Places : Local(a, b) /\ p \in TailTable[b])
  <2>1. \A a \in Places : p \in MidTable[a] <=> \E b \in Places : b \in LocalTable[a] /\ p \in TailTable[b]
    BY <1>1, <1>2, ThenIs DEF Good, MidTable
  <2> QED
    BY <2>1, LocalTableIs
<1>7. p \in ToDomain[i] <=> \E a \in Places : RunOf(Signed(Gap), i, a) /\ p \in MidTable[a]
  <2>1. p \in ToDomain[i] <=> \E a \in Places : a \in GapsTable[i] /\ p \in MidTable[a]
    BY <1>1, <1>2, ThenIs DEF Good, ToDomain
  <2> QED
    BY <1>1, <2>1, GapsAre
<1>8. ASSUME p \in ToDomain[i] PROVE Leads(i, p)
  <2>1. PICK a \in Places : RunOf(Signed(Gap), i, a) /\ p \in MidTable[a]
    BY <1>7, <1>8
  <2>2. Top(a)
    BY <2>1, RunPlaces
  <2>3. PICK b \in Places : Local(a, b) /\ p \in TailTable[b]
    BY <1>6, <2>1, <2>2
  <2>4. Top(b)
    BY <2>3, LocalEnds
  <2>5. PICK c \in Places : RunOf(Signed(Gap), b, c) /\ p \in AtTable[c]
    BY <1>5, <2>3, <2>4
  <2>6. Top(c)
    BY <2>5, RunPlaces
  <2>7. c <= N /\ value[c] = "@" /\ RunOf(Signed(Gap), c + 1, p)
    BY <1>4, <2>5, <2>6
  <2> QED
    BY <2>1, <2>3, <2>5, <2>7 DEF Leads
<1>9. ASSUME Leads(i, p) PROVE p \in ToDomain[i]
  <2>1. PICK a, b, c : /\ RunOf(Signed(Gap), i, a) /\ Local(a, b) /\ RunOf(Signed(Gap), b, c)
                       /\ c <= N /\ value[c] = "@" /\ RunOf(Signed(Gap), c + 1, p)
    BY <1>9 DEF Leads
  <2>2. a \in Places /\ Top(a) /\ b \in Places /\ Top(b) /\ c \in Places /\ Top(c)
    BY <2>1, RunPlaces
  <2>3. p \in AtTable[c]
    BY <1>4, <2>1, <2>2
  <2>4. p \in TailTable[b]
    BY <1>5, <2>1, <2>2, <2>3
  <2>5. p \in MidTable[a]
    BY <1>6, <2>1, <2>2, <2>4
  <2> QED
    BY <1>7, <2>1, <2>2, <2>5
<1> QED
  BY <1>8, <1>9

(* The table after the domain. *)
LEMMA AfterDomainIs ==
    ASSUME Lexable, NEW p, NEW q, Top(p), Domain(p, q), NEW j \in Places
    PROVE  j \in AfterDomain[q] <=> Trails(q, j)
<1>1. value \in Seq(FromBytes) /\ N \in Nat /\ Places = 1..(N + 1) /\ q \in Places
  BY TopIs DEF Domain, Letters
<1>2. Good(GapsTable) /\ Good(Many(Byte({"."})))
  BY <1>1, GoodParts
<1>3. {"."} \subseteq Printable
  BY DEF Printable
<1>4. j \in AfterDomain[q] <=> \E e \in Places : e \in Many(Byte({"."}))[q] /\ j \in GapsTable[e]
  BY <1>1, <1>2, ThenIs DEF Good, AfterDomain
<1>5. \A e \in Places : e \in Many(Byte({"."}))[q] <=> Letters({"."}, q, e)
  BY <1>1, <1>3, ManyLetters
<1>6. \A e \in Places : Letters({"."}, q, e) => (j \in GapsTable[e] <=> RunOf(Signed(Gap), e, j))
  BY DomainEnds, GapsAre
<1>7. \A e : Letters({"."}, q, e) => e \in Places
  BY DEF Letters
<1> QED
  BY <1>4, <1>5, <1>6, <1>7 DEF Trails

(* An address in the tables *)
LEMMA AddrSpecIs ==
    ASSUME Lexable, NEW i, Top(i), NEW j \in Places, NEW p, NEW q
    PROVE  AddrSpec(i, j, p, q) <=> Leads(i, p) /\ Domain(p, q) /\ Trails(q, j)
<1>1. ASSUME AddrSpec(i, j, p, q) PROVE Leads(i, p) /\ Domain(p, q) /\ Trails(q, j)
  <2>1. PICK a, b, c, e : RunOf(Signed(Gap), i, a) /\ Parts(a, b, c, p, q, e) /\ RunOf(Signed(Gap), e, j)
    BY <1>1 DEF AddrSpec
  <2>2. /\ Local(a, b) /\ RunOf(Signed(Gap), b, c) /\ c <= N /\ value[c] = "@"
        /\ RunOf(Signed(Gap), c + 1, p) /\ Domain(p, q) /\ Letters({"."}, q, e)
    BY <2>1 DEF Parts
  <2> QED
    BY <2>1, <2>2 DEF Leads, Trails
<1>2. ASSUME Leads(i, p), Domain(p, q), Trails(q, j) PROVE AddrSpec(i, j, p, q)
  <2>1. PICK a, b, c : /\ RunOf(Signed(Gap), i, a) /\ Local(a, b) /\ RunOf(Signed(Gap), b, c)
                       /\ c <= N /\ value[c] = "@" /\ RunOf(Signed(Gap), c + 1, p)
    BY <1>2 DEF Leads
  <2>2. PICK e : Letters({"."}, q, e) /\ RunOf(Signed(Gap), e, j)
    BY <1>2 DEF Trails
  <2>3. Parts(a, b, c, p, q, e)
    BY <1>2, <2>1, <2>2 DEF Parts
  <2> QED
    BY <2>1, <2>2, <2>3 DEF AddrSpec
<1> QED
  BY <1>1, <1>2

(* The place a domain begins at. *)
LEMMA LeadsPlaces ==
    ASSUME Lexable, NEW i, NEW p, Leads(i, p)
    PROVE  p \in Places /\ Top(p) /\ Top(i)
<1>1. PICK a, c : RunOf(Signed(Gap), i, a) /\ RunOf(Signed(Gap), c + 1, p)
  BY DEF Leads
<1> QED
  BY <1>1, RunPlaces

(* The tables of an address without brackets. *)
LEMMA BareIs ==
    ASSUME Lexable, NEW p, NEW q
    PROVE  Tabulated(ToDomain, p, q, AfterDomain) <=> AddrSpec(1, N + 1, p, q)
<1>1. Top(1) /\ value \in Seq(FromBytes) /\ N + 1 \in Places
  BY TopEnds, LexEnds DEF Lexable
<1>2. AddrSpec(1, N + 1, p, q) <=> Leads(1, p) /\ Domain(p, q) /\ Trails(q, N + 1)
  BY <1>1, AddrSpecIs
<1>3. Tabulated(ToDomain, p, q, AfterDomain) <=>
         p \in Places /\ q \in Places /\ p \in ToDomain[1] /\ q \in DomainTable[p] /\ N + 1 \in AfterDomain[q]
  BY DEF Tabulated, N
<1>4. p \in Places => (p \in ToDomain[1] <=> Leads(1, p))
  BY <1>1, ToDomainIs
<1>5. p \in Places /\ q \in Places => (q \in DomainTable[p] <=> Domain(p, q))
  BY <1>1, DomainIs
<1>6. Leads(1, p) => p \in Places /\ Top(p)
  BY LeadsPlaces
<1>7. Domain(p, q) => q \in Places
  BY DEF Domain, Letters
<1>8. Top(p) /\ Domain(p, q) => (N + 1 \in AfterDomain[q] <=> Trails(q, N + 1))
  BY <1>1, AfterDomainIs
<1> QED
  BY <1>2, <1>3, <1>4, <1>5, <1>6, <1>7, <1>8

(* The table up to a domain in brackets. *)
LEMMA OpenIs ==
    ASSUME Lexable, NEW p \in Places
    PROVE  p \in OpenTable[1] <=>
             \E s \in Places : RunOf(Words, 1, s) /\ s <= N /\ value[s] = "<" /\ Leads(s + 1, p)
<1>1. Top(1) /\ value \in Seq(FromBytes) /\ 1 \in Places
  BY TopEnds, LexEnds DEF Lexable
<1>2. Good(PhraseTable) /\ Good(ToDomain) /\ Good(LessTable)
  BY <1>1, GoodParts, GoodTables
<1>3. p \in OpenTable[1] <=> \E s \in Places : s \in PhraseTable[1] /\ p \in LessTable[s]
  BY <1>1, <1>2, ThenIs DEF Good, OpenTable
<1>4. \A s \in Places : s \in PhraseTable[1] <=> RunOf(Words, 1, s)
  BY <1>1, PhraseIs
<1>5. "<" \in Marks
  BY DEF Marks
<1>6. ASSUME NEW s \in Places, RunOf(Words, 1, s)
      PROVE  p \in LessTable[s] <=> s <= N /\ value[s] = "<" /\ Leads(s + 1, p)
  <2>1. Top(s)
    BY <1>6, RunPlaces
  <2>2. p \in LessTable[s] <=> s <= N /\ value[s] = "<" /\ p \in ToDomain[s + 1]
    BY <1>2, <1>5, <2>1, MarkThen DEF LessTable
  <2>3. ASSUME s <= N, value[s] = "<" PROVE p \in ToDomain[s + 1] <=> Leads(s + 1, p)
    <3>1. Top(s + 1)
      BY <1>5, <2>1, <2>3, MarkIs
    <3> QED
      BY <3>1, ToDomainIs
  <2> QED
    BY <2>2, <2>3
<1> QED
  BY <1>3, <1>4, <1>6

(* The table after it. *)
LEMMA CloseIs ==
    ASSUME Lexable, NEW p, NEW q, Top(p), Domain(p, q)
    PROVE  N + 1 \in CloseTable[q] <=>
             \E g \in Places : /\ Trails(q, g) /\ g <= N /\ value[g] = ">"
                               /\ RunOf(Signed(Gap), g + 1, N + 1)
<1>1. value \in Seq(FromBytes) /\ N + 1 \in Places /\ q \in Places
  BY LexEnds DEF Lexable, Domain, Letters
<1>2. Good(AfterDomain) /\ Good(GapsTable) /\ Good(GreaterTable)
  BY <1>1, GoodParts, GoodTables
<1>3. N + 1 \in CloseTable[q] <=> \E g \in Places : g \in AfterDomain[q] /\ N + 1 \in GreaterTable[g]
  BY <1>1, <1>2, ThenIs DEF Good, CloseTable
<1>4. \A g \in Places : g \in AfterDomain[q] <=> Trails(q, g)
  BY AfterDomainIs
<1>5. ">" \in Marks
  BY DEF Marks
<1>6. ASSUME NEW g \in Places, Trails(q, g)
      PROVE  N + 1 \in GreaterTable[g] <=> g <= N /\ value[g] = ">" /\ RunOf(Signed(Gap), g + 1, N + 1)
  <2>1. Top(g)
    BY <1>6, RunPlaces DEF Trails
  <2>2. N + 1 \in GreaterTable[g] <=> g <= N /\ value[g] = ">" /\ N + 1 \in GapsTable[g + 1]
    BY <1>1, <1>2, <1>5, <2>1, MarkThen DEF GreaterTable
  <2>3. ASSUME g <= N, value[g] = ">" PROVE N + 1 \in GapsTable[g + 1] <=> RunOf(Signed(Gap), g + 1, N + 1)
    <3>1. Top(g + 1) /\ g + 1 \in Places
      BY <1>5, <2>1, <2>3, MarkIs
    <3> QED
      BY <1>1, <3>1, GapsAre
  <2> QED
    BY <2>2, <2>3
<1> QED
  BY <1>3, <1>4, <1>6

(* The tables of an address in brackets. *)
LEMMA BracketedIs ==
    ASSUME Lexable, NEW p, NEW q
    PROVE  Tabulated(OpenTable, p, q, CloseTable) <=> \E s, g : Bracketed(s, g, p, q)
<1>1. value \in Seq(FromBytes)
  BY DEF Lexable
<1>2. Tabulated(OpenTable, p, q, CloseTable) <=>
         p \in Places /\ q \in Places /\ p \in OpenTable[1] /\ q \in DomainTable[p] /\ N + 1 \in CloseTable[q]
  BY DEF Tabulated, N
<1>3. p \in Places /\ q \in Places => (q \in DomainTable[p] <=> Domain(p, q))
  BY <1>1, DomainIs
<1>m. "<" \in Marks /\ ">" \in Marks
  BY DEF Marks
<1>4. ASSUME Tabulated(OpenTable, p, q, CloseTable) PROVE \E s, g : Bracketed(s, g, p, q)
  <2>1. PICK s \in Places : RunOf(Words, 1, s) /\ s <= N /\ value[s] = "<" /\ Leads(s + 1, p)
    BY <1>2, <1>4, OpenIs
  <2>2. Top(p) /\ Top(s + 1) /\ Domain(p, q)
    BY <1>2, <1>3, <1>4, <2>1, LeadsPlaces
  <2>3. PICK g \in Places : /\ Trails(q, g) /\ g <= N /\ value[g] = ">"
                            /\ RunOf(Signed(Gap), g + 1, N + 1)
    BY <1>2, <1>4, <2>2, CloseIs
  <2>4. AddrSpec(s + 1, g, p, q)
    BY <2>1, <2>2, <2>3, AddrSpecIs
  <2> QED
    BY <2>1, <2>3, <2>4 DEF Bracketed
<1>5. ASSUME NEW s, NEW g, Bracketed(s, g, p, q) PROVE Tabulated(OpenTable, p, q, CloseTable)
  <2>1. /\ RunOf(Words, 1, s) /\ s <= N /\ value[s] = "<"
        /\ AddrSpec(s + 1, g, p, q) /\ g <= N /\ value[g] = ">" /\ RunOf(Signed(Gap), g + 1, N + 1)
    BY <1>5 DEF Bracketed
  <2>2. Top(s + 1) /\ Top(g)
    BY <2>1, AddrMarks
  <2>3. s \in Places /\ g \in Places
    BY <2>1, <2>2, RunPlaces, TopIs
  <2>4. Leads(s + 1, p) /\ Domain(p, q) /\ Trails(q, g)
    BY <2>1, <2>2, <2>3, AddrSpecIs
  <2>5. p \in Places /\ Top(p) /\ q \in Places
    BY <2>4, LeadsPlaces DEF Domain, Letters
  <2>6. p \in OpenTable[1]
    BY <2>1, <2>3, <2>4, <2>5, OpenIs
  <2>7. N + 1 \in CloseTable[q]
    BY <2>1, <2>3, <2>4, <2>5, CloseIs
  <2> QED
    BY <1>2, <1>3, <2>4, <2>5, <2>6, <2>7
<1> QED
  BY <1>4, <1>5

-----------------------------------------------------------------------------

(* What is found of a mailbox is a text that ends with no dot. *)
LEMMA MailboxIs ==
    ASSUME value \in Seq(FromBytes), NEW x \in Mailboxes
    PROVE  x \in Seq(FromBytes) /\ Len(x) > 0 /\ x[Len(x)] # "."
<1>1. PICK p, q : /\ x = SubSeq(value, p, q - 1)
                  /\ Tabulated(ToDomain, p, q, AfterDomain) \/ Tabulated(OpenTable, p, q, CloseTable)
  BY MailboxesAre, FromTables
<1>2. p \in Places /\ q \in Places /\ Domain(p, q)
  BY <1>1, DomainIs DEF Tabulated
<1>3. /\ N \in Nat /\ Places = 1..(N + 1) /\ p < q /\ value[q - 1] # "."
  BY <1>2, PlacesAre DEF Domain
<1>4. PICK a, n : a = p - 1 /\ n = q - p
  OBVIOUS
<1>5. /\ a \in Nat /\ n \in Nat /\ n > 0 /\ a + n <= Len(value)
      /\ a + 1 = p /\ a + n = q - 1 /\ n \in 1..n
  BY <1>2, <1>3, <1>4 DEF N
<1>6. /\ SubSeq(value, a + 1, a + n) \in Seq(FromBytes) /\ Len(SubSeq(value, a + 1, a + n)) = n
      /\ \A m \in 1..n : SubSeq(value, a + 1, a + n)[m] = value[a + m]
  BY <1>5, TakeTypes
<1>7. x \in Seq(FromBytes) /\ Len(x) = n /\ x[n] = value[q - 1]
  BY <1>1, <1>5, <1>6
<1> QED
  BY <1>3, <1>5, <1>7

(* Lower case of a text is a text. *)
LEMMA LowerIs ==
    ASSUME NEW v \in Seq(FromBytes)
    PROVE  Lower(v) \in Seq(FromBytes) /\ Lower(Lower(v)) = Lower(v)
<1>1. FromBytes \cup {"a"} = FromBytes
  BY DEF FromBytes
<1> QED
  BY <1>1, LowerTypes

(* THEOREM: for a From value of any length, with comments nested to any     *)
(* depth, from_domain finds the domain of the one mailbox it holds by the   *)
(* grammar, in lower case, and refuses every value that is no single        *)
(* mailbox.                                                                 *)
THEOREM FromDomainAccepts ==
    ASSUME value \in Seq(FromBytes)
    PROVE  AcceptsExactlyMailboxes
<1>1. \A x : x \in Mailboxes <=>
         \E p, q : /\ x = SubSeq(value, p, q - 1)
                   /\ Tabulated(ToDomain, p, q, AfterDomain) \/ Tabulated(OpenTable, p, q, CloseTable)
  BY MailboxesAre, FromTables
<1>2. CASE ~Foldable(value)
  <2>1. DomainOf(value) = Refused
    BY <1>2 DEF DomainOf
  <2>2. \A p, q : ~Tabulated(ToDomain, p, q, AfterDomain) /\ ~Tabulated(OpenTable, p, q, CloseTable)
    BY <1>2, GoodTables, TabulatedFolds
  <2>3. Mailboxes = {}
    BY <1>1, <2>2
  <2> QED
    BY <2>1, <2>3 DEF AcceptsExactlyMailboxes
<1>3. CASE Foldable(value)
  <2>1. Lexable
    BY <1>3 DEF Lexable
  <2>2. \A x : x \in Mailboxes <=> \E p, q : x = SubSeq(value, p, q - 1) /\ Mailbox(p, q)
    BY <1>1, <2>1, BareIs, BracketedIs DEF Mailbox
  <2>3. \A p, q : Mailbox(p, q) => DomainOf(value) = Found(p, q)
    BY <2>1, FindsMailbox
  <2>4. ASSUME NEW x \in Mailboxes PROVE Lower(x) = DomainOf(value) /\ Lower(x) # Refused
    <3>1. Lower(x) = DomainOf(value)
      <4>1. PICK p, q : x = SubSeq(value, p, q - 1) /\ Mailbox(p, q)
        BY <2>2, <2>4
      <4>2. DomainOf(value) = Found(p, q)
        BY <2>3, <4>1
      <4> QED
        BY <4>1, <4>2 DEF Found
    <3>2. Lower(x) \in Seq(FromBytes)
      BY <2>4, MailboxIs, LowerIs
    <3> QED
      BY <3>1, <3>2, NotRefused
  <2>5. DomainOf(value) # Refused => \E x \in Mailboxes : DomainOf(value) = Lower(x)
    BY <2>1, <2>2, MailboxFound DEF Found
  <2>6. \A x : x \in {DomainOf(value)} \ {Refused} <=> x \in {Lower(domain) : domain \in Mailboxes}
    BY <2>4, <2>5
  <2> QED
    BY <2>6 DEF AcceptsExactlyMailboxes
<1> QED
  BY <1>2, <1>3

(* THEOREM: for a From value and a configured domain of any length, mail is *)
(* signed for the domain exactly when the value is a single mailbox of that *)
(* domain, in whatever case and with as many dots at the end either is      *)
(* written: what from_domain makes of the one and validate_dns_name of the  *)
(* other agree.                                                             *)
THEOREM OwnDomain ==
    ASSUME value \in Seq(FromBytes), name \in Seq(FromBytes)
    PROVE  OwnDomainIsRecognized
<1> DEFINE domain == ValidateDnsName(name)
           found == DomainOf(value)
<1>1. SUFFICES ASSUME domain # Invalid
               PROVE  Recognized(value, domain) <=> \E own \in Mailboxes : SameName(own, name)
  BY DEF OwnDomainIsRecognized
<1>2. domain = Lower(StripDots(name))
  BY <1>1 DEF ValidateDnsName
<1>3. Lower(domain) = Lower(StripDots(name))
  <2>1. StripDots(name) \in Seq(FromBytes)
    BY StripTypes
  <2> QED
    BY <1>2, <2>1, LowerIs
<1>4. {found} \ {Refused} = {Lower(own) : own \in Mailboxes}
  BY FromDomainAccepts DEF AcceptsExactlyMailboxes
<1>5. Recognized(value, domain) <=> found # Refused /\ Lower(found) = Lower(domain)
  BY DEF Recognized
<1>6. ASSUME NEW own \in Mailboxes
      PROVE  Lower(Lower(own)) = Lower(domain) <=> SameName(own, name)
  <2>1. own \in Seq(FromBytes) /\ Len(own) > 0 /\ own[Len(own)] # "."
    BY <1>6, MailboxIs
  <2>2. StripDots(own) = own
    BY <2>1, StripKeeps
  <2>3. Lower(Lower(own)) = Lower(own)
    BY <2>1, LowerIs
  <2>4. SameName(own, name) <=> Lower(StripDots(own)) = Lower(StripDots(name))
    BY <2>1, SameNameIs
  <2> QED
    BY <1>3, <2>2, <2>3, <2>4
<1> HIDE DEF domain, found
<1>7. ASSUME Recognized(value, domain) PROVE \E own \in Mailboxes : SameName(own, name)
  <2>1. PICK own \in Mailboxes : found = Lower(own)
    BY <1>4, <1>5, <1>7
  <2> QED
    BY <1>5, <1>6, <1>7, <2>1
<1>8. ASSUME NEW own \in Mailboxes, SameName(own, name) PROVE Recognized(value, domain)
  <2>1. found = Lower(own) /\ found # Refused
    BY <1>4
  <2> QED
    BY <1>5, <1>6, <1>8, <2>1
<1> QED
  BY <1>7, <1>8
=============================================================================
