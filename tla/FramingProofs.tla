--------------------------- MODULE FramingProofs ---------------------------
(***************************************************************************)
(* Theorems about Framing, for every size of byte and packet, every set of *)
(* packets and answers and any number of them.                             *)
(*                                                                         *)
(* What the handler is given is right because of where the reader is: the  *)
(* stream is the frames of what was sent, cut off somewhere (Framed,       *)
(* Ended), and between two reads the position tells how much of which      *)
(* frame is in the length bytes or in the buffer (Reading).  What the peer *)
(* is given is a prefix of the answers begun (Writes), which it divides    *)
(* again by their sizes (Sizes): Framing implements PacketChannel.         *)
(***************************************************************************)
EXTENDS Framing, SequenceLemmas

(* The answer being written exists *)
Writing == pc = "write" => answered # <<>>

-----------------------------------------------------------------------------
(* Four bytes hold a length *)

LEMMA BaseAssumption == Base \in Nat \ {0, 1}
  BY FramingAssumption

LEMMA Divide ==
    ASSUME NEW n \in Nat
    PROVE  /\ n \div Base \in Nat /\ n % Base \in Bytes
           /\ n = (n \div Base) * Base + (n % Base)
  BY BaseAssumption DEF Bytes

LEMMA DivideBound ==
    ASSUME NEW n \in Nat, NEW m \in Nat, n < m * Base
    PROVE  n \div Base < m
<1> DEFINE q == n \div Base
<1>1. q \in Nat /\ q * Base <= n
  BY Divide, BaseAssumption DEF Bytes
<1> HIDE DEF q
<1>2. ASSUME q >= m PROVE FALSE
  <2>1. PICK d \in Nat : q = m + d
    <3>1. q - m \in Nat /\ q = m + (q - m)
      BY <1>1, <1>2
    <3> QED
      BY <3>1
  <2>2. q * Base = m * Base + d * Base
    BY <2>1, BaseAssumption
  <2>3. d * Base \in Nat /\ m * Base \in Nat
    BY BaseAssumption
  <2> QED
    BY <1>1, <2>2, <2>3, BaseAssumption
<1> QED
  BY <1>1, <1>2 DEF q

LEMMA Digits ==
    ASSUME NEW n \in Lengths
    PROVE  ToBytes(n) \in Seq(Bytes) /\ Len(ToBytes(n)) = 4 /\ FromBytes(ToBytes(n)) = n
<1> DEFINE q1 == n \div Base
           q2 == q1 \div Base
           q3 == q2 \div Base
<1>0. n \in Nat /\ n < Base * Base * Base * Base
  BY BaseAssumption DEF Lengths
<1>1. q1 \in Nat /\ n % Base \in Bytes /\ n = q1 * Base + (n % Base)
  BY <1>0, Divide
<1>2. q2 \in Nat /\ q1 % Base \in Bytes /\ q1 = q2 * Base + (q1 % Base)
  <2> HIDE DEF q1
  <2> QED
    BY <1>1, Divide
<1>3. q3 \in Nat /\ q2 % Base \in Bytes /\ q2 = q3 * Base + (q2 % Base)
  <2> HIDE DEF q2
  <2> QED
    BY <1>2, Divide
<1>4. q1 < Base * Base * Base
  <2>1. Base * Base * Base \in Nat
    BY BaseAssumption
  <2> QED
    BY <1>0, <2>1, DivideBound
<1>5. q2 < Base * Base
  <2>1. Base * Base \in Nat
    BY BaseAssumption
  <2> HIDE DEF q1
  <2> QED
    BY <1>1, <1>4, <2>1, DivideBound
<1>6. q3 < Base
  <2>1. Base \in Nat
    BY BaseAssumption
  <2> HIDE DEF q2
  <2> QED
    BY <1>2, <1>5, <2>1, DivideBound
<1>7. q3 \in Bytes
  BY <1>3, <1>6, BaseAssumption DEF Bytes
<1>8. ToBytes(n) = <<q3, q2 % Base, q1 % Base, n % Base>>
  BY DEF ToBytes
<1> HIDE DEF q1, q2, q3
<1>9. ToBytes(n) \in Seq(Bytes) /\ Len(ToBytes(n)) = 4
  BY <1>1, <1>2, <1>3, <1>7, <1>8
<1>10. FromBytes(ToBytes(n)) = ((q3 * Base + (q2 % Base)) * Base + (q1 % Base)) * Base + (n % Base)
  BY <1>8 DEF FromBytes
<1> QED
  BY <1>1, <1>2, <1>3, <1>9, <1>10

-----------------------------------------------------------------------------
(* The frame of a packet: its length, then the packet *)
LEMMA FrameTypes ==
    ASSUME NEW p \in Requests \cup Replies
    PROVE  /\ p \in Seq(Bytes) /\ Len(p) \in Lengths /\ Len(p) \in Nat \ {0}
           /\ Frame(p) \in Seq(Bytes)
           /\ Len(Frame(p)) = 4 + Len(p)
           /\ \A k \in 1..4 : Frame(p)[k] = ToBytes(Len(p))[k]
           /\ \A k \in 1..Len(p) : Frame(p)[4 + k] = p[k]
<1>1. p \in Seq(Bytes) /\ Len(p) \in Lengths /\ Len(p) \in Nat \ {0}
  <2>1. CASE p \in Requests
    BY <2>1, FramingAssumption DEF Lengths
  <2>2. CASE p \in Replies
    BY <2>2, FramingAssumption DEF Lengths
  <2> QED
    BY <2>1, <2>2
<1>2. ToBytes(Len(p)) \in Seq(Bytes) /\ Len(ToBytes(Len(p))) = 4
  BY <1>1, Digits
<1>3. /\ Frame(p) \in Seq(Bytes)
      /\ Len(Frame(p)) = 4 + Len(p)
      /\ \A k \in 1..(4 + Len(p)) :
           Frame(p)[k] = IF k <= 4 THEN ToBytes(Len(p))[k] ELSE p[k - 4]
  <2> DEFINE t == ToBytes(Len(p))
  <2>1. t \in Seq(Bytes) /\ Len(t) = 4
    BY <1>2
  <2> HIDE DEF t
  <2>2. /\ t \o p \in Seq(Bytes)
        /\ Len(t \o p) = Len(t) + Len(p)
        /\ \A k \in 1..Len(t) + Len(p) :
             (t \o p)[k] = IF k <= Len(t) THEN t[k] ELSE p[k - Len(t)]
    <3>1. p \in Seq(Bytes)
      BY <1>1
    <3> QED
      BY <3>1, <2>1, ConcatProperties, Zenon
  <2>3. /\ Len(t \o p) = 4 + Len(p)
        /\ \A k \in 1..(4 + Len(p)) : (t \o p)[k] = IF k <= 4 THEN t[k] ELSE p[k - 4]
    BY <2>1, <2>2, Zenon
  <2> QED
    BY <2>2, <2>3 DEF Frame, t
<1>4. ASSUME NEW k \in 1..4 PROVE Frame(p)[k] = ToBytes(Len(p))[k]
  BY <1>1, <1>3
<1>5. ASSUME NEW k \in 1..Len(p) PROVE Frame(p)[4 + k] = p[k]
  <2>1. 4 + k \in 1..(4 + Len(p)) /\ ~(4 + k <= 4) /\ (4 + k) - 4 = k
    BY <1>1
  <2> QED
    BY <1>3, <2>1
<1> QED
  BY <1>1, <1>3, <1>4, <1>5

(* Resize keeps what fits and makes the rest zero *)
LEMMA ResizeTypes ==
    ASSUME NEW buffer \in Seq(Bytes), NEW n \in Nat
    PROVE  Resize(buffer, n) \in Seq(Bytes) /\ Len(Resize(buffer, n)) = n
<1>1. 0 \in Bytes
  BY FramingAssumption DEF Bytes
<1>2. Resize(buffer, n) \in [1..n -> Bytes]
  BY <1>1, ElementOfSeq, LenProperties DEF Resize
<1> QED
  BY <1>2, TableIsSeq

-----------------------------------------------------------------------------
(* Type correctness *)

LEMMA InitTypes == Init => TypeOK /\ Writing
<1> SUFFICES ASSUME Init PROVE TypeOK /\ Writing
  OBVIOUS
<1>1. 0 <= MAX_PACKET /\ MAX_PACKET \in Int
  BY FramingAssumption DEF Lengths
<1>2. Window \in Nat
  BY FramingAssumption
<1> DEFINE none == <<>>
<1>3. /\ none \in Seq(Requests) /\ none \in Seq(Nat) /\ none \in Seq(Bytes)
      /\ none \in Seq(Seq(Bytes)) /\ none \in Seq(Replies)
      /\ Len(none) = 0
  BY EmptySeq
<1>4. /\ sent = none /\ ends = none /\ stream = none /\ length = none /\ packet = none
      /\ handled = none /\ todo = none /\ answered = none /\ output = none
      /\ pc = "length"
  BY DEF Init
<1> HIDE DEF none
<1>5. /\ garbled = FALSE /\ peerOpen = TRUE /\ pos = 0 /\ call = FALSE /\ expired = FALSE
      /\ got = 0 /\ written = 0 /\ taken = 0
  BY DEF Init
<1>6. /\ sent \in Seq(Requests) /\ ends \in Seq(Nat) /\ Len(ends) = Len(sent)
      /\ stream \in Seq(Bytes) /\ pos \in 0..Len(stream)
      /\ length \in Seq(Bytes) /\ Len(length) <= 4
      /\ handled \in Seq(Seq(Bytes)) /\ todo \in Seq(Replies) /\ answered \in Seq(Replies)
  BY <1>3, <1>4, <1>5
<1>7. packet \in Seq(Bytes) /\ Len(packet) <= MAX_PACKET /\ got \in 0..Len(packet)
  BY <1>1, <1>3, <1>4, <1>5
<1>8. /\ written \in Nat /\ output \in Seq(Bytes) /\ taken \in 0..Len(output)
      /\ Len(output) - taken <= Window
  BY <1>2, <1>3, <1>4, <1>5
<1> QED
  BY <1>4, <1>5, <1>6, <1>7, <1>8 DEF TypeOK, Writing

(* What a system call has read, and what becomes of it *)
LEMMA NextTypes ==
    ASSUME TypeOK, NEW n \in Nat, pos + n <= Len(stream)
    PROVE  /\ NextBytes(n) \in Seq(Bytes)
           /\ Len(NextBytes(n)) = n
           /\ \A i \in 1..n : NextBytes(n)[i] = stream[pos + i]
<1>1. stream \in Seq(Bytes) /\ Len(stream) \in Nat
  BY LenProperties DEF TypeOK
<1>2. pos \in Nat
  BY <1>1 DEF TypeOK
<1> QED
  BY <1>1, <1>2, TakeTypes DEF NextBytes

LEMMA ReadLengthTypes ==
    ASSUME TypeOK, Writing, ReadLength PROVE TypeOK' /\ Writing'
<1>1. PICK n \in 1..(4 - Len(length)) :
        /\ pos + n <= Len(stream)
        /\ pos' = pos + n
        /\ IF expired THEN Goto("failed") /\ UNCHANGED <<length, packet, got>>
                      ELSE LengthBytes(NextBytes(n))
        /\ UNCHANGED <<peerVars, stream, expired, handled, writeVars, taken>>
  BY DEF ReadLength, Read
<1> DEFINE bytes == NextBytes(n)
<1>2. bytes \in Seq(Bytes) /\ Len(bytes) = n
  BY <1>1, NextTypes
<1> HIDE DEF bytes
<1>3. length \o bytes \in Seq(Bytes) /\ Len(length \o bytes) = Len(length) + n
  BY <1>2, ConcatProperties DEF TypeOK
<1>4. pos' \in 0..Len(stream')
  BY <1>1 DEF TypeOK
<1>5. CASE expired
  BY <1>1, <1>4, <1>5 DEF Goto, TypeOK, Writing, peerVars, writeVars
<1>6. CASE ~expired
  <2>1. LengthBytes(bytes)
    BY <1>1, <1>6 DEF bytes
  <2>2. length' \in Seq(Bytes) /\ Len(length') <= 4
    BY <1>1, <1>3, <2>1 DEF LengthBytes, TypeOK
  <2>3. /\ packet' \in Seq(Bytes) /\ Len(packet') <= MAX_PACKET
        /\ got' \in 0..Len(packet')
        /\ pc' \in {"length", "payload", "failed"} /\ call' = FALSE
    <3>1. CASE packet' = Resize(packet, FromBytes(length')) /\ got' = 0
                 /\ FromBytes(length') \in 1..MAX_PACKET /\ Goto("payload")
      <4>1. FromBytes(length') \in Nat /\ FromBytes(length') <= MAX_PACKET
        BY <3>1, FramingAssumption DEF Lengths
      <4> HIDE DEF FromBytes
      <4>2. packet' \in Seq(Bytes) /\ Len(packet') = FromBytes(length')
        BY <3>1, <4>1, ResizeTypes DEF TypeOK
      <4> QED
        BY <3>1, <4>1, <4>2 DEF Goto
    <3>2. CASE UNCHANGED <<packet, got>> /\ (Goto("length") \/ Goto("failed"))
      BY <3>2 DEF Goto, TypeOK
    <3> QED
      BY <2>1, <3>1, <3>2 DEF LengthBytes
  <2> QED
    BY <1>1, <1>4, <2>2, <2>3 DEF TypeOK, Writing, peerVars, writeVars
<1> QED
  BY <1>5, <1>6

LEMMA ReadPayloadTypes ==
    ASSUME TypeOK, Writing, ReadPayload PROVE TypeOK' /\ Writing'
<1>1. PICK n \in 1..(Len(packet) - got) :
        /\ pos + n <= Len(stream)
        /\ pos' = pos + n
        /\ IF expired THEN Goto("failed") /\ UNCHANGED <<length, packet, got>>
                      ELSE PayloadBytes(NextBytes(n))
        /\ UNCHANGED <<peerVars, stream, expired, handled, writeVars, taken>>
  BY DEF ReadPayload, Read
<1> DEFINE bytes == NextBytes(n)
<1>2. bytes \in Seq(Bytes) /\ Len(bytes) = n
  BY <1>1, NextTypes
<1> HIDE DEF bytes
<1>4. pos' \in 0..Len(stream')
  BY <1>1 DEF TypeOK
<1>5. CASE expired
  BY <1>1, <1>4, <1>5 DEF Goto, TypeOK, Writing, peerVars, writeVars
<1>6. CASE ~expired
  <2>1. PayloadBytes(bytes)
    BY <1>1, <1>6 DEF bytes
  <2>2. packet' \in [1..Len(packet) -> Bytes]
    BY <1>1, <1>2, <2>1, ElementOfSeq, LenProperties DEF PayloadBytes, TypeOK
  <2>3. packet' \in Seq(Bytes) /\ Len(packet') = Len(packet)
    <3>1. Len(packet) \in Nat
      BY LenProperties DEF TypeOK
    <3> QED
      BY <2>2, <3>1, TableIsSeq
  <2>4. got' \in 0..Len(packet')
    BY <1>1, <1>2, <2>1, <2>3 DEF PayloadBytes, TypeOK
  <2>5. pc' \in {"payload", "handle"} /\ call' = FALSE /\ length' = length
    BY <2>1 DEF PayloadBytes, Goto
  <2> QED
    BY <1>1, <1>4, <2>3, <2>4, <2>5 DEF TypeOK, Writing, peerVars, writeVars
<1> QED
  BY <1>5, <1>6

LEMMA AnswerTypes ==
    ASSUME TypeOK, Writing, Answer PROVE TypeOK' /\ Writing'
<1>0. UNCHANGED <<sent, ends, garbled, peerOpen, stream, pos, packet, got, expired,
                  handled, taken>>
  BY DEF Answer, peerVars
<1>1. CASE todo = <<>>
  <2>1. length' \in Seq(Bytes) /\ Len(length') <= 4
    <3>1. length' = <<>>
      BY <1>1 DEF Answer
    <3> QED
      BY <3>1, EmptySeq
  <2>2. pc' = "length" /\ call' = FALSE /\ UNCHANGED writeVars
    BY <1>1 DEF Answer, Goto
  <2> QED
    BY <1>0, <2>1, <2>2 DEF TypeOK, Writing, writeVars
<1>2. CASE todo # <<>>
  <2>1. /\ answered' = Append(answered, Head(todo)) /\ todo' = Tail(todo) /\ written' = 0
        /\ pc' = "write" /\ call' = FALSE /\ UNCHANGED <<output, length>>
    BY <1>2 DEF Answer, Goto
  <2>2. Head(todo) \in Replies /\ Tail(todo) \in Seq(Replies)
    BY <1>2, HeadTailProperties DEF TypeOK
  <2>3. /\ Append(answered, Head(todo)) \in Seq(Replies)
        /\ Len(Append(answered, Head(todo))) = Len(answered) + 1
    BY <2>2, AppendProperties DEF TypeOK
  <2>4. answered' # <<>>
    <3>1. Len(answered) \in Nat
      BY LenProperties DEF TypeOK
    <3>2. Len(answered') # 0
      BY <2>1, <2>3, <3>1
    <3> QED
      BY <3>2
  <2> QED
    BY <1>0, <2>1, <2>2, <2>3, <2>4 DEF TypeOK, Writing
<1> QED
  BY <1>1, <1>2

LEMMA WriteTypes ==
    ASSUME TypeOK, Writing, Write PROVE TypeOK' /\ Writing'
<1>1. PICK n \in 1..(Len(CurrentFrame) - written) :
        /\ n <= Room
        /\ output' = output \o SubSeq(CurrentFrame, written + 1, written + n)
        /\ written' = written + n
        /\ Goto(IF expired THEN "failed"
                ELSE IF written' < Len(CurrentFrame) THEN "write" ELSE "flush")
  BY DEF Write
<1>2. answered # <<>> /\ answered \in Seq(Replies)
  BY DEF Write, TypeOK, Writing
<1>3. Len(answered) \in 1..Len(answered)
  BY <1>2, EmptySeq
<1>4. answered[Len(answered)] \in Replies
  BY <1>2, <1>3, ElementOfSeq
<1>5. CurrentFrame \in Seq(Bytes) /\ Len(CurrentFrame) \in Nat
  BY <1>4, FrameTypes, LenProperties DEF CurrentFrame
<1>6. written \in Nat /\ n \in Nat /\ written + n <= Len(CurrentFrame)
  BY <1>1, <1>5 DEF TypeOK
<1> DEFINE part == SubSeq(CurrentFrame, written + 1, written + n)
<1>7. part \in Seq(Bytes) /\ Len(part) = n
  BY <1>5, <1>6, TakeTypes
<1>8. output' = output \o part
  BY <1>1
<1> HIDE DEF part
<1>9. output' \in Seq(Bytes) /\ Len(output') = Len(output) + n
  BY <1>7, <1>8, ConcatProperties DEF TypeOK
<1>10. taken \in 0..Len(output) /\ Len(output) \in Nat
  BY LenProperties DEF TypeOK
<1>11. Window \in Nat
  BY FramingAssumption
<1>12. taken' \in 0..Len(output') /\ Len(output') - taken' <= Window
  BY <1>1, <1>6, <1>9, <1>10, <1>11 DEF Write, Room
<1>13. pc' \in {"failed", "write", "flush"} /\ call' = FALSE /\ written' \in Nat
  BY <1>1, <1>6 DEF Goto
<1> QED
  BY <1>2, <1>9, <1>12, <1>13 DEF Write, TypeOK, Writing, peerVars, readVars

LEMMA HandleTypes ==
    ASSUME TypeOK, Writing, Handle PROVE TypeOK' /\ Writing'
<1>1. handled' \in Seq(Seq(Bytes))
  BY AppendProperties DEF Handle, TypeOK
<1>2. todo' \in Seq(Replies)
  BY FramingAssumption DEF Handle
<1>3. /\ pc' = "answer" /\ call' = FALSE
      /\ UNCHANGED <<sent, ends, garbled, peerOpen, stream, pos, length, packet, got,
                     expired, answered, written, output, taken>>
  BY DEF Handle, Goto, peerVars, readVars
<1> QED
  BY <1>1, <1>2, <1>3 DEF TypeOK, Writing

LEMMA PeerSendsTypes ==
    ASSUME TypeOK, Writing, NEW p \in Requests, PeerSends(p) PROVE TypeOK' /\ Writing'
<1>1. /\ sent' = Append(sent, p) /\ stream' = stream \o Frame(p)
      /\ ends' = Append(ends, Len(stream'))
      /\ UNCHANGED <<garbled, peerOpen, pos, length, packet, got, pc, call, expired,
                     handled, todo, answered, written, output, taken>>
  BY DEF PeerSends, writeVars
<1>2. stream' \in Seq(Bytes) /\ Len(stream') = Len(stream) + Len(Frame(p))
  BY <1>1, FrameTypes, ConcatProperties DEF TypeOK
<1>3. Len(Frame(p)) \in Nat /\ Len(stream) \in Nat
  BY FrameTypes, LenProperties DEF TypeOK
<1>4. pos' \in 0..Len(stream')
  BY <1>1, <1>2, <1>3 DEF TypeOK
<1>5. /\ sent' \in Seq(Requests) /\ Len(sent') = Len(sent) + 1
      /\ ends' \in Seq(Nat) /\ Len(ends') = Len(ends) + 1
  BY <1>1, <1>2, <1>3, AppendProperties DEF TypeOK
<1> QED
  BY <1>1, <1>2, <1>4, <1>5 DEF TypeOK, Writing

LEMMA PeerGarblesTypes ==
    ASSUME TypeOK, Writing, NEW n \in BadLengths, PeerGarbles(n) PROVE TypeOK' /\ Writing'
<1>1. /\ garbled' = TRUE /\ stream' = stream \o ToBytes(n)
      /\ UNCHANGED <<sent, ends, peerOpen, pos, length, packet, got, pc, call, expired,
                     handled, todo, answered, written, output, taken>>
  BY DEF PeerGarbles, writeVars
<1>2. n \in Lengths
  BY FramingAssumption
<1>3. ToBytes(n) \in Seq(Bytes) /\ Len(ToBytes(n)) = 4
  BY <1>2, Digits
<1> DEFINE t == ToBytes(n)
<1>4. t \in Seq(Bytes) /\ Len(t) = 4 /\ stream' = stream \o t
  BY <1>1, <1>3
<1> HIDE DEF t
<1>5. stream' \in Seq(Bytes) /\ Len(stream') = Len(stream) + 4
  <2>1. stream \in Seq(Bytes)
    BY DEF TypeOK
  <2>2. stream \o t \in Seq(Bytes) /\ Len(stream \o t) = Len(stream) + Len(t)
    BY <1>4, <2>1, ConcatProperties, Zenon
  <2> QED
    BY <1>4, <2>2, Zenon
<1>6. pos' \in 0..Len(stream')
  BY <1>1, <1>5, LenProperties DEF TypeOK
<1> QED
  BY <1>1, <1>5, <1>6 DEF TypeOK, Writing

LEMMA PeerClosesTypes ==
    ASSUME TypeOK, Writing, PeerCloses PROVE TypeOK' /\ Writing'
<1>1. PICK n \in pos..Len(stream) : stream' = SubSeq(stream, 1, n)
  BY DEF PeerCloses
<1>2. n \in Nat /\ n <= Len(stream) /\ pos \in Nat /\ pos <= n
  BY <1>1, LenProperties DEF TypeOK
<1>3. SubSeq(stream, 0 + 1, 0 + n) \in Seq(Bytes) /\ Len(SubSeq(stream, 0 + 1, 0 + n)) = n
  BY <1>2, TakeTypes DEF TypeOK
<1>4. stream' \in Seq(Bytes) /\ Len(stream') = n
  BY <1>1, <1>2, <1>3
<1>5. /\ peerOpen' = FALSE
      /\ UNCHANGED <<sent, ends, garbled, pos, length, packet, got, pc, call, expired,
                     handled, todo, answered, written, output, taken>>
  BY DEF PeerCloses, writeVars
<1>6. pos' \in 0..Len(stream')
  BY <1>2, <1>4, <1>5
<1> QED
  BY <1>4, <1>5, <1>6 DEF TypeOK, Writing

(* The steps that move neither bytes nor packets *)
LEMMA ControlTypes ==
    ASSUME TypeOK, Writing,
           UNCHANGED <<peerVars, readVars, handled, writeVars>>,
           \/ UNCHANGED <<pc, call, taken>> /\ expired' \in BOOLEAN
           \/ UNCHANGED <<pc, call, expired>> /\ \E n \in 1..(Len(output) - taken) : taken' = taken + n
           \/ /\ UNCHANGED <<expired, taken>> /\ call' \in BOOLEAN
              /\ pc' \in {"answer", "clean", "failed", pc}
    PROVE  TypeOK' /\ Writing'
<1>1. taken' \in 0..Len(output) /\ Len(output) - taken' <= Window
  <2>1. taken \in 0..Len(output) /\ Len(output) - taken <= Window /\ Len(output) \in Nat
    BY LenProperties DEF TypeOK
  <2>2. Window \in Nat
    BY FramingAssumption
  <2>3. CASE taken' = taken
    BY <2>1, <2>3
  <2>4. CASE \E n \in 1..(Len(output) - taken) : taken' = taken + n
    BY <2>1, <2>2, <2>4
  <2> QED
    BY <2>3, <2>4
<1>2. /\ pc' \in {"answer", "clean", "failed", pc} /\ call' \in BOOLEAN
      /\ expired' \in BOOLEAN
  BY DEF TypeOK
<1> QED
  BY <1>1, <1>2 DEF TypeOK, Writing, peerVars, readVars, writeVars

LEMMA TypesInductive == TypeOK /\ Writing /\ [Next]_vars => TypeOK' /\ Writing'
<1> SUFFICES ASSUME TypeOK, Writing, [Next]_vars PROVE TypeOK' /\ Writing'
  OBVIOUS
<1>0. pc \in {"length", "payload", "handle", "answer", "write", "flush", "clean", "failed"}
      /\ call \in BOOLEAN /\ expired \in BOOLEAN
  BY DEF TypeOK
<1>1. CASE StartCall
  BY <1>0, <1>1, ControlTypes DEF StartCall, Goto
<1>2. CASE CallFails
  BY <1>2, ControlTypes DEF CallFails, Goto
<1>3. CASE EndOfStream
  BY <1>3, ControlTypes DEF EndOfStream, Goto
<1>4. CASE Flush
  BY <1>4, ControlTypes DEF Flush, Goto
<1>5. CASE Interrupted
  BY <1>5, ControlTypes DEF Interrupted
<1>6. CASE Expire
  BY <1>6, ControlTypes DEF Expire
<1>7. CASE PeerReads
  BY <1>7, ControlTypes DEF PeerReads
<1>8. CASE UNCHANGED vars
  BY <1>0, <1>8, ControlTypes DEF vars
<1> QED
  BY <1>1, <1>2, <1>3, <1>4, <1>5, <1>6, <1>7, <1>8, ReadLengthTypes, ReadPayloadTypes,
     HandleTypes, AnswerTypes, WriteTypes, PeerSendsTypes, PeerGarblesTypes,
     PeerClosesTypes DEF Next, Worker, Over

(* A connection never retains more than MAX_PACKET bytes of input, and the  *)
(* readers and the writers stay within their buffers, for every connection. *)
THEOREM TypeCorrect == Spec => []TypeOK
<1>1. Spec => [](TypeOK /\ Writing)
  BY InitTypes, TypesInductive, PTL DEF Spec
<1> QED
  BY <1>1, PTL

-----------------------------------------------------------------------------
(* What the stream holds *)

(* Where the frame of packet i + 1 begins *)
Begin(i) == IF i = 0 THEN 0 ELSE ends[i]

(* The frames of what was sent, one after the other *)
Framed ==
    \A i \in 1..Len(sent) :
        /\ ends[i] = Begin(i - 1) + 4 + Len(sent[i]) /\ ends[i] <= Begin(Len(sent))
        /\ \A k \in 1..4 : Begin(i - 1) + k <= Len(stream) =>
               stream[Begin(i - 1) + k] = ToBytes(Len(sent[i]))[k]
        /\ \A k \in 1..Len(sent[i]) : Begin(i - 1) + 4 + k <= Len(stream) =>
               stream[Begin(i - 1) + 4 + k] = sent[i][k]

(* and then nothing, or a length that is out of range; all of it while the  *)
(* peer is there                                                            *)
Tail4 == IF garbled THEN 4 ELSE 0
Ended ==
    /\ Len(stream) <= Begin(Len(sent)) + Tail4
    /\ peerOpen => Len(stream) = Begin(Len(sent)) + Tail4
    /\ garbled => \E n \in BadLengths :
           \A k \in 1..4 : Begin(Len(sent)) + k <= Len(stream) =>
               stream[Begin(Len(sent)) + k] = ToBytes(n)[k]

(* How far the reader is in it *)
Here == Begin(Len(handled))
Current == sent[Len(handled) + 1]

AtLength ==
    /\ Len(length) < 4 /\ pos = Here + Len(length)
    /\ \A k \in 1..Len(length) : length[k] = stream[Here + k]
AtPayload ==
    /\ Len(handled) < Len(sent)
    /\ Len(packet) = Len(Current) /\ got < Len(packet) /\ pos = Here + 4 + got
    /\ \A k \in 1..got : packet[k] = Current[k]
AtHandle ==
    /\ Len(handled) < Len(sent) /\ packet = Current
    /\ pos = Begin(Len(handled) + 1)

Reading ==
    /\ pc = "length" => AtLength
    /\ pc = "payload" => AtPayload
    /\ pc = "handle" => AtHandle
    /\ pc \in {"answer", "write", "flush"} => pos = Here
    /\ pc = "clean" => ~peerOpen /\ pos = Len(stream) /\ pos < Here + 4

IInv == TypeOK /\ Writing /\ Framed /\ Ended /\ PacketsIntact /\ Reading

LEMMA IInvInit == Init => IInv
<1> SUFFICES ASSUME Init PROVE IInv
  OBVIOUS
<1>1. TypeOK /\ Writing
  BY InitTypes
<1>2. /\ Len(sent) = 0 /\ Len(stream) = 0 /\ Len(handled) = 0 /\ Len(length) = 0
      /\ pos = 0 /\ pc = "length" /\ garbled = FALSE
  BY EmptySeq DEF Init
<1>3. Framed /\ PacketsIntact
  BY <1>2 DEF Framed, PacketsIntact
<1>4. Ended
  BY <1>2 DEF Ended, Begin, Tail4
<1>5. Reading
  BY <1>2 DEF Reading, AtLength, Here, Begin
<1> QED
  BY <1>1, <1>3, <1>4, <1>5 DEF IInv

(* The facts about numbers that the steps below use *)
LEMMA Numbers ==
    ASSUME IInv
    PROVE  /\ Len(sent) \in Nat /\ Len(handled) \in Nat /\ Len(stream) \in Nat
           /\ Len(length) \in Nat /\ Len(packet) \in Nat /\ pos \in Nat /\ got \in Nat
           /\ Len(handled) <= Len(sent) /\ pos <= Len(stream)
           /\ \A i \in 0..Len(sent) : Begin(i) \in Nat
           /\ \A i \in 1..Len(sent) : /\ sent[i] \in Requests
                                     /\ sent[i] \in Seq(Bytes)
                                     /\ Len(sent[i]) \in Nat
                                     /\ Len(sent[i]) \in Lengths
                                     /\ Len(sent[i]) \in 1..MAX_PACKET
<1>1. TypeOK /\ PacketsIntact
  BY DEF IInv
<1>2. /\ Len(sent) \in Nat /\ Len(handled) \in Nat /\ Len(stream) \in Nat
      /\ Len(length) \in Nat /\ Len(packet) \in Nat
  BY <1>1, LenProperties DEF TypeOK
<1>3. /\ pos \in Nat /\ got \in Nat /\ pos <= Len(stream)
      /\ Len(handled) <= Len(sent)
  BY <1>1, <1>2 DEF TypeOK, PacketsIntact
<1>4. ASSUME NEW i \in 0..Len(sent) PROVE Begin(i) \in Nat
  <2>1. CASE i = 0
    BY <2>1 DEF Begin
  <2>2. CASE i # 0
    <3>1. i \in 1..Len(ends) /\ ends \in Seq(Nat)
      BY <1>1, <1>2, <2>2 DEF TypeOK
    <3> QED
      BY <2>2, <3>1, ElementOfSeq DEF Begin
  <2> QED
    BY <2>1, <2>2
<1>5. ASSUME NEW i \in 1..Len(sent)
      PROVE  /\ sent[i] \in Requests /\ sent[i] \in Seq(Bytes) /\ Len(sent[i]) \in Nat
             /\ Len(sent[i]) \in Lengths /\ Len(sent[i]) \in 1..MAX_PACKET
  <2>1. sent[i] \in Requests
    BY <1>1, ElementOfSeq DEF TypeOK
  <2> QED
    BY <2>1, FrameTypes, FramingAssumption
<1> QED
  BY <1>2, <1>3, <1>4, <1>5

(* The four bytes of a length, read *)
LEMMA LengthIsSent ==
    ASSUME NEW b, NEW n \in Lengths, \A k \in 1..4 : b[k] = ToBytes(n)[k]
    PROVE  FromBytes(b) = n
<1>1. b[1] = ToBytes(n)[1] /\ b[2] = ToBytes(n)[2] /\ b[3] = ToBytes(n)[3]
      /\ b[4] = ToBytes(n)[4]
  OBVIOUS
<1>2. FromBytes(b) = FromBytes(ToBytes(n))
  BY <1>1, Zenon DEF FromBytes
<1> QED
  BY <1>2, Digits

(* Nothing the peer has sent changes under the reader *)
LEMMA StreamStays ==
    ASSUME IInv, UNCHANGED <<sent, ends, stream, garbled, peerOpen>>
    PROVE  Framed' /\ Ended'
  BY DEF IInv, Framed, Ended, Begin, Tail4

LEMMA ReadLengthReads ==
    ASSUME IInv, ReadLength PROVE PacketsIntact' /\ Reading'
<1>1. PICK n \in 1..(4 - Len(length)) :
        /\ pos + n <= Len(stream)
        /\ pos' = pos + n
        /\ IF expired THEN Goto("failed") /\ UNCHANGED <<length, packet, got>>
                      ELSE LengthBytes(NextBytes(n))
        /\ UNCHANGED <<peerVars, stream, expired, handled, writeVars, taken>>
  BY DEF ReadLength, Read
<1>2. PacketsIntact'
  BY <1>1 DEF IInv, PacketsIntact, peerVars
<1>3. CASE expired
  BY <1>1, <1>2, <1>3 DEF Goto, Reading
<1>4. CASE ~expired
  <2> DEFINE bytes == NextBytes(n)
             h == Len(handled)
  <2>1. LengthBytes(bytes)
    BY <1>1, <1>4
  <2>2. n \in Nat /\ n <= 4 - Len(length) /\ n >= 1
    BY <1>1, Numbers
  <2>3. /\ bytes \in Seq(Bytes) /\ Len(bytes) = n
        /\ \A i \in 1..n : bytes[i] = stream[pos + i]
    BY <1>1, <2>2, NextTypes DEF IInv
  <2> HIDE DEF bytes
  <2>4. AtLength /\ Here \in Nat
    BY Numbers DEF IInv, ReadLength, Reading, Here
  <2>5. /\ length' \in Seq(Bytes) /\ Len(length') = Len(length) + n
        /\ \A i \in 1..(Len(length) + n) :
             length'[i] = IF i <= Len(length) THEN length[i] ELSE bytes[i - Len(length)]
    <3>1. length' = length \o bytes /\ length \in Seq(Bytes)
      BY <2>1 DEF LengthBytes, IInv, TypeOK
    <3>2. /\ length \o bytes \in Seq(Bytes)
          /\ Len(length \o bytes) = Len(length) + Len(bytes)
          /\ \A i \in 1..Len(length) + Len(bytes) :
               (length \o bytes)[i] = IF i <= Len(length) THEN length[i]
                                      ELSE bytes[i - Len(length)]
      BY <2>3, <3>1, ConcatProperties, Zenon
    <3> QED
      BY <2>3, <3>1, <3>2, Zenon
  <2>6. \A i \in 1..Len(length') : length'[i] = stream[Here + i]
    <3> SUFFICES ASSUME NEW i \in 1..(Len(length) + n) PROVE length'[i] = stream[Here + i]
      BY <2>5
    <3>1. CASE i <= Len(length)
      <4>1. i \in 1..Len(length)
        BY <2>2, <3>1, Numbers
      <4>2. length[i] = stream[Here + i]
        BY <2>4, <4>1 DEF AtLength
      <4> QED
        BY <2>5, <3>1, <4>2
    <3>2. CASE ~(i <= Len(length))
      <4>1. i - Len(length) \in 1..n /\ pos + (i - Len(length)) = Here + i
        BY <2>2, <2>4, <3>2, Numbers DEF AtLength
      <4> QED
        BY <2>3, <2>5, <3>2, <4>1
    <3> QED
      BY <3>1, <3>2
  <2>7. Here' = Here /\ pos' = Here + Len(length') /\ Here + Len(length') <= Len(stream)
    <3>1. Here' = Here
      BY <1>1 DEF Here, Begin, peerVars
    <3> QED
      BY <1>1, <2>2, <2>4, <2>5, <3>1, Numbers DEF AtLength
  <2>8. CASE Len(length') < 4
    <3>1. pc' = "length" /\ AtLength'
      BY <1>1, <2>1, <2>6, <2>7, <2>8 DEF LengthBytes, Goto, AtLength
    <3> QED
      BY <1>2, <3>1 DEF Reading
  <2>9. CASE ~(Len(length') < 4)
    <3>1. Len(length') = 4
      BY <2>2, <2>5, <2>9, Numbers
    <3>2. CASE h < Len(sent)
      <4>1. h + 1 \in 1..Len(sent) /\ (h + 1) - 1 = h
        BY <3>2, Numbers
      <4>2. \A k \in 1..4 : stream[Here + k] = ToBytes(Len(Current))[k]
        <5>1. \A k \in 1..4 : Begin((h + 1) - 1) + k <= Len(stream) =>
                stream[Begin((h + 1) - 1) + k] = ToBytes(Len(sent[h + 1]))[k]
          BY <4>1, Zenon DEF IInv, Framed
        <5>2. \A k \in 1..4 : Here + k <= Len(stream) =>
                stream[Here + k] = ToBytes(Len(Current))[k]
          BY <4>1, <5>1, Zenon DEF Here, Current
        <5>3. \A k \in 1..4 : Here + k <= Len(stream)
          BY <2>4, <2>7, <3>1, Numbers
        <5> QED
          BY <5>2, <5>3, Zenon
      <4>3. /\ Len(Current) \in Lengths /\ Len(Current) \in 1..MAX_PACKET
            /\ Len(Current) \in Nat /\ Len(Current) > 0
        BY <4>1, Numbers DEF Current
      <4>4. \A k \in 1..4 : length'[k] = ToBytes(Len(Current))[k]
        BY <2>6, <3>1, <4>2
      <4>5. FromBytes(length') = Len(Current)
        BY <4>3, <4>4, LengthIsSent
      <4>6. packet' = Resize(packet, Len(Current)) /\ got' = 0 /\ pc' = "payload"
        BY <2>1, <2>9, <4>3, <4>5, Zenon DEF LengthBytes, Goto
      <4>7. Len(packet') = Len(Current)
        BY <4>3, <4>6, ResizeTypes DEF IInv, TypeOK
      <4>8. Current' = Current /\ UNCHANGED <<sent, handled>>
        BY <1>1 DEF Current, peerVars
      <4>9. AtPayload'
        BY <2>4, <2>7, <3>1, <3>2, <4>3, <4>6, <4>7, <4>8 DEF AtPayload
      <4> QED
        BY <1>2, <4>6, <4>9 DEF Reading
    <3>3. CASE ~(h < Len(sent))
      <4>1. h = Len(sent)
        BY <3>3, Numbers
      <4>2. garbled
        BY <2>4, <2>7, <3>1, <4>1, Numbers DEF IInv, Ended, Tail4, Here
      <4>3. PICK bad \in BadLengths :
              \A k \in 1..4 : Here + k <= Len(stream) => stream[Here + k] = ToBytes(bad)[k]
        BY <4>1, <4>2 DEF IInv, Ended, Here
      <4>4. \A k \in 1..4 : length'[k] = ToBytes(bad)[k]
        <5>1. \A k \in 1..4 : Here + k <= Len(stream)
          BY <2>4, <2>7, <3>1, Numbers
        <5>2. \A k \in 1..4 : length'[k] = stream[Here + k]
          BY <2>6, <3>1
        <5> QED
          BY <4>3, <5>1, <5>2, Zenon
      <4>5. bad \in Lengths /\ bad \notin 1..MAX_PACKET
        BY FramingAssumption
      <4>6. FromBytes(length') = bad
        BY <4>4, <4>5, LengthIsSent
      <4>7. pc' = "failed"
        BY <2>1, <2>9, <4>5, <4>6, Zenon DEF LengthBytes, Goto
      <4> QED
        BY <1>2, <4>7 DEF Reading
    <3> QED
      BY <3>2, <3>3
  <2> QED
    BY <2>8, <2>9
<1> QED
  BY <1>3, <1>4

LEMMA ReadPayloadReads ==
    ASSUME IInv, ReadPayload PROVE PacketsIntact' /\ Reading'
<1>1. PICK n \in 1..(Len(packet) - got) :
        /\ pos + n <= Len(stream)
        /\ pos' = pos + n
        /\ IF expired THEN Goto("failed") /\ UNCHANGED <<length, packet, got>>
                      ELSE PayloadBytes(NextBytes(n))
        /\ UNCHANGED <<peerVars, stream, expired, handled, writeVars, taken>>
  BY DEF ReadPayload, Read
<1>2. PacketsIntact'
  BY <1>1 DEF IInv, PacketsIntact, peerVars
<1>3. CASE expired
  BY <1>1, <1>2, <1>3 DEF Goto, Reading
<1>4. CASE ~expired
  <2> DEFINE bytes == NextBytes(n)
             h == Len(handled)
  <2>1. PayloadBytes(bytes)
    BY <1>1, <1>4
  <2>2. n \in Nat /\ n <= Len(packet) - got /\ n >= 1
    BY <1>1, Numbers
  <2>3. Len(bytes) = n /\ \A i \in 1..n : bytes[i] = stream[pos + i]
    BY <1>1, <2>2, NextTypes DEF IInv
  <2> HIDE DEF bytes
  <2>4. AtPayload
    BY DEF IInv, ReadPayload, Reading
  <2>5. h + 1 \in 1..Len(sent) /\ (h + 1) - 1 = h /\ h \in 0..Len(sent)
    BY <2>4, Numbers DEF AtPayload
  <2>6. Here \in Nat /\ Current \in Seq(Bytes) /\ Len(Current) \in Nat
    BY <2>5, Numbers DEF Here, Current
  <2>7. \A k \in 1..Len(Current) : Here + 4 + k <= Len(stream) =>
           stream[Here + 4 + k] = Current[k]
    <3>1. \A k \in 1..Len(sent[h + 1]) : Begin((h + 1) - 1) + 4 + k <= Len(stream) =>
             stream[Begin((h + 1) - 1) + 4 + k] = sent[h + 1][k]
      BY <2>5, Zenon DEF IInv, Framed
    <3> QED
      BY <2>5, <3>1, Zenon DEF Here, Current
  <2>8. /\ packet' = [i \in 1..Len(packet) |->
                         IF i - got \in 1..n THEN bytes[i - got] ELSE packet[i]]
        /\ got' = got + n /\ call' = FALSE
        /\ pc' = IF got' < Len(packet) THEN "payload" ELSE "handle"
    BY <2>1, <2>3 DEF PayloadBytes, Goto
  <2>9. packet' \in Seq(Bytes) /\ Len(packet') = Len(packet)
    <3>1. TypeOK'
      BY ReadPayloadTypes DEF IInv
    <3>2. DOMAIN packet' = 1..Len(packet)
      BY <2>8
    <3>3. packet' \in Seq(Bytes) /\ DOMAIN packet' = 1..Len(packet') /\ Len(packet') \in Nat
      BY <3>1, LenProperties DEF TypeOK
    <3> QED
      BY <3>2, <3>3, Numbers
  <2>10. ASSUME NEW k \in 1..got' PROVE packet'[k] = Current[k]
    <3>1. k \in 1..Len(packet) /\ k \in 1..(got + n)
      BY <2>2, <2>8, Numbers
    <3>2. CASE k <= got
      <4>1. k \in 1..got /\ k - got \notin 1..n
        BY <3>1, <3>2, Numbers
      <4>2. packet'[k] = packet[k]
        BY <2>8, <3>1, <4>1
      <4> QED
        BY <2>4, <4>1, <4>2 DEF AtPayload
    <3>3. CASE ~(k <= got)
      <4>1. k - got \in 1..n
        BY <2>2, <3>1, <3>3, Numbers
      <4>2. packet'[k] = bytes[k - got]
        BY <2>8, <3>1, <4>1
      <4>3. bytes[k - got] = stream[pos + (k - got)]
        BY <2>3, <4>1
      <4>4. /\ pos + (k - got) = Here + 4 + k /\ Here + 4 + k <= Len(stream)
            /\ k \in 1..Len(Current)
        <5>1. pos = Here + 4 + got /\ Len(packet) = Len(Current)
          BY <2>4 DEF AtPayload
        <5>2. got \in Nat /\ Len(stream) \in Nat
          BY Numbers
        <5>3. pos + n <= Len(stream)
          BY <1>1
        <5> QED
          BY <2>2, <2>6, <3>1, <4>1, <5>1, <5>2, <5>3
      <4> QED
        BY <2>7, <4>2, <4>3, <4>4
    <3> QED
      BY <3>2, <3>3
  <2>11. UNCHANGED <<sent, ends, handled>> /\ Current' = Current /\ Here' = Here
    BY <1>1 DEF peerVars, Current, Here, Begin
  <2>12. pos' = Here + 4 + got'
    BY <1>1, <2>2, <2>4, <2>6, <2>8, Numbers DEF AtPayload
  <2>13. CASE got' < Len(packet)
    <3>1. AtPayload'
      BY <2>4, <2>9, <2>10, <2>11, <2>12, <2>13 DEF AtPayload
    <3> QED
      BY <1>2, <2>8, <2>13, <3>1 DEF Reading
  <2>14. CASE ~(got' < Len(packet))
    <3>1. got' = Len(packet) /\ Len(packet) = Len(Current)
      BY <2>2, <2>4, <2>8, <2>14, Numbers DEF AtPayload
    <3>2. packet' = Current
      BY <2>6, <2>9, <2>10, <3>1, SeqEqual
    <3>3. Begin(h + 1) = Here + 4 + Len(Current)
      <4>1. ends[h + 1] = Begin((h + 1) - 1) + 4 + Len(sent[h + 1])
        BY <2>5, Zenon DEF IInv, Framed
      <4>2. Begin(h + 1) = ends[h + 1]
        BY <2>5, Numbers DEF Begin
      <4> QED
        BY <2>5, <4>1, <4>2, Zenon DEF Here, Current
    <3>4. Begin(Len(handled) + 1)' = Begin(h + 1)
      BY <2>11 DEF Begin
    <3>5. AtHandle'
      BY <2>4, <2>11, <2>12, <3>1, <3>2, <3>3, <3>4 DEF AtHandle, AtPayload
    <3> QED
      BY <1>2, <2>8, <2>14, <3>5 DEF Reading
  <2> QED
    BY <2>13, <2>14
<1> QED
  BY <1>3, <1>4

LEMMA HandleReads ==
    ASSUME IInv, Handle PROVE PacketsIntact' /\ Reading'
<1>1. AtHandle
  BY DEF IInv, Handle, Reading
<1>2. /\ handled' = Append(handled, packet) /\ pc' = "answer" /\ UNCHANGED <<sent, ends, pos>>
  BY DEF Handle, Goto, peerVars, readVars
<1>3. handled \in Seq(Seq(Bytes)) /\ packet \in Seq(Bytes)
  BY DEF IInv, TypeOK
<1>4. /\ Len(handled') = Len(handled) + 1 /\ handled'[Len(handled) + 1] = packet
      /\ \A i \in 1..Len(handled) : handled'[i] = handled[i]
  BY <1>2, <1>3, AppendProperties
<1>5. PacketsIntact'
  <2>1. Len(handled') <= Len(sent)
    BY <1>1, <1>4, Numbers DEF AtHandle
  <2>2. ASSUME NEW i \in 1..Len(handled') PROVE handled'[i] = sent[i]
    <3>1. CASE i = Len(handled) + 1
      BY <1>1, <1>4, <3>1 DEF AtHandle, Current
    <3>2. CASE i # Len(handled) + 1
      <4>1. i \in 1..Len(handled)
        BY <1>4, <3>2, Numbers
      <4> QED
        BY <1>4, <4>1 DEF IInv, PacketsIntact
    <3> QED
      BY <3>1, <3>2
  <2> QED
    BY <1>2, <2>1, <2>2 DEF PacketsIntact
<1>6. pos' = Here'
  BY <1>1, <1>2, <1>4 DEF AtHandle, Here, Begin
<1> QED
  BY <1>2, <1>5, <1>6 DEF Reading

(* More of the stream: what was there stays *)
LEMMA MoreStream ==
    ASSUME IInv, NEW more \in Seq(Bytes), stream' = stream \o more
    PROVE  /\ Len(stream') = Len(stream) + Len(more) /\ Len(more) \in Nat
           /\ \A i \in 1..Len(stream) : stream'[i] = stream[i]
           /\ \A i \in 1..Len(more) : stream'[Len(stream) + i] = more[i]
<1>1. stream \in Seq(Bytes) /\ Len(stream) \in Nat /\ Len(more) \in Nat
  BY LenProperties DEF IInv, TypeOK
<1>2. /\ Len(stream \o more) = Len(stream) + Len(more)
      /\ \A i \in 1..Len(stream) + Len(more) :
           (stream \o more)[i] = IF i <= Len(stream) THEN stream[i] ELSE more[i - Len(stream)]
  BY <1>1, ConcatProperties, Zenon
<1>3. ASSUME NEW i \in 1..Len(stream) PROVE stream'[i] = stream[i]
  BY <1>1, <1>2
<1>4. ASSUME NEW i \in 1..Len(more) PROVE stream'[Len(stream) + i] = more[i]
  <2>1. /\ Len(stream) + i \in 1..Len(stream) + Len(more) /\ ~(Len(stream) + i <= Len(stream))
        /\ (Len(stream) + i) - Len(stream) = i
    BY <1>1
  <2> QED
    BY <1>2, <2>1
<1> QED
  BY <1>1, <1>2, <1>3, <1>4

(* The reader is not disturbed by what comes after the bytes it has read    *)
LEMMA ReaderStays ==
    ASSUME IInv,
           UNCHANGED <<pos, pc, length, packet, got, handled>>,
           \A i \in 1..pos : stream'[i] = stream[i],
           Len(sent') >= Len(sent), Len(sent') \in Nat,
           \A i \in 1..Len(sent) : sent'[i] = sent[i] /\ ends'[i] = ends[i],
           peerOpen' => peerOpen,
           ~peerOpen => stream' = stream
    PROVE  PacketsIntact' /\ Reading'
<1>1. PacketsIntact'
  BY Numbers DEF IInv, PacketsIntact
<1>2. \A i \in 0..Len(sent) : Begin(i)' = Begin(i)
  BY Numbers DEF Begin
<1>3. Here' = Here
  BY <1>2, Numbers DEF Here
<1>4. ASSUME Len(handled) < Len(sent)
      PROVE  Current' = Current /\ Begin(Len(handled) + 1)' = Begin(Len(handled) + 1)
             /\ Len(handled') < Len(sent')
  <2>1. Len(handled) + 1 \in 1..Len(sent) /\ Len(handled) + 1 # 0
    BY <1>4, Numbers
  <2>2. Len(handled) < Len(sent')
    BY <1>4, Numbers
  <2> QED
    BY <2>1, <2>2 DEF Current, Begin
<1>5. ASSUME pc = "length" PROVE AtLength'
  <2>1. AtLength /\ Here \in Nat
    BY <1>5, Numbers DEF IInv, Reading, Here
  <2>2. ASSUME NEW k \in 1..Len(length) PROVE length[k] = stream'[Here + k]
    <3>1. Here + k \in 1..pos
      BY <2>1, Numbers DEF AtLength
    <3> QED
      BY <2>1, <3>1 DEF AtLength
  <2> QED
    BY <1>3, <2>1, <2>2 DEF AtLength
<1>6. ASSUME pc = "payload" PROVE AtPayload'
  BY <1>3, <1>4, <1>6 DEF IInv, Reading, AtPayload
<1>7. ASSUME pc = "handle" PROVE AtHandle'
  BY <1>4, <1>7 DEF IInv, Reading, AtHandle
<1>8. ASSUME pc = "clean" PROVE ~peerOpen' /\ pos' = Len(stream') /\ pos' < Here' + 4
  BY <1>3, <1>8 DEF IInv, Reading
<1>9. pc \in {"answer", "write", "flush"} => pos' = Here'
  BY <1>3 DEF IInv, Reading
<1> QED
  BY <1>1, <1>5, <1>6, <1>7, <1>8, <1>9 DEF Reading

(* What the peer adds leaves the frames before it as they were *)
LEMMA FramedStays ==
    ASSUME IInv, peerOpen,
           Len(sent') \in Nat, Len(sent') >= Len(sent),
           \A i \in 1..Len(sent) : sent'[i] = sent[i] /\ ends'[i] = ends[i],
           \A i \in 1..Len(stream) : stream'[i] = stream[i],
           NEW i \in 1..Len(sent)
    PROVE  /\ ends'[i] = Begin(i - 1)' + 4 + Len(sent'[i]) /\ ends'[i] <= Len(stream)
           /\ \A k \in 1..4 : stream'[Begin(i - 1)' + k] = ToBytes(Len(sent'[i]))[k]
           /\ \A k \in 1..Len(sent'[i]) : stream'[Begin(i - 1)' + 4 + k] = sent'[i][k]
<1>1. /\ i - 1 \in 0..Len(sent) /\ Len(sent) \in 0..Len(sent)
      /\ Len(sent[i]) \in Nat /\ Len(stream) \in Nat
  BY Numbers
<1>2. Begin(i - 1) \in Nat /\ Begin(Len(sent)) \in Nat
  BY <1>1, Numbers
<1>3. Begin(i - 1)' = Begin(i - 1)
  BY <1>1, Numbers DEF Begin
<1>4. Begin(Len(sent)) <= Len(stream)
  BY <1>1, <1>2 DEF IInv, Ended, Tail4
<1>5. ends[i] = Begin(i - 1) + 4 + Len(sent[i]) /\ ends[i] <= Begin(Len(sent))
  BY Zenon DEF IInv, Framed
<1>6. /\ \A k \in 1..4 : Begin(i - 1) + k <= Len(stream) =>
            stream[Begin(i - 1) + k] = ToBytes(Len(sent[i]))[k]
      /\ \A k \in 1..Len(sent[i]) : Begin(i - 1) + 4 + k <= Len(stream) =>
            stream[Begin(i - 1) + 4 + k] = sent[i][k]
  BY Zenon DEF IInv, Framed
<1> DEFINE b == Begin(i - 1)
           l == Len(sent[i])
<1>11. b \in Nat /\ l \in Nat /\ b + 4 + l <= Len(stream) /\ Len(stream) \in Nat
  BY <1>1, <1>2, <1>4, <1>5
<1>7. ASSUME NEW k \in 1..4 PROVE stream'[Begin(i - 1) + k] = ToBytes(Len(sent[i]))[k]
  <2>1. b + k \in 1..Len(stream) /\ b + k <= Len(stream)
    <3> HIDE DEF b, l
    <3> QED
      BY <1>11
  <2> QED
    BY <1>6, <2>1, Zenon
<1>8. ASSUME NEW k \in 1..Len(sent[i]) PROVE stream'[Begin(i - 1) + 4 + k] = sent[i][k]
  <2>1. b + 4 + k \in 1..Len(stream) /\ b + 4 + k <= Len(stream)
    BY <1>11
  <2> QED
    BY <1>6, <2>1, Zenon
<1>9. ends[i] <= Len(stream)
  BY <1>1, <1>2, <1>4, <1>5
<1>10. sent'[i] = sent[i] /\ ends'[i] = ends[i]
  OBVIOUS
<1> QED
  BY <1>3, <1>5, <1>7, <1>8, <1>9, <1>10, Zenon

LEMMA PeerSendsLayout ==
    ASSUME IInv, NEW p \in Requests, PeerSends(p)
    PROVE  Framed' /\ Ended' /\ PacketsIntact' /\ Reading'
<1>0. PICK m \in Nat : m = Len(sent)
  BY Numbers
<1>1. /\ peerOpen /\ ~garbled /\ sent' = Append(sent, p) /\ stream' = stream \o Frame(p)
      /\ ends' = Append(ends, Len(stream')) /\ UNCHANGED <<garbled, peerOpen>>
      /\ UNCHANGED <<pos, pc, length, packet, got, handled>>
  BY DEF PeerSends
<1>2. /\ Frame(p) \in Seq(Bytes) /\ Len(p) \in Nat /\ Len(Frame(p)) = 4 + Len(p)
      /\ \A k \in 1..4 : Frame(p)[k] = ToBytes(Len(p))[k]
      /\ \A k \in 1..Len(p) : Frame(p)[4 + k] = p[k]
  BY FrameTypes
<1>3. /\ Len(stream') = Len(stream) + 4 + Len(p)
      /\ \A i \in 1..Len(stream) : stream'[i] = stream[i]
      /\ \A i \in 1..(4 + Len(p)) : stream'[Len(stream) + i] = Frame(p)[i]
  <2>1. /\ Len(stream') = Len(stream) + Len(Frame(p))
        /\ \A i \in 1..Len(stream) : stream'[i] = stream[i]
        /\ \A i \in 1..Len(Frame(p)) : stream'[Len(stream) + i] = Frame(p)[i]
    BY <1>1, <1>2, MoreStream
  <2> QED
    BY <1>2, <2>1, Numbers
<1>4. Len(stream) \in Nat /\ Len(stream') \in Nat
  BY <1>2, <1>3, Numbers
<1>5. /\ Len(sent') = m + 1 /\ sent'[m + 1] = p /\ ends'[m + 1] = Len(stream')
      /\ \A i \in 1..m : sent'[i] = sent[i] /\ ends'[i] = ends[i]
  <2>1. sent \in Seq(Requests) /\ ends \in Seq(Nat) /\ Len(ends) = m
    BY <1>0 DEF IInv, TypeOK
  <2>2. /\ Len(sent') = m + 1 /\ sent'[m + 1] = p /\ \A i \in 1..m : sent'[i] = sent[i]
    BY <1>0, <1>1, <2>1, AppendProperties
  <2>3. /\ ends'[m + 1] = Len(stream') /\ \A i \in 1..m : ends'[i] = ends[i]
    <3>1. Append(ends, Len(stream'))[Len(ends) + 1] = Len(stream')
          /\ \A i \in 1..Len(ends) : Append(ends, Len(stream'))[i] = ends[i]
      BY <1>4, <2>1, AppendProperties
    <3> QED
      BY <1>1, <2>1, <3>1
  <2> QED
    BY <2>2, <2>3
<1>6. Len(stream) = Begin(m)
  BY <1>0, <1>1, <1>4, Numbers DEF IInv, Ended, Tail4
<1>7. Begin(m)' = Begin(m) /\ Begin(Len(sent))' = Len(stream')
  <2>1. Begin(m)' = Begin(m)
    BY <1>4, <1>5 DEF Begin
  <2>2. Begin(Len(sent))' = ends'[m + 1]
    BY <1>4, <1>5 DEF Begin
  <2> QED
    BY <1>5, <2>1, <2>2
<1>8. PacketsIntact' /\ Reading'
  <2>1. \A i \in 1..pos : stream'[i] = stream[i]
    BY <1>3, Numbers
  <2>2. /\ Len(sent') >= Len(sent) /\ Len(sent') \in Nat
        /\ \A i \in 1..Len(sent) : sent'[i] = sent[i] /\ ends'[i] = ends[i]
    BY <1>0, <1>5
  <2> QED
    BY <1>1, <2>1, <2>2, ReaderStays
<1>9. Ended'
  BY <1>1, <1>4, <1>7 DEF Ended, Tail4
<1>10. Framed'
  <2> SUFFICES ASSUME NEW i \in 1..(m + 1)
               PROVE  /\ ends'[i] = Begin(i - 1)' + 4 + Len(sent'[i])
                      /\ ends'[i] <= Len(stream')
                      /\ \A k \in 1..4 :
                           stream'[Begin(i - 1)' + k] = ToBytes(Len(sent'[i]))[k]
                      /\ \A k \in 1..Len(sent'[i]) :
                           stream'[Begin(i - 1)' + 4 + k] = sent'[i][k]
    BY <1>5, <1>7, Zenon DEF Framed
  <2>1. CASE i = m + 1
    <3>1. i - 1 = m /\ sent'[i] = p /\ ends'[i] = Len(stream')
      BY <1>5, <2>1
    <3>2. Begin(i - 1)' = Len(stream)
      BY <1>6, <1>7, <3>1
    <3>3. ASSUME NEW k \in 1..4 PROVE stream'[Len(stream) + k] = ToBytes(Len(p))[k]
      BY <1>2, <1>3
    <3>4. ASSUME NEW k \in 1..Len(p) PROVE stream'[Len(stream) + 4 + k] = p[k]
      <4>1. 4 + k \in 1..(4 + Len(p)) /\ Len(stream) + (4 + k) = Len(stream) + 4 + k
        BY <1>2, <1>4
      <4> QED
        BY <1>2, <1>3, <4>1
    <3>5. /\ Len(stream') = Len(stream) + 4 + Len(p) /\ Len(stream') <= Len(stream')
      BY <1>3, <1>4
    <3> QED
      BY <3>1, <3>2, <3>3, <3>4, <3>5, Zenon
  <2>2. CASE i # m + 1
    <3>1. i \in 1..Len(sent)
      BY <1>0, <2>2
    <3>2. /\ Len(sent') >= Len(sent) /\ Len(sent') \in Nat
          /\ \A j \in 1..Len(sent) : sent'[j] = sent[j] /\ ends'[j] = ends[j]
      BY <1>0, <1>5
    <3>3. /\ ends'[i] = Begin(i - 1)' + 4 + Len(sent'[i]) /\ ends'[i] <= Len(stream)
          /\ \A k \in 1..4 : stream'[Begin(i - 1)' + k] = ToBytes(Len(sent'[i]))[k]
          /\ \A k \in 1..Len(sent'[i]) : stream'[Begin(i - 1)' + 4 + k] = sent'[i][k]
      BY <1>1, <1>3, <3>1, <3>2, FramedStays
    <3>4. ends'[i] <= Len(stream')
      <4>1. ends'[i] \in Nat
        <5>1. TypeOK' /\ i \in 1..Len(ends')
          BY <1>5, PeerSendsTypes DEF IInv, TypeOK
        <5> QED
          BY <5>1, ElementOfSeq DEF TypeOK
      <4> QED
        BY <1>2, <1>3, <1>4, <3>3, <4>1
    <3> QED
      BY <3>3, <3>4, Zenon
  <2> QED
    BY <2>1, <2>2
<1> QED
  BY <1>8, <1>9, <1>10

LEMMA PeerGarblesLayout ==
    ASSUME IInv, NEW n \in BadLengths, PeerGarbles(n)
    PROVE  Framed' /\ Ended' /\ PacketsIntact' /\ Reading'
<1>1. /\ peerOpen /\ ~garbled /\ garbled' = TRUE /\ stream' = stream \o ToBytes(n)
      /\ UNCHANGED <<sent, ends, peerOpen, pos, pc, length, packet, got, handled>>
  BY DEF PeerGarbles
<1> DEFINE t == ToBytes(n)
<1>2. t \in Seq(Bytes) /\ Len(t) = 4
  <2>1. n \in Lengths
    BY FramingAssumption
  <2> QED
    BY <2>1, Digits
<1>3. stream' = stream \o t
  BY <1>1
<1> HIDE DEF t
<1>4. /\ Len(stream') = Len(stream) + 4
      /\ \A i \in 1..Len(stream) : stream'[i] = stream[i]
      /\ \A i \in 1..4 : stream'[Len(stream) + i] = t[i]
  <2>1. /\ Len(stream') = Len(stream) + Len(t)
        /\ \A i \in 1..Len(stream) : stream'[i] = stream[i]
        /\ \A i \in 1..Len(t) : stream'[Len(stream) + i] = t[i]
    BY <1>2, <1>3, MoreStream
  <2> QED
    BY <1>2, <2>1, Zenon
<1>5. Len(stream) \in Nat /\ Len(sent) \in Nat
  BY Numbers
<1>6. Len(stream) = Begin(Len(sent)) /\ Begin(Len(sent))' = Begin(Len(sent))
  BY <1>1, <1>5, Numbers DEF IInv, Ended, Tail4, Begin
<1>7. PacketsIntact' /\ Reading'
  <2>1. \A i \in 1..pos : stream'[i] = stream[i]
    BY <1>4, Numbers
  <2> QED
    <3>1. /\ Len(sent') >= Len(sent) /\ Len(sent') \in Nat
          /\ \A i \in 1..Len(sent) : sent'[i] = sent[i] /\ ends'[i] = ends[i]
      BY <1>1, <1>5
    <3> QED
      BY <1>1, <2>1, <3>1, ReaderStays
<1>8. Ended'
  <2>1. Len(stream') = Begin(Len(sent))' + Tail4'
    BY <1>1, <1>4, <1>6 DEF Tail4
  <2>2. \A k \in 1..4 : stream'[Begin(Len(sent))' + k] = ToBytes(n)[k]
    BY <1>4, <1>6, Zenon DEF t
  <2>3. Len(stream') <= Begin(Len(sent))' + Tail4'
    BY <1>4, <1>5, <2>1
  <2> QED
    BY <2>1, <2>2, <2>3, Zenon DEF Ended
<1>9. Framed'
  <2> SUFFICES ASSUME NEW i \in 1..Len(sent)
               PROVE  /\ ends'[i] = Begin(i - 1)' + 4 + Len(sent'[i])
                      /\ ends'[i] <= Begin(Len(sent))'
                      /\ \A k \in 1..4 :
                           stream'[Begin(i - 1)' + k] = ToBytes(Len(sent'[i]))[k]
                      /\ \A k \in 1..Len(sent'[i]) :
                           stream'[Begin(i - 1)' + 4 + k] = sent'[i][k]
    BY <1>1, Zenon DEF Framed
  <2>1. /\ Len(sent') >= Len(sent) /\ Len(sent') \in Nat
        /\ \A j \in 1..Len(sent) : sent'[j] = sent[j] /\ ends'[j] = ends[j]
    BY <1>1, <1>5
  <2>2. /\ ends'[i] = Begin(i - 1)' + 4 + Len(sent'[i]) /\ ends'[i] <= Len(stream)
        /\ \A k \in 1..4 : stream'[Begin(i - 1)' + k] = ToBytes(Len(sent'[i]))[k]
        /\ \A k \in 1..Len(sent'[i]) : stream'[Begin(i - 1)' + 4 + k] = sent'[i][k]
    BY <1>1, <1>4, <2>1, FramedStays
  <2> QED
    BY <1>6, <2>2, Zenon
<1> QED
  BY <1>7, <1>8, <1>9

LEMMA PeerClosesLayout ==
    ASSUME IInv, PeerCloses
    PROVE  Framed' /\ Ended' /\ PacketsIntact' /\ Reading'
<1>1. PICK n \in pos..Len(stream) : stream' = SubSeq(stream, 1, n)
  BY DEF PeerCloses
<1>2. /\ peerOpen /\ peerOpen' = FALSE
      /\ UNCHANGED <<sent, ends, garbled, pos, pc, length, packet, got, handled>>
  BY DEF PeerCloses
<1>3. n \in Nat /\ n <= Len(stream) /\ pos <= n /\ Len(stream) \in Nat
  BY <1>1, Numbers
<1>4. Len(stream') = n /\ \A i \in 1..n : stream'[i] = stream[i]
  <2>1. /\ Len(SubSeq(stream, 0 + 1, 0 + n)) = n
        /\ \A i \in 1..n : SubSeq(stream, 0 + 1, 0 + n)[i] = stream[0 + i]
    <3>1. stream \in Seq(Bytes) /\ 0 \in Nat /\ 0 + n <= Len(stream)
      BY <1>3 DEF IInv, TypeOK
    <3> QED
      BY <1>3, <3>1, TakeTypes, Zenon
  <2>2. 0 + 1 = 1 /\ 0 + n = n /\ \A i \in 1..n : 0 + i = i
    BY <1>3
  <2> QED
    BY <1>1, <2>1, <2>2
<1>5. \A i \in 0..Len(sent) : Begin(i)' = Begin(i) /\ Begin(i) \in Nat
  BY <1>2, Numbers DEF Begin
<1>6. PacketsIntact' /\ Reading'
  <2>1. \A i \in 1..pos : stream'[i] = stream[i]
    BY <1>3, <1>4, Numbers
  <2> QED
    BY <1>2, <2>1, Numbers, ReaderStays
(* Whatever is left at a place is what was there *)
<1>7. ASSUME NEW b \in Nat, NEW c, NEW k \in Nat \ {0},
             b + k <= Len(stream) => stream[b + k] = c
      PROVE  b + k <= Len(stream') => stream'[b + k] = c
  <2> SUFFICES ASSUME b + k <= n PROVE stream'[b + k] = c
    BY <1>4
  <2>1. b + k \in 1..n /\ b + k <= Len(stream)
    BY <1>3
  <2> QED
    BY <1>4, <1>7, <2>1
<1>8. Framed'
  <2> SUFFICES ASSUME NEW i \in 1..Len(sent)
               PROVE  /\ ends'[i] = Begin(i - 1)' + 4 + Len(sent'[i])
                      /\ ends'[i] <= Begin(Len(sent))'
                      /\ \A k \in 1..4 : Begin(i - 1)' + k <= Len(stream') =>
                           stream'[Begin(i - 1)' + k] = ToBytes(Len(sent'[i]))[k]
                      /\ \A k \in 1..Len(sent'[i]) :
                           Begin(i - 1)' + 4 + k <= Len(stream') =>
                             stream'[Begin(i - 1)' + 4 + k] = sent'[i][k]
    BY <1>2, Zenon DEF Framed
  <2>0. /\ Begin(Len(sent))' = Begin(Len(sent)) /\ Begin(i - 1)' = Begin(i - 1)
        /\ sent'[i] = sent[i] /\ ends'[i] = ends[i]
    BY <1>2 DEF Begin
  <2>1. Begin(i - 1) \in Nat /\ Begin(i - 1) + 4 \in Nat /\ Len(sent[i]) \in Nat
    BY Numbers
  <2>2. ASSUME NEW k \in 1..4
        PROVE  Begin(i - 1) + k <= Len(stream') =>
                 stream'[Begin(i - 1) + k] = ToBytes(Len(sent[i]))[k]
    <3>1. Begin(i - 1) + k <= Len(stream) =>
            stream[Begin(i - 1) + k] = ToBytes(Len(sent[i]))[k]
      BY Zenon DEF IInv, Framed
    <3>2. k \in Nat \ {0}
      OBVIOUS
    <3> QED
      BY <1>7, <2>1, <3>1, <3>2, Zenon
  <2>3. ASSUME NEW k \in 1..Len(sent[i])
        PROVE  Begin(i - 1) + 4 + k <= Len(stream') =>
                 stream'[Begin(i - 1) + 4 + k] = sent[i][k]
    <3>1. Begin(i - 1) + 4 + k <= Len(stream) =>
            stream[Begin(i - 1) + 4 + k] = sent[i][k]
      BY Zenon DEF IInv, Framed
    <3>2. k \in Nat \ {0}
      BY <2>1
    <3> QED
      BY <1>7, <2>1, <3>1, <3>2, Zenon
  <2>4. ends[i] = Begin(i - 1) + 4 + Len(sent[i]) /\ ends[i] <= Begin(Len(sent))
    BY Zenon DEF IInv, Framed
  <2> QED
    BY <2>0, <2>2, <2>3, <2>4, Zenon
<1>9. Ended'
  <2>1. /\ Begin(Len(sent))' = Begin(Len(sent)) /\ Begin(Len(sent)) \in Nat
        /\ Tail4' = Tail4 /\ Tail4 \in Nat
    BY <1>2, Numbers DEF Begin, Tail4
  <2>2. Len(stream') <= Begin(Len(sent))' + Tail4'
    BY <1>3, <1>4, <2>1 DEF IInv, Ended
  <2>3. ASSUME garbled
        PROVE  \E bad \in BadLengths : \A k \in 1..4 :
                 Begin(Len(sent)) + k <= Len(stream') =>
                   stream'[Begin(Len(sent)) + k] = ToBytes(bad)[k]
    <3>1. PICK bad \in BadLengths : \A k \in 1..4 :
            Begin(Len(sent)) + k <= Len(stream) =>
              stream[Begin(Len(sent)) + k] = ToBytes(bad)[k]
      BY <2>3 DEF IInv, Ended
    <3>2. \A k \in 1..4 : k \in Nat \ {0}
      OBVIOUS
    <3> QED
      BY <1>7, <2>1, <3>1, <3>2, Zenon
  <2> QED
    BY <1>2, <2>1, <2>2, <2>3, Zenon DEF Ended
<1> QED
  BY <1>6, <1>8, <1>9

(* The steps that neither read nor send: where the reader is, is the same   *)
(* place under another name                                                 *)
LEMMA QuietReads ==
    ASSUME IInv, UNCHANGED <<sent, ends, garbled, peerOpen, stream, pos, packet, got, handled>>,
           \/ UNCHANGED <<pc, length>>
           \/ pc' = "failed"
           \/ pc \in {"answer", "write", "flush"} /\ pc' \in {"answer", "write", "flush"}
           \/ pc \in {"answer", "write", "flush"} /\ pc' = "length" /\ length' = <<>>
           \/ pc = "length" /\ pc' = "clean" /\ ~peerOpen /\ pos = Len(stream)
    PROVE  Framed' /\ Ended' /\ PacketsIntact' /\ Reading'
<1>1. Framed' /\ Ended'
  BY StreamStays
<1>2. PacketsIntact'
  BY DEF IInv, PacketsIntact
<1>3. Here' = Here /\ Here \in Nat /\ Current' = Current
      /\ Begin(Len(handled) + 1)' = Begin(Len(handled) + 1)
  BY Numbers DEF Here, Begin, Current
<1>4. Reading'
  <2>1. CASE UNCHANGED <<pc, length>>
    <3>1. AtLength' = AtLength /\ AtPayload' = AtPayload /\ AtHandle' = AtHandle
      BY <1>3, <2>1 DEF AtLength, AtPayload, AtHandle
    <3> QED
      BY <1>3, <2>1, <3>1 DEF IInv, Reading
  <2>2. CASE pc' = "failed"
    BY <2>2 DEF Reading
  <2>3. CASE pc \in {"answer", "write", "flush"} /\ pc' \in {"answer", "write", "flush"}
    BY <1>3, <2>3 DEF IInv, Reading
  <2>4. CASE pc \in {"answer", "write", "flush"} /\ pc' = "length" /\ length' = <<>>
    <3>1. Len(length') = 0
      BY <2>4
    <3>2. AtLength'
      BY <1>3, <2>4, <3>1, Numbers DEF IInv, Reading, AtLength
    <3> QED
      BY <2>4, <3>2 DEF Reading
  <2>5. CASE pc = "length" /\ pc' = "clean" /\ ~peerOpen /\ pos = Len(stream)
    BY <1>3, <2>5, Numbers DEF IInv, Reading, AtLength
  <2> QED
    BY <2>1, <2>2, <2>3, <2>4, <2>5
<1> QED
  BY <1>1, <1>2, <1>4

LEMMA IInvInductive == IInv /\ [Next]_vars => IInv'
<1> SUFFICES ASSUME IInv, [Next]_vars PROVE Framed' /\ Ended' /\ PacketsIntact' /\ Reading'
  BY TypesInductive DEF IInv
<1>1. CASE StartCall
  BY <1>1, QuietReads DEF StartCall, Goto, peerVars, readVars
<1>2. CASE CallFails
  BY <1>2, QuietReads DEF CallFails, Goto, peerVars, readVars
<1>3. CASE EndOfStream
  BY <1>3, QuietReads DEF EndOfStream, Goto, peerVars, readVars
<1>4. CASE Flush
  BY <1>4, QuietReads DEF Flush, Goto, peerVars, readVars
<1>5. CASE Interrupted
  BY <1>5, QuietReads DEF Interrupted, peerVars, readVars
<1>6. CASE Expire
  BY <1>6, QuietReads DEF Expire, peerVars, readVars
<1>7. CASE PeerReads
  BY <1>7, QuietReads DEF PeerReads, peerVars, readVars
<1>8. CASE UNCHANGED vars
  BY <1>8, QuietReads DEF vars, peerVars, readVars
<1>9. CASE Answer
  BY <1>9, QuietReads DEF Answer, Goto, peerVars
<1>10. CASE Write
  <2>1. pc = "write" /\ pc' \in {"failed", "write", "flush"}
    BY <1>10 DEF Write, Goto
  <2>2. UNCHANGED <<peerVars, readVars, handled>>
    BY <1>10 DEF Write
  <2> QED
    BY <2>1, <2>2, QuietReads DEF peerVars, readVars
<1>11. CASE ReadLength \/ ReadPayload
  <2>1. UNCHANGED <<sent, ends, stream, garbled, peerOpen>>
    BY <1>11 DEF ReadLength, ReadPayload, Read, peerVars
  <2> QED
    BY <1>11, <2>1, StreamStays, ReadLengthReads, ReadPayloadReads
<1>12. CASE Handle
  <2>1. UNCHANGED <<sent, ends, stream, garbled, peerOpen>>
    BY <1>12 DEF Handle, peerVars, readVars
  <2> QED
    BY <1>12, <2>1, StreamStays, HandleReads
<1> QED
  BY <1>1, <1>2, <1>3, <1>4, <1>5, <1>6, <1>7, <1>8, <1>9, <1>10, <1>11, <1>12,
     PeerSendsLayout, PeerGarblesLayout, PeerClosesLayout DEF Next, Worker, Over

LEMMA IInvHolds == Spec => []IInv
  BY IInvInit, IInvInductive, PTL DEF Spec

(* However the peer's packets are cut, whatever they contain and however    *)
(* many they are, read_packet_into hands on exactly what was sent: nothing  *)
(* of an earlier packet in the reused buffer, nothing of a torn one.        *)
THEOREM ReadsWhatWasSent == Spec => []PacketsIntact
<1>1. IInv => PacketsIntact
  BY DEF IInv
<1> QED
  BY <1>1, IInvHolds, PTL

(* A close that read_packet_into reports as clean has lost no packet of     *)
(* which more than a part of the length was sent.                           *)
THEOREM CleanMeansComplete == Spec => []CleanCloseLosesNothing
<1>1. IInv => CleanCloseLosesNothing
  <2> SUFFICES ASSUME IInv, pc = "clean"
               PROVE  Len(stream) - (IF handled = <<>> THEN 0 ELSE ends[Len(handled)]) < 4
    BY DEF CleanCloseLosesNothing
  <2>1. pos = Len(stream) /\ pos < Here + 4
    BY DEF IInv, Reading
  <2>2. Here = IF handled = <<>> THEN 0 ELSE ends[Len(handled)]
    <3>1. handled \in Seq(Seq(Bytes))
      BY DEF IInv, TypeOK
    <3>2. handled = <<>> <=> Len(handled) = 0
      BY <3>1, EmptySeq
    <3> QED
      BY <3>2 DEF Here, Begin
  <2>3. Here \in Nat /\ Len(stream) \in Nat
    BY Numbers DEF Here
  <2> QED
    BY <2>1, <2>2, <2>3
<1> QED
  BY <1>1, IInvHolds, PTL

-----------------------------------------------------------------------------
(* The answers *)

Frames(a) == [i \in 1..Len(a) |-> Frame(a[i])]
Whole(a) == FlattenSeq(Frames(a))

(* While an answer is written, what was written before is all of the others *)
Torn == \E before \in Seq(Bytes) :
            /\ Whole(answered) = before \o CurrentFrame
            /\ output = before \o SubSeq(CurrentFrame, 1, written)
            /\ written < Len(CurrentFrame)

Writes == /\ IsPrefix(output, Whole(answered))
          /\ pc \in {"length", "payload", "handle", "answer", "flush"} => output = Whole(answered)
          /\ pc = "write" => Torn

(* The frames of answers and the bytes they make up. *)
LEMMA FramesTypes ==
    ASSUME NEW a \in Seq(Replies)
    PROVE  Frames(a) \in Seq(Seq(Bytes)) /\ Len(Frames(a)) = Len(a) /\ Whole(a) \in Seq(Bytes)
<1>1. Len(a) \in Nat /\ \A i \in 1..Len(a) : a[i] \in Replies
  BY LenProperties, ElementOfSeq
<1>2. Frames(a) \in [1..Len(a) -> Seq(Bytes)]
  BY <1>1, FrameTypes DEF Frames
<1>3. Frames(a) \in Seq(Seq(Bytes)) /\ Len(Frames(a)) = Len(a)
  BY <1>1, <1>2, TableIsSeq
<1> QED
  BY <1>3, FlattenType DEF Whole

(* One more answer adds its frame *)
LEMMA WholeAppend ==
    ASSUME NEW a \in Seq(Replies), NEW p \in Replies
    PROVE  Whole(Append(a, p)) = Whole(a) \o Frame(p)
<1> DEFINE b == Append(a, p)
<1>1. /\ Len(a) \in Nat /\ b \in Seq(Replies) /\ Len(b) = Len(a) + 1
      /\ \A i \in 1..Len(a) : b[i] = a[i]
      /\ b[Len(a) + 1] = p
  BY LenProperties, AppendProperties
<1> HIDE DEF b
<1>2. /\ Frames(a) \in Seq(Seq(Bytes)) /\ Len(Frames(a)) = Len(a)
      /\ Frames(b) \in Seq(Seq(Bytes)) /\ Len(Frames(b)) = Len(b)
      /\ Frame(p) \in Seq(Bytes)
  BY <1>1, FramesTypes, FrameTypes
<1> DEFINE c == Append(Frames(a), Frame(p))
<1>3. /\ c \in Seq(Seq(Bytes)) /\ Len(c) = Len(Frames(a)) + 1
      /\ \A i \in 1..Len(Frames(a)) : c[i] = Frames(a)[i]
      /\ c[Len(Frames(a)) + 1] = Frame(p)
  <2> DEFINE fa == Frames(a)
             fp == Frame(p)
             SB == Seq(Bytes)
  <2>1. fa \in Seq(SB) /\ fp \in SB
    BY <1>2
  <2> HIDE DEF fa, fp, SB
  <2>2. /\ Append(fa, fp) \in Seq(SB) /\ Len(Append(fa, fp)) = Len(fa) + 1
        /\ \A i \in 1..Len(fa) : Append(fa, fp)[i] = fa[i]
        /\ Append(fa, fp)[Len(fa) + 1] = fp
    BY <2>1, AppendProperties
  <2> QED
    BY <2>2 DEF fa, fp, SB
<1> HIDE DEF c
<1>4. \A i \in 1..Len(b) : Frames(b)[i] = c[i]
  <2> SUFFICES ASSUME NEW i \in 1..Len(b) PROVE Frames(b)[i] = c[i]
    OBVIOUS
  <2>1. Frames(b)[i] = Frame(b[i])
    BY DEF Frames
  <2>2. CASE i <= Len(a)
    <3>1. i \in 1..Len(a) /\ i \in 1..Len(Frames(a))
      BY <2>2, <1>1, <1>2
    <3>2. b[i] = a[i] /\ c[i] = Frames(a)[i] /\ Frames(a)[i] = Frame(a[i])
      BY <3>1, <1>1, <1>3 DEF Frames
    <3> QED
      BY <2>1, <3>2
  <2>3. CASE i = Len(a) + 1
    BY <2>1, <2>3, <1>1, <1>2, <1>3
  <2> QED
    BY <2>2, <2>3, <1>1
<1>5. Frames(b) = c
  BY <1>1, <1>2, <1>3, <1>4, SeqEqual
<1> QED
  BY <1>2, <1>5, FlattenAppend DEF Whole, b, c

(* What is written next continues what was written of the frame *)
LEMMA Continues ==
    ASSUME NEW before \in Seq(Bytes), NEW frame \in Seq(Bytes),
           NEW w \in Nat, NEW n \in Nat, w + n <= Len(frame)
    PROVE  /\ (before \o SubSeq(frame, 1, w)) \o SubSeq(frame, w + 1, w + n)
                = before \o SubSeq(frame, 1, w + n)
           /\ IsPrefix(before \o SubSeq(frame, 1, w + n), before \o frame)
           /\ w + n = Len(frame) => SubSeq(frame, 1, w + n) = frame
<1> DEFINE x == SubSeq(frame, 1, w)
           y == SubSeq(frame, w + 1, w + n)
           z == SubSeq(frame, 1, w + n)
<1>1. Len(frame) \in Nat /\ w \in 0..Len(frame) /\ w + n \in 0..Len(frame) /\ w + n \in Nat
  BY LenProperties
<1>2. x \in Seq(Bytes) /\ z \in Seq(Bytes)
  BY <1>1, PrefixTypes
<1>3. y \in Seq(Bytes)
  BY TakeTypes
<1>4. x \o y = z
  BY Rejoin
<1>5. PICK v \in Seq(Bytes) : z \o v = frame
  <2> DEFINE m == w + n
             l == Len(frame) - m
  <2>1. m \in Nat /\ l \in Nat /\ m + l = Len(frame)
    BY <1>1
  <2>2. z = SubSeq(frame, 1, m)
    OBVIOUS
  <2> HIDE DEF m, l, z
  <2>3. SubSeq(frame, m + 1, m + l) \in Seq(Bytes)
    BY <2>1, <1>1, TakeTypes
  <2>4. SubSeq(frame, 1, m) \o SubSeq(frame, m + 1, m + l) = SubSeq(frame, 1, m + l)
    BY <2>1, <1>1, Rejoin
  <2>5. SubSeq(frame, 1, Len(frame)) = frame
    BY WholePrefix
  <2> QED
    BY <2>1, <2>2, <2>3, <2>4, <2>5
<1> HIDE DEF x, y, z
<1>6. (before \o x) \o y = before \o z
  <2>1. (before \o x) \o y = before \o (x \o y)
    BY <1>2, <1>3
  <2> QED
    BY <2>1, <1>4
<1>7. IsPrefix(before \o z, before \o frame)
  <2>1. before \o (z \o v) = (before \o z) \o v
    BY <1>2
  <2>2. before \o z \in Seq(Bytes)
    BY <1>2, ConcatProperties, Zenon
  <2>3. IsPrefix(before \o z, (before \o z) \o v)
    BY <2>2, <1>5, ConcatPrefix, Zenon
  <2> QED
    BY <2>1, <2>3, <1>5, Zenon
<1>8. ASSUME w + n = Len(frame) PROVE z = frame
  BY <1>8, WholePrefix DEF z
<1> QED
  BY <1>6, <1>7, <1>8 DEF x, y, z

(* Nothing is written at first. *)
LEMMA WritesInit == Init => Writes
<1> SUFFICES ASSUME Init PROVE Writes
  OBVIOUS
<1> DEFINE none == <<>>
<1>1. pc = "length" /\ answered = none /\ output = none /\ none \in Seq(Bytes)
  BY EmptySeq DEF Init
<1>2. Whole(none) = none
  <2>1. Len(Frames(none)) = 0 /\ Frames(none) \in Seq(Seq(Bytes))
    BY FramesTypes, EmptySeq
  <2>2. Frames(none) = none
    BY <2>1, EmptySeq
  <2> QED
    BY <2>2, FlattenEmpty DEF Whole
<1>3. IsPrefix(none, none)
  BY <1>1, ConcatPrefix
<1> HIDE DEF none
<1> QED
  BY <1>1, <1>2, <1>3 DEF Writes

(* Beginning an answer. *)
LEMMA AnswerWrites ==
    ASSUME TypeOK, Writes, Answer PROVE Writes'
<1>1. CASE todo = <<>>
  <2>1. pc = "answer" /\ pc' = "length" /\ UNCHANGED <<answered, output>>
    BY <1>1 DEF Answer, Goto, writeVars
  <2> QED
    BY <2>1 DEF Writes
<1>2. CASE todo # <<>>
  <2>1. /\ pc = "answer" /\ pc' = "write" /\ written' = 0 /\ output' = output
        /\ answered' = Append(answered, Head(todo))
    BY <1>2 DEF Answer, Goto
  <2>2. Head(todo) \in Replies /\ answered \in Seq(Replies) /\ output \in Seq(Bytes)
    BY <1>2, HeadTailProperties DEF TypeOK
  <2> DEFINE a == Head(todo)
             frame == Frame(a)
  <2>3. /\ Whole(answered') = Whole(answered) \o frame
        /\ answered'[Len(answered')] = a
        /\ output = Whole(answered)
    <3>1. Whole(Append(answered, a)) = Whole(answered) \o Frame(a)
      BY <2>2, WholeAppend
    <3>2. Len(answered') = Len(answered) + 1 /\ Append(answered, a)[Len(answered) + 1] = a
      BY <2>1, <2>2, AppendProperties
    <3> QED
      BY <3>1, <3>2, <2>1 DEF Writes
  <2>4. frame \in Seq(Bytes) /\ Len(frame) \in Nat \ {0}
    BY <2>2, FrameTypes
  <2> HIDE DEF a
  <2>5. CurrentFrame' = frame
    BY <2>3 DEF CurrentFrame
  <2> HIDE DEF frame
  <2>6. SubSeq(frame, 1, 0) = <<>> /\ output \o <<>> = output
    <3>1. 0 \in 0..Len(frame)
      BY <2>4
    <3>2. SubSeq(frame, 1, 0) \in Seq(Bytes) /\ Len(SubSeq(frame, 1, 0)) = 0
      BY <2>4, <3>1, PrefixTypes
    <3> QED
      BY <3>2, <2>2, EmptySeq, ConcatEmptySeq
  <2>7. IsPrefix(output, output \o frame)
    BY <2>2, <2>4, ConcatPrefix
  <2>8. Torn'
    <3>1. Whole(answered') = output \o CurrentFrame'
      BY <2>3, <2>5
    <3>2. output' = output \o SubSeq(CurrentFrame', 1, written')
      BY <2>1, <2>5, <2>6
    <3>3. written' < Len(CurrentFrame')
      BY <2>1, <2>4, <2>5
    <3> QED
      BY <2>2, <3>1, <3>2, <3>3, Zenon DEF Torn
  <2> QED
    BY <2>1, <2>3, <2>7, <2>8 DEF Writes
<1> QED
  BY <1>1, <1>2

(* Writing a part of an answer. *)
LEMMA WriteWrites ==
    ASSUME TypeOK, Writing, Writes, Write PROVE Writes'
<1>1. PICK n \in 1..(Len(CurrentFrame) - written) :
        /\ output' = output \o SubSeq(CurrentFrame, written + 1, written + n)
        /\ written' = written + n
        /\ Goto(IF expired THEN "failed"
                ELSE IF written' < Len(CurrentFrame) THEN "write" ELSE "flush")
  BY DEF Write
<1>2. answered' = answered /\ CurrentFrame' = CurrentFrame
  BY DEF Write, CurrentFrame
<1>3. CurrentFrame \in Seq(Bytes) /\ Len(CurrentFrame) \in Nat
  <2>1. answered # <<>> /\ answered \in Seq(Replies)
    BY DEF Write, TypeOK, Writing
  <2>2. Len(answered) \in 1..Len(answered)
    BY <2>1, EmptySeq
  <2>3. answered[Len(answered)] \in Replies
    BY <2>1, <2>2, ElementOfSeq
  <2> QED
    BY <2>3, FrameTypes, LenProperties DEF CurrentFrame
<1>4. PICK before \in Seq(Bytes) :
        /\ Whole(answered) = before \o CurrentFrame
        /\ output = before \o SubSeq(CurrentFrame, 1, written)
  BY DEF Writes, Torn, Write
<1>5. written \in Nat /\ n \in Nat /\ written + n <= Len(CurrentFrame)
  BY <1>1, <1>3 DEF TypeOK
<1>6. /\ output' = before \o SubSeq(CurrentFrame, 1, written + n)
      /\ IsPrefix(output', Whole(answered))
      /\ written + n = Len(CurrentFrame) => output' = Whole(answered)
  <2> DEFINE frame == CurrentFrame
             w == written
  <2>1. frame \in Seq(Bytes) /\ w \in Nat /\ w + n <= Len(frame)
    BY <1>3, <1>5
  <2>2. /\ output = before \o SubSeq(frame, 1, w)
        /\ output' = output \o SubSeq(frame, w + 1, w + n)
        /\ Whole(answered) = before \o frame
    BY <1>1, <1>4
  <2> HIDE DEF frame, w
  <2>3. /\ (before \o SubSeq(frame, 1, w)) \o SubSeq(frame, w + 1, w + n)
             = before \o SubSeq(frame, 1, w + n)
        /\ IsPrefix(before \o SubSeq(frame, 1, w + n), before \o frame)
        /\ w + n = Len(frame) => SubSeq(frame, 1, w + n) = frame
    BY <2>1, <1>5, Continues
  <2>4. output' = before \o SubSeq(frame, 1, w + n)
    BY <2>2, <2>3, Zenon
  <2>5. IsPrefix(output', Whole(answered))
    BY <2>2, <2>3, <2>4, Zenon
  <2>6. w + n = Len(frame) => output' = Whole(answered)
    BY <2>2, <2>3, <2>4, Zenon
  <2> QED
    BY <2>4, <2>5, <2>6 DEF frame, w
<1>7. CASE pc' = "write"
  <2>1. written' < Len(CurrentFrame)
    BY <1>1, <1>7 DEF Goto
  <2>2. Torn'
    BY <1>1, <1>2, <1>4, <1>6, <2>1 DEF Torn
  <2> QED
    BY <1>2, <1>6, <1>7, <2>2 DEF Writes
<1>8. CASE pc' = "flush"
  <2>1. written + n = Len(CurrentFrame)
    BY <1>1, <1>3, <1>5, <1>8 DEF Goto
  <2> QED
    BY <1>2, <1>6, <1>8, <2>1 DEF Writes
<1>9. CASE pc' = "failed"
  BY <1>2, <1>6, <1>9 DEF Writes
<1> QED
  BY <1>1, <1>7, <1>8, <1>9 DEF Goto

(* What has been written is a prefix of the answers begun, always. *)
LEMMA WritesInductive == TypeOK /\ Writing /\ Writes /\ [Next]_vars => Writes'
<1> SUFFICES ASSUME TypeOK, Writing, Writes, [Next]_vars PROVE Writes'
  OBVIOUS
<1>1. ASSUME UNCHANGED <<answered, output, written>>,
             \/ pc' = pc \/ pc' \in {"failed", "clean"}
             \/ pc \in {"length", "payload", "handle", "flush"}
                /\ pc' \in {"length", "payload", "handle", "answer"}
      PROVE  Writes'
  <2>1. Torn' = Torn
    BY <1>1 DEF Torn, CurrentFrame
  <2> QED
    BY <1>1, <2>1 DEF Writes
<1>2. CASE StartCall
  BY <1>1, <1>2 DEF StartCall, Goto, writeVars
<1>3. CASE CallFails
  BY <1>1, <1>3 DEF CallFails, Goto, writeVars
<1>4. CASE ReadLength
  <2>1. pc = "length" /\ pc' \in {"length", "payload", "failed"}
    BY <1>4 DEF ReadLength, Read, LengthBytes, Goto
  <2> QED
    BY <1>1, <1>4, <2>1 DEF ReadLength, Read, writeVars
<1>5. CASE ReadPayload
  <2>1. pc = "payload" /\ pc' \in {"payload", "handle", "failed"}
    BY <1>5 DEF ReadPayload, Read, PayloadBytes, Goto
  <2> QED
    BY <1>1, <1>5, <2>1 DEF ReadPayload, Read, writeVars
<1>6. CASE EndOfStream
  BY <1>1, <1>6 DEF EndOfStream, Goto, writeVars
<1>7. CASE Handle
  BY <1>1, <1>7 DEF Handle, Goto
<1>8. CASE Flush
  BY <1>1, <1>8 DEF Flush, Goto, writeVars
<1>9. CASE Interrupted \/ Expire \/ PeerReads \/ PeerCloses \/ UNCHANGED vars
           \/ (\E p \in Requests : PeerSends(p)) \/ (\E n \in BadLengths : PeerGarbles(n))
  BY <1>1, <1>9 DEF Interrupted, Expire, PeerReads, PeerCloses, PeerSends, PeerGarbles,
                    vars, writeVars
<1> QED
  BY <1>2, <1>3, <1>4, <1>5, <1>6, <1>7, <1>8, <1>9, AnswerWrites, WriteWrites
     DEF Next, Worker, Over

(* However the peer reads and however often a write is cut short, it finds  *)
(* the answers whole and in order; the writers tear at most the last one,   *)
(* and after a torn one nothing is written.                                 *)
THEOREM AnswersArriveWhole == Spec => []AnswersIntact
<1>1. Writes => AnswersIntact
  BY DEF Writes, AnswersIntact, Whole, Frames
<1> QED
  BY <1>1, InitTypes, TypesInductive, WritesInit, WritesInductive, PTL DEF Spec

-----------------------------------------------------------------------------
(* The channel of whole packets *)

(* Where the frames of the answers end in the output *)
Sizes(a) == CHOOSE f : f = [i \in 0..Len(a) |->
                               IF i = 0 THEN 0 ELSE f[i - 1] + Len(Frame(a[i]))]

(* How many of them are within the first n bytes *)
Within(a, n) == {i \in 1..Len(a) : Sizes(a)[i] <= n}
Count(a, n) == Cardinality(Within(a, n))

(* The sizes of the prefixes of a sequence of answers. *)
LEMMA SizesTrace ==
    ASSUME NEW a \in Seq(Replies)
    PROVE  /\ Sizes(a) \in [0..Len(a) -> Nat]
           /\ Sizes(a)[0] = 0
           /\ \A i \in 1..Len(a) : Sizes(a)[i] = Sizes(a)[i - 1] + Len(Frame(a[i]))
<1> DEFINE n == Len(a)
           G == [i \in 1..n |-> [m \in Nat |-> m + Len(Frame(a[i]))]]
           R(f) == f = [i \in 0..n |-> IF i = 0 THEN 0 ELSE f[i - 1] + Len(Frame(a[i]))]
<1>1. n \in Nat /\ \A i \in 1..n : Len(Frame(a[i])) \in Nat
  <2>1. \A i \in 1..n : a[i] \in Replies
    BY ElementOfSeq
  <2> QED
    BY <2>1, LenProperties, FrameTypes
<1>2. G \in [1..n -> [Nat -> Nat]] /\ \A i \in 1..n, m \in Nat : G[i][m] = m + Len(Frame(a[i]))
  BY <1>1
<1> HIDE DEF n, G
<1>3. PICK t : IsTrace(t, 0, G, n, Nat)
  BY <1>1, <1>2, TraceExists
<1>4. R(t)
  <2>1. t \in [0..n -> Nat] /\ t[0] = 0
    BY <1>3 DEF IsTrace
  <2>2. ASSUME NEW i \in 1..n PROVE t[i] = t[i - 1] + Len(Frame(a[i]))
    <3>1. i - 1 \in 0..n
      BY <1>1
    <3>2. t[i - 1] \in Nat
      BY <2>1, <3>1
    <3>3. t[i] = G[i][t[i - 1]]
      BY <1>3 DEF IsTrace
    <3> QED
      BY <3>2, <3>3, <1>2
  <2>3. \A i \in 0..n : t[i] = IF i = 0 THEN 0 ELSE t[i - 1] + Len(Frame(a[i]))
    BY <1>1, <2>1, <2>2
  <2> QED
    BY <2>1, <2>3
<1> DEFINE f == Sizes(a)
<1>5. R(f)
  BY <1>4 DEF Sizes, n
<1> HIDE DEF f
<1>6. f[0] = 0 /\ \A i \in 1..n : f[i] = f[i - 1] + Len(Frame(a[i]))
  BY <1>1, <1>5
<1> DEFINE T == {i \in 0..n : f[i] \in Nat}
<1>7. 0 \in T
  BY <1>1, <1>6
<1>8. ASSUME NEW i \in 1..n, i - 1 \in T PROVE i \in T
  <2>1. f[i] = f[i - 1] + Len(Frame(a[i])) /\ i \in 0..n
    BY <1>1, <1>6
  <2> QED
    BY <2>1, <1>1, <1>8
<1> HIDE DEF T
<1>9. 0..n \subseteq T
  BY <1>1, <1>7, <1>8, UpTo
<1>10. f \in [0..n -> Nat]
  BY <1>5, <1>9 DEF T
<1> QED
  BY <1>6, <1>10 DEF f, n

(* One more answer leaves the sizes before it alone. *)
LEMMA SizesAppend ==
    ASSUME NEW a \in Seq(Replies), NEW p \in Replies
    PROVE  /\ \A i \in 0..Len(a) : Sizes(Append(a, p))[i] = Sizes(a)[i]
           /\ Sizes(Append(a, p))[Len(a) + 1] = Sizes(a)[Len(a)] + Len(Frame(p))
<1> DEFINE b == Append(a, p)
<1>1. /\ Len(a) \in Nat /\ b \in Seq(Replies) /\ Len(b) = Len(a) + 1
      /\ \A i \in 1..Len(a) : b[i] = a[i]
      /\ b[Len(a) + 1] = p
  BY LenProperties, AppendProperties
<1> HIDE DEF b
<1> DEFINE T == {i \in 0..Len(a) : Sizes(b)[i] = Sizes(a)[i]}
<1>2. 0 \in T
  BY <1>1, SizesTrace
<1>3. ASSUME NEW i \in 1..Len(a), i - 1 \in T PROVE i \in T
  <2>1. i \in 0..Len(a) /\ i \in 1..Len(b)
    BY <1>1
  <2>2. /\ Sizes(b)[i] = Sizes(b)[i - 1] + Len(Frame(b[i]))
        /\ Sizes(a)[i] = Sizes(a)[i - 1] + Len(Frame(a[i]))
    BY <1>1, <2>1, SizesTrace
  <2> QED
    BY <1>1, <1>3, <2>1, <2>2
<1> HIDE DEF T
<1>4. 0..Len(a) \subseteq T
  BY <1>1, <1>2, <1>3, UpTo
<1>5. \A i \in 0..Len(a) : Sizes(b)[i] = Sizes(a)[i]
  BY <1>4 DEF T
<1>6. Len(b) \in 1..Len(b) /\ Len(b) - 1 = Len(a) /\ Len(a) \in 0..Len(a)
  BY <1>1
<1>7. Sizes(b)[Len(b)] = Sizes(b)[Len(a)] + Len(Frame(p))
  BY <1>1, <1>6, SizesTrace
<1> QED
  BY <1>1, <1>5, <1>6, <1>7 DEF b

(* The last size is the number of bytes of all answers. *)
LEMMA SizesWhole ==
    ASSUME NEW a \in Seq(Replies)
    PROVE  Sizes(a)[Len(a)] = Len(Whole(a))
<1>1. /\ Frames(a) \in Seq(Seq(Bytes)) /\ Len(Frames(a)) = Len(a)
      /\ Len(a) \in Nat
      /\ \A i \in 1..Len(a) : Frames(a)[i] = Frame(a[i]) /\ Frame(a[i]) \in Seq(Bytes)
  <2>1. \A i \in 1..Len(a) : a[i] \in Replies
    BY ElementOfSeq
  <2> QED
    BY <2>1, FramesTypes, LenProperties, FrameTypes DEF Frames
<1>2. PICK t : IsFlattening(t, Frames(a), Bytes)
  BY <1>1, FlattenTrace
<1>3. /\ t \in [0..Len(a) -> Seq(Bytes)] /\ t[0] = <<>>
      /\ \A k \in 1..Len(a) : t[k] = t[k - 1] \o Frame(a[k])
      /\ Whole(a) = t[Len(a)]
  BY <1>1, <1>2 DEF IsFlattening, Whole
<1> DEFINE T == {i \in 0..Len(a) : Sizes(a)[i] = Len(t[i])}
<1>4. 0 \in T
  BY <1>1, <1>3, SizesTrace, EmptySeq
<1>5. ASSUME NEW i \in 1..Len(a), i - 1 \in T PROVE i \in T
  <2>1. i \in 0..Len(a) /\ i - 1 \in 0..Len(a)
    BY <1>1
  <2>2. t[i] = t[i - 1] \o Frame(a[i]) /\ t[i - 1] \in Seq(Bytes) /\ Frame(a[i]) \in Seq(Bytes)
    BY <1>1, <1>3, <2>1
  <2>3. Len(t[i]) = Len(t[i - 1]) + Len(Frame(a[i]))
    BY <2>2, ConcatProperties
  <2>4. Sizes(a)[i] = Sizes(a)[i - 1] + Len(Frame(a[i]))
    BY SizesTrace
  <2> QED
    BY <1>5, <2>1, <2>3, <2>4
<1> HIDE DEF T
<1>6. 0..Len(a) \subseteq T
  BY <1>1, <1>4, <1>5, UpTo
<1> QED
  BY <1>1, <1>3, <1>6 DEF T

(* The answers that lie within the first n bytes. *)
LEMMA CountTypes ==
    ASSUME NEW a \in Seq(Replies), NEW n \in Nat
    PROVE  IsFiniteSet(Within(a, n)) /\ Count(a, n) \in 0..Len(a)
<1>1. Len(a) \in Nat
  BY LenProperties
<1>2. IsFiniteSet(1..Len(a)) /\ Cardinality(1..Len(a)) = Len(a)
  BY <1>1, FS_Interval
<1>3. Within(a, n) \subseteq 1..Len(a)
  BY DEF Within
<1>4. IsFiniteSet(Within(a, n)) /\ Cardinality(Within(a, n)) <= Len(a)
  BY <1>2, <1>3, FS_Subset
<1>5. Cardinality(Within(a, n)) \in Nat
  BY <1>4, FS_CardinalityType
<1> QED
  BY <1>1, <1>4, <1>5 DEF Count

(* More bytes hold no fewer answers. *)
LEMMA CountGrows ==
    ASSUME NEW a \in Seq(Replies), NEW n \in Nat, NEW m \in Nat, n <= m
    PROVE  Count(a, n) <= Count(a, m)
<1>1. Within(a, n) \subseteq Within(a, m)
  <2> SUFFICES ASSUME NEW i \in Within(a, n) PROVE i \in Within(a, m)
    OBVIOUS
  <2>1. i \in 1..Len(a) /\ Sizes(a)[i] <= n
    BY DEF Within
  <2>2. Sizes(a)[i] \in Nat
    <3>1. i \in 0..Len(a)
      BY <2>1
    <3> QED
      BY <3>1, SizesTrace
  <2> QED
    BY <2>1, <2>2 DEF Within
<1>2. IsFiniteSet(Within(a, m))
  BY CountTypes
<1> QED
  BY <1>1, <1>2, FS_Subset DEF Count

(* An answer of which nothing was written is not received *)
LEMMA CountAppend ==
    ASSUME NEW a \in Seq(Replies), NEW p \in Replies, NEW n \in 0..Len(Whole(a))
    PROVE  Count(Append(a, p), n) = Count(a, n)
<1> DEFINE b == Append(a, p)
<1>1. Len(a) \in Nat /\ Len(b) = Len(a) + 1
  BY LenProperties, AppendProperties
<1>2. \A i \in 1..Len(a) : Sizes(b)[i] = Sizes(a)[i]
  BY <1>1, SizesAppend
<1>3. Sizes(b)[Len(a) + 1] > n
  <2>1. Len(Whole(a)) \in Nat /\ Len(Frame(p)) \in Nat \ {0}
    BY FramesTypes, FrameTypes, LenProperties
  <2>2. Sizes(b)[Len(a) + 1] = Len(Whole(a)) + Len(Frame(p))
    BY SizesAppend, SizesWhole
  <2> QED
    BY <2>1, <2>2
<1> HIDE DEF b
<1>4. Within(b, n) = Within(a, n)
  <2>1. ASSUME NEW i \in 1..Len(a) PROVE i \in Within(b, n) <=> i \in Within(a, n)
    BY <1>1, <1>2 DEF Within
  <2>2. Len(a) + 1 \notin Within(b, n)
    <3>1. Sizes(b)[Len(a) + 1] \in Int
      <4>1. Len(Whole(a)) \in Nat /\ Len(Frame(p)) \in Nat
        BY FramesTypes, FrameTypes, LenProperties
      <4>2. Sizes(b)[Len(a) + 1] = Len(Whole(a)) + Len(Frame(p))
        BY SizesAppend, SizesWhole DEF b
      <4> QED
        BY <4>1, <4>2
    <3>2. n \in Int
      BY FramesTypes, LenProperties
    <3> QED
      BY <1>3, <3>1, <3>2 DEF Within
  <2>3. 1..Len(b) = (1..Len(a)) \cup {Len(a) + 1}
    BY <1>1
  <2>4. Within(b, n) \subseteq 1..Len(b) /\ Within(a, n) \subseteq 1..Len(a)
    BY DEF Within
  <2> QED
    BY <2>1, <2>2, <2>3, <2>4
<1> QED
  BY <1>4 DEF Count, b

(* Both ends of the channel start empty. *)
LEMMA ChannelInit == Init => Channel!Init
<1> SUFFICES ASSUME Init PROVE Channel!Init
  OBVIOUS
<1> DEFINE none == <<>>
<1>1. /\ sent = none /\ handled = none /\ answered = none /\ pc = "length"
      /\ none \in Seq(Bytes) /\ Len(none) = 0
  BY EmptySeq DEF Init
<1>2. \A k \in Nat : SubSeq(none, k + 1, 0) = none
  BY EmptySeq
<1>3. Received \in Nat
  <2>1. none \in Seq(Replies) /\ taken \in Nat
    BY EmptySeq DEF Init
  <2>2. Received = Count(answered, taken)
    BY DEF Received, Count, Within, Sizes
  <2> HIDE DEF none
  <2> QED
    <3>1. Count(answered, taken) \in 0..Len(answered)
      BY <1>1, <2>1, CountTypes
    <3> QED
      BY <1>1, <2>2, <3>1
<1> HIDE DEF none
<1> QED
  BY <1>1, <1>2, <1>3 DEF Channel!Init, Closed, none

(* The steps that move no whole packet *)
LEMMA ChannelStays ==
    ASSUME UNCHANGED <<sent, handled, answered, taken>>, pc' = pc \/ ~Closed
    PROVE  Channel!Next \/ UNCHANGED Channel!vars
<1>1. Received' = Received
  BY DEF Received
<1>2. CASE Closed' = Closed
  BY <1>1, <1>2 DEF Channel!vars
<1>3. CASE Closed' # Closed
  <2>1. ~Closed /\ Closed'
    BY <1>3 DEF Closed
  <2>2. Channel!End
    BY <1>1, <2>1 DEF Channel!End
  <2> QED
    BY <2>2 DEF Channel!Next
<1> QED
  BY <1>2, <1>3

(* A packet sent is put into the channel. *)
LEMMA SendsToChannel ==
    ASSUME IInv, NEW p \in Requests, PeerSends(p)
    PROVE  Channel!Next
<1>1. /\ sent \in Seq(Requests) /\ sent' = Append(sent, p)
      /\ UNCHANGED <<handled, answered, taken, pc>>
  BY DEF PeerSends, IInv, TypeOK, writeVars
<1>2. Len(handled) \in 0..Len(sent) /\ Len(sent') = Len(sent) + 1
  BY <1>1, AppendProperties, LenProperties DEF IInv, TypeOK, PacketsIntact
<1> DEFINE k == Len(handled)
<1>3. k' = k
  BY <1>1
<1>4. SubSeq(Append(sent, p), k + 1, Len(sent) + 1) = Append(SubSeq(sent, k + 1, Len(sent)), p)
  BY <1>1, <1>2, RestAppend
<1>5. SubSeq(sent', k' + 1, Len(sent')) = Append(SubSeq(sent, k + 1, Len(sent)), p)
  BY <1>1, <1>2, <1>3, <1>4
<1>6. Received' = Received /\ Closed' = Closed
  BY <1>1 DEF Received, Closed
<1>7. Channel!Send
  BY <1>1, <1>5, <1>6 DEF Channel!Send
<1> QED
  BY <1>7 DEF Channel!Next

(* A packet handled is taken from the channel. *)
LEMMA HandlesFromChannel ==
    ASSUME IInv, IInv', Handle
    PROVE  Channel!Next
<1>1. /\ sent \in Seq(Requests) /\ handled' = Append(handled, packet)
      /\ UNCHANGED <<sent, answered, taken>>
      /\ pc = "handle" /\ pc' = "answer"
  BY DEF Handle, IInv, TypeOK, peerVars, Goto
<1> DEFINE k == Len(handled)
<1>2. /\ Len(handled') = k + 1 /\ k \in Nat /\ handled'[k + 1] = packet
      /\ Len(sent) \in Nat
  <2> DEFINE SB == Seq(Bytes)
  <2>1. handled \in Seq(SB) /\ packet \in SB /\ Len(sent) \in Nat
    BY <1>1, LenProperties DEF IInv, TypeOK
  <2> HIDE DEF SB
  <2> QED
    BY <1>1, <2>1, AppendProperties, LenProperties
<1>3. k \in 0..(Len(sent) - 1) /\ packet = sent[k + 1]
  <2>1. Len(handled') <= Len(sent) /\ \A i \in 1..Len(handled') : handled'[i] = sent[i]
    BY <1>1 DEF IInv, PacketsIntact
  <2>2. k + 1 \in 1..Len(handled')
    BY <1>2
  <2> QED
    BY <1>2, <2>1, <2>2
<1> HIDE DEF k
<1>4. /\ SubSeq(sent, k + 1, Len(sent)) # <<>>
      /\ Head(SubSeq(sent, k + 1, Len(sent))) = packet
      /\ Tail(SubSeq(sent, k + 1, Len(sent))) = SubSeq(sent, k + 2, Len(sent))
  BY <1>1, <1>3, RestTail
<1>5. Len(handled') + 1 = k + 2
  BY <1>2
<1>6. Received' = Received /\ ~Closed /\ ~Closed'
  BY <1>1 DEF Received, Closed
<1>7. Channel!Take
  <2>1. Len(handled) = k /\ UNCHANGED <<sent, answered>>
    BY <1>1 DEF k
  <2> QED
    BY <1>1, <1>4, <1>5, <1>6, <2>1 DEF Channel!Take
<1> QED
  BY <1>7 DEF Channel!Next

(* An answer begun is put into the channel. *)
LEMMA AnswersToChannel ==
    ASSUME IInv, Writes, Answer, todo # <<>>
    PROVE  Channel!Next
<1> DEFINE a == Head(todo)
<1>1. /\ answered' = Append(answered, a) /\ a \in Replies
      /\ answered \in Seq(Replies)
      /\ UNCHANGED <<sent, handled, taken>>
      /\ pc = "answer" /\ pc' = "write"
  BY HeadTailProperties DEF Answer, IInv, TypeOK, peerVars, Goto
<1>2. taken \in 0..Len(Whole(answered)) /\ taken \in Nat
  <2>1. output = Whole(answered) /\ taken \in 0..Len(output) /\ Len(output) \in Nat
    BY <1>1, LenProperties DEF Writes, IInv, TypeOK
  <2> QED
    BY <2>1
<1> HIDE DEF a
<1>3. Received = Count(answered, taken) /\ Received' = Count(answered', taken')
  BY DEF Received, Count, Within, Sizes
<1>4. Received' = Received /\ Received \in 0..Len(answered)
  BY <1>1, <1>2, <1>3, CountAppend, CountTypes
<1>5. Len(answered') = Len(answered) + 1
  BY <1>1, AppendProperties
<1> DEFINE k == Received
<1>6. k' = k /\ k \in 0..Len(answered)
  BY <1>4
<1> HIDE DEF k
<1>7. SubSeq(Append(answered, a), k + 1, Len(answered) + 1)
        = Append(SubSeq(answered, k + 1, Len(answered)), a)
  BY <1>1, <1>6, RestAppend
<1>8. SubSeq(answered', k' + 1, Len(answered')) = Append(SubSeq(answered, k + 1, Len(answered)), a)
  BY <1>1, <1>5, <1>6, <1>7
<1>9. Channel!Answer
  BY <1>1, <1>8 DEF Channel!Answer, Closed, k
<1> QED
  BY <1>9 DEF Channel!Next

(* The peer takes answers at their last byte. *)
LEMMA PeerReadsFromChannel ==
    ASSUME IInv, PeerReads
    PROVE  Channel!Next \/ UNCHANGED Channel!vars
<1>1. /\ UNCHANGED <<sent, handled, answered, pc>>
      /\ answered \in Seq(Replies) /\ Len(answered) \in Nat
      /\ taken \in Nat /\ taken' \in Nat /\ taken <= taken'
  <2>1. taken \in 0..Len(output) /\ Len(output) \in Nat
    BY LenProperties DEF IInv, TypeOK
  <2> QED
    BY <2>1, LenProperties DEF PeerReads, IInv, TypeOK, peerVars, writeVars
<1>2. Received = Count(answered, taken) /\ Received' = Count(answered', taken')
  BY DEF Received, Count, Within, Sizes
<1>3. /\ Received \in 0..Len(answered) /\ Received' \in 0..Len(answered)
      /\ Received <= Received'
  BY <1>1, <1>2, CountTypes, CountGrows
<1>4. PICK k, j : k = Received /\ j = Received'
  OBVIOUS
<1>5. k \in 0..Len(answered) /\ j \in 0..Len(answered) /\ k <= j
  BY <1>3, <1>4
<1>6. CASE j = k
  BY <1>1, <1>4, <1>6 DEF Channel!vars, Closed
<1>7. CASE j # k
  <2> DEFINE d == j - k
             out == SubSeq(answered, k + 1, Len(answered))
  <2>1. Len(out) = Len(answered) - k
    BY <1>1, <1>5, RestTypes
  <2>2. d \in 0..(Len(answered) - k) /\ d \in 1..(Len(answered) - k) /\ k + d + 1 = j + 1
    BY <1>1, <1>5, <1>7
  <2> HIDE DEF d
  <2>3. SubSeq(out, d + 1, Len(answered) - k) = SubSeq(answered, k + d + 1, Len(answered))
    BY <1>1, <1>5, <2>2, RestOfRest
  <2>4. SubSeq(answered', j + 1, Len(answered')) = SubSeq(out, d + 1, Len(out))
    BY <1>1, <2>1, <2>2, <2>3
  <2>5. d \in 1..Len(out)
    BY <2>1, <2>2
  <2>6. Channel!Receive
    BY <1>1, <1>4, <2>4, <2>5 DEF Channel!Receive, Closed
  <2> QED
    BY <2>6 DEF Channel!Next
<1> QED
  BY <1>6, <1>7

(* A system call is only made where there is something to read or write *)
Calling == call => ~Closed

(* Who is inside a system call is at a place that makes one. *)
LEMMA CallingInductive == Calling /\ [Next]_vars => Calling'
<1> SUFFICES ASSUME Calling, [Next]_vars PROVE Calling'
  OBVIOUS
<1>1. CASE StartCall
  BY <1>1 DEF StartCall, Goto, Calling, Closed
<1>2. CASE CallFails \/ EndOfStream \/ Handle \/ Flush \/ Interrupted
  BY <1>2 DEF CallFails, EndOfStream, Handle, Flush, Interrupted, Goto, Calling
<1>3. CASE ReadLength
  BY <1>3 DEF ReadLength, Read, LengthBytes, Goto, Calling
<1>4. CASE ReadPayload
  BY <1>4 DEF ReadPayload, Read, PayloadBytes, Goto, Calling
<1>5. CASE Answer \/ Write
  BY <1>5 DEF Answer, Write, Goto, Calling
<1>6. CASE \/ Expire \/ PeerCloses \/ PeerReads \/ UNCHANGED vars
           \/ \E p \in Requests : PeerSends(p)
           \/ \E n \in BadLengths : PeerGarbles(n)
  BY <1>6 DEF Expire, PeerCloses, PeerReads, PeerSends, PeerGarbles, vars, Calling, Closed
<1> QED
  BY <1>1, <1>2, <1>3, <1>4, <1>5, <1>6 DEF Next, Worker, Over

(* Every step is one of the channel or leaves it alone. *)
LEMMA ChannelStep ==
    ASSUME IInv, IInv', Writes, Calling, [Next]_vars
    PROVE  Channel!Next \/ UNCHANGED Channel!vars
<1>1. CASE \/ StartCall \/ CallFails \/ ReadLength \/ ReadPayload \/ EndOfStream \/ Write
           \/ Flush \/ Interrupted \/ Expire \/ PeerCloses \/ UNCHANGED vars
           \/ \E n \in BadLengths : PeerGarbles(n)
  <2>1. UNCHANGED <<sent, handled, answered, taken>>
    BY <1>1 DEF StartCall, CallFails, ReadLength, ReadPayload, Read, EndOfStream, Write, Flush,
                Interrupted, Expire, PeerCloses, PeerGarbles, vars, peerVars, writeVars
  <2>2. pc' = pc \/ ~Closed
    <3>1. CASE CallFails
      BY <3>1 DEF CallFails, Calling
    <3> QED
      BY <1>1, <3>1 DEF StartCall, ReadLength, ReadPayload, EndOfStream, Write, Flush,
                Interrupted, Expire, PeerCloses, PeerGarbles, vars, Closed
  <2> QED
    BY <2>1, <2>2, ChannelStays
<1>2. CASE Answer
  <2>1. CASE todo = <<>>
    <3>1. UNCHANGED <<sent, handled, answered, taken>> /\ ~Closed
      BY <1>2, <2>1 DEF Answer, peerVars, writeVars, Closed
    <3> QED
      BY <3>1, ChannelStays
  <2> QED
    BY <1>2, <2>1, AnswersToChannel
<1> QED
  BY <1>1, <1>2, SendsToChannel, HandlesFromChannel, PeerReadsFromChannel
     DEF Next, Worker, Over

(* read_packet_into and the packet writers on a DeadlineConnection are a    *)
(* channel of whole packets, in both directions and until the connection    *)
(* ends: the connection handler may be reasoned about on PacketChannel.     *)
THEOREM FramingRefinesChannel == Spec => ImplementsChannel
<1>1. IInv /\ IInv' /\ Writes /\ Calling /\ [Next]_vars => [Channel!Next]_Channel!vars
  BY ChannelStep
<1>2. Init => Calling
  BY DEF Init, Calling
<1>3. IInv => TypeOK /\ Writing
  BY DEF IInv
<1> QED
  BY <1>1, <1>2, <1>3, ChannelInit, IInvInit, IInvInductive, WritesInit, WritesInductive,
     CallingInductive, PTL DEF Spec, ImplementsChannel, Channel!Spec
=============================================================================
