------------------------------ MODULE Framing ------------------------------
(***************************************************************************)
(* The packet layer under one milter connection: read_packet_into and the  *)
(* packet writers on a DeadlineConnection, with a peer that cuts its       *)
(* packets as it likes, sends lengths out of range, stops reading, or      *)
(* leaves in the middle of a packet.                                       *)
(*                                                                         *)
(* A system call is two steps, its start after the first look at the       *)
(* deadline and its return before the second; it moves any number of bytes *)
(* it was offered.  Bytes are digits of Base, so four of them are a length *)
(* below Base^4.  The peer's input and output are kept as streams with     *)
(* positions in them.                                                      *)
(***************************************************************************)
EXTENDS Integers, Sequences, SequencesExt

CONSTANTS
    Base,        \* values of a byte; 256 in the code
    MAX_PACKET,  \* milter.rs MAX_PACKET
    Requests,    \* the packets the peer may send
    BadLengths,  \* the lengths it may announce that are out of range
    Replies,     \* the packets the handler may answer with
    Answers,     \* what it may answer to one request: sequences of replies
    MaxSent,     \* bound on the packets the peer sends
    Window       \* bytes the peer's socket holds before it reads them

Bytes == 0..(Base - 1)
Lengths == 0..(Base * Base * Base * Base - 1)

(* u32::to_be_bytes and u32::from_be_bytes *)
ToBytes(n) == LET high == n \div Base
                  higher == high \div Base
              IN  <<higher \div Base, higher % Base, high % Base, n % Base>>
FromBytes(b) == ((b[1] * Base + b[2]) * Base + b[3]) * Base + b[4]

ASSUME FramingAssumption ==
    /\ Base \in Nat \ {0, 1}
    /\ MAX_PACKET \in Lengths \ {0}
    /\ \A p \in Requests : p \in Seq(Bytes) /\ Len(p) \in 1..MAX_PACKET
    /\ \A p \in Replies : p \in Seq(Bytes) /\ Len(p) \in Lengths \ {0}
    /\ BadLengths \subseteq Lengths \ (1..MAX_PACKET)
    /\ Answers \subseteq Seq(Replies)
    /\ MaxSent \in Nat /\ Window \in Nat \ {0}

VARIABLES
    sent,      \* the packets the peer has sent
    ends,      \* where each of them ends in its stream
    stream,    \* the bytes it has sent
    pos,       \* how many of them were read
    garbled,   \* then it announced a length that is out of range
    peerOpen,  \* the peer has not closed its end
    pc,        \* where the worker is
    call,      \* it is inside a system call
    expired,   \* the deadline has passed
    length,    \* the length bytes read so far
    packet,    \* the buffer, reused for every packet
    got,       \* how much of it was read for this packet
    handled,   \* the packets the handler was given
    todo,      \* answers still to be written to the last of them
    answered,  \* the answers whose writing has begun
    written,   \* how much of the last of them was written
    output,    \* the bytes written
    taken      \* how many of them the peer has read

peerVars == <<sent, ends, garbled, peerOpen>>
readVars == <<stream, pos, length, packet, got>>
writeVars == <<todo, answered, written, output>>
vars == <<peerVars, readVars, pc, call, expired, handled, writeVars, taken>>

Init == /\ sent = <<>> /\ ends = <<>> /\ garbled = FALSE /\ peerOpen = TRUE
        /\ stream = <<>> /\ pos = 0
        /\ pc = "length" /\ call = FALSE /\ expired = FALSE
        /\ length = <<>> /\ packet = <<>> /\ got = 0
        /\ handled = <<>> /\ todo = <<>> /\ answered = <<>>
        /\ written = 0 /\ output = <<>> /\ taken = 0

Closed == pc \in {"clean", "failed"}
Frame(p) == ToBytes(Len(p)) \o p

-----------------------------------------------------------------------------
(* DeadlineConnection *)

Goto(to) == pc' = to /\ call' = FALSE

(* remaining()? before the system call: an expired one is not made *)
StartCall ==
    /\ pc \in {"length", "payload", "write", "flush"} /\ ~call
    /\ IF expired THEN Goto("failed") ELSE call' = TRUE /\ UNCHANGED pc
    /\ UNCHANGED <<peerVars, readVars, expired, handled, writeVars, taken>>

Room == Window - (Len(output) - taken)

Blocked == \/ pc \in {"length", "payload"} /\ pos = Len(stream) /\ peerOpen
           \/ pc = "write" /\ Room = 0

(* read_exact and write_all try again *)
Interrupted ==
    /\ call /\ ~expired /\ Blocked
    /\ call' = FALSE
    /\ UNCHANGED <<peerVars, readVars, pc, expired, handled, writeVars, taken>>

(* MUTANT of CallFails: the socket keeps the timeout of the whole connection *)
CallFailsLater ==
    /\ call
    /\ ~peerOpen
    /\ Goto("failed")
    /\ UNCHANGED <<peerVars, readVars, expired, handled, writeVars, taken>>

(* The socket timeout is what remained, so a blocked call ends with the     *)
(* deadline; a connection the peer has reset fails                          *)
CallFails ==
    /\ call
    /\ expired \/ ~peerOpen
    /\ Goto("failed")
    /\ UNCHANGED <<peerVars, readVars, expired, handled, writeVars, taken>>

-----------------------------------------------------------------------------
(* read_packet_into *)

(* Bytes that arrive with the second remaining()? failing are discarded *)
Read(n, accepted) ==
    /\ pos + n <= Len(stream)
    /\ pos' = pos + n
    /\ IF expired THEN Goto("failed") /\ UNCHANGED <<length, packet, got>> ELSE accepted
    /\ UNCHANGED <<peerVars, stream, expired, handled, writeVars, taken>>

Resize(buffer, n) == [i \in 1..n |-> IF i <= Len(buffer) THEN buffer[i] ELSE 0]

(* MUTANT of LengthBytes: the range of the length is not checked *)
LengthUnchecked(bytes) ==
    /\ length' = length \o bytes
    /\ IF Len(length') < 4
       THEN Goto("length") /\ UNCHANGED <<packet, got>>
       ELSE /\ packet' = Resize(packet, FromBytes(length')) /\ got' = 0
            /\ Goto(IF packet' = <<>> THEN "handle" ELSE "payload")

LengthBytes(bytes) ==
    /\ length' = length \o bytes
    /\ IF Len(length') < 4 THEN Goto("length") /\ UNCHANGED <<packet, got>>
       ELSE IF FromBytes(length') \in 1..MAX_PACKET
       THEN /\ packet' = Resize(packet, FromBytes(length')) /\ got' = 0
            /\ Goto("payload")
       ELSE Goto("failed") /\ UNCHANGED <<packet, got>>

(* MUTANT of PayloadBytes: `read` instead of `read_exact` *)
PayloadFirstRead(bytes) ==
    /\ packet' = [i \in 1..Len(packet) |->
                     IF i - got \in 1..Len(bytes) THEN bytes[i - got] ELSE packet[i]]
    /\ got' = got + Len(bytes)
    /\ Goto("handle")
    /\ UNCHANGED length

PayloadBytes(bytes) ==
    /\ packet' = [i \in 1..Len(packet) |->
                     IF i - got \in 1..Len(bytes) THEN bytes[i - got] ELSE packet[i]]
    /\ got' = got + Len(bytes)
    /\ Goto(IF got' < Len(packet) THEN "payload" ELSE "handle")
    /\ UNCHANGED length

NextBytes(n) == SubSeq(stream, pos + 1, pos + n)

ReadLength ==
    /\ call /\ pc = "length"
    /\ \E n \in 1..(4 - Len(length)) : Read(n, LengthBytes(NextBytes(n)))

ReadPayload ==
    /\ call /\ pc = "payload"
    /\ \E n \in 1..(Len(packet) - got) : Read(n, PayloadBytes(NextBytes(n)))

(* MUTANT of EndOfStream: also inside a payload the end is a clean close *)
EndOfStreamClean ==
    /\ call /\ pc \in {"length", "payload"}
    /\ pos = Len(stream) /\ ~peerOpen
    /\ Goto(IF expired THEN "failed" ELSE "clean")
    /\ UNCHANGED <<peerVars, readVars, expired, handled, writeVars, taken>>

(* UnexpectedEof: a clean close while the length is read, even inside it *)
EndOfStream ==
    /\ call /\ pc \in {"length", "payload"}
    /\ pos = Len(stream) /\ ~peerOpen
    /\ Goto(IF pc = "length" /\ ~expired THEN "clean" ELSE "failed")
    /\ UNCHANGED <<peerVars, readVars, expired, handled, writeVars, taken>>

-----------------------------------------------------------------------------
(* The handler, and the writers of its answers *)

Handle ==
    /\ pc = "handle"
    /\ handled' = Append(handled, packet)
    /\ todo' \in Answers
    /\ Goto("answer")
    /\ UNCHANGED <<peerVars, readVars, expired, answered, written, output, taken>>

(* MUTANT of Answer: the four length bytes survive the packet *)
AnswerKeepsLength ==
    /\ pc = "answer"
    /\ IF todo = <<>>
       THEN Goto("length") /\ UNCHANGED writeVars
       ELSE /\ answered' = Append(answered, Head(todo)) /\ todo' = Tail(todo)
            /\ written' = 0
            /\ Goto("write")
            /\ UNCHANGED output
    /\ UNCHANGED <<peerVars, readVars, expired, handled, taken>>

(* write_packet and write_status frame an answer alike *)
Answer ==
    /\ pc = "answer"
    /\ IF todo = <<>>
       THEN /\ length' = <<>>
            /\ Goto("length")
            /\ UNCHANGED writeVars
       ELSE /\ answered' = Append(answered, Head(todo)) /\ todo' = Tail(todo)
            /\ written' = 0
            /\ Goto("write")
            /\ UNCHANGED <<output, length>>
    /\ UNCHANGED <<peerVars, stream, pos, packet, got, expired, handled, taken>>

CurrentFrame == Frame(answered[Len(answered)])

(* MUTANT of Write: one `write` is taken for the whole answer *)
WriteOnce ==
    /\ call /\ pc = "write"
    /\ \E n \in 1..(Len(CurrentFrame) - written) :
         /\ n <= Room
         /\ output' = output \o SubSeq(CurrentFrame, written + 1, written + n)
         /\ written' = written + n
         /\ Goto(IF expired THEN "failed" ELSE "flush")
    /\ UNCHANGED <<peerVars, readVars, expired, handled, todo, answered, taken>>

Write ==
    /\ call /\ pc = "write"
    /\ \E n \in 1..(Len(CurrentFrame) - written) :
         /\ n <= Room
         /\ output' = output \o SubSeq(CurrentFrame, written + 1, written + n)
         /\ written' = written + n
         /\ Goto(IF expired THEN "failed"
                 ELSE IF written' < Len(CurrentFrame) THEN "write" ELSE "flush")
    /\ UNCHANGED <<peerVars, readVars, expired, handled, todo, answered, taken>>

Flush ==
    /\ call /\ pc = "flush"
    /\ Goto(IF expired THEN "failed" ELSE "answer")
    /\ UNCHANGED <<peerVars, readVars, expired, handled, writeVars, taken>>

Worker == \/ StartCall \/ CallFails \/ ReadLength \/ ReadPayload \/ EndOfStream
          \/ Handle \/ Answer \/ Write \/ Flush

-----------------------------------------------------------------------------
(* The peer, and the clock *)

PeerSends(p) ==
    /\ peerOpen /\ ~garbled /\ Len(sent) < MaxSent
    /\ sent' = Append(sent, p)
    /\ stream' = stream \o Frame(p)
    /\ ends' = Append(ends, Len(stream'))
    /\ UNCHANGED <<garbled, peerOpen, pos, length, packet, got, pc, call, expired,
                   handled, writeVars, taken>>

PeerGarbles(n) ==
    /\ peerOpen /\ ~garbled
    /\ garbled' = TRUE
    /\ stream' = stream \o ToBytes(n)
    /\ UNCHANGED <<sent, ends, peerOpen, pos, length, packet, got, pc, call, expired,
                   handled, writeVars, taken>>

(* What it has written may end anywhere in a packet *)
PeerCloses ==
    /\ peerOpen
    /\ peerOpen' = FALSE
    /\ \E n \in pos..Len(stream) : stream' = SubSeq(stream, 1, n)
    /\ UNCHANGED <<sent, ends, garbled, pos, length, packet, got, pc, call, expired,
                   handled, writeVars, taken>>

PeerReads ==
    /\ \E n \in 1..(Len(output) - taken) : taken' = taken + n
    /\ UNCHANGED <<peerVars, readVars, pc, call, expired, handled, writeVars>>

Expire ==
    /\ ~expired /\ ~Closed
    /\ expired' = TRUE
    /\ UNCHANGED <<peerVars, readVars, pc, call, handled, writeVars, taken>>

Over == Closed /\ UNCHANGED vars

Next == \/ Worker \/ Interrupted \/ Expire
        \/ \E p \in Requests : PeerSends(p)
        \/ \E n \in BadLengths : PeerGarbles(n)
        \/ PeerCloses \/ PeerReads \/ Over

Spec == Init /\ [][Next]_vars

(* The worker is scheduled, and a system call that has something to do or   *)
(* whose time is over returns.  The peer owes nothing.                      *)
FairSpec == Spec /\ WF_vars(Worker)

-----------------------------------------------------------------------------
(* Properties *)

(* Type invariant: among the rest, a connection never retains more than     *)
(* MAX_PACKET bytes of input and never reads past the buffer.               *)
TypeOK ==
    /\ sent \in Seq(Requests) /\ ends \in Seq(Nat) /\ Len(ends) = Len(sent)
    /\ garbled \in BOOLEAN /\ peerOpen \in BOOLEAN
    /\ stream \in Seq(Bytes) /\ pos \in 0..Len(stream)
    /\ pc \in {"length", "payload", "handle", "answer", "write", "flush",
               "clean", "failed"}
    /\ call \in BOOLEAN /\ expired \in BOOLEAN
    /\ length \in Seq(Bytes) /\ Len(length) <= 4
    /\ packet \in Seq(Bytes) /\ Len(packet) <= MAX_PACKET
    /\ got \in 0..Len(packet)
    /\ handled \in Seq(Seq(Bytes))
    /\ todo \in Seq(Replies) /\ answered \in Seq(Replies)
    /\ written \in Nat
    /\ output \in Seq(Bytes) /\ taken \in 0..Len(output)
    /\ Len(output) - taken <= Window

(* The handler is given the packets the peer sent, in order and byte for    *)
(* byte, however they were cut: nothing of an earlier packet in the reused  *)
(* buffer, nothing of a packet that never came whole.                       *)
PacketsIntact ==
    /\ Len(handled) <= Len(sent)
    /\ \A i \in 1..Len(handled) : handled[i] = sent[i]

(* A close that is reported as clean lost nothing but bytes of a length:    *)
(* every packet of which more had been written has been handled.            *)
CleanCloseLosesNothing ==
    pc = "clean" =>
        Len(stream) - (IF handled = <<>> THEN 0 ELSE ends[Len(handled)]) < 4

(* The peer reads whole answers in the order they were given, save that the *)
(* last one may be torn, and after a torn one there is nothing.             *)
AnswersIntact ==
    LET whole == FlattenSeq([i \in 1..Len(answered) |-> Frame(answered[i])])
    IN  /\ IsPrefix(output, whole)
        /\ pc \in {"length", "payload", "handle", "answer"} => output = whole

(* The packet layer implements the channel of whole packets that the        *)
(* connection handler is written on: an answer has been received once the   *)
(* peer has read its last byte.                                             *)
Received == LET size[i \in 0..Len(answered)] ==
                    IF i = 0 THEN 0 ELSE size[i - 1] + Len(Frame(answered[i]))
            IN  Cardinality({i \in 1..Len(answered) : size[i] <= taken})

Channel == INSTANCE PacketChannel WITH
    inbox <- SubSeq(sent, Len(handled) + 1, Len(sent)),
    given <- handled,
    outbox <- SubSeq(answered, Received + 1, Len(answered)),
    open <- ~Closed
ImplementsChannel == Channel!Spec

(* A deadline that has passed ends the connection, whatever the peer does:  *)
(* stall inside a packet, trickle bytes, or stop reading.                   *)
DeadlineEndsConnection == expired ~> Closed

(* A packet that was sent is handled or the connection ends, unless the     *)
(* peer leaves no room for the answers to the packets before it.            *)
RequestsAreHandled ==
    \A i \in 1..MaxSent : Len(sent) >= i ~> Len(handled) >= i \/ Closed \/ Room = 0
=============================================================================
