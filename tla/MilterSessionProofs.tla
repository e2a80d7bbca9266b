------------------------ MODULE MilterSessionProofs ------------------------
(***************************************************************************)
(* Theorems about MilterSession, for every value of its constants.         *)
(***************************************************************************)
EXTENDS MilterSession, TLAPS, SequenceTheorems

-----------------------------------------------------------------------------
(* The parts of the type invariant and the helpers that preserve them *)

(* A MessageState within the limits of receive_header *)
WithinLimits(s) ==
    /\ s \in MessageStates
    /\ Len(s.headers) <= MAX_HEADERS
    /\ ~s.error => s.header_bytes <= MAX_HEADER_BYTES

(* The empty message and the empty MessageState are well typed *)
LEMMA EmptyTypes == EmptyMessage \in Messages /\ WithinLimits(EmptyState)
<1>1. EmptyMessage \in Messages
  BY TypesAssumption DEF EmptyMessage, Messages, Versions
<1>2. WithinLimits(EmptyState)
  BY TypesAssumption DEF WithinLimits, EmptyState, MessageStates
<1> QED
  BY <1>1, <1>2

(* begin and fail keep a MessageState within the limits *)
LEMMA BeginFailTypes ==
    ASSUME NEW s \in MessageStates, WithinLimits(s), NEW v \in Versions
    PROVE  WithinLimits(Begin(s, v)) /\ WithinLimits(Fail(s))
<1>1. WithinLimits(Begin(s, v))
  <2>1. /\ EmptyState \in MessageStates
        /\ Len(EmptyState.headers) <= MAX_HEADERS
        /\ EmptyState.header_bytes <= MAX_HEADER_BYTES
    BY EmptyTypes DEF WithinLimits, EmptyState
  <2> QED
    BY <2>1 DEF WithinLimits, Begin, MessageStates
<1>2. WithinLimits(Fail(s))
  BY DEF WithinLimits, Fail, MessageStates
<1> QED
  BY <1>1, <1>2

(* receive_header keeps a MessageState within the limits, whatever arrives *)
LEMMA ReceiveHeaderTypes ==
    ASSUME NEW s \in MessageStates, WithinLimits(s), NEW h \in HeaderPackets
    PROVE  WithinLimits(ReceiveHeader(s, h))
<1> DEFINE counted == [s EXCEPT !.header_bytes = @ + h.size]
<1>1. h.size \in Nat
  BY TypesAssumption DEF Headers
<1>2. counted \in MessageStates
  BY <1>1 DEF MessageStates
<1>3. CASE s.error
  BY <1>3 DEF ReceiveHeader
<1>4. CASE ~s.error /\ h.form = "unframed"
  BY <1>4 DEF ReceiveHeader, Fail, WithinLimits, MessageStates
<1>5. CASE /\ ~s.error /\ h.form # "unframed"
           /\ \/ Len(s.headers) >= MAX_HEADERS
              \/ counted.header_bytes > MAX_HEADER_BYTES
              \/ h.form = "badname"
  <2>1. ReceiveHeader(s, h) = [counted EXCEPT !.error = TRUE]
    BY <1>5 DEF ReceiveHeader, Fail
  <2> QED
    BY <2>1, <1>2 DEF WithinLimits, MessageStates
<1>6. CASE /\ ~s.error /\ h.form # "unframed"
           /\ ~(\/ Len(s.headers) >= MAX_HEADERS
                \/ counted.header_bytes > MAX_HEADER_BYTES
                \/ h.form = "badname")
  <2>1. ReceiveHeader(s, h) = [counted EXCEPT !.headers = Append(s.headers, h)]
    BY <1>6, <1>2 DEF ReceiveHeader, MessageStates
  <2>2. /\ Append(s.headers, h) \in Seq(HeaderPackets)
        /\ Len(Append(s.headers, h)) = Len(s.headers) + 1
    BY DEF MessageStates
  <2>3. Len(s.headers) + 1 <= MAX_HEADERS /\ counted.header_bytes <= MAX_HEADER_BYTES
    BY <1>6, <1>2, TypesAssumption DEF MessageStates
  <2> HIDE DEF counted
  <2> QED
    BY <2>1, <2>2, <2>3, <1>2 DEF WithinLimits, MessageStates
<1> QED
  BY <1>3, <1>4, <1>5, <1>6

(* Reading takes a well-typed packet from the socket *)
LEMMA ReadTypes ==
    ASSUME TypeOK, NEW c, Reading(c)
    PROVE  /\ Head(inbox) \in Packets /\ Head(inbox).cmd = c
           /\ Tail(inbox) \in Seq(Packets) /\ Len(Tail(inbox)) <= MaxInFlight
           /\ c = "O" => Head(inbox).arg \in Offers
           /\ c = "L" => Head(inbox).arg \in HeaderPackets
           /\ c = "B" => Head(inbox).arg \in BodyChunks
<1>1. /\ Head(inbox) \in Packets /\ Head(inbox).cmd = c
      /\ Tail(inbox) \in Seq(Packets) /\ Len(Tail(inbox)) <= MaxInFlight
  BY SessionAssumption DEF TypeOK, Reading
<1> QED
  BY <1>1 DEF Packets, PlainCommands

(* What write_continue_if_needed adds is well typed *)
LEMMA ContinueTypes ==
    ASSUME TypeOK, NEW c \in NoReplyCommands, WriteContinue(c)
    PROVE  outbox' \in Seq(Replies)
<1>1. [kind |-> "continue", to |-> c, arg |-> None] \in Replies
  BY DEF Replies
<1> QED
  BY <1>1 DEF TypeOK, WriteContinue

-----------------------------------------------------------------------------
(* Type correctness *)

LEMMA InitTypeOK == Init => TypeOK
  BY EmptyTypes, TypesAssumption, SessionAssumption
  DEF Init, TypeOK, WithinLimits, Versions

(* The conjuncts a worker action that reads a packet leaves alone *)
LEMMA ReadKeepsTypes ==
    ASSUME TypeOK, NEW c, Read(c),
           pc' \in {"read", "accept", "closed"},
           WithinLimits(state'),
           actions' \in SUBSET UsefulActions,
           protocol' \in SUBSET NoReplyCommands,
           outbox' \in Seq(Replies)
    PROVE  TypeOK'
<1>1. inbox' \in Seq(Packets) /\ Len(inbox') <= MaxInFlight
  BY ReadTypes DEF Read
<1> QED
  BY <1>1 DEF TypeOK, Read, mtaVars, WithinLimits

(* Likewise for an action of the MTA that sends *)
LEMMA SendKeepsTypes ==
    ASSUME TypeOK, NEW c, NEW arg, Send(c, arg),
           [cmd |-> c, arg |-> arg] \in Packets,
           msg' \in Messages, verdict' \in {"none", "signed", "unsigned", "default"}
    PROVE  TypeOK'
<1>1. inbox' \in Seq(Packets) /\ Len(inbox') <= MaxInFlight
  BY SessionAssumption DEF TypeOK, Send
<1>2. awaiting' \in Commands \cup {None}
  BY SessionAssumption DEF Send
<1> QED
  BY <1>1, <1>2 DEF TypeOK, Send

(* Likewise for an action of the MTA that receives *)
LEMMA ReceivingTypes ==
    ASSUME TypeOK, NEW kind, Receiving(kind)
    PROVE  /\ Head(outbox) \in Replies /\ Head(outbox).kind = kind
           /\ outbox' \in Seq(Replies)
           /\ kind = "options" => /\ Head(outbox).arg.actions \in SUBSET UsefulActions
                                  /\ Head(outbox).arg.protocol \in SUBSET NoReplyCommands
           /\ kind = "signature" => Head(outbox).arg \in Signatures
<1>1. /\ Head(outbox) \in Replies /\ Head(outbox).kind = kind
      /\ outbox' \in Seq(Replies)
  BY DEF TypeOK, Receiving
<1> QED
  BY <1>1 DEF Replies

(* What the MTA makes of its message is well typed *)
LEMMA MessageTypes ==
    ASSUME NEW m \in Messages, NEW v \in Versions
    PROVE  /\ Opened(m, v) \in Messages
           /\ [m EXCEPT !.ceil = v] \in Messages
           /\ \A h \in HeaderPackets : WithHeader(m, h) \in Messages
           /\ \A c \in BodyChunks : WithBody(m, c) \in Messages
<1>1. Opened(m, v) \in Messages
  BY DEF Opened, Messages
<1>2. [m EXCEPT !.ceil = v] \in Messages
  BY DEF Messages
<1>3. ASSUME NEW h \in HeaderPackets PROVE WithHeader(m, h) \in Messages
  <2>1. h.size \in Nat
    BY TypesAssumption DEF Headers
  <2>2. Append(m.headers, h) \in Seq(HeaderPackets) /\ m.bytes + h.size \in Nat
    BY <2>1 DEF Messages
  <2>3. WithHeader(m, h) = [m EXCEPT !.headers = Append(m.headers, h),
                                     !.bytes = m.bytes + h.size]
    BY DEF WithHeader
  <2> QED
    BY <2>2, <2>3 DEF Messages
<1>4. ASSUME NEW c \in BodyChunks PROVE WithBody(m, c) \in Messages
  <2>1. Append(m.body, c) \in Seq(BodyChunks)
    BY DEF Messages
  <2>2. WithBody(m, c) = [m EXCEPT !.body = Append(m.body, c)]
    BY DEF WithBody
  <2> QED
    BY <2>1, <2>2 DEF Messages
<1> QED
  BY <1>1, <1>2, <1>3, <1>4

(* Every step of the worker, the monitor, the clock and the MTA keeps the   *)
(* state well typed, and the worker's memory within its limits.             *)
LEMMA NextTypeOK == TypeOK /\ [Next]_vars => TypeOK'
<1> SUFFICES ASSUME TypeOK, [Next]_vars PROVE TypeOK'
  OBVIOUS
<1> USE DEF NoReplyCommands
<1>0. WithinLimits(state) /\ active \in Versions
  BY DEF TypeOK, WithinLimits
<1>1. CASE HandleNegotiate
  <2>1. /\ actions' \in SUBSET UsefulActions
        /\ protocol' \in SUBSET NoReplyCommands
    BY <1>1 DEF HandleNegotiate
  <2>2. [kind |-> "options", to |-> "O",
         arg |-> [actions |-> actions', protocol |-> protocol']] \in Replies
    BY <2>1 DEF Replies
  <2>3. outbox' \in Seq(Replies)
    BY <1>1, <2>2 DEF HandleNegotiate, TypeOK
  <2> QED
    BY <1>0, <1>1, <2>1, <2>3, ReadKeepsTypes DEF HandleNegotiate, TypeOK
<1>2. CASE HandleMail
  <2>1. WithinLimits(state')
    BY <1>0, <1>2, BeginFailTypes DEF HandleMail, WithinLimits
  <2>2. outbox' \in Seq(Replies)
    BY <1>2, ContinueTypes DEF HandleMail
  <2> QED
    BY <1>2, <2>1, <2>2, ReadKeepsTypes DEF HandleMail, TypeOK
<1>3. CASE HandleHeader
  <2>1. Head(inbox).arg \in HeaderPackets
    BY <1>3, ReadTypes DEF HandleHeader, Read
  <2>2. WithinLimits(Begin(state, active))
    BY <1>0, BeginFailTypes DEF WithinLimits
  <2>3. WithinLimits(state')
    BY <1>0, <1>3, <2>1, <2>2, ReceiveHeaderTypes DEF HandleHeader, WithinLimits
  <2>4. outbox' \in Seq(Replies)
    BY <1>3, ContinueTypes DEF HandleHeader
  <2> QED
    BY <1>3, <2>3, <2>4, ReadKeepsTypes DEF HandleHeader, TypeOK
<1>4. CASE HandleBody
  <2>1. Head(inbox).arg \in BodyChunks
    BY <1>4, ReadTypes DEF HandleBody, Read
  <2>2. WithinLimits(Fail(state))
    BY <1>0, BeginFailTypes DEF WithinLimits
  <2>3. Append(state.body, Head(inbox).arg) \in Seq(BodyChunks)
    BY <2>1, <1>0 DEF WithinLimits, MessageStates
  <2>4. WithinLimits([state EXCEPT !.body = Append(state.body, Head(inbox).arg)])
    BY <1>0, <2>3 DEF WithinLimits, MessageStates
  <2>5. WithinLimits(state')
    BY <1>0, <1>4, <2>2, <2>4 DEF HandleBody
  <2>6. outbox' \in Seq(Replies)
    BY <1>4, ContinueTypes DEF HandleBody
  <2> QED
    BY <1>4, <2>5, <2>6, ReadKeepsTypes DEF HandleBody, TypeOK
<1>5. CASE HandleEndSigned
  <2>1. SignWith(state.config) \in Signatures
    BY <1>0, <1>5 DEF HandleEndSigned, MaySign, SignWith, Signatures, WithinLimits, MessageStates
  <2>2. [kind |-> "signature", to |-> "E", arg |-> SignWith(state.config)] \in Replies
    BY <2>1 DEF Replies
  <2>3. outbox' \in Seq(Replies)
    BY <1>5, <2>2 DEF HandleEndSigned, TypeOK
  <2> QED
    BY <1>0, <1>5, <2>3, ReadKeepsTypes DEF HandleEndSigned, TypeOK
<1>6. [kind |-> "accept", to |-> "E", arg |-> None] \in Replies
  BY DEF Replies
<1>7. CASE WriteAccept
  <2>1. outbox' \in Seq(Replies)
    BY <1>6, <1>7 DEF WriteAccept, TypeOK
  <2>2. WithinLimits(state')
    BY <1>7, EmptyTypes DEF WriteAccept
  <2> QED
    BY <1>7, <2>1, <2>2 DEF WriteAccept, TypeOK, mtaVars, WithinLimits
<1>8. CASE HandleEndUnsigned
  <2>1. outbox' \in Seq(Replies)
    BY <1>6, <1>8 DEF HandleEndUnsigned, TypeOK
  <2> QED
    BY <1>8, <2>1, EmptyTypes, ReadKeepsTypes DEF HandleEndUnsigned, TypeOK
<1>9. CASE HandleAbort
  BY <1>9, EmptyTypes, ReadKeepsTypes DEF HandleAbort, TypeOK
<1>10. CASE HandleMacro
  BY <1>0, <1>10, ReadKeepsTypes DEF HandleMacro, TypeOK
<1>11. CASE HandleNotify
  <2>1. PICK c \in {"C", "H", "R", "T", "N", "U"} :
          Read(c) /\ WriteContinue(c) /\ UNCHANGED <<pc, state, actions, protocol>>
    BY <1>11 DEF HandleNotify
  <2>2. outbox' \in Seq(Replies)
    BY <2>1, ContinueTypes
  <2> QED
    BY <1>0, <2>1, <2>2, ReadKeepsTypes DEF TypeOK
<1>12. ASSUME Close, inbox' \in Seq(Packets), Len(inbox') <= MaxInFlight
       PROVE  TypeOK'
  BY <1>12, EmptyTypes DEF Close, TypeOK, mtaVars, WithinLimits
<1>13. CASE HandleQuitOrRefuse
  <2>1. PICK c : Reading(c) /\ inbox' = Tail(inbox) /\ Close
    BY <1>13 DEF HandleQuitOrRefuse
  <2> QED
    BY <2>1, <1>12, ReadTypes
<1>14. CASE IoFailure
  BY <1>12, <1>14 DEF IoFailure, TypeOK
<1>15. CASE Expire
  BY <1>15 DEF Expire, TypeOK, mtaVars
<1>16. CASE Reload
  BY <1>16, TypesAssumption DEF Reload, TypeOK, mtaVars, Versions
<1>17. CASE MtaNegotiate
  <2>1. PICK o \in Offers : Send("O", o)
    BY <1>17 DEF MtaNegotiate
  <2>2. [cmd |-> "O", arg |-> o] \in Packets
    BY DEF Packets
  <2> QED
    BY <1>17, <2>1, <2>2, SendKeepsTypes DEF MtaNegotiate, TypeOK
<1>18. CASE MtaMail
  <2>1. [cmd |-> "M", arg |-> None] \in Packets
    BY DEF Packets, PlainCommands
  <2>2. msg' \in Messages
    BY <1>0, <1>18, EmptyTypes, MessageTypes DEF MtaMail
  <2> QED
    BY <1>18, <2>1, <2>2, SendKeepsTypes DEF MtaMail
<1>19. CASE MtaHeader
  <2>1. PICK h \in HeaderPackets :
          /\ Send("L", h)
          /\ msg' = WithHeader(IF msg.started THEN msg ELSE Opened(msg, active), h)
    BY <1>19 DEF MtaHeader
  <2>2. [cmd |-> "L", arg |-> h] \in Packets
    BY DEF Packets
  <2>3. (IF msg.started THEN msg ELSE Opened(msg, active)) \in Messages
    BY <1>0, MessageTypes DEF TypeOK
  <2>4. msg' \in Messages
    BY <1>0, <2>1, <2>3, MessageTypes
  <2> QED
    BY <1>19, <2>1, <2>2, <2>4, SendKeepsTypes DEF MtaHeader
<1>20. CASE MtaBody
  <2>1. PICK c \in BodyChunks : Send("B", c) /\ msg' = WithBody(msg, c)
    BY <1>20 DEF MtaBody
  <2>2. [cmd |-> "B", arg |-> c] \in Packets
    BY DEF Packets
  <2>3. msg' \in Messages
    BY <1>0, <2>1, MessageTypes DEF TypeOK
  <2> QED
    BY <1>20, <2>1, <2>2, <2>3, SendKeepsTypes DEF MtaBody
<1>21. CASE MtaAbort
  <2>1. [cmd |-> "A", arg |-> None] \in Packets
    BY DEF Packets, PlainCommands
  <2> QED
    BY <1>21, <2>1, EmptyTypes, SendKeepsTypes DEF MtaAbort
<1>22. CASE MtaOther
  <2>1. PICK c \in PlainCommands \ {"M", "A"} : Send(c, None)
    BY <1>22 DEF MtaOther
  <2>2. [cmd |-> c, arg |-> None] \in Packets
    BY DEF Packets
  <2> QED
    BY <1>22, <2>1, <2>2, SendKeepsTypes DEF MtaOther, TypeOK
<1>23. CASE MtaOptions
  <2>1. /\ outbox' \in Seq(Replies)
        /\ granted' \in SUBSET UsefulActions
        /\ noReply' \in SUBSET NoReplyCommands
    BY <1>23, ReceivingTypes DEF MtaOptions
  <2> QED
    BY <1>23, <2>1 DEF MtaOptions, Receiving, TypeOK
<1>24. CASE MtaContinue
  <2>1. outbox' \in Seq(Replies)
    BY <1>24, ReceivingTypes DEF MtaContinue
  <2>2. msg' \in Messages
    BY <1>0, <1>24, MessageTypes DEF MtaContinue, TypeOK
  <2> QED
    BY <1>24, <2>1, <2>2 DEF MtaContinue, Receiving, TypeOK
<1>25. CASE MtaSignature
  <2>1. outbox' \in Seq(Replies) /\ sig' \in Signatures
    BY <1>25, ReceivingTypes DEF MtaSignature
  <2> QED
    BY <1>25, <2>1 DEF MtaSignature, Receiving, TypeOK
<1>26. CASE MtaAccept
  <2>1. outbox' \in Seq(Replies)
    BY <1>26, ReceivingTypes DEF MtaAccept
  <2> QED
    BY <1>26, <2>1, EmptyTypes DEF MtaAccept, Receiving, TypeOK
<1>27. ASSUME Disconnect, outbox' \in Seq(Replies) PROVE TypeOK'
  BY <1>27, EmptyTypes DEF Disconnect, TypeOK
<1>28. CASE MtaGivesUp
  BY <1>27, <1>28 DEF MtaGivesUp
<1>29. CASE MtaSeesClose
  BY <1>27, <1>29 DEF MtaSeesClose, TypeOK
<1>30. CASE UNCHANGED vars
  BY <1>30 DEF TypeOK, vars, mtaVars
<1> QED
  BY <1>1, <1>2, <1>3, <1>4, <1>5, <1>7, <1>8, <1>9, <1>10, <1>11, <1>13, <1>14,
     <1>15, <1>16, <1>17, <1>18, <1>19, <1>20, <1>21, <1>22, <1>23, <1>24, <1>25,
     <1>26, <1>28, <1>29, <1>30
  DEF Next, Worker, Mta, Terminated

(* THEOREM: the type invariant holds, for any numbers of headers, chunks,   *)
(* commands, reloads and packets in flight.  In particular no worker ever   *)
(* retains more than MAX_HEADERS headers, or more than MAX_HEADER_BYTES of  *)
(* a message it may still sign (receive_header).                            *)
THEOREM TypeCorrect == Spec => []TypeOK
<1> QED
  BY InitTypeOK, NextTypeOK, PTL DEF Spec

-----------------------------------------------------------------------------
(***************************************************************************)
(* The two ends of a connection stay in step: theorem ReplyDiscipline of   *)
(* MilterSession, for every MTA and every negotiation.                     *)
(*                                                                         *)
(* The property speaks of the answers in the socket only.  It is inductive *)
(* together with what the daemon still has to read: everything in the      *)
(* inbox but the awaited command needs no answer (Waived), an awaited      *)
(* command is either the last of the inbox, or being concluded, or         *)
(* answered (Awaited), and the two copies of the negotiated options agree  *)
(* except while the answer that carries them is in the socket (Options).   *)
(***************************************************************************)

Silent(c) == c \in protocol \cup {"A", "D", "Q", "K"}

(* All commands of the inbox up to n need no answer *)
WaivedTo(n) == \A i \in 1..n : Silent(inbox[i].cmd)

Idle == /\ outbox = <<>> /\ sig = None
        /\ pc # "accept"
        /\ pc = "read" => WaivedTo(Len(inbox))

(* the awaited command is still to be read *)
Pending == /\ inbox # <<>>
           /\ inbox[Len(inbox)].cmd = awaiting
           /\ ~Silent(awaiting)
           /\ WaivedTo(Len(inbox) - 1)
           /\ outbox = <<>> /\ sig = None

(* it was answered: the last answer concludes, only a signature precedes it *)
Answered == /\ inbox = <<>>
            /\ outbox # <<>>
            /\ outbox[Len(outbox)].kind # "signature"

Awaited ==
    /\ pc = "read" => Pending \/ Answered
    /\ pc = "accept" => /\ awaiting = "E"
                        /\ inbox = <<>>
                        /\ \A i \in 1..Len(outbox) : outbox[i].kind = "signature"

OutboxOk == \A i \in 1..Len(outbox) :
                /\ outbox[i].to = awaiting
                /\ outbox[i].kind # "signature" => i = Len(outbox)

Options ==
    IF outbox # <<>> /\ outbox[1].kind = "options"
    THEN outbox[1].arg = [actions |-> actions, protocol |-> protocol]
    ELSE noReply = protocol /\ granted = actions

Sync ==
    mtaOpen =>
        /\ awaiting = None => Idle
        /\ awaiting # None => Awaited
        /\ sig # None => awaiting = "E"
        /\ OutboxOk
        /\ Options

-----------------------------------------------------------------------------
(* How the worker meets the inbox *)

(* What the worker reads is either a command without an answer, and the     *)
(* rest of the inbox is as it should be, or the awaited command, the last.  *)
LEMMA ReadCases ==
    ASSUME TypeOK, Sync, mtaOpen, NEW c, Reading(c)
    PROVE  /\ outbox = <<>> /\ sig = None /\ noReply = protocol /\ granted = actions
           /\ \/ /\ Silent(c)
                 /\ awaiting = None =>
                       \A i \in 1..Len(Tail(inbox)) : Silent(Tail(inbox)[i].cmd)
                 /\ awaiting # None =>
                       /\ Tail(inbox) # <<>>
                       /\ Tail(inbox)[Len(Tail(inbox))].cmd = awaiting
                       /\ ~Silent(awaiting)
                       /\ \A i \in 1..(Len(Tail(inbox)) - 1) : Silent(Tail(inbox)[i].cmd)
              \/ awaiting # None /\ c = awaiting /\ ~Silent(c) /\ Tail(inbox) = <<>>
<1>1. /\ pc = "read" /\ inbox \in Seq(Packets) /\ inbox # <<>> /\ inbox[1].cmd = c
      /\ Len(inbox) \in Nat \ {0}
  BY DEF Reading, TypeOK
<1>2. /\ Len(Tail(inbox)) = Len(inbox) - 1
      /\ \A i \in 1..(Len(inbox) - 1) : Tail(inbox)[i] = inbox[i + 1]
      /\ Len(inbox) = 1 => Tail(inbox) = <<>>
      /\ Len(inbox) # 1 => Tail(inbox) # <<>>
  <2>1. /\ Tail(inbox) \in Seq(Packets)
        /\ Len(Tail(inbox)) = Len(inbox) - 1
        /\ \A i \in 1..(Len(inbox) - 1) : Tail(inbox)[i] = inbox[i + 1]
    BY <1>1
  <2>2. Tail(inbox) = <<>> <=> Len(Tail(inbox)) = 0
    BY <2>1, EmptySeq
  <2> QED
    BY <1>1, <2>1, <2>2
<1>3. outbox = <<>> /\ sig = None
  BY <1>1 DEF Sync, Idle, Awaited, Pending, Answered
<1>4. noReply = protocol /\ granted = actions
  BY <1>3 DEF Sync, Options
<1>5. CASE awaiting = None
  <2>1. \A i \in 1..Len(inbox) : Silent(inbox[i].cmd)
    BY <1>1, <1>5 DEF Sync, Idle, WaivedTo
  <2>2. Silent(inbox[1].cmd)
    BY <1>1, <2>1
  <2>3. \A i \in 1..Len(Tail(inbox)) : Silent(Tail(inbox)[i].cmd)
    BY <1>1, <1>2, <2>1
  <2> QED
    BY <1>1, <1>3, <1>4, <1>5, <2>2, <2>3
<1>6. CASE awaiting # None
  <2>1. /\ inbox[Len(inbox)].cmd = awaiting /\ ~Silent(awaiting)
        /\ \A i \in 1..(Len(inbox) - 1) : Silent(inbox[i].cmd)
    BY <1>1, <1>6 DEF Sync, Awaited, Pending, Answered, WaivedTo
  <2>2. CASE Len(inbox) = 1
    BY <1>1, <1>2, <1>3, <1>4, <1>6, <2>1, <2>2
  <2>3. CASE Len(inbox) # 1
    <3>0. ASSUME NEW n \in Nat, n # 0, n # 1 PROVE 1 \in 1..(n - 1)
      BY <3>0
    <3>1. Silent(inbox[1].cmd)
      <4>1. 1 \in 1..(Len(inbox) - 1)
        BY <1>1, <2>3, <3>0
      <4> QED
        BY <2>1, <4>1
    <3>2. Tail(inbox)[Len(Tail(inbox))].cmd = awaiting
      BY <1>1, <1>2, <2>1, <2>3
    <3>3. \A i \in 1..(Len(Tail(inbox)) - 1) : Silent(Tail(inbox)[i].cmd)
      BY <1>1, <1>2, <2>1, <2>3
    <3> QED
      BY <1>2, <1>3, <1>4, <1>6, <1>1, <2>1, <2>3, <3>1, <3>2, <3>3
  <2> QED
    BY <2>2, <2>3
<1> QED
  BY <1>5, <1>6

(* A command without an answer is handled in silence *)
LEMMA SilentStep ==
    ASSUME TypeOK, Sync, mtaOpen, NEW c, Read(c), Silent(c),
           UNCHANGED <<pc, actions, protocol, outbox>>
    PROVE  Sync'
<1>1. /\ outbox = <<>> /\ sig = None /\ noReply = protocol /\ granted = actions
      /\ awaiting = None =>
            \A i \in 1..Len(inbox') : Silent(inbox'[i].cmd)
      /\ awaiting # None =>
            /\ inbox' # <<>>
            /\ inbox'[Len(inbox')].cmd = awaiting
            /\ ~Silent(awaiting)
            /\ \A i \in 1..(Len(inbox') - 1) : Silent(inbox'[i].cmd)
  BY ReadCases DEF Read
<1>2. pc = "read" /\ Len(outbox) = 0
  BY <1>1 DEF Read, Reading
<1> QED
  BY <1>1, <1>2 DEF Sync, Idle, Awaited, Pending, WaivedTo, Silent, OutboxOk, Options,
                    Read, mtaVars

(* The awaited command is answered at once, with one packet *)
LEMMA AnswerStep ==
    ASSUME TypeOK, Sync, mtaOpen, NEW c, Read(c), ~Silent(c),
           NEW r, outbox' = Append(outbox, r), r.to = c,
           \/ pc' = "read" /\ r.kind # "signature"
           \/ pc' = "accept" /\ c = "E" /\ r.kind = "signature",
           IF r.kind = "options"
           THEN r.arg = [actions |-> actions', protocol |-> protocol']
           ELSE UNCHANGED <<actions, protocol>>
    PROVE  Sync'
<1>1. /\ outbox = <<>> /\ sig = None /\ noReply = protocol /\ granted = actions
      /\ awaiting # None /\ c = awaiting /\ inbox' = <<>>
  BY ReadCases DEF Read
<1>2. outbox' = <<r>> /\ Len(outbox') = 1 /\ outbox'[1] = r /\ outbox' # <<>>
  BY <1>1
<1>3. UNCHANGED <<awaiting, sig, noReply, granted>>
  BY DEF Read, mtaVars
<1>4. Awaited'
  BY <1>1, <1>2, <1>3 DEF Awaited, Answered
<1>5. OutboxOk'
  BY <1>1, <1>2, <1>3 DEF OutboxOk
<1>6. Options'
  BY <1>1, <1>2, <1>3 DEF Options
<1> QED
  BY <1>1, <1>3, <1>4, <1>5, <1>6 DEF Sync

(* What the MTA receives is the answer to the command it awaits *)
LEMMA ReceivingCases ==
    ASSUME TypeOK, Sync, NEW kind, Receiving(kind)
    PROVE  /\ mtaOpen /\ awaiting # None
           /\ outbox \in Seq(Replies) /\ outbox # <<>> /\ Len(outbox) \in Nat \ {0}
           /\ outbox[1].kind = kind /\ outbox[1].to = awaiting
           /\ kind # "signature" => /\ outbox' = <<>> /\ pc # "accept"
                                    /\ pc = "read" => inbox = <<>>
<1>1. /\ mtaOpen /\ outbox \in Seq(Replies) /\ outbox # <<>>
      /\ Len(outbox) \in Nat \ {0}
      /\ outbox[1].kind = kind /\ outbox' = Tail(outbox)
  BY EmptySeq DEF Receiving, TypeOK
<1>2. awaiting # None /\ Awaited
  BY <1>1 DEF Sync, Idle
<1>3. 1 \in 1..Len(outbox)
  BY <1>1
<1>4. outbox[1].to = awaiting
  BY <1>1, <1>3 DEF Sync, OutboxOk
<1>5. ASSUME kind # "signature"
      PROVE  /\ outbox' = <<>> /\ pc # "accept"
             /\ pc = "read" => inbox = <<>>
  <2>1. Len(outbox) = 1
    BY <1>1, <1>3, <1>5 DEF Sync, OutboxOk
  <2>2. Tail(outbox) \in Seq(Replies) /\ Len(Tail(outbox)) = 0
    BY <1>1, <2>1
  <2>3. outbox' = <<>>
    BY <1>1, <2>2, EmptySeq
  <2>4. pc # "accept" /\ (pc = "read" => inbox = <<>>)
    BY <1>1, <1>2, <1>3, <1>5 DEF Awaited, Pending, Answered
  <2> QED
    BY <2>3, <2>4
<1> QED
  BY <1>1, <1>2, <1>4, <1>5

(* A concluding answer brings the two ends back to rest *)
LEMMA ConcludedStep ==
    ASSUME mtaOpen, awaiting' = None, sig' = None, outbox' = <<>>,
           pc' # "accept", pc' = "read" => inbox' = <<>>,
           noReply' = protocol', granted' = actions'
    PROVE  Sync'
<1>1. Len(outbox') = 0 /\ (pc' = "read" => Len(inbox') = 0)
  OBVIOUS
<1> QED
  BY <1>1 DEF Sync, Idle, WaivedTo, OutboxOk, Options

(* What the MTA sends is the command it will await, or needs no answer *)
LEMMA SendStep ==
    ASSUME TypeOK, Sync, NEW c \in Commands, NEW arg, Send(c, arg)
    PROVE  Sync'
<1>1. /\ mtaOpen /\ awaiting = None /\ outbox = <<>> /\ sig = None /\ pc = "read"
      /\ noReply = protocol /\ granted = actions
      /\ inbox \in Seq(Packets) /\ Len(inbox) \in Nat
      /\ \A i \in 1..Len(inbox) : Silent(inbox[i].cmd)
  BY DEF Send, Sync, Idle, WaivedTo, Options, TypeOK
<1> DEFINE p == [cmd |-> c, arg |-> arg]
<1>2. /\ inbox' = Append(inbox, p) /\ Len(inbox') = Len(inbox) + 1
      /\ inbox'[Len(inbox')] = p /\ inbox' # <<>>
      /\ \A i \in 1..Len(inbox) : inbox'[i] = inbox[i]
  BY <1>1 DEF Send
<1>3. p.cmd = c
  OBVIOUS
<1> HIDE DEF p
<1>4. UNCHANGED <<pc, protocol, actions, outbox, mtaOpen, noReply, granted, sig>>
  BY DEF Send
<1>5. c # None
  BY TypesAssumption
<1>6. CASE Silent(c)
  <2>1. awaiting' = None
    BY <1>1, <1>6 DEF Send, Silent
  <2>2. \A i \in 1..Len(inbox') : Silent(inbox'[i].cmd)
    BY <1>1, <1>2, <1>3, <1>6
  <2>3. Idle'
    BY <1>1, <1>4, <2>2 DEF Idle, WaivedTo, Silent
  <2> QED
    BY <1>1, <1>4, <2>1, <2>3 DEF Sync, OutboxOk, Options
<1>7. CASE ~Silent(c)
  <2>1. awaiting' = c
    BY <1>1, <1>7 DEF Send, Silent
  <2>2. \A i \in 1..(Len(inbox') - 1) : Silent(inbox'[i].cmd)
    BY <1>1, <1>2
  <2>3. Pending'
    BY <1>1, <1>2, <1>3, <1>4, <1>7, <2>1, <2>2 DEF Pending, WaivedTo, Silent
  <2>4. Awaited'
    BY <1>1, <1>4, <2>3 DEF Awaited
  <2> QED
    BY <1>1, <1>4, <1>5, <2>1, <2>4 DEF Sync, OutboxOk, Options
<1> QED
  BY <1>6, <1>7

-----------------------------------------------------------------------------
(* Every step keeps the two ends in step *)

LEMMA InitSync == Init => Sync
  BY DEF Init, Sync, Idle, WaivedTo, OutboxOk, Options

(* Sync is inductive, action by action. *)
LEMMA NextSync == TypeOK /\ Sync /\ [Next]_vars => Sync'
<1> SUFFICES ASSUME TypeOK, Sync, [Next]_vars PROVE Sync'
  OBVIOUS
<1>1. CASE ~mtaOpen
  <2>1. ~mtaOpen'
    BY <1>1 DEF Next, Worker, Mta, Terminated, vars, mtaVars, Close, Read,
       HandleNegotiate, HandleMail, HandleHeader, HandleBody, HandleEndSigned, WriteAccept,
       HandleEndUnsigned, HandleAbort, HandleMacro, HandleNotify, HandleQuitOrRefuse,
       IoFailure, Expire, Reload, Send, Receiving, Disconnect, MtaNegotiate, MtaMail,
       MtaHeader, MtaBody, MtaAbort, MtaOther, MtaOptions, MtaContinue, MtaSignature,
       MtaAccept, MtaGivesUp, MtaSeesClose
  <2> QED
    BY <2>1 DEF Sync
<1>2. ASSUME NEW c \in NoReplyCommands, mtaOpen, Read(c), WriteContinue(c),
             UNCHANGED <<pc, actions, protocol>>
      PROVE  Sync'
  <2>1. CASE c \in protocol
    <3>1. Silent(c) /\ UNCHANGED outbox
      BY <1>2, <2>1 DEF Silent, WriteContinue, NoReplyFlag
    <3> QED
      BY <1>2, <3>1, SilentStep
  <2>2. CASE c \notin protocol
    <3>1. ~Silent(c) /\ pc' = "read"
      BY <1>2, <2>2 DEF Silent, NoReplyCommands, Read, Reading
    <3> DEFINE r == [kind |-> "continue", to |-> c, arg |-> None]
    <3>2. outbox' = Append(outbox, r)
      BY <1>2, <2>2 DEF WriteContinue, NoReplyFlag
    <3>3. r.to = c /\ r.kind = "continue"
      OBVIOUS
    <3> HIDE DEF r
    <3> QED
      BY <1>2, <3>1, <3>2, <3>3, AnswerStep
  <2> QED
    BY <2>1, <2>2
<1>3. CASE mtaOpen /\ HandleNegotiate
  <2>1. ~Silent("O")
    BY DEF Silent, TypeOK, NoReplyCommands
  <2> DEFINE r == [kind |-> "options", to |-> "O",
                   arg |-> [actions |-> actions', protocol |-> protocol']]
  <2>2. /\ Read("O") /\ outbox' = Append(outbox, r) /\ pc' = "read"
    BY <1>3 DEF HandleNegotiate, Read, Reading
  <2>3. /\ r.to = "O" /\ r.kind = "options"
        /\ r.arg = [actions |-> actions', protocol |-> protocol']
    OBVIOUS
  <2> HIDE DEF r
  <2> QED
    BY <1>3, <2>1, <2>2, <2>3, AnswerStep
<1>4. CASE mtaOpen /\ (HandleMail \/ HandleHeader \/ HandleBody \/ HandleNotify)
  BY <1>2, <1>4 DEF HandleMail, HandleHeader, HandleBody, HandleNotify, NoReplyCommands
<1>5. ~Silent("E")
  BY DEF Silent, TypeOK, NoReplyCommands
<1>6. CASE mtaOpen /\ HandleEndSigned
  <2> DEFINE r == [kind |-> "signature", to |-> "E", arg |-> SignWith(state.config)]
  <2>1. /\ Read("E") /\ outbox' = Append(outbox, r) /\ pc' = "accept"
        /\ UNCHANGED <<actions, protocol>>
    BY <1>6 DEF HandleEndSigned
  <2>2. r.to = "E" /\ r.kind = "signature"
    OBVIOUS
  <2> HIDE DEF r
  <2> QED
    BY <1>5, <1>6, <2>1, <2>2, AnswerStep
<1>7. CASE mtaOpen /\ WriteAccept
  <2> DEFINE r == [kind |-> "accept", to |-> "E", arg |-> None]
  <2>1. /\ awaiting = "E" /\ inbox = <<>> /\ outbox \in Seq(Replies) /\ Len(outbox) \in Nat
        /\ \A i \in 1..Len(outbox) : outbox[i].kind = "signature" /\ outbox[i].to = "E"
    BY <1>7, TypesAssumption
    DEF WriteAccept, Sync, Idle, Awaited, OutboxOk, TypeOK
  <2>2. /\ outbox' = Append(outbox, r) /\ pc' = "read"
        /\ UNCHANGED <<actions, protocol, inbox, mtaOpen, awaiting, noReply, granted, sig>>
    BY <1>7 DEF WriteAccept, mtaVars
  <2>3. r.to = "E" /\ r.kind = "accept"
    OBVIOUS
  <2> HIDE DEF r
  <2>4. /\ outbox' # <<>> /\ Len(outbox') = Len(outbox) + 1 /\ outbox'[Len(outbox')] = r
        /\ \A i \in 1..Len(outbox) : outbox'[i] = outbox[i]
        /\ \A i \in 1..Len(outbox') : i \in 1..Len(outbox) \/ i = Len(outbox')
        /\ 1 \in 1..Len(outbox')
    BY <2>1, <2>2
  <2>5. Awaited'
    BY <2>1, <2>2, <2>3, <2>4 DEF Awaited, Answered
  <2>6. OutboxOk'
    BY <2>1, <2>2, <2>3, <2>4 DEF OutboxOk
  <2>7. noReply = protocol /\ granted = actions
    <3>1. outbox # <<>> => 1 \in 1..Len(outbox)
      BY <2>1, EmptySeq
    <3> QED
      BY <1>7, <2>1, <3>1 DEF Sync, Options
  <2>8. outbox'[1].kind # "options"
    BY <2>1, <2>3, <2>4
  <2>9. Options'
    BY <2>2, <2>7, <2>8 DEF Options
  <2> QED
    BY <1>7, <2>1, <2>2, <2>5, <2>6, <2>9, TypesAssumption DEF Sync, Commands, PlainCommands
<1>8. CASE mtaOpen /\ HandleEndUnsigned
  <2> DEFINE r == [kind |-> "accept", to |-> "E", arg |-> None]
  <2>1. /\ Read("E") /\ outbox' = Append(outbox, r) /\ pc' = "read"
        /\ UNCHANGED <<actions, protocol>>
    BY <1>8 DEF HandleEndUnsigned, Read, Reading
  <2>2. r.to = "E" /\ r.kind = "accept"
    OBVIOUS
  <2> HIDE DEF r
  <2> QED
    BY <1>5, <1>8, <2>1, <2>2, AnswerStep
<1>9. CASE mtaOpen /\ (HandleAbort \/ HandleMacro)
  BY <1>9, SilentStep DEF HandleAbort, HandleMacro, Silent
<1>10. CASE mtaOpen /\ (HandleQuitOrRefuse \/ IoFailure)
  <2>1. Close
    BY <1>10 DEF HandleQuitOrRefuse, IoFailure
  <2> QED
    BY <2>1 DEF Close, mtaVars, Sync, Idle, Awaited, OutboxOk, Options
<1>11. CASE Expire \/ Reload \/ UNCHANGED vars
  BY <1>11 DEF Expire, Reload, vars, mtaVars, Sync, Idle, Awaited, Pending, Answered,
               WaivedTo, Silent, OutboxOk, Options
<1>12. CASE MtaNegotiate \/ MtaMail \/ MtaHeader \/ MtaBody \/ MtaAbort \/ MtaOther
  BY <1>12, SendStep DEF MtaNegotiate, MtaMail, MtaHeader, MtaBody, MtaAbort, MtaOther,
                         Commands, PlainCommands
<1>13. outbox # <<>> => outbox[1] \in Replies
  BY EmptySeq DEF TypeOK
<1>14. CASE MtaOptions
  <2>1. sig = None
    BY <1>13, <1>14, ReceivingCases DEF MtaOptions, Sync, Replies
  <2>2. noReply' = protocol' /\ granted' = actions'
    BY <1>14, ReceivingCases DEF MtaOptions, Receiving, Sync, Options
  <2> QED
    BY <1>14, <2>1, <2>2, ReceivingCases, ConcludedStep DEF MtaOptions, Receiving
<1>15. CASE MtaContinue
  <2>1. sig = None
    BY <1>13, <1>15, ReceivingCases DEF MtaContinue, Sync, Replies, NoReplyCommands
  <2>2. noReply = protocol /\ granted = actions
    BY <1>15, ReceivingCases DEF MtaContinue, Sync, Options
  <2> QED
    BY <1>15, <2>1, <2>2, ReceivingCases, ConcludedStep DEF MtaContinue, Receiving
<1>16. CASE MtaAccept
  <2>1. noReply = protocol /\ granted = actions
    BY <1>16, ReceivingCases DEF MtaAccept, Sync, Options
  <2> QED
    BY <1>16, <2>1, ReceivingCases, ConcludedStep DEF MtaAccept, Receiving
<1>17. CASE MtaSignature
  <2>1. /\ mtaOpen /\ awaiting # None /\ outbox \in Seq(Replies)
        /\ outbox # <<>> /\ Len(outbox) \in Nat \ {0} /\ outbox[1].kind = "signature"
        /\ outbox' = Tail(outbox) /\ outbox[1].to = awaiting
    BY <1>17, ReceivingCases DEF MtaSignature, Receiving
  <2>2. UNCHANGED <<pc, actions, protocol, inbox, mtaOpen, awaiting, noReply, granted>>
    BY <1>17 DEF MtaSignature, Receiving
  <2>3. awaiting = "E"
    BY <1>13, <2>1 DEF Replies
  <2>4. /\ outbox' \in Seq(Replies) /\ Len(outbox') = Len(outbox) - 1
        /\ \A i \in 1..Len(outbox') : i + 1 \in 1..Len(outbox) /\ outbox'[i] = outbox[i + 1]
        /\ outbox' = <<>> <=> Len(outbox') = 0
    <3>1. /\ outbox' \in Seq(Replies) /\ Len(outbox') = Len(outbox) - 1
          /\ \A i \in 1..Len(outbox') : outbox'[i] = outbox[i + 1]
      BY <2>1
    <3>2. ASSUME NEW i \in 1..Len(outbox') PROVE i + 1 \in 1..Len(outbox)
      BY <2>1, <3>1
    <3>3. outbox' = <<>> <=> Len(outbox') = 0
      BY <3>1, EmptySeq
    <3> QED
      BY <3>1, <3>2, <3>3
  <2>5. Awaited'
    <3>1. CASE pc = "read"
      <4>1. inbox = <<>> /\ outbox[Len(outbox)].kind # "signature"
        BY <2>1, <3>1 DEF Sync, Awaited, Pending, Answered
      <4>2. Len(outbox) # 1 /\ Len(outbox') \in 1..Len(outbox')
        BY <2>1, <2>4, <4>1
      <4>3. outbox'[Len(outbox')] = outbox[Len(outbox)]
        BY <2>1, <2>4, <4>2
      <4> QED
        BY <2>2, <2>4, <3>1, <4>1, <4>2, <4>3 DEF Awaited, Answered
    <3>2. CASE pc = "accept"
      BY <2>1, <2>2, <2>3, <2>4, <3>2 DEF Sync, Awaited
    <3>3. CASE pc = "closed"
      BY <2>2, <3>3 DEF Awaited
    <3> QED
      BY <3>1, <3>2, <3>3 DEF TypeOK
  <2>6. OutboxOk'
    <3>1. \A i \in 1..Len(outbox) : /\ outbox[i].to = awaiting
                                    /\ outbox[i].kind # "signature" => i = Len(outbox)
      BY <2>1 DEF Sync, OutboxOk
    <3>2. ASSUME NEW i \in 1..Len(outbox')
          PROVE  /\ outbox'[i].to = awaiting
                 /\ outbox'[i].kind # "signature" => i = Len(outbox')
      <4>1. outbox'[i] = outbox[i + 1] /\ i + 1 \in 1..Len(outbox)
        BY <2>4
      <4>2. i + 1 = Len(outbox) => i = Len(outbox')
        <5>1. i \in Int /\ Len(outbox) \in Int /\ Len(outbox') = Len(outbox) - 1
          BY <2>1, <2>4
        <5> QED
          BY <5>1
      <4> QED
        BY <3>1, <4>1, <4>2
    <3> QED
      BY <2>2, <3>2 DEF OutboxOk
  <2>7. noReply = protocol /\ granted = actions
    BY <2>1 DEF Sync, Options
  <2>8. outbox' # <<>> => outbox'[1].kind # "options"
    <3>1. ASSUME outbox' # <<>> PROVE outbox'[1] \in Replies /\ outbox'[1].to = "E"
      BY <2>2, <2>3, <2>4, <2>6, <3>1, EmptySeq DEF OutboxOk
    <3> QED
      BY <3>1 DEF Replies
  <2>9. Options'
    BY <2>2, <2>7, <2>8 DEF Options
  <2> QED
    BY <2>1, <2>2, <2>3, <2>5, <2>6, <2>9 DEF Sync
<1>18. CASE MtaGivesUp \/ MtaSeesClose
  BY <1>18 DEF MtaGivesUp, MtaSeesClose, Disconnect, Sync
<1> QED
  BY <1>1, <1>3, <1>4, <1>6, <1>7, <1>8, <1>9, <1>10, <1>11, <1>12, <1>14, <1>15, <1>16,
     <1>17, <1>18
  DEF Next, Worker, Mta, Terminated

(* THEOREM: the daemon answers exactly the command the MTA awaits, exactly  *)
(* once, after any negotiation and with any commands sent ahead: no answer  *)
(* of write_continue_if_needed or finish_message is taken for another's.    *)
THEOREM AnswersStayInStep == Spec => []ReplyDiscipline
<1>1. Init => TypeOK /\ Sync
  BY InitTypeOK, InitSync
<1>2. TypeOK /\ Sync /\ [Next]_vars => (TypeOK /\ Sync)'
  BY NextTypeOK, NextSync
<1>3. Sync => ReplyDiscipline
  BY DEF Sync, Idle, OutboxOk, ReplyDiscipline
<1> QED
  BY <1>1, <1>2, <1>3, PTL DEF Spec

-----------------------------------------------------------------------------
(***************************************************************************)
(* A signature covers the message the MTA sent and was made under the      *)
(* configuration it began with, and nothing signable is left unsigned:     *)
(* theorems SignatureIsComplete, SignedAsItBegan, HandlerRefinesService,   *)
(* for every MTA that opens a message before its body.                     *)
(*                                                                         *)
(* The message in the daemon lags behind the MTA's by the packets in the   *)
(* inbox.  The invariant therefore names the versions in between: a path   *)
(* f, where f[i] is the MTA's message after i packets of the inbox, leads  *)
(* from what the daemon holds, f[0], to what the MTA has sent, msg.  Once  *)
(* the end of message is handled the state is empty, and the signature     *)
(* itself carries what it covers.                                          *)
(***************************************************************************)

(* receive_header refuses none of the message's headers *)
Acceptable(m) ==
    /\ \A i \in 1..Len(m.headers) : m.headers[i].form = "good"
    /\ Len(m.headers) <= MAX_HEADERS
    /\ m.bytes <= MAX_HEADER_BYTES

(* s is what the daemon makes of message m: not begun yet, or begun under a *)
(* configuration of its window and, unless rightly refused, retained whole  *)
Holds(s, m, now) ==
    /\ s.config = None => s = EmptyState /\ m = EmptyMessage
    /\ s.config # None => m.started /\ s.config \in Window(m, now)
    /\ s.error <=> ~Acceptable(m)
    /\ ~s.error => /\ s.headers = m.headers /\ s.header_bytes = m.bytes
                  /\ s.body = m.body

(* n is what sending packet p makes of message m *)
Extends(p, m, n, now) ==
    CASE p.cmd = "M" -> \E v \in 0..now : n = Opened(EmptyMessage, v)
      [] p.cmd = "L" -> \E v \in 0..now :
                          n = WithHeader(IF m.started THEN m ELSE Opened(m, v), p.arg)
      [] p.cmd = "B" -> m.started /\ n = WithBody(m, p.arg)
      [] p.cmd = "A" -> n = EmptyMessage
      [] OTHER       -> n = m

(* f leads from the message that s holds over the packets of q to m *)
Path(f, s, q, m, now) ==
    /\ Holds(s, f[0], now)
    /\ \A i \in 1..Len(q) : Extends(q[i], f[i - 1], f[i], now)
    /\ f[Len(q)] = m

LagsBehind(s, q, m, now) == \E f \in [0..Len(q) -> Messages] : Path(f, s, q, m, now)

(* The end of message was read and is not accepted yet *)
Concluding == awaiting = "E" /\ inbox = <<>>

(* signature g may be attached to message m with the permissions p *)
Covers(g, m, p, now) ==
    /\ g.headers = m.headers
    /\ g.body = m.body
    /\ m.started /\ Acceptable(m) /\ Eligible(g.config, m.headers)
    /\ TRUE \in CryptoOutcomes
    /\ (IF g.kind = "insert" THEN "change" ELSE "add") \in p
    /\ g.config \in Window(m, now)

Faithful ==
    /\ mtaOpen /\ pc = "read" =>
         IF Concluding THEN state = EmptyState ELSE LagsBehind(state, inbox, msg, active)
    /\ mtaOpen => \A i \in 1..Len(outbox) :
                     outbox[i].kind = "signature" => Covers(outbox[i].arg, msg, granted, active)
    /\ sig # None => mtaOpen /\ Covers(sig, msg, granted, active)

-----------------------------------------------------------------------------
(* The handlers follow the message *)

LEMMA HeldTypes ==
    ASSUME TypeOK
    PROVE  /\ active \in Nat /\ active \in Versions
           /\ state.config \in Versions \cup {None}
           /\ \A v \in Versions : v \in Nat /\ v # None
           /\ \A v \in 0..active : v \in Versions
  BY TypesAssumption DEF TypeOK, MessageStates, Versions

LEMMA BeginHolds ==
    ASSUME TypeOK, NEW v \in 0..active
    PROVE  Holds(Begin(state, active), Opened(EmptyMessage, v), active)
<1>1. /\ active \in Nat /\ active # None
  BY HeldTypes
<1> DEFINE b == Begin(state, active)
           o == Opened(EmptyMessage, v)
<1>2. /\ b.config = active /\ b.headers = <<>> /\ b.body = <<>>
      /\ b.header_bytes = 0 /\ ~b.error
  BY DEF Begin, EmptyState
<1>3. /\ o.started /\ o.floor = v /\ o.ceil = None
      /\ o.headers = <<>> /\ o.body = <<>> /\ o.bytes = 0
  BY DEF Opened, EmptyMessage
<1> HIDE DEF b, o
<1>4. Acceptable(o)
  BY <1>3, TypesAssumption DEF Acceptable
<1> QED
  BY <1>1, <1>2, <1>3, <1>4 DEF Holds, Window, b, o

(* receive_header against the message with one more header *)
LEMMA HeaderHolds ==
    ASSUME NEW s \in MessageStates, NEW m \in Messages, NEW h \in HeaderPackets,
           NEW now, Holds(s, m, now), s.config # None
    PROVE  Holds(ReceiveHeader(s, h), WithHeader(m, h), now)
<1> DEFINE n == WithHeader(m, h)
           r == ReceiveHeader(s, h)
<1>1. /\ n.started = m.started /\ n.floor = m.floor /\ n.ceil = m.ceil
      /\ n.headers = Append(m.headers, h) /\ n.body = m.body
      /\ n.bytes = m.bytes + h.size
  BY DEF WithHeader, Messages
<1>2. /\ h.size \in Nat /\ h.form \in {"good", "unframed", "badname"}
      /\ m.headers \in Seq(HeaderPackets) /\ m.bytes \in Nat /\ MAX_HEADERS \in Nat
      /\ MAX_HEADER_BYTES \in Nat
  BY TypesAssumption DEF Headers, Messages
<1>3. Acceptable(n) <=> /\ Acceptable(m) /\ h.form = "good"
                        /\ Len(m.headers) < MAX_HEADERS
                        /\ m.bytes + h.size <= MAX_HEADER_BYTES
  <2>1. /\ Len(n.headers) = Len(m.headers) + 1 /\ n.headers[Len(m.headers) + 1] = h
        /\ \A i \in 1..Len(m.headers) : n.headers[i] = m.headers[i]
        /\ Len(m.headers) \in Nat
    BY <1>1, <1>2
  <2>2. (\A i \in 1..Len(n.headers) : n.headers[i].form = "good")
          <=> (\A i \in 1..Len(m.headers) : m.headers[i].form = "good") /\ h.form = "good"
    BY <2>1
  <2> QED
    BY <1>1, <1>2, <2>1, <2>2 DEF Acceptable
<1>4. /\ r.config = s.config
      /\ s.error => r.error
      /\ ~s.error => (r.error <=> \/ h.form # "good"
                                \/ Len(s.headers) >= MAX_HEADERS
                                \/ s.header_bytes + h.size > MAX_HEADER_BYTES)
      /\ ~r.error => /\ r.headers = Append(s.headers, h) /\ r.body = s.body
                    /\ r.header_bytes = s.header_bytes + h.size
  BY <1>2 DEF ReceiveHeader, Fail, MessageStates
<1> HIDE DEF n, r
<1>5. r.error <=> ~Acceptable(n)
  BY <1>2, <1>3, <1>4 DEF Holds
<1> QED
  BY <1>1, <1>3, <1>4, <1>5 DEF Holds, Window, n, r

LEMMA BodyHolds ==
    ASSUME NEW s \in MessageStates, NEW m \in Messages, NEW c \in BodyChunks,
           NEW now, Holds(s, m, now), s.config # None
    PROVE  Holds(IF s.error THEN s ELSE [s EXCEPT !.body = Append(@, c)], WithBody(m, c), now)
<1> DEFINE n == WithBody(m, c)
           r == IF s.error THEN s ELSE [s EXCEPT !.body = Append(@, c)]
<1>1. /\ n.started = m.started /\ n.floor = m.floor /\ n.ceil = m.ceil
      /\ n.body = Append(m.body, c) /\ n.headers = m.headers /\ n.bytes = m.bytes
  BY DEF WithBody, Messages
<1>2. /\ r.config = s.config /\ r.error = s.error
      /\ ~s.error => /\ r.body = Append(s.body, c) /\ r.headers = s.headers
                    /\ r.header_bytes = s.header_bytes
  BY DEF MessageStates
<1> HIDE DEF n, r
<1>3. Acceptable(n) <=> Acceptable(m)
  BY <1>1 DEF Acceptable
<1> QED
  BY <1>1, <1>2, <1>3 DEF Holds, Window, n, r

LEMMA EmptyHolds == \A now : Holds(EmptyState, EmptyMessage, now)
<1>1. Acceptable(EmptyMessage)
  BY TypesAssumption DEF Acceptable, EmptyMessage
<1> QED
  BY <1>1 DEF Holds, EmptyState, EmptyMessage

(* What a handler does to the state is what the packet did to the message *)
LEMMA HandlerFollows ==
    ASSUME TypeOK, NEW c, Read(c), NEW m \in Messages, NEW n \in Messages,
           Holds(state, m, active), Extends(Head(inbox), m, n, active),
           \/ HandleNegotiate \/ HandleMail \/ HandleHeader \/ HandleBody
           \/ HandleAbort \/ HandleMacro \/ HandleNotify
    PROVE  Holds(state', n, active)
<1>1. /\ Head(inbox).cmd = c /\ UNCHANGED active
      /\ c = "L" => Head(inbox).arg \in HeaderPackets
      /\ c = "B" => Head(inbox).arg \in BodyChunks
  BY ReadTypes DEF Read
<1>2. state \in MessageStates
  BY DEF TypeOK
<1>4. CASE HandleMail
  <2>1. PICK v \in 0..active : n = Opened(EmptyMessage, v)
    BY <1>1, <1>4 DEF HandleMail, Read, Reading, Extends
  <2> QED
    BY <1>4, <2>1, BeginHolds DEF HandleMail
<1>5. CASE HandleHeader
  <2> DEFINE h == Head(inbox).arg
             s == IF state.config = None THEN Begin(state, active) ELSE state
  <2>1. h \in HeaderPackets /\ state' = ReceiveHeader(s, h) /\ Head(inbox).cmd = "L"
    BY <1>1, <1>5 DEF HandleHeader, Read, Reading
  <2>2. PICK v \in 0..active : n = WithHeader(IF m.started THEN m ELSE Opened(m, v), h)
    BY <2>1 DEF Extends
  <2>3. CASE state.config = None
    <3>1. m = EmptyMessage /\ ~m.started
      BY <2>3 DEF Holds, EmptyMessage
    <3>2. s \in MessageStates /\ s.config # None
      BY <1>2, <2>3, HeldTypes, EmptyTypes DEF Begin, WithinLimits, MessageStates
    <3>3. Opened(EmptyMessage, v) \in Messages
      BY HeldTypes, EmptyTypes, MessageTypes
    <3> QED
      BY <2>1, <2>2, <2>3, <3>1, <3>2, <3>3, BeginHolds, HeaderHolds
  <2>4. CASE state.config # None
    <3>1. m.started
      BY <2>4 DEF Holds
    <3> QED
      BY <1>2, <2>1, <2>2, <2>4, <3>1, HeaderHolds
  <2> QED
    BY <2>3, <2>4
<1>6. CASE HandleBody
  <2>1. /\ Head(inbox).cmd = "B" /\ Head(inbox).arg \in BodyChunks
    BY <1>1, <1>6 DEF HandleBody, Read, Reading
  <2>2. m.started /\ n = WithBody(m, Head(inbox).arg)
    BY <2>1 DEF Extends
  <2>3. state.config # None
    BY <2>2 DEF Holds, EmptyMessage
  <2> QED
    BY <1>2, <1>6, <2>1, <2>2, <2>3, BodyHolds DEF HandleBody
<1>7. CASE HandleAbort
  <2>1. n = EmptyMessage
    BY <1>1, <1>7 DEF HandleAbort, Read, Reading, Extends
  <2> QED
    BY <1>7, <2>1, EmptyHolds DEF HandleAbort
<1>8. CASE HandleNegotiate \/ HandleMacro \/ HandleNotify
  <2>1. UNCHANGED state /\ Head(inbox).cmd \notin {"M", "L", "B", "A"}
    BY <1>1, <1>8 DEF HandleNegotiate, HandleMacro, HandleNotify, Read, Reading
  <2>2. n = m
    BY <2>1 DEF Extends
  <2> QED
    BY <2>1, <2>2
<1> QED
  BY <1>4, <1>5, <1>6, <1>7, <1>8

-----------------------------------------------------------------------------
(* Paths *)

LEMMA PathEmpty ==
    ASSUME NEW s, NEW m \in Messages, NEW now
    PROVE  LagsBehind(s, <<>>, m, now) <=> Holds(s, m, now)
<1>1. Len(<<>>) = 0 /\ 0..0 = {0} /\ 1..0 = {}
  OBVIOUS
<1>2. ASSUME Holds(s, m, now) PROVE LagsBehind(s, <<>>, m, now)
  <2> DEFINE f == [i \in 0..0 |-> m]
  <2>1. f \in [0..Len(<<>>) -> Messages] /\ f[0] = m
    BY <1>1
  <2>2. Path(f, s, <<>>, m, now)
    BY <1>1, <1>2, <2>1 DEF Path
  <2> QED
    BY <2>1, <2>2 DEF LagsBehind
<1>3. ASSUME LagsBehind(s, <<>>, m, now) PROVE Holds(s, m, now)
  BY <1>1, <1>3 DEF LagsBehind, Path
<1> QED
  BY <1>2, <1>3

(* The first packet is read *)
LEMMA PathTail ==
    ASSUME NEW q \in Seq(Packets), q # <<>>, NEW s, NEW t, NEW m, NEW now,
           LagsBehind(s, q, m, now),
           \A a, b \in Messages :
               Holds(s, a, now) /\ Extends(Head(q), a, b, now) => Holds(t, b, now)
    PROVE  LagsBehind(t, Tail(q), m, now)
<1>1. PICK f \in [0..Len(q) -> Messages] : Path(f, s, q, m, now)
  BY DEF LagsBehind
<1> DEFINE k == Len(Tail(q))
           g == [i \in 0..k |-> f[i + 1]]
<1>2. k \in Nat /\ Len(q) = k + 1 /\ Head(q) = q[1]
  BY EmptySeq
<1>3. \A i \in 1..k : Tail(q)[i] = q[i + 1]
  BY <1>2
<1> HIDE DEF k
<1>4. /\ \A i \in 0..k : i + 1 \in 0..Len(q)
      /\ \A i \in 1..k : i - 1 \in 0..k /\ i \in 0..k /\ (i - 1) + 1 = i /\ i + 1 \in 1..Len(q)
                       /\ (i + 1) - 1 = i
      /\ 0 \in 0..k /\ k \in 0..k /\ 0 \in 0..Len(q) /\ 1 \in 0..Len(q) /\ 1 \in 1..Len(q)
  BY <1>2
<1>5. g \in [0..k -> Messages]
  BY <1>1, <1>4
<1>6. Holds(t, g[0], now)
  <2>1. f[0] \in Messages /\ f[1] \in Messages
    BY <1>1, <1>4
  <2>2. Holds(s, f[0], now) /\ Extends(q[1], f[0], f[1], now)
    BY <1>1, <1>4 DEF Path
  <2>3. g[0] = f[1]
    BY <1>4
  <2> QED
    BY <1>2, <2>1, <2>2, <2>3
<1>7. ASSUME NEW i \in 1..k PROVE Extends(Tail(q)[i], g[i - 1], g[i], now)
  <2>1. g[i - 1] = f[i] /\ g[i] = f[i + 1]
    BY <1>4
  <2>2. Extends(q[i + 1], f[i], f[i + 1], now)
    BY <1>1, <1>4 DEF Path
  <2> QED
    BY <1>3, <2>1, <2>2
<1>8. g[k] = m
  BY <1>1, <1>2, <1>4 DEF Path
<1> HIDE DEF g
<1>9. Path(g, t, Tail(q), m, now)
  BY <1>6, <1>7, <1>8 DEF Path, k
<1> QED
  BY <1>5, <1>9 DEF LagsBehind, k

(* One more packet is sent *)
LEMMA PathAppend ==
    ASSUME NEW q \in Seq(Packets), NEW p \in Packets, NEW s, NEW m, NEW n \in Messages,
           NEW now, LagsBehind(s, q, m, now), Extends(p, m, n, now)
    PROVE  LagsBehind(s, Append(q, p), n, now)
<1>1. PICK f \in [0..Len(q) -> Messages] : Path(f, s, q, m, now)
  BY DEF LagsBehind
<1> DEFINE k == Len(q)
           g == [i \in 0..(k + 1) |-> IF i = k + 1 THEN n ELSE f[i]]
           r == Append(q, p)
<1>2. /\ k \in Nat /\ Len(r) = k + 1 /\ r[k + 1] = p
      /\ \A i \in 1..k : r[i] = q[i]
  OBVIOUS
<1> HIDE DEF k, r
<1>3. /\ \A i \in 0..(k + 1) : i # k + 1 => i \in 0..k
      /\ \A i \in 1..(k + 1) : /\ i # k + 1 => i \in 1..k
                             /\ i - 1 \in 0..(k + 1) /\ i - 1 # k + 1 /\ i \in 0..(k + 1)
      /\ (k + 1) - 1 = k /\ 0 \in 0..(k + 1) /\ 0 # k + 1 /\ k + 1 \in 0..(k + 1)
  BY <1>2
<1>4. g \in [0..(k + 1) -> Messages]
  <2>1. f \in [0..k -> Messages]
    BY <1>1 DEF k
  <2> QED
    BY <1>3, <2>1
<1>5. Holds(s, g[0], now)
  <2>1. g[0] = f[0]
    BY <1>3
  <2> QED
    BY <1>1, <2>1 DEF Path
<1>6. ASSUME NEW i \in 1..(k + 1) PROVE Extends(r[i], g[i - 1], g[i], now)
  <2>1. g[i - 1] = f[i - 1]
    BY <1>3
  <2>2. CASE i = k + 1
    <3>1. g[i - 1] = m /\ g[i] = n
      BY <1>1, <1>3, <2>1, <2>2 DEF Path, k
    <3> QED
      BY <1>2, <2>2, <3>1
  <2>3. CASE i # k + 1
    <3>1. i \in 1..k /\ g[i] = f[i]
      BY <1>3, <2>3
    <3>2. Extends(q[i], f[i - 1], f[i], now)
      BY <1>1, <3>1 DEF Path, k
    <3> QED
      BY <1>2, <2>1, <3>1, <3>2
  <2> QED
    BY <2>2, <2>3
<1>7. g[k + 1] = n
  BY <1>3
<1> HIDE DEF g
<1>8. Path(g, s, r, n, now)
  BY <1>2, <1>5, <1>6, <1>7 DEF Path
<1> QED
  BY <1>2, <1>4, <1>8 DEF LagsBehind, r

(* A reload widens the windows *)
LEMMA WindowGrows ==
    ASSUME NEW m \in Messages, NEW now \in Nat, NEW later \in Nat, now <= later
    PROVE  Window(m, now) \subseteq Window(m, later)
<1>1. m.floor \in Int
  BY TypesAssumption DEF Messages, Versions
<1> QED
  BY <1>1, TypesAssumption DEF Window, Messages, Versions

LEMMA PathGrows ==
    ASSUME NEW q \in Seq(Packets), NEW s, NEW m, NEW now \in Nat, NEW later \in Nat,
           now <= later, LagsBehind(s, q, m, now)
    PROVE  LagsBehind(s, q, m, later)
<1>1. PICK f \in [0..Len(q) -> Messages] : Path(f, s, q, m, now)
  BY DEF LagsBehind
<1>2. Holds(s, f[0], later)
  <2>1. f[0] \in Messages /\ Holds(s, f[0], now)
    BY <1>1 DEF Path
  <2> QED
    BY <2>1, WindowGrows DEF Holds
<1>3. \A v \in 0..now : v \in 0..later
  OBVIOUS
<1>4. ASSUME NEW i \in 1..Len(q) PROVE Extends(q[i], f[i - 1], f[i], later)
  <2>1. Extends(q[i], f[i - 1], f[i], now)
    BY <1>1 DEF Path
  <2> QED
    BY <1>3, <2>1 DEF Extends
<1> QED
  BY <1>1, <1>2, <1>4 DEF Path, LagsBehind

-----------------------------------------------------------------------------
(* The steps of the worker *)

(* Any command but the end of message *)
LEMMA ReadStep ==
    ASSUME TypeOK, Sync, Faithful, mtaOpen, NEW c, c # "E", Read(c), UNCHANGED pc,
           \/ HandleNegotiate \/ HandleMail \/ HandleHeader \/ HandleBody
           \/ HandleAbort \/ HandleMacro \/ HandleNotify
    PROVE  Faithful'
<1>1. /\ pc = "read" /\ inbox \in Seq(Packets) /\ inbox # <<>>
      /\ inbox' = Tail(inbox) /\ UNCHANGED <<active, mtaVars>>
  BY DEF Read, Reading, TypeOK
<1>2. ~Concluding /\ ~Concluding'
  <2>1. Tail(inbox) # <<>> \/ awaiting = None \/ awaiting = c
    BY ReadCases DEF Read
  <2>2. awaiting' = awaiting /\ None # "E"
    BY <1>1, TypesAssumption DEF mtaVars, Commands, PlainCommands
  <2> QED
    BY <1>1, <2>1, <2>2 DEF Concluding
<1>3. LagsBehind(state, inbox, msg, active)
  BY <1>1, <1>2 DEF Faithful
<1>4. ASSUME NEW a \in Messages, NEW b \in Messages,
             Holds(state, a, active), Extends(Head(inbox), a, b, active)
      PROVE  Holds(state', b, active)
  BY <1>4, HandlerFollows
<1>5. LagsBehind(state', Tail(inbox), msg, active)
  BY <1>1, <1>3, <1>4, PathTail
<1>6. outbox = <<>> /\ sig = None
  BY ReadCases DEF Read
<1>7. \A i \in 1..Len(outbox') : outbox'[i].kind # "signature"
  <2>1. outbox' = <<>> \/ \E r : outbox' = <<r>> /\ r.kind # "signature"
    BY <1>6 DEF HandleNegotiate, HandleMail, HandleHeader, HandleBody, HandleAbort,
                HandleMacro, HandleNotify, WriteContinue
  <2>2. \A r : Len(<<r>>) = 1 /\ <<r>>[1] = r
    OBVIOUS
  <2> QED
    BY <2>1, <2>2
<1> QED
  BY <1>1, <1>2, <1>5, <1>6, <1>7 DEF Faithful, mtaVars

(* What the daemon holds at the end of message is all the MTA sent *)
LEMMA AtEndHolds ==
    ASSUME TypeOK, Sync, Faithful, mtaOpen, Read("E")
    PROVE  /\ Holds(state, msg, active) /\ awaiting = "E" /\ Tail(inbox) = <<>>
           /\ outbox = <<>> /\ sig = None /\ granted = actions
<1>1. ~Silent("E")
  BY DEF Silent, TypeOK, NoReplyCommands
<1>2. /\ awaiting = "E" /\ Tail(inbox) = <<>>
      /\ outbox = <<>> /\ sig = None /\ granted = actions
  BY <1>1, ReadCases DEF Read
<1>3. /\ pc = "read" /\ inbox \in Seq(Packets) /\ inbox # <<>> /\ Head(inbox).cmd = "E"
  BY DEF Read, Reading, TypeOK
<1>4. LagsBehind(state, inbox, msg, active)
  BY <1>3 DEF Faithful, Concluding
<1>5. LagsBehind(state, <<>>, msg, active)
  <2>1. \A a, b \in Messages :
            Holds(state, a, active) /\ Extends(Head(inbox), a, b, active)
                => Holds(state, b, active)
    BY <1>3 DEF Extends
  <2> QED
    BY <1>2, <1>3, <1>4, <2>1, PathTail
<1>6. Holds(state, msg, active)
  BY <1>5, PathEmpty DEF TypeOK
<1> QED
  BY <1>2, <1>6

(* The signature of finish_message covers it *)
LEMMA SignatureStep == TypeOK /\ Sync /\ Faithful /\ mtaOpen /\ HandleEndSigned => Faithful'
<1> SUFFICES ASSUME TypeOK, Sync, Faithful, mtaOpen, HandleEndSigned PROVE Faithful'
  OBVIOUS
<1>1. Read("E") /\ MaySign
  BY DEF HandleEndSigned
<1>2. /\ Holds(state, msg, active) /\ outbox = <<>> /\ sig = None /\ granted = actions
  BY <1>1, AtEndHolds
<1> DEFINE g == SignWith(state.config)
           r == [kind |-> "signature", to |-> "E", arg |-> g]
<1>3. Covers(g, msg, granted, active)
  <2>1. /\ g.headers = state.headers /\ g.body = state.body /\ g.config = state.config
        /\ g.kind = IF "change" \in actions THEN "insert" ELSE "append"
    BY DEF SignWith
  <2>2. (IF g.kind = "insert" THEN "change" ELSE "add") \in granted
    BY <1>1, <1>2, <2>1 DEF MaySign, UsefulActions
  <2>3. TRUE \in CryptoOutcomes /\ Eligible(state.config, state.headers)
    BY DEF HandleEndSigned
  <2> HIDE DEF g
  <2> QED
    BY <1>1, <1>2, <2>1, <2>2, <2>3 DEF Holds, MaySign, Covers
<1>4. outbox' = <<r>> /\ Len(<<r>>) = 1 /\ <<r>>[1] = r /\ r.arg = g
  BY <1>2 DEF HandleEndSigned
<1>5. pc' = "accept" /\ UNCHANGED <<active, mtaVars>>
  BY DEF HandleEndSigned, Read
<1> HIDE DEF g, r
<1> QED
  BY <1>2, <1>3, <1>4, <1>5 DEF Faithful, mtaVars

(* An acceptance leaves an empty state behind *)
LEMMA AcceptStep ==
    ASSUME TypeOK, Sync, Faithful, mtaOpen, HandleEndUnsigned \/ WriteAccept
    PROVE  Faithful'
<1> DEFINE r == [kind |-> "accept", to |-> "E", arg |-> None]
<1>1. /\ outbox' = Append(outbox, r) /\ state' = EmptyState /\ r.kind = "accept"
      /\ UNCHANGED <<active, mtaVars>>
  BY DEF HandleEndUnsigned, WriteAccept, Read
<1>2. awaiting = "E" /\ inbox' = <<>>
  <2>1. CASE HandleEndUnsigned
    BY <2>1, AtEndHolds DEF HandleEndUnsigned, Read
  <2>2. CASE WriteAccept
    BY <2>2, TypesAssumption DEF WriteAccept, Sync, Idle, Awaited
  <2> QED
    BY <2>1, <2>2
<1>3. outbox \in Seq(Replies)
  BY DEF TypeOK
<1> HIDE DEF r
<1>4. \A i \in 1..Len(outbox') :
          outbox'[i].kind = "signature" => i \in 1..Len(outbox) /\ outbox'[i] = outbox[i]
  BY <1>1, <1>3
<1> QED
  BY <1>1, <1>2, <1>4 DEF Faithful, Concluding, mtaVars

-----------------------------------------------------------------------------
(* The steps of the MTA *)

LEMMA SentStep ==
    ASSUME TypeOK, Sync, Faithful, NEW c \in Commands, NEW arg, Send(c, arg),
           [cmd |-> c, arg |-> arg] \in Packets, msg' \in Messages,
           Extends([cmd |-> c, arg |-> arg], msg, msg', active)
    PROVE  Faithful'
<1>1. /\ mtaOpen /\ awaiting = None /\ outbox = <<>> /\ sig = None /\ pc = "read"
  BY DEF Send, Sync, Idle, TypeOK
<1>2. LagsBehind(state, inbox, msg, active)
  BY <1>1, TypesAssumption DEF Faithful, Concluding, Commands, PlainCommands
<1>3. LagsBehind(state, Append(inbox, [cmd |-> c, arg |-> arg]), msg', active)
  BY <1>2, PathAppend DEF TypeOK
<1>4. /\ inbox' = Append(inbox, [cmd |-> c, arg |-> arg])
      /\ UNCHANGED <<active, pc, state, outbox, mtaOpen, sig>>
  BY DEF Send
<1>5. inbox' # <<>> /\ Len(outbox') = 0
  BY <1>1, <1>4 DEF TypeOK
<1> QED
  BY <1>1, <1>3, <1>4, <1>5 DEF Faithful, Concluding

(* Between messages, or with nothing of it in the socket *)
LEMMA AtRest ==
    ASSUME TypeOK, Sync, Faithful, NEW kind, Receiving(kind), kind # "signature", pc = "read"
    PROVE  IF awaiting = "E" THEN state = EmptyState ELSE Holds(state, msg, active)
<1>1. mtaOpen /\ inbox = <<>>
  BY ReceivingCases
<1>2. msg \in Messages
  BY DEF TypeOK
<1> QED
  BY <1>1, <1>2, PathEmpty DEF Faithful, Concluding

LEMMA RestStep ==
    ASSUME TypeOK, Sync, Faithful, NEW kind, Receiving(kind), kind # "signature",
           awaiting' = None, sig' = None, msg' \in Messages,
           pc = "read" => Holds(state, msg', active)
    PROVE  Faithful'
<1>1. /\ outbox' = <<>> /\ Len(outbox') = 0
      /\ pc = "read" => inbox = <<>>
  BY ReceivingCases
<1>2. UNCHANGED <<active, pc, state, inbox, mtaOpen>>
  BY DEF Receiving
<1>3. pc = "read" => LagsBehind(state, <<>>, msg', active)
  BY PathEmpty
<1>4. ~Concluding'
  BY TypesAssumption DEF Concluding, Commands, PlainCommands
<1> QED
  BY <1>1, <1>2, <1>3, <1>4 DEF Faithful

-----------------------------------------------------------------------------
(* The invariant *)

LEMMA InitFaithful == Init => Faithful
<1> SUFFICES ASSUME Init PROVE Faithful
  OBVIOUS
<1>1. LagsBehind(state, inbox, msg, active)
  <2>1. LagsBehind(EmptyState, <<>>, EmptyMessage, active)
    BY EmptyHolds, EmptyTypes, PathEmpty
  <2> QED
    BY <2>1 DEF Init
<1>2. ~Concluding /\ Len(outbox) = 0 /\ sig = None
  BY TypesAssumption DEF Init, Concluding, Commands, PlainCommands
<1>3. \A i \in 1..Len(outbox) : FALSE
  BY <1>2
<1> QED
  BY <1>1, <1>2, <1>3 DEF Faithful

LEMMA NextFaithful ==
    ASSUME ~BodyFirst, TypeOK, Sync, Faithful, [Next]_vars
    PROVE  Faithful'
<1>0. /\ active \in Nat /\ active \in 0..active /\ active \in Versions
      /\ msg \in Messages /\ inbox \in Seq(Packets)
  BY HeldTypes DEF TypeOK
<1>1. CASE ~mtaOpen
  <2>1. ~Mta
    BY <1>1 DEF Mta, MtaNegotiate, MtaMail, MtaHeader, MtaBody, MtaAbort, MtaOther,
       MtaOptions, MtaContinue, MtaSignature, MtaAccept, MtaGivesUp, MtaSeesClose,
       Send, Receiving
  <2>2. UNCHANGED <<mtaOpen, sig>>
    BY <2>1 DEF Next, Worker, Terminated, vars, mtaVars, Close, Read,
       HandleNegotiate, HandleMail, HandleHeader, HandleBody, HandleEndSigned, WriteAccept,
       HandleEndUnsigned, HandleAbort, HandleMacro, HandleNotify, HandleQuitOrRefuse,
       IoFailure, Expire, Reload
  <2> QED
    BY <1>1, <2>2 DEF Faithful
<1>2. CASE mtaOpen /\ (\/ HandleNegotiate \/ HandleMail \/ HandleHeader \/ HandleBody
                       \/ HandleAbort \/ HandleMacro \/ HandleNotify)
  <2>1. \E c : c # "E" /\ Read(c) /\ UNCHANGED pc
    BY <1>2 DEF HandleNegotiate, HandleMail, HandleHeader, HandleBody, HandleAbort,
                HandleMacro, HandleNotify
  <2> QED
    BY <1>2, <2>1, ReadStep
<1>3. CASE mtaOpen /\ (HandleEndSigned \/ HandleEndUnsigned \/ WriteAccept)
  BY <1>3, SignatureStep, AcceptStep
<1>4. CASE mtaOpen /\ (HandleQuitOrRefuse \/ IoFailure)
  <2>1. Close
    BY <1>4 DEF HandleQuitOrRefuse, IoFailure
  <2> QED
    BY <2>1 DEF Close, mtaVars, Faithful
<1>5. CASE Expire \/ UNCHANGED vars
  BY <1>5 DEF Expire, vars, mtaVars, Faithful, Concluding
<1>6. CASE Reload
  <2>1. /\ active' \in Nat /\ active <= active'
        /\ UNCHANGED <<pc, state, inbox, outbox, mtaVars>>
    BY <1>0, <1>6 DEF Reload
  <2>2. ASSUME NEW g, Covers(g, msg, granted, active) PROVE Covers(g, msg', granted', active')
    <3>1. g.config \in Window(msg, active')
      BY <1>0, <2>1, <2>2, WindowGrows DEF Covers
    <3> QED
      BY <2>1, <2>2, <3>1 DEF Covers, mtaVars
  <2> QED
    BY <1>0, <2>1, <2>2, PathGrows DEF Faithful, Concluding, mtaVars
<1>7. CASE MtaNegotiate \/ MtaOther
  <2>1. PICK c \in Commands \ {"M", "L", "B", "A"}, arg \in Offers \cup {None} :
          Send(c, arg) /\ [cmd |-> c, arg |-> arg] \in Packets
    BY <1>7 DEF MtaNegotiate, MtaOther, Commands, PlainCommands, Packets
  <2>2. msg' = msg
    BY <1>7 DEF MtaNegotiate, MtaOther
  <2>3. Extends([cmd |-> c, arg |-> arg], msg, msg', active)
    BY <2>1, <2>2 DEF Extends
  <2> QED
    BY <1>0, <2>1, <2>2, <2>3, SentStep
<1>8. CASE MtaMail
  <2>1. /\ Send("M", None) /\ [cmd |-> "M", arg |-> None] \in Packets
        /\ msg' = Opened(EmptyMessage, active) /\ msg' \in Messages
    BY <1>0, <1>8, EmptyTypes, MessageTypes DEF MtaMail, Packets, PlainCommands
  <2>2. Extends([cmd |-> "M", arg |-> None], msg, msg', active)
    BY <1>0, <2>1 DEF Extends
  <2> QED
    BY <2>1, <2>2, SentStep DEF Commands, PlainCommands
<1>9. CASE MtaHeader
  <2>1. PICK h \in HeaderPackets :
          /\ Send("L", h)
          /\ msg' = WithHeader(IF msg.started THEN msg ELSE Opened(msg, active), h)
    BY <1>9 DEF MtaHeader
  <2>2. [cmd |-> "L", arg |-> h] \in Packets /\ msg' \in Messages
    BY <1>0, <2>1, MessageTypes DEF Packets
  <2>3. Extends([cmd |-> "L", arg |-> h], msg, msg', active)
    BY <1>0, <2>1 DEF Extends
  <2> QED
    BY <2>1, <2>2, <2>3, SentStep DEF Commands
<1>10. CASE MtaBody
  <2>1. PICK c \in BodyChunks : Send("B", c) /\ msg' = WithBody(msg, c) /\ msg.started
    BY <1>10 DEF MtaBody
  <2>2. [cmd |-> "B", arg |-> c] \in Packets /\ msg' \in Messages
    BY <1>0, <2>1, MessageTypes DEF Packets
  <2>3. Extends([cmd |-> "B", arg |-> c], msg, msg', active)
    BY <2>1 DEF Extends
  <2> QED
    BY <2>1, <2>2, <2>3, SentStep DEF Commands
<1>11. CASE MtaAbort
  <2>1. /\ Send("A", None) /\ [cmd |-> "A", arg |-> None] \in Packets
        /\ msg' = EmptyMessage /\ msg' \in Messages
    BY <1>11, EmptyTypes DEF MtaAbort, Packets, PlainCommands
  <2>2. Extends([cmd |-> "A", arg |-> None], msg, msg', active)
    BY <2>1 DEF Extends
  <2> QED
    BY <2>1, <2>2, SentStep DEF Commands, PlainCommands
<1>12. outbox # <<>> => outbox[1] \in Replies
  BY EmptySeq DEF TypeOK
<1>13. CASE MtaOptions
  <2>1. awaiting = "O" /\ sig = None
    BY <1>12, <1>13, ReceivingCases DEF MtaOptions, Sync, Replies
  <2>2. pc = "read" => Holds(state, msg, active)
    BY <1>13, <2>1, AtRest DEF MtaOptions
  <2> QED
    BY <1>0, <1>13, <2>1, <2>2, RestStep DEF MtaOptions
<1>14. CASE MtaContinue
  <2>1. awaiting # "E" /\ sig = None
    BY <1>12, <1>14, ReceivingCases DEF MtaContinue, Sync, Replies, NoReplyCommands
  <2>2. pc = "read" => Holds(state, msg, active)
    BY <1>14, <2>1, AtRest DEF MtaContinue
  <2>3. pc = "read" => Holds(state, msg', active)
    <3>1. CASE msg.started /\ msg.ceil = None
      <4>1. /\ msg'.started = msg.started /\ msg'.floor = msg.floor /\ msg'.ceil = active
            /\ msg'.headers = msg.headers /\ msg'.body = msg.body /\ msg.started
        BY <1>0, <1>14, <3>1 DEF MtaContinue, Messages
      <4>2. active # None /\ msg # EmptyMessage
        BY <1>0, <3>1, HeldTypes DEF EmptyMessage
      <4>3. msg'.bytes = msg.bytes /\ (Acceptable(msg') <=> Acceptable(msg))
        BY <1>0, <1>14, <3>1, <4>1 DEF MtaContinue, Messages, Acceptable
      <4> QED
        BY <2>2, <3>1, <4>1, <4>2, <4>3 DEF Holds, Window
    <3>2. CASE ~(msg.started /\ msg.ceil = None)
      BY <1>14, <2>2, <3>2 DEF MtaContinue
    <3> QED
      BY <3>1, <3>2
  <2>4. msg' \in Messages
    BY <1>0, <1>14, MessageTypes DEF MtaContinue
  <2> QED
    BY <1>14, <2>1, <2>3, <2>4, RestStep DEF MtaContinue
<1>15. CASE MtaAccept
  <2>1. awaiting = "E"
    BY <1>12, <1>15, ReceivingCases DEF MtaAccept, Replies
  <2>2. pc = "read" => state = EmptyState
    BY <1>15, <2>1, AtRest DEF MtaAccept
  <2> QED
    BY <1>15, <2>2, EmptyHolds, EmptyTypes, RestStep DEF MtaAccept
<1>16. CASE MtaSignature
  <2>1. /\ mtaOpen /\ outbox \in Seq(Replies) /\ outbox # <<>> /\ Len(outbox) \in Nat \ {0}
        /\ outbox[1].kind = "signature" /\ outbox' = Tail(outbox) /\ sig' = outbox[1].arg
    BY <1>16, ReceivingCases DEF MtaSignature, Receiving
  <2>2. UNCHANGED <<active, pc, state, inbox, mtaOpen, awaiting, granted, msg>>
    BY <1>16 DEF MtaSignature, Receiving
  <2>3. \A i \in 1..Len(outbox') : i + 1 \in 1..Len(outbox) /\ outbox'[i] = outbox[i + 1]
    BY <2>1
  <2>4. Covers(outbox[1].arg, msg, granted, active)
    BY <2>1 DEF Faithful
  <2> QED
    BY <2>1, <2>2, <2>3, <2>4 DEF Faithful, Concluding
<1>17. CASE MtaGivesUp \/ MtaSeesClose
  BY <1>17 DEF MtaGivesUp, MtaSeesClose, Disconnect, Faithful
<1> QED
  BY <1>1, <1>2, <1>3, <1>4, <1>5, <1>6, <1>7, <1>8, <1>9, <1>10, <1>11, <1>13, <1>14,
     <1>15, <1>16, <1>17
  DEF Next, Worker, Mta, Terminated

LEMMA FaithfulAlways ==
    ASSUME ~BodyFirst
    PROVE  Spec => [](TypeOK /\ Sync /\ Faithful)
<1>1. Init => TypeOK /\ Sync /\ Faithful
  BY InitTypeOK, InitSync, InitFaithful
<1>2. TypeOK /\ Sync /\ Faithful /\ [Next]_vars => (TypeOK /\ Sync /\ Faithful)'
  BY NextTypeOK, NextSync, NextFaithful
<1> QED
  BY <1>1, <1>2, PTL DEF Spec

(* THEOREM: a signature the MTA receives covers exactly the message it sent *)
(* and was delivered with a permission it granted, whatever was sent,       *)
(* aborted or refused on the connection before (MessageState is one for all *)
(* messages; receive_header, the body arm and finish_message).              *)
THEOREM SignatureIsComplete ==
    ASSUME ~BodyFirst
    PROVE  Spec => []SignatureCoversMessage
<1>1. Faithful => SignatureCoversMessage
  BY DEF Faithful, Covers, SignatureCoversMessage
<1> QED
  BY <1>1, FaithfulAlways, PTL

(* THEOREM: a message is signed under a configuration that was in force     *)
(* when it began, however often the configuration is reloaded meanwhile     *)
(* (MessageState::begin keeps the Arc of that moment).                      *)
THEOREM SignedAsItBegan ==
    ASSUME ~BodyFirst
    PROVE  Spec => []ConfigWindow
<1>1. Faithful => ConfigWindow
  BY DEF Faithful, Covers, ConfigWindow
<1> QED
  BY <1>1, FaithfulAlways, PTL

-----------------------------------------------------------------------------
(* The handler implements SigningService.  Faithful says what a signature   *)
(* covers; Judged says what the answers in the socket stand for: one        *)
(* signature at most, an acceptance that follows it or has an excuse, the   *)
(* permissions of an offer.                                                 *)

Signable(v, m, p) == /\ m.started /\ Acceptable(m)
                     /\ Eligible(v, m.headers) /\ p # {}

(* message m, with the permissions p, may be left unsigned *)
Excuse(m, p, now) == \/ FALSE \in CryptoOutcomes
                     \/ \E v \in Window(m, now) : ~Signable(v, m, p)

Excused == Excuse(msg, granted, active)

Attached == sig # None \/ (outbox # <<>> /\ outbox[1].kind = "signature")

Offered(r) == \E o \in Offers : r.arg.actions = o.actions \cap UsefulActions

Judged ==
    mtaOpen =>
        /\ pc = "accept" => Attached
        /\ \A i \in 1..Len(outbox) :
              /\ outbox[i].kind = "signature" => i = 1 /\ sig = None
              /\ outbox[i].kind = "accept" => Attached \/ Excused
              /\ outbox[i].kind = "options" => Offered(outbox[i])

(* An end of message that is not signed has an excuse *)
LEMMA UnsignedIsExcused ==
    ASSUME TypeOK, Sync, Faithful, mtaOpen, HandleEndUnsigned
    PROVE  Excused
<1>1. /\ Holds(state, msg, active) /\ granted = actions
      /\ (MaySign /\ Eligible(state.config, state.headers)) => FALSE \in CryptoOutcomes
  BY AtEndHolds DEF HandleEndUnsigned
<1>2. actions \cap UsefulActions = actions
  BY DEF TypeOK
<1>3. CASE state.config = None
  <2>1. 0 \in Window(msg, active) /\ ~msg.started
    BY <1>1, <1>3, HeldTypes DEF Holds, EmptyMessage, Window
  <2> QED
    BY <2>1 DEF Excused, Excuse, Signable
<1>4. CASE state.config # None
  <2>1. state.config \in Window(msg, active)
    BY <1>1, <1>4 DEF Holds
  <2>2. Signable(state.config, msg, granted) => MaySign /\ Eligible(state.config, state.headers)
    BY <1>1, <1>2, <1>4 DEF Holds, MaySign, Signable
  <2> QED
    BY <1>1, <2>1, <2>2 DEF Excused, Excuse
<1> QED
  BY <1>3, <1>4

(* The answer to a command, when the socket was empty *)
LEMMA AnswerJudged ==
    ASSUME NEW r, outbox = <<>>, outbox' = Append(outbox, r), sig' = None,
           pc' = "accept" => r.kind = "signature",
           r.kind = "accept" => Excused', r.kind = "options" => Offered(r)
    PROVE  Judged'
<1>1. Append(<<>>, r) = <<r>>
  OBVIOUS
<1>2. outbox' = <<r>> /\ Len(outbox') = 1 /\ outbox'[1] = r /\ outbox' # <<>>
  BY <1>1
<1>3. \A i \in 1..1 : i = 1
  OBVIOUS
<1> QED
  BY <1>2, <1>3 DEF Judged, Attached, Offered

LEMMA SilentJudged ==
    ASSUME outbox' = <<>>, pc' # "accept"
    PROVE  Judged'
<1>1. Len(outbox') = 0 /\ 1..0 = {}
  OBVIOUS
<1> QED
  BY <1>1 DEF Judged

LEMMA InitJudged == Init => Judged
<1>1. Init => Len(outbox) = 0 /\ pc # "accept"
  BY DEF Init
<1>2. 1..0 = {}
  OBVIOUS
<1> QED
  BY <1>1, <1>2 DEF Judged

LEMMA NextJudged ==
    ASSUME TypeOK, Sync, Faithful, Judged, [Next]_vars
    PROVE  Judged'
<1>1. CASE ~mtaOpen
  <2>1. ~Mta
    BY <1>1 DEF Mta, MtaNegotiate, MtaMail, MtaHeader, MtaBody, MtaAbort, MtaOther,
       MtaOptions, MtaContinue, MtaSignature, MtaAccept, MtaGivesUp, MtaSeesClose,
       Send, Receiving
  <2>2. UNCHANGED mtaOpen
    BY <2>1 DEF Next, Worker, Terminated, vars, mtaVars, Close, Read,
       HandleNegotiate, HandleMail, HandleHeader, HandleBody, HandleEndSigned, WriteAccept,
       HandleEndUnsigned, HandleAbort, HandleMacro, HandleNotify, HandleQuitOrRefuse,
       IoFailure, Expire, Reload
  <2> QED
    BY <1>1, <2>2 DEF Judged
<1>2. CASE mtaOpen /\ HandleNegotiate
  <2>1. Read("O") /\ Head(inbox).arg \in Offers /\ pc' = "read"
    BY <1>2, ReadTypes DEF HandleNegotiate, Read, Reading
  <2>2. outbox = <<>> /\ sig' = None
    BY <1>2, <2>1, ReadCases DEF Read, mtaVars
  <2> DEFINE r == [kind |-> "options", to |-> "O",
                   arg |-> [actions |-> actions', protocol |-> protocol']]
  <2>3. outbox' = Append(outbox, r) /\ r.kind = "options" /\ r.arg.actions = actions'
    BY <1>2 DEF HandleNegotiate
  <2>4. actions' = Head(inbox).arg.actions \cap UsefulActions
    BY <1>2 DEF HandleNegotiate
  <2> HIDE DEF r
  <2>5. Offered(r)
    BY <2>1, <2>3, <2>4 DEF Offered
  <2> QED
    BY <2>1, <2>2, <2>3, <2>5, AnswerJudged
<1>3. CASE mtaOpen /\ (\/ HandleMail \/ HandleHeader \/ HandleBody
                       \/ HandleAbort \/ HandleMacro \/ HandleNotify)
  <2>1. PICK c : Read(c) /\ (UNCHANGED outbox \/ WriteContinue(c)) /\ UNCHANGED pc
    BY <1>3 DEF HandleMail, HandleHeader, HandleBody, HandleAbort, HandleMacro, HandleNotify
  <2>2. outbox = <<>> /\ sig' = None /\ pc' = "read"
    BY <1>3, <2>1, ReadCases DEF Read, Reading, mtaVars
  <2> DEFINE r == [kind |-> "continue", to |-> c, arg |-> None]
  <2>3. outbox' = <<>> \/ outbox' = Append(outbox, r)
    BY <2>1, <2>2 DEF WriteContinue
  <2>4. r.kind = "continue"
    OBVIOUS
  <2> HIDE DEF r
  <2> QED
    BY <2>2, <2>3, <2>4, AnswerJudged, SilentJudged
<1>4. CASE mtaOpen /\ HandleEndSigned
  <2> DEFINE r == [kind |-> "signature", to |-> "E", arg |-> SignWith(state.config)]
  <2>1. outbox = <<>> /\ sig' = None /\ outbox' = Append(outbox, r)
    BY <1>4, AtEndHolds DEF HandleEndSigned, Read, mtaVars
  <2>2. r.kind = "signature"
    OBVIOUS
  <2> HIDE DEF r
  <2> QED
    BY <2>1, <2>2, AnswerJudged
<1>5. CASE mtaOpen /\ HandleEndUnsigned
  <2> DEFINE r == [kind |-> "accept", to |-> "E", arg |-> None]
  <2>1. outbox = <<>> /\ sig' = None /\ outbox' = Append(outbox, r) /\ pc' = "read"
    BY <1>5, AtEndHolds DEF HandleEndUnsigned, Read, Reading, mtaVars
  <2>2. r.kind = "accept"
    OBVIOUS
  <2>3. Excused
    BY <1>5, UnsignedIsExcused
  <2>4. UNCHANGED <<active, msg, granted>>
    BY <1>5 DEF HandleEndUnsigned, Read, mtaVars
  <2>5. Excused'
    BY <2>3, <2>4 DEF Excused
  <2> HIDE DEF r
  <2> QED
    BY <2>1, <2>2, <2>5, AnswerJudged
<1>6. CASE mtaOpen /\ WriteAccept
  <2> DEFINE r == [kind |-> "accept", to |-> "E", arg |-> None]
  <2>1. /\ pc = "accept" /\ pc' = "read" /\ outbox' = Append(outbox, r)
        /\ UNCHANGED <<active, mtaVars>>
    BY <1>6 DEF WriteAccept
  <2>2. r.kind = "accept"
    OBVIOUS
  <2> HIDE DEF r
  <2>3. outbox \in Seq(Replies) /\ Attached
    BY <1>6, <2>1 DEF TypeOK, Judged
  <2>4. Attached'
    <3>1. outbox # <<>> => outbox'[1] = outbox[1] /\ outbox' # <<>>
      BY <2>1, <2>3
    <3> QED
      BY <2>1, <2>3, <3>1 DEF Attached, mtaVars
  <2>5. \A i \in 1..Len(outbox') : \/ i \in 1..Len(outbox) /\ outbox'[i] = outbox[i]
                                  \/ outbox'[i] = r
    BY <2>1, <2>3
  <2> QED
    BY <1>6, <2>1, <2>2, <2>4, <2>5 DEF Judged, mtaVars, Offered
<1>7. CASE mtaOpen /\ (HandleQuitOrRefuse \/ IoFailure)
  <2>1. Close
    BY <1>7 DEF HandleQuitOrRefuse, IoFailure
  <2> QED
    BY <1>7, <2>1 DEF Close, mtaVars, Judged, Attached, Excused
<1>8. CASE Expire \/ UNCHANGED vars
  BY <1>8 DEF Expire, vars, mtaVars, Judged, Attached, Excused
<1>9. CASE Reload
  <2>1. /\ active \in Nat /\ active' \in Nat /\ active <= active' /\ msg \in Messages
        /\ UNCHANGED <<pc, outbox, mtaVars>>
    BY <1>9, HeldTypes DEF Reload, TypeOK
  <2>2. Excused => Excused'
    BY <2>1, WindowGrows DEF Excused, Excuse, mtaVars
  <2> QED
    BY <2>1, <2>2 DEF Judged, Attached, mtaVars
<1>10. CASE MtaNegotiate \/ MtaMail \/ MtaHeader \/ MtaBody \/ MtaAbort \/ MtaOther
  <2>1. PICK c, arg : Send(c, arg)
    BY <1>10 DEF MtaNegotiate, MtaMail, MtaHeader, MtaBody, MtaAbort, MtaOther
  <2>2. outbox' = <<>> /\ pc' # "accept"
    BY <2>1 DEF Send, Sync, Idle
  <2> QED
    BY <2>2, SilentJudged
<1>11. CASE MtaOptions \/ MtaContinue \/ MtaAccept
  <2>1. PICK kind : Receiving(kind) /\ kind # "signature"
    BY <1>11 DEF MtaOptions, MtaContinue, MtaAccept
  <2>2. outbox' = <<>> /\ pc' # "accept"
    BY <2>1, ReceivingCases DEF Receiving
  <2> QED
    BY <2>2, SilentJudged
<1>12. CASE MtaSignature
  <2>1. /\ mtaOpen /\ outbox \in Seq(Replies) /\ outbox # <<>> /\ Len(outbox) \in Nat \ {0}
        /\ outbox[1].kind = "signature" /\ outbox' = Tail(outbox) /\ sig' = outbox[1].arg
    BY <1>12, ReceivingCases DEF MtaSignature, Receiving
  <2>2. sig' # None
    BY <1>12, <2>1, ReceivingTypes, NoneAssumption DEF MtaSignature
  <2>3. \A i \in 1..Len(outbox') : /\ i + 1 \in 1..Len(outbox) /\ i + 1 # 1
                                  /\ outbox'[i] = outbox[i + 1]
    BY <2>1
  <2> QED
    BY <2>1, <2>2, <2>3 DEF Judged, Attached, Offered
<1>13. CASE MtaGivesUp \/ MtaSeesClose
  BY <1>13 DEF MtaGivesUp, MtaSeesClose, Disconnect, Judged
<1> QED
  BY <1>1, <1>2, <1>3, <1>4, <1>5, <1>6, <1>7, <1>8, <1>9, <1>10, <1>11, <1>12, <1>13
  DEF Next, Worker, Mta, Terminated

(* Every step is a step of the service, or none *)
LEMMA StepOfService ==
    ASSUME TypeOK, Sync, Faithful, Judged, [Next]_vars
    PROVE  [Service!Next]_(Service!vars)
<1> USE DEF Service!vars
<1>1. CASE Worker \/ Expire \/ Terminated \/ UNCHANGED vars
  <2>1. UNCHANGED <<active, mtaVars>>
    BY <1>1 DEF Worker, Terminated, vars, Close, Read,
       HandleNegotiate, HandleMail, HandleHeader, HandleBody, HandleEndSigned, WriteAccept,
       HandleEndUnsigned, HandleAbort, HandleMacro, HandleNotify, HandleQuitOrRefuse,
       IoFailure, Expire
  <2> QED
    BY <2>1 DEF mtaVars
<1>2. CASE Reload
  BY <1>2 DEF Reload, mtaVars, Service!Next, Service!Reload
<1>3. ASSUME NEW c, NEW arg, Send(c, arg)
      PROVE  sig = None /\ UNCHANGED <<active, granted, sig>>
  BY <1>3 DEF Send, Sync, Idle
<1>4. CASE MtaNegotiate \/ MtaOther
  BY <1>3, <1>4 DEF MtaNegotiate, MtaOther
<1>5. CASE MtaMail
  BY <1>3, <1>5 DEF MtaMail, Service!Next, Service!Open, Opened, EmptyMessage,
     Service!Opened, Service!EmptyMessage
<1>6. CASE MtaHeader
  BY <1>3, <1>6 DEF MtaHeader, Service!Next, Service!AddHeader, Opened, WithHeader,
     Service!Opened, Service!WithHeader
<1>7. CASE MtaBody
  BY <1>3, <1>7 DEF MtaBody, Service!Next, Service!AddBody, WithBody, Service!WithBody
<1>8. CASE MtaAbort
  BY <1>3, <1>8 DEF MtaAbort, Service!Next, Service!Abandon, EmptyMessage,
     Service!EmptyMessage
<1>9. ASSUME NEW kind, Receiving(kind)
      PROVE  /\ mtaOpen /\ active' = active /\ 1 \in 1..Len(outbox) /\ outbox # <<>>
             /\ Head(outbox) = outbox[1] /\ outbox[1].kind = kind /\ outbox[1].to = awaiting
             /\ outbox[1] \in Replies
  BY <1>9, ReceivingCases, ReceivingTypes DEF Receiving
<1>10. CASE MtaOptions
  <2>1. Offered(outbox[1]) /\ Head(outbox) = outbox[1] /\ active' = active
    BY <1>9, <1>10 DEF MtaOptions, Judged
  <2>2. sig = None
    BY <1>9, <1>10 DEF MtaOptions, Sync, Replies
  <2> QED
    BY <1>10, <2>1, <2>2 DEF MtaOptions, Offered, Service!Next, Service!Negotiate,
       UsefulActions, Service!UsefulActions
<1>11. CASE MtaContinue
  BY <1>9, <1>11 DEF MtaContinue, Service!Next, Service!Acknowledge
<1>12. CASE MtaSignature
  <2> DEFINE g == outbox[1].arg
  <2>1. /\ sig' = g /\ sig = None /\ Covers(g, msg, granted, active)
        /\ UNCHANGED <<active, granted, msg, verdict>>
    BY <1>9, <1>12 DEF MtaSignature, Judged, Faithful
  <2>2. g \in Signatures
    BY <1>9, <1>12 DEF MtaSignature, Replies
  <2> HIDE DEF g
  <2>3. /\ g.kind \in {"insert", "append"} /\ g.config \in Window(msg, active)
        /\ g = [config |-> g.config, kind |-> g.kind, headers |-> msg.headers,
                body |-> msg.body]
    BY <2>1, <2>2 DEF Signatures, Covers
  <2>4. Service!Signable(g.config, msg)
    BY <2>1 DEF Covers, Acceptable, Eligible, Service!Signable, Service!Eligible
  <2>5. Service!Attach(g.config, g.kind)
    BY <2>1, <2>3, <2>4 DEF Covers, Service!Attach
  <2>6. g.config \in Service!Window(msg, active)
    BY <2>3 DEF Window, Service!Window
  <2> QED
    BY <2>3, <2>5, <2>6 DEF Service!Next
<1>13. CASE MtaAccept
  <2>1. /\ msg' = EmptyMessage /\ sig' = None /\ UNCHANGED <<active, granted>>
        /\ verdict' = IF sig = None THEN "unsigned" ELSE "signed"
    BY <1>9, <1>13 DEF MtaAccept
  <2>2. sig = None => Excused
    BY <1>9, <1>13 DEF MtaAccept, Judged, Attached
  <2>3. sig = None => \/ FALSE \in CryptoOutcomes
                      \/ \E v \in Service!Window(msg, active) : ~Service!Signable(v, msg)
    BY <2>2 DEF Excused, Excuse, Signable, Acceptable, Eligible, Window, Service!Window,
       Service!Signable, Service!Eligible
  <2>4. Service!Accept
    BY <2>1, <2>3 DEF Service!Accept, EmptyMessage, Service!EmptyMessage
  <2> QED
    BY <2>4 DEF Service!Next
<1>14. CASE MtaGivesUp \/ MtaSeesClose
  <2>1. Disconnect
    BY <1>14 DEF MtaGivesUp, MtaSeesClose
  <2>2. msg = EmptyMessage => sig = None
    BY DEF Faithful, Covers, EmptyMessage
  <2>3. CASE msg = EmptyMessage
    BY <2>1, <2>2, <2>3 DEF Disconnect
  <2>4. CASE msg # EmptyMessage
    BY <2>1, <2>4 DEF Disconnect, Service!Next, Service!Abandon, EmptyMessage,
       Service!EmptyMessage
  <2> QED
    BY <2>3, <2>4
<1> QED
  BY <1>1, <1>2, <1>4, <1>5, <1>6, <1>7, <1>8, <1>10, <1>11, <1>12, <1>13, <1>14
  DEF Next, Mta

(* THEOREM: the connection handler implements the abstract signing service, *)
(* for every MTA that opens a message before its body.  In particular a     *)
(* message that is signable under every configuration of its window is      *)
(* signed unless signing itself fails: no limit, refusal, abort or earlier  *)
(* message makes finish_message lose a signature silently.                  *)
THEOREM HandlerRefinesService ==
    ASSUME ~BodyFirst
    PROVE  Spec => ImplementsService
<1>1. Init => Service!Init
  BY DEF Init, Service!Init, EmptyMessage, Service!EmptyMessage
<1>2. Init => Judged
  BY InitJudged
<1>3. TypeOK /\ Sync /\ Faithful /\ Judged /\ [Next]_vars => Judged'
  BY NextJudged
<1>4. TypeOK /\ Sync /\ Faithful /\ Judged /\ [Next]_vars => [Service!Next]_(Service!vars)
  BY StepOfService
<1> QED
  BY <1>1, <1>2, <1>3, <1>4, FaithfulAlways, PTL DEF Spec, ImplementsService, Service!Spec
=============================================================================
