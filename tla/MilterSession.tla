--------------------------- MODULE MilterSession ---------------------------
(***************************************************************************)
(* One milter connection: handle_connection_until on a worker thread, the  *)
(* MTA at the other end, the two directions of the socket between them,    *)
(* and the reloads that replace the active configuration meanwhile.        *)
(*                                                                         *)
(* A worker action is one turn of the loop: it takes a whole packet,       *)
(* handles it and writes the whole answer.  The deadline and socket errors *)
(* strike between actions; a failure inside one is indistinguishable, from *)
(* either end, from a failure before it (nothing complete was written) or  *)
(* after it (the answer was complete).  The exception is finish_message,   *)
(* which writes twice: it is two actions, with pc = "accept" in between.   *)
(*                                                                         *)
(* The Mta actions model the external party from the protocol the daemon   *)
(* speaks: one command at a time, except commands the daemon agreed not to *)
(* answer, which may be sent ahead.                                        *)
(***************************************************************************)
EXTENDS MilterTypes

CONSTANTS
    Repertoire,   \* the commands this MTA uses
    MaxInFlight,  \* bound on packets in the socket towards the daemon
    MaxHeaders,   \* bound on the header packets of a message
    MaxBody,      \* bound on the body chunks of a message
    BodyFirst     \* whether the MTA may send body before it opens a message

ASSUME SessionAssumption ==
    /\ Repertoire \subseteq Commands
    /\ MaxInFlight \in Nat \ {0}
    /\ MaxHeaders \in Nat
    /\ MaxBody \in Nat
    /\ BodyFirst \in BOOLEAN

VARIABLES
    active,    \* version of the configuration in the shared RwLock
    pc,        \* "read": in read_packet_into; "accept": signature written,
               \* 'a' still to write; "closed": handle_connection returned
    state,     \* the MessageState
    actions,   \* negotiated actions
    protocol,  \* commands the daemon agreed not to answer
    expired,   \* the connection's deadline has passed
    inbox,     \* packets the MTA sent and the daemon has not read
    outbox,    \* answers the daemon wrote and the MTA has not read
    mtaOpen,   \* the MTA's end of the socket is open
    awaiting,  \* the command the MTA awaits the answer to, or None
    noReply,   \* the MTA's copy of protocol
    granted,   \* the MTA's copy of actions
    msg,       \* the message the MTA is sending
    sig,       \* the signature received for it
    verdict    \* the fate of the last message

mtaVars == <<mtaOpen, awaiting, noReply, granted, msg, sig, verdict>>
vars == <<active, pc, state, actions, protocol, expired, inbox, outbox, mtaVars>>

MessageStates == [config : Versions \cup {None}, headers : Seq(HeaderPackets),
                  header_bytes : Nat, body : Seq(BodyChunks), error : BOOLEAN]

(* Answers name the command they answer: the MTA cannot see it, only count *)
Replies == [kind : {"options"}, to : {"O"},
            arg : [actions : SUBSET UsefulActions, protocol : SUBSET NoReplyCommands]]
           \cup [kind : {"continue"}, to : NoReplyCommands, arg : {None}]
           \cup [kind : {"signature"}, to : {"E"}, arg : Signatures]
           \cup [kind : {"accept"}, to : {"E"}, arg : {None}]

EmptyState == [config |-> None, headers |-> <<>>, header_bytes |-> 0,
               body |-> <<>>, error |-> FALSE]

Init == /\ active = 0
        /\ pc = "read" /\ state = EmptyState
        /\ actions = {} /\ protocol = {} /\ expired = FALSE
        /\ inbox = <<>> /\ outbox = <<>>
        /\ mtaOpen = TRUE /\ awaiting = None
        /\ noReply = {} /\ granted = {}
        /\ msg = EmptyMessage /\ sig = None /\ verdict = "none"

-----------------------------------------------------------------------------
(* The worker *)

(* MessageState::begin and MessageState::fail *)
Begin(s, v) == [EmptyState EXCEPT !.config = v]
Fail(s) == [s EXCEPT !.error = TRUE]

(* no_reply_flag: the negotiated flag that waives the answer to a command *)
NoReplyFlag(c) == {c} \cap NoReplyCommands

(* write_continue_if_needed *)
WriteContinue(c) ==
    outbox' = IF protocol \cap NoReplyFlag(c) = {}
              THEN Append(outbox, [kind |-> "continue", to |-> c, arg |-> None])
              ELSE outbox

(* MUTANT of ReceiveHeader: the limit on headers is off by one *)
ReceiveHeaderOneTooMany(s, h) ==
    LET counted == [s EXCEPT !.header_bytes = @ + h.size]
    IN  IF s.error THEN s
        ELSE IF \/ h.form # "good" \/ Len(s.headers) > MAX_HEADERS
                \/ counted.header_bytes > MAX_HEADER_BYTES THEN Fail(counted)
        ELSE [counted EXCEPT !.headers = Append(@, h)]

(* receive_header: framing is checked first, then the limits, then the name *)
ReceiveHeader(s, h) ==
    LET counted == [s EXCEPT !.header_bytes = @ + h.size]
    IN  IF s.error THEN s
        ELSE IF h.form = "unframed" THEN Fail(s)
        ELSE IF \/ Len(s.headers) >= MAX_HEADERS
                \/ counted.header_bytes > MAX_HEADER_BYTES
                \/ h.form = "badname" THEN Fail(counted)
        ELSE [counted EXCEPT !.headers = Append(@, h)]

(* MUTANT of MaySign: a recorded error does not prevent the signature *)
MaySignDespiteError == /\ state.config # None
                       /\ actions \cap UsefulActions # {}

(* finish_message up to dkim::sign: may a signature be attempted at all? *)
MaySign == /\ state.config # None
           /\ ~state.error
           /\ actions \cap UsefulActions # {}

(* MUTANT of SignWith: the configuration is looked up again at end of message *)
SignWithCurrent(v) == [config |-> active,
                       kind |-> IF "change" \in actions THEN "insert" ELSE "append",
                       headers |-> state.headers, body |-> state.body]

(* dkim::sign under the message's own configuration *)
SignWith(v) == [config |-> v,
                kind |-> IF "change" \in actions THEN "insert" ELSE "append",
                headers |-> state.headers, body |-> state.body]

Reading(c) == /\ pc = "read" /\ ~expired
              /\ inbox # <<>>
              /\ Head(inbox).cmd = c

Read(c) == /\ Reading(c)
           /\ inbox' = Tail(inbox)
           /\ UNCHANGED <<active, expired, mtaVars>>

(* MUTANT of HandleNegotiate: an old peer is told what it offered while the *)
(* daemon itself keeps answering everything                                 *)
NegotiateEchoesOffer ==
    /\ Read("O")
    /\ LET offer == Head(inbox).arg
       IN  /\ actions' = offer.actions \cap UsefulActions
           /\ protocol' = IF offer.version >= 6
                          THEN offer.protocol \cap NoReplyCommands ELSE {}
           /\ outbox' = Append(outbox, [kind |-> "options", to |-> "O",
                  arg |-> [actions |-> actions',
                           protocol |-> offer.protocol \cap NoReplyCommands]])
    /\ UNCHANGED <<pc, state>>

HandleNegotiate ==
    /\ Read("O")
    /\ LET offer == Head(inbox).arg
       IN  /\ actions' = offer.actions \cap UsefulActions
           /\ protocol' = IF offer.version >= 6
                          THEN offer.protocol \cap NoReplyCommands ELSE {}
    /\ outbox' = Append(outbox, [kind |-> "options", to |-> "O",
                                 arg |-> [actions |-> actions', protocol |-> protocol']])
    /\ UNCHANGED <<pc, state>>

HandleMail ==
    /\ Read("M")
    /\ state' = Begin(state, active)
    /\ WriteContinue("M")
    /\ UNCHANGED <<pc, actions, protocol>>

HandleHeader ==
    /\ Read("L")
    /\ state' = ReceiveHeader(IF state.config = None THEN Begin(state, active) ELSE state,
                              Head(inbox).arg)
    /\ WriteContinue("L")
    /\ UNCHANGED <<pc, actions, protocol>>

HandleBody ==
    /\ Read("B")
    /\ state' = IF state.config = None THEN Fail(state)
                ELSE IF state.error THEN state
                ELSE [state EXCEPT !.body = Append(@, Head(inbox).arg)]
    /\ WriteContinue("B")
    /\ UNCHANGED <<pc, actions, protocol>>

(* finish_message when dkim::sign succeeds: the signature is written ... *)
HandleEndSigned ==
    /\ Read("E")
    /\ MaySign /\ TRUE \in CryptoOutcomes /\ Eligible(state.config, state.headers)
    /\ outbox' = Append(outbox, [kind |-> "signature", to |-> "E",
                                 arg |-> SignWith(state.config)])
    /\ pc' = "accept"
    /\ UNCHANGED <<state, actions, protocol>>

(* ... and then the acceptance *)
WriteAccept ==
    /\ pc = "accept" /\ ~expired
    /\ outbox' = Append(outbox, [kind |-> "accept", to |-> "E", arg |-> None])
    /\ state' = EmptyState
    /\ pc' = "read"
    /\ UNCHANGED <<active, expired, actions, protocol, inbox, mtaVars>>

(* MUTANT of HandleEndUnsigned: an unsignable message is not accepted *)
EndUnsignedSilently ==
    /\ Read("E")
    /\ (MaySign /\ Eligible(state.config, state.headers)) => FALSE \in CryptoOutcomes
    /\ state' = EmptyState
    /\ UNCHANGED <<pc, actions, protocol, outbox>>

(* finish_message on every path that does not sign *)
HandleEndUnsigned ==
    /\ Read("E")
    /\ (MaySign /\ Eligible(state.config, state.headers)) => FALSE \in CryptoOutcomes
    /\ outbox' = Append(outbox, [kind |-> "accept", to |-> "E", arg |-> None])
    /\ state' = EmptyState
    /\ UNCHANGED <<pc, actions, protocol>>

(* MUTANT of HandleAbort: the aborted message stays in the MessageState *)
AbortKeepsMessage ==
    /\ Read("A")
    /\ UNCHANGED <<pc, state, actions, protocol, outbox>>

HandleAbort ==
    /\ Read("A")
    /\ state' = EmptyState
    /\ UNCHANGED <<pc, actions, protocol, outbox>>

HandleMacro ==
    /\ Read("D")
    /\ UNCHANGED <<pc, state, actions, protocol, outbox>>

HandleNotify ==
    \E c \in {"C", "H", "R", "T", "N", "U"} :
        /\ Read(c)
        /\ WriteContinue(c)
        /\ UNCHANGED <<pc, state, actions, protocol>>

(* Every way out of the loop drops the connection and the message state *)
Close == /\ pc' = "closed"
         /\ state' = EmptyState
         /\ UNCHANGED <<active, expired, actions, protocol, outbox, mtaVars>>

HandleQuitOrRefuse ==
    \E c \in {"Q", "K", "?"} :
        /\ Reading(c)
        /\ inbox' = Tail(inbox)
        /\ Close

(* DeadlineConnection refuses every read and write after the deadline; a   *)
(* peer that is gone ends the read loop or fails the write, though packets *)
(* it sent before it left may still be read and handled                    *)
IoFailure ==
    /\ pc # "closed"
    /\ expired \/ ~mtaOpen
    /\ UNCHANGED inbox
    /\ Close

Expire == /\ pc # "closed" /\ ~expired
          /\ expired' = TRUE
          /\ UNCHANGED <<active, pc, state, actions, protocol, inbox, outbox, mtaVars>>

Worker == \/ HandleNegotiate \/ HandleMail \/ HandleHeader \/ HandleBody
          \/ HandleEndSigned \/ WriteAccept \/ HandleEndUnsigned
          \/ HandleAbort \/ HandleMacro \/ HandleNotify
          \/ HandleQuitOrRefuse \/ IoFailure

-----------------------------------------------------------------------------
(* The reload monitor, as seen from a connection *)

Reload == /\ active < MaxReloads
          /\ active' = active + 1
          /\ UNCHANGED <<pc, state, actions, protocol, expired, inbox, outbox, mtaVars>>

-----------------------------------------------------------------------------
(* The MTA *)

(* A packet sent to a connection the daemon has closed is lost; MtaSeesClose *)
(* is what the MTA then observes.                                            *)
Send(c, arg) ==
    /\ mtaOpen /\ awaiting = None /\ pc # "closed"
    /\ c \in Repertoire
    /\ Len(inbox) < MaxInFlight
    /\ inbox' = Append(inbox, [cmd |-> c, arg |-> arg])
    /\ awaiting' = IF c \in noReply \cup {"A", "D", "Q", "K"} THEN None ELSE c
    /\ UNCHANGED <<active, pc, state, actions, protocol, expired, outbox,
                   mtaOpen, noReply, granted, sig>>

MtaNegotiate == /\ \E o \in Offers : Send("O", o)
                /\ UNCHANGED <<msg, verdict>>

MtaMail == /\ Send("M", None)
           /\ msg' = Opened(EmptyMessage, active)
           /\ verdict' = "none"

MtaHeader == /\ Len(msg.headers) < MaxHeaders
             /\ \E h \in HeaderPackets :
                  /\ Send("L", h)
                  /\ msg' = WithHeader(IF msg.started THEN msg ELSE Opened(msg, active), h)
             /\ verdict' = "none"

MtaBody == /\ BodyFirst \/ msg.started
           /\ Len(msg.body) < MaxBody
           /\ \E c \in BodyChunks : Send("B", c) /\ msg' = WithBody(msg, c)
           /\ verdict' = "none"

MtaAbort == /\ Send("A", None)
            /\ msg' = EmptyMessage
            /\ verdict' = "none"

MtaOther == /\ \E c \in PlainCommands \ {"M", "A"} : Send(c, None)
            /\ UNCHANGED <<msg, verdict>>

Receiving(kind) == /\ mtaOpen
                   /\ outbox # <<>>
                   /\ Head(outbox).kind = kind
                   /\ outbox' = Tail(outbox)
                   /\ UNCHANGED <<active, pc, state, actions, protocol, expired, inbox, mtaOpen>>

MtaOptions == /\ Receiving("options")
              /\ granted' = Head(outbox).arg.actions
              /\ noReply' = Head(outbox).arg.protocol
              /\ awaiting' = None
              /\ UNCHANGED <<msg, sig, verdict>>

MtaContinue == /\ Receiving("continue")
               /\ awaiting' = None
               /\ msg' = IF msg.started /\ msg.ceil = None
                         THEN [msg EXCEPT !.ceil = active] ELSE msg
               /\ UNCHANGED <<noReply, granted, sig, verdict>>

MtaSignature == /\ Receiving("signature")
                /\ sig' = Head(outbox).arg
                /\ UNCHANGED <<awaiting, noReply, granted, msg, verdict>>

MtaAccept == /\ Receiving("accept")
             /\ awaiting' = None
             /\ verdict' = IF sig = None THEN "unsigned" ELSE "signed"
             /\ msg' = EmptyMessage /\ sig' = None
             /\ UNCHANGED <<noReply, granted>>

(* The MTA gives up, or reads the end of the stream the daemon closed: the *)
(* message in progress gets the MTA's default action                       *)
Disconnect == /\ mtaOpen' = FALSE
              /\ awaiting' = None
              /\ verdict' = IF msg = EmptyMessage THEN verdict ELSE "default"
              /\ msg' = EmptyMessage /\ sig' = None
              /\ UNCHANGED <<active, pc, state, actions, protocol, expired, inbox,
                             noReply, granted>>

MtaGivesUp == /\ mtaOpen
              /\ outbox' = <<>>
              /\ Disconnect

MtaSeesClose == /\ mtaOpen /\ pc = "closed" /\ outbox = <<>>
                /\ UNCHANGED outbox
                /\ Disconnect

Mta == \/ MtaNegotiate \/ MtaMail \/ MtaHeader \/ MtaBody \/ MtaAbort \/ MtaOther
       \/ MtaOptions \/ MtaContinue \/ MtaSignature \/ MtaAccept
       \/ MtaGivesUp \/ MtaSeesClose

(* Both ends are done *)
Terminated == pc = "closed" /\ ~mtaOpen /\ UNCHANGED vars

Next == Worker \/ Expire \/ Reload \/ Mta \/ Terminated

Spec == Init /\ [][Next]_vars

(* The worker thread is scheduled, and an MTA that waits for an answer      *)
(* reads it, or the end of the stream.  The deadline may pass or not: an    *)
(* answer must not depend on it.                                            *)
ReadsAnswers == MtaOptions \/ MtaContinue \/ MtaSignature \/ MtaAccept \/ MtaSeesClose

FairSpec == Spec /\ WF_vars(Worker) /\ WF_vars(ReadsAnswers)

-----------------------------------------------------------------------------
(* Properties *)

(* Type invariant: among the rest, no worker ever retains more headers or   *)
(* header bytes than the limits of receive_header, and the socket bounds.   *)
TypeOK ==
    /\ active \in Versions
    /\ pc \in {"read", "accept", "closed"}
    /\ state \in MessageStates
    /\ Len(state.headers) <= MAX_HEADERS
    /\ ~state.error => state.header_bytes <= MAX_HEADER_BYTES
    /\ actions \in SUBSET UsefulActions
    /\ protocol \in SUBSET NoReplyCommands
    /\ expired \in BOOLEAN
    /\ inbox \in Seq(Packets) /\ Len(inbox) <= MaxInFlight
    /\ outbox \in Seq(Replies)
    /\ mtaOpen \in BOOLEAN
    /\ awaiting \in Commands \cup {None}
    /\ noReply \in SUBSET NoReplyCommands
    /\ granted \in SUBSET UsefulActions
    /\ msg \in Messages
    /\ sig \in Signatures \cup {None}
    /\ verdict \in {"none", "signed", "unsigned", "default"}

(* The daemon answers exactly what the MTA waits for: an answer in the      *)
(* socket belongs to the awaited command, at most one concludes it, none is *)
(* there when nothing is awaited.  One answer too many or too few, after    *)
(* any negotiation, shifts every later answer by one command.               *)
ReplyDiscipline ==
    mtaOpen =>
        /\ awaiting = None => outbox = <<>> /\ sig = None
        /\ \A i \in 1..Len(outbox) :
              /\ outbox[i].to = awaiting
              /\ outbox[i].kind # "signature" => i = Len(outbox)

(* A signature the MTA holds covers the message it sent, all of it and      *)
(* nothing else, whatever was sent, aborted or refused on the connection    *)
(* before; it was delivered with a permission the MTA granted.              *)
SignatureCoversMessage ==
    sig # None =>
        /\ sig.headers = msg.headers
        /\ sig.body = msg.body
        /\ (IF sig.kind = "insert" THEN "change" ELSE "add") \in granted

(* A message is signed under a configuration that was in force when it      *)
(* began: not older than the one at its opening, not newer than the one at  *)
(* the moment the MTA knew it was open, whatever is reloaded after that.    *)
ConfigWindow == sig # None => sig.config \in Window(msg, active)

(* The daemon implements the abstract signing service: in particular it     *)
(* leaves unsigned only what that service may.                              *)
Service == INSTANCE SigningService
ImplementsService == Service!Spec

(* Whatever an MTA asks is answered, or its connection is seen to end, even *)
(* when the deadline never comes: no MTA waits for a command the daemon     *)
(* thinks needs no answer, or for the verdict of a message it cannot sign.  *)
EveryCommandAnswered == awaiting # None ~> awaiting = None
=============================================================================
