---------------------------- MODULE MilterTypes ----------------------------
(***************************************************************************)
(* The vocabulary of the milter conversation between an MTA and dkim-lite: *)
(* what the MTA can send, what the daemon can answer, what a message and a *)
(* signature are.  The abstract service and the connection handler are     *)
(* both written with it.                                                   *)
(*                                                                         *)
(* Data is abstracted to what signing decisions tell apart.  A header      *)
(* packet is a record: which kind of name it carries, whether its framing  *)
(* and its name are acceptable, the domain its address names (for a From   *)
(* header) and its size.  A body chunk is a model value.  A configuration  *)
(* is its version, the number of reloads that preceded it.                 *)
(***************************************************************************)
EXTENDS Integers, Sequences, FiniteSets

CONSTANTS
    None,              \* the absent configuration, signature, command
    Domains,           \* signing domains and domains of author addresses
    MaxReloads,        \* bound on the reloads that are explored
    DomainOf,          \* the `domain` setting of each configuration version
    HeaderPackets,     \* the header packets an MTA may send
    BodyChunks,        \* the body chunks an MTA may send
    Offers,            \* the option negotiations an MTA may open with
    MAX_HEADERS,       \* milter.rs MAX_HEADERS
    MAX_HEADER_BYTES,  \* milter.rs MAX_HEADER_BYTES
    CryptoOutcomes     \* what clock and signer may do: TRUE is success

Versions == 0..MaxReloads

(* ACTION_ADD_HEADER and ACTION_CHANGE_HEADER, the permissions the daemon uses *)
UsefulActions == {"add", "change"}

(* SUPPORTED_NO_REPLY: the commands whose answer the MTA may waive *)
NoReplyCommands == {"C", "H", "M", "R", "T", "U", "L", "N", "B"}

(* Commands without an argument the model tells apart; "?" is any packet the *)
(* daemon refuses: an unknown command, a bad length, a malformed negotiation *)
PlainCommands == {"M", "E", "A", "Q", "K", "D", "C", "H", "R", "T", "N", "U", "?"}
Commands == PlainCommands \cup {"O", "L", "B"}

Headers == [name : {"from", "other"}, form : {"good", "unframed", "badname"},
            domain : Domains, size : Nat]

Packets == [cmd : PlainCommands, arg : {None}]
           \cup [cmd : {"O"}, arg : Offers]
           \cup [cmd : {"L"}, arg : HeaderPackets]
           \cup [cmd : {"B"}, arg : BodyChunks]

(* A DKIM signature: the configuration it was made under, what it covers,   *)
(* and whether it was inserted on top ('i') or appended ('h')               *)
Signatures == [config : Versions, kind : {"insert", "append"},
               headers : Seq(HeaderPackets), body : Seq(BodyChunks)]

(* A message as its sender knows it.  floor is the configuration in force   *)
(* when the message was opened, ceil the one in force when the sender first *)
(* learned that the daemon had opened it too.                               *)
Messages == [started : BOOLEAN, floor : Versions, ceil : Versions \cup {None},
             headers : Seq(HeaderPackets), bytes : Nat, body : Seq(BodyChunks)]

EmptyMessage == [started |-> FALSE, floor |-> 0, ceil |-> None,
                 headers |-> <<>>, bytes |-> 0, body |-> <<>>]

Opened(m, v) == [m EXCEPT !.started = TRUE, !.floor = v]
WithHeader(m, h) == [m EXCEPT !.headers = Append(@, h), !.bytes = @ + h.size]
WithBody(m, c) == [m EXCEPT !.body = Append(@, c)]

(* dkim::sign accepts the headers: exactly one From, of the signing domain  *)
Eligible(v, hs) ==
    \E i \in 1..Len(hs) :
        /\ hs[i].name = "from"
        /\ hs[i].domain = DomainOf[v]
        /\ \A j \in 1..Len(hs) : hs[j].name = "from" => j = i

(* The configurations that may sign a message whose verdict falls at `now` *)
Window(m, now) == m.floor .. (IF m.ceil = None THEN now ELSE m.ceil)

ASSUME TypesAssumption ==
    /\ MaxReloads \in Nat
    /\ DomainOf \in [Versions -> Domains]
    /\ HeaderPackets \subseteq Headers
    /\ Offers \subseteq [version : Nat, actions : SUBSET (UsefulActions \cup {"other"}),
                         protocol : SUBSET (NoReplyCommands \cup {"other"})]
    /\ MAX_HEADERS \in Nat
    /\ MAX_HEADER_BYTES \in Nat
    /\ CryptoOutcomes \subseteq BOOLEAN
    /\ None \notin Nat
    /\ None \notin Commands

(* the MTA can tell a signature from none *)
ASSUME NoneAssumption == None \notin Signatures
=============================================================================
