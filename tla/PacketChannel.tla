--------------------------- MODULE PacketChannel ---------------------------
(***************************************************************************)
(* What the packet layer promises the connection handler: requests and     *)
(* answers cross the connection whole, in order and unaltered, or, once it *)
(* has ended, not at all.  inbox and outbox are those of MilterSession.    *)
(***************************************************************************)
EXTENDS Integers, Sequences

CONSTANTS
    Requests,  \* the packets the MTA may send
    Replies    \* the packets the daemon may answer with

VARIABLES
    inbox,   \* requests sent and not yet handled
    given,   \* requests the handler was given
    outbox,  \* answers given and not yet received
    open     \* the daemon still serves the connection

vars == <<inbox, given, outbox, open>>

Init == inbox = <<>> /\ given = <<>> /\ outbox = <<>> /\ open = TRUE

Send == /\ \E p \in Requests : inbox' = Append(inbox, p)
        /\ UNCHANGED <<given, outbox, open>>

Take == /\ open /\ inbox # <<>>
        /\ given' = Append(given, Head(inbox))
        /\ inbox' = Tail(inbox)
        /\ UNCHANGED <<outbox, open>>

Answer == /\ open
          /\ \E a \in Replies : outbox' = Append(outbox, a)
          /\ UNCHANGED <<inbox, given, open>>

(* A single read of the MTA may bring it several answers *)
Receive == /\ \E n \in 1..Len(outbox) : outbox' = SubSeq(outbox, n + 1, Len(outbox))
           /\ UNCHANGED <<inbox, given, open>>

End == /\ open /\ open' = FALSE
       /\ UNCHANGED <<inbox, given, outbox>>

Next == Send \/ Take \/ Answer \/ Receive \/ End

Spec == Init /\ [][Next]_vars
=============================================================================
