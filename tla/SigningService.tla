-------------------------- MODULE SigningService ---------------------------
(***************************************************************************)
(* What dkim-lite promises one MTA connection, without packets, buffers or *)
(* worker state: a message is opened, given headers and body, and judged.  *)
(* A signature covers exactly the message that was sent, is made under one *)
(* configuration of the message's window and is delivered with a           *)
(* permission the MTA granted; a message is left unsigned only when it is  *)
(* not signable under some configuration of that window, or signing failed.*)
(***************************************************************************)
EXTENDS MilterTypes

VARIABLES
    active,   \* version of the configuration in force
    granted,  \* permissions in effect on the connection
    msg,      \* the message being submitted
    sig,      \* the signature the daemon attached to it, or None
    verdict   \* fate of the last message: "none" while one is open

vars == <<active, granted, msg, sig, verdict>>

Verdicts == {"none", "signed", "unsigned", "default"}

Signable(v, m) ==
    /\ m.started
    /\ \A i \in 1..Len(m.headers) : m.headers[i].form = "good"
    /\ Len(m.headers) <= MAX_HEADERS
    /\ m.bytes <= MAX_HEADER_BYTES
    /\ Eligible(v, m.headers)
    /\ granted # {}

Init == /\ active = 0
        /\ granted = {}
        /\ msg = EmptyMessage
        /\ sig = None
        /\ verdict = "none"

Reload == /\ active < MaxReloads
          /\ active' = active + 1
          /\ UNCHANGED <<granted, msg, sig, verdict>>

Negotiate == /\ sig = None
             /\ \E o \in Offers : granted' = o.actions \cap UsefulActions
             /\ UNCHANGED <<active, msg, sig, verdict>>

(* The sender builds the message; a new MAIL abandons an unfinished one *)
Open == /\ sig = None
        /\ msg' = Opened(EmptyMessage, active)
        /\ verdict' = "none"
        /\ UNCHANGED <<active, granted, sig>>

AddHeader == /\ sig = None
             /\ \E h \in HeaderPackets :
                  msg' = WithHeader(IF msg.started THEN msg ELSE Opened(msg, active), h)
             /\ verdict' = "none"
             /\ UNCHANGED <<active, granted, sig>>

AddBody == /\ sig = None
           /\ \E c \in BodyChunks : msg' = WithBody(msg, c)
           /\ verdict' = "none"
           /\ UNCHANGED <<active, granted, sig>>

Acknowledge == /\ msg.started /\ msg.ceil = None
               /\ msg' = [msg EXCEPT !.ceil = active]
               /\ UNCHANGED <<active, granted, sig, verdict>>

Attach(v, kind) ==
    /\ sig = None
    /\ TRUE \in CryptoOutcomes
    /\ Signable(v, msg)
    /\ (IF kind = "insert" THEN "change" ELSE "add") \in granted
    /\ sig' = [config |-> v, kind |-> kind, headers |-> msg.headers, body |-> msg.body]
    /\ UNCHANGED <<active, granted, msg, verdict>>

Accept == /\ \/ sig # None /\ verdict' = "signed"
             \/ /\ sig = None
                /\ \/ FALSE \in CryptoOutcomes
                   \/ \E v \in Window(msg, active) : ~Signable(v, msg)
                /\ verdict' = "unsigned"
          /\ msg' = EmptyMessage /\ sig' = None
          /\ UNCHANGED <<active, granted>>

(* The sender aborts the message, or the connection ends before a verdict:  *)
(* a signature without the acceptance that follows it is not applied.       *)
Abandon == /\ verdict' \in {"none", "default"}
           /\ msg' = EmptyMessage /\ sig' = None
           /\ UNCHANGED <<active, granted>>

Next == \/ Reload \/ Negotiate \/ Open \/ AddHeader \/ AddBody \/ Acknowledge
        \/ \E v \in Window(msg, active), kind \in {"insert", "append"} : Attach(v, kind)
        \/ Accept \/ Abandon

Spec == Init /\ [][Next]_vars
=============================================================================
