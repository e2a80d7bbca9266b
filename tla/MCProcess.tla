----------------------------- MODULE MCProcess -----------------------------
(* A small instance of DaemonProcess for TLC *)
EXTENDS DaemonProcess

MCTexts == {[parses |-> TRUE, keyFile |-> "f1", listen |-> "a", require_fips |-> FALSE]}
=============================================================================
