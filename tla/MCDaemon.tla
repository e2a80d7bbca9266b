------------------------------ MODULE MCDaemon -----------------------------
(* Small instances of Daemon for TLC *)
EXTENDS Daemon

Text(keyFile, listen, fips) ==
    [parses |-> TRUE, keyFile |-> keyFile, listen |-> listen, require_fips |-> fips]

(* Two acceptable texts with keys of their own, one that moves the listener, *)
(* one that needs FIPS, one that does not parse                              *)
MCTexts == {Text("f1", "a", FALSE), Text("f2", "a", FALSE), Text("f2", "b", FALSE),
            Text("f1", "a", TRUE), [Text("f1", "a", FALSE) EXCEPT !.parses = FALSE]}
=============================================================================
