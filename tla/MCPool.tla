------------------------------ MODULE MCPool -------------------------------
(* Small instances of ServePool for TLC *)
EXTENDS ServePool, TLC

(* Workers and clients are interchangeable in the safety run *)
Symmetry == Permutations(Workers) \cup Permutations(Clients)
=============================================================================
