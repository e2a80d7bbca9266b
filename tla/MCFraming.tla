----------------------------- MODULE MCFraming -----------------------------
(* Small instances of Framing for TLC *)
EXTENDS Framing

(* Lengths one and two in any order, so the buffer shrinks and grows *)
MCRequests == {<<1>>, <<0, 1>>}
MCReplies == {<<1>>, <<0, 1>>}

(* No answer, a status, a signature and then a status *)
MCAnswers == {<<>>, <<<<1>>>>, <<<<0, 1>>, <<1>>>>}
=============================================================================
