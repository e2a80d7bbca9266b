----------------------------- MODULE MCSigning -----------------------------
(* A small instance of Signing for TLC *)
EXTENDS Signing

MCSigned == <<"from", "to", "cc">>

Field(name, value) == [name |-> name, value |-> value]

(* Two spellings of one From and a strange one, To in two versions, one Cc, *)
(* and a field that is never signed                                         *)
MCHeaders == {Field("from", <<"a">>), Field("from", <<SP, "a", CR, LF, TAB>>),
              Field("from", <<"b">>), Field("to", <<"a">>), Field("to", <<"b">>),
              Field("cc", <<"a">>), Field("received", <<"a">>)}
MCOwn == {<<"a">>, <<SP, "a", CR, LF, TAB>>}
=============================================================================
