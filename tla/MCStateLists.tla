---------------------------- MODULE MCStateLists ----------------------------
(* Lists that differ by an insertion, a removal, an exchange with a change *)
(* (accepted as it is), a key taken twice, and an item that cannot be      *)
(* shown after one that is changed.                                        *)
EXTENDS StateLists

A == [key |-> 1, text |-> "a"]
A2 == [key |-> 1, text |-> "b"]
B == [key |-> 2, text |-> "a"]
BX == [key |-> 2, text |-> "x"]

MCLists == {<<>>, <<A>>, <<A, B>>, <<B, A2>>, <<A, A2>>, <<A2, BX>>}
MCUnwanted == {<<A>>, <<A2, BX>>}
MCCorrection == <<A, B>>
=============================================================================
