----------------------------- MODULE MCSynkNode -----------------------------
(***************************************************************************)
(* Instances of SynkNode for TLC.                                          *)
(***************************************************************************)
EXTENDS SynkNode, TLC

NoMoves == {}
AllMoves == {<<"a", "b">>, <<"b", "a">>}
HasA == {{"a"}}
HasB == {{"b"}}

(* Moves between a and b, and on from b to c.                              *)
MovesOn == {<<"a", "b">>, <<"b", "a">>, <<"b", "c">>}
HeldSets == {{"a"}, {"a", "b"}, {"b", "c"}}

Symmetry == Permutations(Objects) \cup Permutations(Clients)
=============================================================================
