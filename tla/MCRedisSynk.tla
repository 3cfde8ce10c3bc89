---------------------------- MODULE MCRedisSynk -----------------------------
(***************************************************************************)
(* Instances of RedisSynk for TLC.                                         *)
(***************************************************************************)
EXTENDS RedisSynk, TLC

AllMoves == {<<"a", "b">>, <<"b", "a">>}
NotPlaced == [o \in Objects |-> NoKey]

Symmetry == Permutations(Objects)
=============================================================================
