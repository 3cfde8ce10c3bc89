------------------------- MODULE MCClientLifecycle --------------------------
(***************************************************************************)
(* Instances of ClientLifecycle for TLC.                                   *)
(***************************************************************************)
EXTENDS ClientLifecycle, TLC

Symmetry == Permutations(Clients)
=============================================================================
