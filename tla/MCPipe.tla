------------------------------- MODULE MCPipe -------------------------------
(***************************************************************************)
(* Pipe and the objects, for TLC: an object and a copy of it.              *)
(***************************************************************************)
EXTENDS Pipe

CONSTANTS s1, s2, x, y, zero, other
=============================================================================
