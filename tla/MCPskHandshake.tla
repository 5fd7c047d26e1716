--------------------------- MODULE MCPskHandshake ---------------------------
(* Constants for model-checking PskHandshake. *)
EXTENDS PskHandshake, TLC

Threads == Permutations(Thread)
=============================================================================
