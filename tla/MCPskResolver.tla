--------------------------- MODULE MCPskResolver ---------------------------
(* Constants for model-checking PskResolver. *)
EXTENDS PskResolver, TLC

Threads == Permutations(Thread)
=============================================================================
