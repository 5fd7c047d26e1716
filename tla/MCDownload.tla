----------------------------- MODULE MCDownload -----------------------------
(* Constants for model-checking Download: an empty document, one that ends *)
(* within a block and one that ends with a block.                          *)
EXTENDS Download

Lengths == [v \in Version |-> IF v = "v1" THEN 5 ELSE IF v = "v2" THEN 4 ELSE 0]
=============================================================================
