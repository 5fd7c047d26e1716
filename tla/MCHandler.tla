----------------------------- MODULE MCHandler -----------------------------
(* Constants for model-checking Handler. *)
EXTENDS Handler

(* Payloads of one byte. *)
Payloads == {<<b>> : b \in Byte}
=============================================================================
