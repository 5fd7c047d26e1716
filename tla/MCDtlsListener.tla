--------------------------- MODULE MCDtlsListener ---------------------------
(* Constants for model-checking DtlsListener. *)
EXTENDS DtlsListener

(* Every source is a host, and a bucket, of its own. *)
OwnHost == [a \in Addr |-> [fam |-> "v4", net |-> a, iid |-> 0]]
=============================================================================
