--------------------------- MODULE MCMbedListener ---------------------------
(* Constants for model-checking MbedListener. *)
EXTENDS MbedListener, TLC

(* Every source is another interface identifier of one IPv6 /64, so all of *)
(* them share a quota bucket and are interchangeable.                      *)
SamePrefix == [a \in Addr |-> [fam |-> "v6", net |-> 1, iid |-> a]]

Symmetric == Permutations(Session) \cup Permutations(Cid) \cup Permutations(Addr)
=============================================================================
