----------------------------- MODULE MCExchange -----------------------------
(* Constants for model-checking Exchange. *)
EXTENDS Exchange

(* Message ids are counted up and wrap. *)
Mids == [r \in Req |-> r % MidSpace]

(* The run's windows are those the refinement is proved for. *)
ASSUME WindowsAssumption == Timely
=============================================================================
