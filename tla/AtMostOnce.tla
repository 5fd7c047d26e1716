----------------------------- MODULE AtMostOnce -----------------------------
(***************************************************************************)
(* What the message layer promises a device: a request is executed at most *)
(* once, and every reply to it, the first and the repeated ones, is the    *)
(* reply that execution produced.                                          *)
(***************************************************************************)
EXTENDS Naturals

CONSTANTS Req, NoReq

VARIABLES
    runs,  \* how often each request was executed
    said   \* the last reply: the request it went to and the one it is of

onceVars == <<runs, said>>

OnceInit ==
    /\ runs = [r \in Req |-> 0]
    /\ said = <<NoReq, NoReq>>

Execute(r) ==
    /\ runs[r] = 0
    /\ runs' = [runs EXCEPT ![r] = 1]
    /\ said' = <<r, r>>

Repeat(r) ==
    /\ runs[r] = 1
    /\ said' = <<r, r>>
    /\ UNCHANGED runs

OnceNext == \E r \in Req : Execute(r) \/ Repeat(r)

OnceSpec == OnceInit /\ [][OnceNext]_onceVars
=============================================================================
