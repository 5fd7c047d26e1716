---------------------------- MODULE MCSupervisor ----------------------------
(* Constants for model-checking Supervisor: good and bad values of each    *)
(* setting in turn, and a canary on a port of its own, on the primary's    *)
(* port, or none.                                                          *)
EXTENDS Supervisor

Good == [file |-> "none", secret |-> "secret", stack |-> "unset", canary |-> <<"unset", 0>>,
         deadline |-> Unset, block |-> Unset, addr |-> <<"v4", 5684>>]

Envs ==
    {[Good EXCEPT !.canary = c, !.addr = a, !.stack = s] :
        c \in {<<"unset", 0>>, <<"blank", 0>>, <<"v4", 5684>>, <<"v6", 5685>>},
        a \in {<<"v4", 5684>>, <<"v6", 5684>>}, s \in {"unset", "mbedtls"}}
    \cup {[Good EXCEPT !.file = f, !.secret = s] :
            f \in {"none", "unreadable", "blank", "secret"}, s \in {"unset", "blank", "secret"}}
    \cup {[Good EXCEPT !.deadline = d, !.block = b] : d \in {0, 1, 300, 301}, b \in {16, 100, 1024}}
    \cup {[Good EXCEPT !.stack = "other"]}

Foreigns == {{}, {<<"udp", "v4", 5684>>}, {<<"tcp", "v4", 5684>>}}
=============================================================================
