------------------------------ MODULE MCTlsTcp ------------------------------
(* Constants for model-checking TlsTcp: messages whose lengths and option  *)
(* numbers need every form of nibble, and one malformed frame for each     *)
(* reason to refuse one.                                                   *)
EXTENDS TlsTcp

Ips == [a \in Addr |-> [fam |-> "v4", net |-> a, iid |-> 0]]

Opt(n, v) == [number |-> n, value |-> v]

Messages ==
    { Msg(1, <<7>>, <<Opt(5, <<1>>), Opt(3, <<>>), Opt(3, <<1, 0>>)>>, <<>>),
      Msg(2, <<>>, <<Opt(7, <<>>)>>, <<1>>),
      Msg(69, <<>>, <<>>, <<1>>),
      Signal(PING, <<1>>), Signal(CSM, <<>>), Signal(RELEASE, <<>>) }

MalformedFrames ==
    { <<2>>,                              \* a token longer than MaxTokenLen
      <<64, 1, 0, 1, 0>>,                 \* a body longer than MaxFrameBody
      <<16, 1, 255>>,                     \* a marker without a payload
      <<16, 1, 1>>,                       \* an option longer than the frame
      <<16, 1, 64>>,                      \* the reserved nibble
      <<48, 1, 0, 1, 48, 1, 1, 48, 1, 1>> }  \* an option number out of range

(* The codec is right about the messages of the run. *)
ASSUME CodecAssumption == CodecSound
=============================================================================
