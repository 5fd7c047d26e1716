------------------------------- MODULE Frames -------------------------------
(***************************************************************************)
(* The CoAP message format over TCP: the options and payload               *)
(* (loft/src/coap/message.rs) in a length-prefixed frame                   *)
(* (loft/src/coap/tcp.rs).  A byte is a number, and the layout is the      *)
(* code's; the number a nibble can hold itself, the radix of the extension *)
(* bytes and the limits are parameters: 13, 256, 8 bytes of token, 256 KiB *)
(* of body and option numbers up to 65535 in the code.                     *)
(***************************************************************************)
EXTENDS Integers, SequencesExt

CONSTANTS
    Direct,       \* the smallest length a nibble cannot hold
    Radix,        \* of the extension bytes
    MaxTokenLen,  \* MAX_TOKEN_LEN
    MaxFrameBody, \* MAX_FRAME_BODY
    MaxNumber     \* u16::MAX, the largest option number

ASSUME FramesAssumption ==
    /\ Direct \in 1 .. 13 /\ Radix \in Nat \ {0, 1}
    /\ MaxTokenLen \in 0 .. 15 /\ MaxFrameBody \in Nat /\ MaxNumber \in Nat

Marker == 255    \* 0xFF, before the payload

Msg(code, token, options, payload) ==
    [code |-> code, token |-> token, options |-> options, payload |-> payload]

CSM == 225
PING == 226
PONG == 227
RELEASE == 228
ABORT == 229
Signal(code, token) == Msg(code, token, <<>>, <<>>)
is_request(code) == code \in 1 .. 31

-----------------------------------------------------------------------------
(* Numbers: a nibble, and the bytes of its extension *)

ExtBytes(nibble) ==
    IF nibble < Direct THEN 0
    ELSE IF nibble = Direct THEN 1 ELSE IF nibble = Direct + 1 THEN 2 ELSE 4

ExtBase(nibble) ==
    IF nibble <= Direct THEN nibble
    ELSE IF nibble = Direct + 1 THEN Direct + Radix ELSE Direct + Radix + Radix * Radix

(* Big-endian, of no byte, one, two or four *)
FromBytes(digits) ==
    LET pair(i) == digits[i] * Radix + digits[i + 1] IN
    IF Len(digits) <= 1 THEN IF digits = <<>> THEN 0 ELSE digits[1]
    ELSE IF Len(digits) = 2 THEN pair(1) ELSE pair(1) * Radix * Radix + pair(3)

ToBytes(value, n) == [i \in 1 .. n |-> (value \div Radix^(n - i)) % Radix]

(* The forms of a frame's length *)
LengthNibble(value) ==
    CASE value < Direct -> value
      [] value >= Direct /\ value < Direct + Radix -> Direct
      [] value >= Direct + Radix /\ value < Direct + Radix + Radix * Radix -> Direct + 1
      [] OTHER -> Direct + 2

(* nibble_ext: an option's delta or length has at most two bytes more, and *)
(* is cut to them.                                                         *)
OptionNibble(value) ==
    IF value < Direct THEN value
    ELSE IF value < Direct + Radix THEN Direct ELSE Direct + 1

Extension(nibble, value) == ToBytes(value - ExtBase(nibble), ExtBytes(nibble))

(* The number that starts with this nibble and goes on at buf[i]. *)
Number(nibble, buf, i) ==
    ExtBase(nibble) + FromBytes(SubSeq(buf, i, i + ExtBytes(nibble) - 1))

-----------------------------------------------------------------------------
(* Options and payload *)

(* sort_by_key is stable: options of one number keep their order. *)
Sorted(opts) ==
    LET rank(i) == Cardinality({j \in DOMAIN opts :
                      \/ opts[j].number < opts[i].number
                      \/ opts[j].number = opts[i].number /\ j <= i})
    IN  [r \in DOMAIN opts |-> opts[CHOOSE i \in DOMAIN opts : rank(i) = r]]

encode_options_and_payload(msg) ==
    LET opts == Sorted(msg.options)
        delta(i) == opts[i].number - (IF i = 1 THEN 0 ELSE opts[i - 1].number)
        option(i) == LET len == Len(opts[i].value)
                         d == OptionNibble(delta(i))
                         l == OptionNibble(len)
                     IN  <<d * 16 + l>> \o Extension(d, delta(i)) \o Extension(l, len)
                         \o opts[i].value
    IN  FoldLeft(LAMBDA acc, o : acc \o o, <<>>, [i \in DOMAIN opts |-> option(i)])
        \o (IF msg.payload = <<>> THEN <<>> ELSE <<Marker>> \o msg.payload)

(* read_nibble_ext at buf[i]; 15 stands for the payload marker only. *)
read_nibble_ext(nibble, buf, i) ==
    IF nibble > Direct + 1 \/ i + ExtBytes(nibble) - 1 > Len(buf)
    THEN [ok |-> FALSE, value |-> 0, next |-> i]
    ELSE [ok |-> TRUE, value |-> Number(nibble, buf, i), next |-> i + ExtBytes(nibble)]

Refused == [ok |-> FALSE, options |-> <<>>, payload |-> <<>>]

AddDelta(number, delta) == number + delta

(* decode_options_and_payload, from buf[i] with the number reached so far *)
DecodeOptions(buf) ==
    LET dec[i \in 1 .. Len(buf) + 1, number \in 0 .. MaxNumber] ==
          IF i > Len(buf) THEN [ok |-> TRUE, options |-> <<>>, payload |-> <<>>]
          ELSE IF buf[i] = Marker
          THEN IF i = Len(buf) THEN Refused
               ELSE [ok |-> TRUE, options |-> <<>>, payload |-> SubSeq(buf, i + 1, Len(buf))]
          ELSE LET delta == read_nibble_ext(buf[i] \div 16, buf, i + 1)
                   len == read_nibble_ext(buf[i] % 16, buf, delta.next)
                   last == len.next + len.value - 1
                   num == AddDelta(number, delta.value)
               IN  IF ~delta.ok \/ ~len.ok \/ last > Len(buf) \/ num > MaxNumber THEN Refused
                   ELSE LET rest == dec[last + 1, num] IN
                        [rest EXCEPT !.options =
                           <<[number |-> num, value |-> SubSeq(buf, len.next, last)]>> \o @]
    IN  dec[1, 0]

-----------------------------------------------------------------------------
(* Frames *)

(* A token is cut to the length a frame can carry. *)
encode_frame(msg) ==
    LET body == encode_options_and_payload(msg)
        tkl == IF Len(msg.token) < MaxTokenLen THEN Len(msg.token) ELSE MaxTokenLen
        nibble == LengthNibble(Len(body))
    IN  <<nibble * 16 + tkl>> \o Extension(nibble, Len(body))
        \o <<msg.code>> \o SubSeq(msg.token, 1, tkl) \o body

NeedsMore == [kind |-> "more"]
BadFrame == [kind |-> "bad"]

(* The frame at the head of the buffer, when it is all there. *)
try_decode_frame(buf) ==
    LET nibble == buf[1] \div 16
        tkl == buf[1] % 16
        ext == ExtBytes(nibble)
        body_len == Number(nibble, buf, 2)
        total == 2 + ext + tkl + body_len
        body == DecodeOptions(SubSeq(buf, 3 + ext + tkl, total))
    IN  IF buf = <<>> THEN NeedsMore
        ELSE IF tkl > MaxTokenLen THEN BadFrame
        ELSE IF Len(buf) < 1 + ext THEN NeedsMore
        ELSE IF body_len > MaxFrameBody THEN BadFrame
        ELSE IF Len(buf) < total THEN NeedsMore
        ELSE IF ~body.ok THEN BadFrame
        ELSE [kind |-> "frame", consumed |-> total,
              msg |-> Msg(buf[2 + ext], SubSeq(buf, 3 + ext, 2 + ext + tkl),
                          body.options, body.payload)]
=============================================================================
