------------------------------- MODULE TlsTcp -------------------------------
(***************************************************************************)
(* The TLS/TCP listener (loft/src/tls_tcp.rs): a listener thread admits    *)
(* streams against a quota of its own and spawns a thread for each, which  *)
(* completes the TLS handshake within a deadline, sends its CSM and then   *)
(* answers the frames of the stream in order.                              *)
(*                                                                         *)
(* In the handshake time counts: one IO call of a thread ends, with bytes  *)
(* or with WouldBlock, within HandshakeTick, and the peer decides which;   *)
(* between two of them accept() calls the PSK callback once, which blocks  *)
(* in dovecote's lookup for up to LookupTimeout.  After the handshake the  *)
(* stream brings the peer's bytes in pieces of any size.                   *)
(* What the handler makes of a request is in other modules: here its       *)
(* answer carries the request's token, options and payload.                *)
(***************************************************************************)
EXTENDS Frames, ConnQuota

CONSTANTS
    Conn,           \* connection threads
    Deadline,       \* handshake_deadline
    HandshakeTick,  \* HANDSHAKE_TICK
    LookupTimeout,  \* of DovecotePskSource's agent
    ReadSize,       \* the size of serve_frames' buffer
    Message,        \* the messages peers send
    Malformed,      \* the byte sequences they send that are no frame
    MaxFrames,      \* bound on what is sent on the open connections
    NoAddr, NoMsg

ASSUME TcpAssumption ==
    /\ Deadline \in Nat \ {0} /\ HandshakeTick \in Nat \ {0}
    /\ LookupTimeout \in Nat \ {0} /\ ReadSize \in Nat \ {0}
    /\ NoAddr \notin Addr
    /\ IsFiniteSet(Conn)

(* Streams carry bytes. *)
ASSUME BytesAssumption ==
    /\ \A m \in Message : encode_frame(m) \in Seq(0 .. 255)
    /\ Malformed \subseteq Seq(0 .. 255)

VARIABLES
    phase,  \* where each connection's thread is
    peer,   \* its peer's address
    age,    \* how long its handshake has lasted
    wait,   \* how long its current IO call, or lookup, has lasted
    wire,   \* the bytes on their way to it
    buf,    \* FrameDecoder.buf
    reply,  \* the answer it has to write
    out,    \* the frames it wrote
    sent    \* history: what its peer sent, NoMsg for what is no frame

ioVars == <<wire, buf, reply, out, sent>>
vars == <<phase, peer, age, wait, ioVars, quotaVars>>

(* accept(): before the client's key exchange, in the PSK callback, after *)
InCall == {"handshake", "finish"}
Handshaking == {"handshake", "lookup", "finish"}
Established == {"greet", "read", "decode", "write", "closing"}

Goto(c, p) == phase' = [phase EXCEPT ![c] = p]

-----------------------------------------------------------------------------
(* run_inner: a refused stream is closed and leaves nothing behind *)

Accept(c, a) ==
    /\ phase[c] = "free"
    /\ TryAcquire(BucketAt(a))
    /\ Goto(c, "admitted")
    /\ peer' = [peer EXCEPT ![c] = a]
    /\ UNCHANGED <<age, wait, ioVars>>

(* The thread returns: its stream is closed, then its permit dropped. *)
End(c) ==
    /\ Goto(c, "free")
    /\ peer' = [peer EXCEPT ![c] = NoAddr]
    /\ age' = [age EXCEPT ![c] = 0] /\ wait' = [wait EXCEPT ![c] = 0]
    /\ wire' = [wire EXCEPT ![c] = <<>>] /\ buf' = [buf EXCEPT ![c] = <<>>]
    /\ reply' = [reply EXCEPT ![c] = NoMsg]
    /\ out' = [out EXCEPT ![c] = <<>>] /\ sent' = [sent EXCEPT ![c] = <<>>]
    /\ DropPermit(BucketAt(peer[c]))

\* Bug: the permit of a thread that could not be spawned is forgotten.
SpawnLeaks(c) ==
    /\ phase[c] = "admitted"
    /\ Goto(c, "free")
    /\ peer' = [peer EXCEPT ![c] = NoAddr]
    /\ UNCHANGED <<age, wait, ioVars, quotaVars>>

(* No thread, or no TLS session or timeouts for it. *)
SpawnFails(c) == phase[c] = "admitted" /\ End(c)

Spawned(c) ==
    /\ phase[c] = "admitted"
    /\ Goto(c, "handshake")
    /\ UNCHANGED <<peer, age, wait, ioVars, quotaVars>>

-----------------------------------------------------------------------------
(* connection_thread: the handshake *)

\* Bug: the stream's guard is never armed; quiet ticks alone are checked.
Unguarded(c) == FALSE

\* Bug: the deadline is counted from the last IO call.
ExpiredPerCall(c) == wait[c] >= Deadline

(* GuardedTcp::expired, asked before every read and write *)
Expired(c) == age[c] >= Deadline

(* accept() goes on with an IO call, unless the deadline has passed. *)
NextCall(c, p) ==
    IF Expired(c) THEN End(c)
    ELSE /\ Goto(c, p)
         /\ wait' = [wait EXCEPT ![c] = 0]
         /\ UNCHANGED <<peer, age, ioVars, quotaVars>>

(* Some bytes came, or went, and accept() needs more: it does not return. *)
HandshakeTrickles(c) == phase[c] \in InCall /\ NextCall(c, phase[c])

(* A tick without a byte: accept() returns WouldBlock to the loop. *)
HandshakeQuiet(c) ==
    /\ phase[c] \in InCall
    /\ wait[c] = HandshakeTick
    /\ IF age[c] > Deadline THEN End(c) ELSE NextCall(c, phase[c])

(* The bytes complete the client's key exchange: accept() calls            *)
(* psk_callback, which looks the identity up on this thread.  No socket    *)
(* timeout applies meanwhile, and nobody asks about the deadline.          *)
LookupBegins(c) ==
    /\ phase[c] = "handshake"
    /\ Goto(c, "lookup")
    /\ wait' = [wait EXCEPT ![c] = 0]
    /\ UNCHANGED <<peer, age, ioVars, quotaVars>>

(* From the cache at once, or from dovecote: the client's Finished, still  *)
(* to be read, tells whether the key was right.                            *)
LookupReturns(c) == phase[c] = "lookup" /\ NextCall(c, "finish")

(* An alert, a closed stream, a refused identity, or none authenticated. *)
HandshakeFails(c) == phase[c] \in Handshaking /\ End(c)

HandshakeCompletes(c) ==
    /\ phase[c] = "finish"
    /\ Goto(c, "greet")
    /\ age' = [age EXCEPT ![c] = 0] /\ wait' = [wait EXCEPT ![c] = 0]
    /\ UNCHANGED <<peer, ioVars, quotaVars>>

(* How long a thread is kept by an IO call, or by the lookup. *)
CallLimit(c) == IF phase[c] = "lookup" THEN LookupTimeout ELSE HandshakeTick

(* Ages are told apart up to what a handshake may last. *)
Older(c) ==
    IF phase[c] \in Handshaking /\ age[c] < Deadline + HandshakeTick + LookupTimeout
    THEN age[c] + 1 ELSE age[c]

TimePasses ==
    /\ \E c \in Conn : phase[c] \in Handshaking
    /\ age' = [c \in Conn |-> Older(c)]
    /\ wait' = [c \in Conn |-> IF phase[c] \in Handshaking THEN wait[c] + 1 ELSE wait[c]]
    /\ UNCHANGED <<phase, peer, ioVars, quotaVars>>

\* Bug: socket and agent have no timeouts, a call lasts until the other side acts.
TickUnlimited == TimePasses

(* Time passes; a call or a lookup that has lasted its time ends first. *)
Tick ==
    /\ \A c \in Conn : phase[c] \in Handshaking => wait[c] < CallLimit(c)
    /\ TimePasses

(* Our CSM goes first. *)
Greet(c) ==
    /\ phase[c] = "greet"
    /\ out' = [out EXCEPT ![c] = <<encode_frame(Signal(CSM, <<>>))>>]
    /\ Goto(c, "read")
    /\ UNCHANGED <<peer, age, wait, wire, buf, reply, sent, quotaVars>>

-----------------------------------------------------------------------------
(* serve_frames *)

\* Bug: a read replaces what was left of the one before.
Replaced(c, bytes) == bytes

(* FrameDecoder::extend *)
Extended(c, bytes) == buf[c] \o bytes

Read(c) ==
    /\ phase[c] = "read"
    /\ \E n \in 1 .. ReadSize :
         /\ n <= Len(wire[c])
         /\ buf' = [buf EXCEPT ![c] = Extended(c, SubSeq(wire[c], 1, n))]
         /\ wire' = [wire EXCEPT ![c] = SubSeq(@, n + 1, Len(@))]
    /\ Goto(c, "decode")
    /\ UNCHANGED <<peer, age, wait, reply, out, sent, quotaVars>>

(* The end of the stream, an error, or IDLE_TIMEOUT without a byte. *)
ReadEnds(c) == phase[c] = "read" /\ End(c)

(* The answer a message gets, if any. *)
ReplyTo(msg) ==
    IF msg.code = PING THEN Signal(PONG, msg.token)
    ELSE IF is_request(msg.code) THEN [msg EXCEPT !.code = 69]
    ELSE NoMsg

\* Bug: one frame is served for each read.
ReadAgain(c) == Goto(c, "read")

(* The inner loop goes on with what is left in the buffer. *)
DecodeAgain(c) == Goto(c, "decode")

(* next_frame, and what serve_frames does with it *)
NextFrame(c) ==
    LET r == try_decode_frame(buf[c]) IN
    /\ phase[c] = "decode"
    /\ \/ /\ r.kind = "more"
          /\ Goto(c, "read")
          /\ UNCHANGED <<buf, reply, out>>
       \/ /\ r.kind = "bad"
          /\ out' = [out EXCEPT ![c] = Append(@, encode_frame(Signal(ABORT, <<>>)))]
          /\ Goto(c, "closing")
          /\ UNCHANGED <<buf, reply>>
       \/ /\ r.kind = "frame"
          /\ buf' = [buf EXCEPT ![c] = SubSeq(@, r.consumed + 1, Len(@))]
          /\ reply' = [reply EXCEPT ![c] = ReplyTo(r.msg)]
          /\ IF r.msg.code \in {RELEASE, ABORT} THEN Goto(c, "closing")
             ELSE IF ReplyTo(r.msg) # NoMsg THEN Goto(c, "write") ELSE DecodeAgain(c)
          /\ UNCHANGED out
    /\ UNCHANGED <<peer, age, wait, wire, sent, quotaVars>>

(* write_all; it waits for as long as the peer does not read. *)
Write(c) ==
    /\ phase[c] = "write"
    /\ out' = [out EXCEPT ![c] = Append(@, encode_frame(reply[c]))]
    /\ reply' = [reply EXCEPT ![c] = NoMsg]
    /\ DecodeAgain(c)
    /\ UNCHANGED <<peer, age, wait, wire, buf, sent, quotaVars>>

WriteFails(c) == phase[c] \in {"greet", "write"} /\ End(c)

Leave(c) == phase[c] = "closing" /\ End(c)

-----------------------------------------------------------------------------
(* The peer *)

FramesSent == Cardinality({x \in Conn \X (1 .. MaxFrames) : x[2] <= Len(sent[x[1]])})

Send(c, what, bytes) ==
    /\ phase[c] \in Established
    /\ FramesSent < MaxFrames
    /\ sent' = [sent EXCEPT ![c] = Append(@, what)]
    /\ wire' = [wire EXCEPT ![c] = @ \o bytes]
    /\ UNCHANGED <<phase, peer, age, wait, buf, reply, out, quotaVars>>

PeerSends(c) ==
    \/ \E m \in Message : Send(c, m, encode_frame(m))
    \/ \E bytes \in Malformed : Send(c, NoMsg, bytes)

-----------------------------------------------------------------------------
Init ==
    /\ phase = [c \in Conn |-> "free"]
    /\ peer = [c \in Conn |-> NoAddr]
    /\ age = [c \in Conn |-> 0] /\ wait = [c \in Conn |-> 0]
    /\ wire = [c \in Conn |-> <<>>] /\ buf = [c \in Conn |-> <<>>]
    /\ reply = [c \in Conn |-> NoMsg]
    /\ out = [c \in Conn |-> <<>>] /\ sent = [c \in Conn |-> <<>>]
    /\ QuotaInit

Handshakes(c) ==
    \/ HandshakeTrickles(c) \/ HandshakeQuiet(c) \/ LookupBegins(c) \/ LookupReturns(c)
    \/ HandshakeFails(c) \/ HandshakeCompletes(c)
Serves(c) ==
    Greet(c) \/ Read(c) \/ ReadEnds(c) \/ NextFrame(c) \/ Write(c) \/ WriteFails(c) \/ Leave(c)

Next ==
    \/ Tick
    \/ \E c \in Conn :
         \/ \E a \in Addr : Accept(c, a)
         \/ SpawnFails(c) \/ Spawned(c) \/ Handshakes(c) \/ Serves(c) \/ PeerSends(c)

Spec == Init /\ [][Next]_vars

(* Time passes, a call that has lasted a tick returns, and so does a       *)
(* lookup.                                                                 *)
Fairness ==
    /\ WF_vars(Tick)
    /\ \A c \in Conn : WF_vars(HandshakeQuiet(c)) /\ WF_vars(LookupReturns(c))
LiveSpec == Spec /\ Fairness

-----------------------------------------------------------------------------
(* Every variable stays in its type. *)
TypeOK ==
    /\ phase \in [Conn -> {"free", "admitted"} \cup Handshaking \cup Established]
    /\ peer \in [Conn -> Addr \cup {NoAddr}]
    /\ age \in [Conn -> Nat] /\ wait \in [Conn -> Nat]
    /\ \A c \in Conn : wait[c] <= CallLimit(c)
    /\ \A c \in Conn : wire[c] \in Seq(0 .. 255) /\ buf[c] \in Seq(0 .. 255)
    /\ total \in Nat /\ perIp \in [Bucket -> Nat]

(* The quota counts exactly the connections there are, in all and for each *)
(* source, whichever way the others ended: no slot is lost to a failed     *)
(* spawn, a deadline or a closed session, and none is given twice.         *)
PermitsCounted ==
    /\ total = Cardinality({c \in Conn : phase[c] # "free"})
    /\ total <= MaxConnections
    /\ \A b \in Bucket :
         /\ perIp[b] = Cardinality({c \in Conn : phase[c] # "free" /\ BucketAt(peer[c]) = b})
         /\ perIp[b] <= MaxPerIp

(* However its peer paces its bytes, and however slow dovecote is: a       *)
(* handshake in an IO call is older than its deadline by less than a tick, *)
(* and the one lookup, begun just before that, adds no more than its       *)
(* timeout.                                                                *)
HandshakeBounded ==
    \A c \in Conn :
        /\ phase[c] \in InCall => age[c] < Deadline + HandshakeTick
        /\ phase[c] = "lookup" => age[c] < Deadline + HandshakeTick + LookupTimeout

(* A handshake ends: a connection that never authenticates does not keep   *)
(* its slot.                                                               *)
HandshakesEnd ==
    \A c \in Conn : phase[c] \in Handshaking ~> phase[c] \notin Handshaking

(* The message a connection ends with, or what is no frame. *)
Ends(m) == m = NoMsg \/ m.code \in {RELEASE, ABORT}
Reached(msgs, i) == \A j \in 1 .. i - 1 : ~Ends(msgs[j])

(* What the peer should see of its messages: our CSM, then an answer to    *)
(* each request and Ping before the first message that ends the            *)
(* connection, in order; then an Abort if that one was no frame.           *)
Answered(msgs, n) ==
    {i \in 1 .. n : Reached(msgs, i) /\ ~Ends(msgs[i]) /\ ReplyTo(msgs[i]) # NoMsg}
Broken(msgs) == \E i \in DOMAIN msgs : Reached(msgs, i) /\ msgs[i] = NoMsg
Expected(msgs) ==
    1 + Cardinality(Answered(msgs, Len(msgs))) + (IF Broken(msgs) THEN 1 ELSE 0)

(* Options as their receiver decodes them: those of each number in the     *)
(* order they had, the numbers ascending.                                  *)
InOrder(options) ==
    LET numbered(n) == SelectSeq(options, LAMBDA o : o.number = n)
    IN  FoldLeft(LAMBDA acc, n : acc \o numbered(n), <<>>, [n \in 1 .. MaxNumber |-> n])

Canonical(m) == [m EXCEPT !.options = InOrder(@)]

(* The bytes are one frame, that of the message. *)
Carries(bytes, m) ==
    try_decode_frame(bytes) = [kind |-> "frame", consumed |-> Len(bytes), msg |-> Canonical(m)]

(* The frames o written, and the answer r in hand when the thread is about *)
(* to write one, against what the peer sent.                               *)
InTurn(p, r, o, msgs) ==
    LET place(i) == 1 + Cardinality(Answered(msgs, i))
        due == Answered(msgs, Len(msgs))
    IN  /\ Len(o) <= Expected(msgs)
        /\ o # <<>> => Carries(o[1], Signal(CSM, <<>>))
        /\ \A i \in due : place(i) <= Len(o) => Carries(o[place(i)], ReplyTo(msgs[i]))
        /\ Len(o) > 1 + Cardinality(due) => Carries(o[Len(o)], Signal(ABORT, <<>>))
        /\ p = "write" => \E i \in due :
              place(i) = Len(o) + 1 /\ r = Canonical(ReplyTo(msgs[i]))

(* However the stream is cut into reads, the handler is given the peer's   *)
(* messages, and the frames written decode to the answers to them: token,  *)
(* options and payload intact, in the order they were sent.  What is no    *)
(* frame is answered by an Abort and nothing after it by anything.         *)
AnswersInOrder == \A c \in Conn : InTurn(phase[c], reply[c], out[c], sent[c])

(* A thread that waits for more bytes has answered every message that has  *)
(* arrived: none stays behind in the buffer until something follows it.    *)
NothingLeftBehind ==
    \A c \in Conn :
        phase[c] = "read" /\ wire[c] = <<>> => Len(out[c]) = Expected(sent[c])

(* What the peers send survives the codec, and so do the answers to it.    *)
CodecSound ==
    /\ NoMsg \notin Message
    /\ Carries(encode_frame(Signal(CSM, <<>>)), Signal(CSM, <<>>))
    /\ Carries(encode_frame(Signal(ABORT, <<>>)), Signal(ABORT, <<>>))
    /\ \A m \in Message :
          LET answer == ReplyTo(m) IN
          /\ Carries(encode_frame(m), m) /\ Canonical(m).code = m.code
          /\ ReplyTo(Canonical(m)) = NoMsg <=> answer = NoMsg
          /\ answer # NoMsg =>
                /\ ReplyTo(Canonical(m)) = Canonical(answer)
                /\ Carries(encode_frame(Canonical(answer)), answer)
    /\ \A bytes \in Malformed : try_decode_frame(bytes).kind = "bad"
=============================================================================
