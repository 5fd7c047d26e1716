------------------------------ MODULE Exchange ------------------------------
(***************************************************************************)
(* The CoAP message layer of one DTLS connection (loft/src/dtls_common.rs): *)
(* process_datagram answers a repeated message from a cache of encoded     *)
(* responses, keyed by message id, bounded in age and number.  Around it,  *)
(* the demux channel, an RFC 7252 client that retransmits, and a network   *)
(* that loses, delays and reorders.  Time is a discrete clock.             *)
(*                                                                         *)
(* The connection's thread handles one datagram at a time; handling a      *)
(* request takes time, and what arrives meanwhile queues in the channel.   *)
(* A response is identified by the position of its execution in log.       *)
(***************************************************************************)
EXTENDS Naturals, Sequences, FiniteSets

CONSTANTS
    Req,           \* the requests the client will make, numbered in order
    NoReq,
    MidOf,         \* the message id the client gives each of them
    Con,           \* the confirmable ones
    Ttl, Cap,      \* DedupCache.ttl and .cap
    MidSpace,      \* message ids, 2^16
    FirstMid,      \* rand_u16 when the connection began
    ChannelDepth,  \* CONN_CHANNEL_DEPTH
    HandleTime,    \* how long one request may take to handle
    Span,          \* how long the client retransmits
    Latency,       \* how long a datagram may travel
    Lifetime,      \* how long the client does not use a message id again
    Window, Burst, \* the client starts at most Burst requests per Window
    MaxTime        \* bound on the clock

ASSUME ExchangeAssumption ==
    /\ Req \subseteq Nat
    /\ NoReq \notin Req
    /\ Con \subseteq Req
    /\ MidSpace \in Nat \ {0}
    /\ MidOf \in [Req -> 0 .. MidSpace - 1]
    /\ FirstMid \in 0 .. MidSpace - 1
    /\ Ttl \in Nat /\ Cap \in Nat /\ ChannelDepth \in Nat
    /\ HandleTime \in Nat /\ Span \in Nat /\ Latency \in Nat
    /\ Lifetime \in Nat /\ Window \in Nat /\ Burst \in Nat /\ MaxTime \in Nat

VARIABLES
    clock,
    sent,     \* client: when it first sent each request, Never before that
    waiting,  \* client: the requests it still retransmits
    wire,     \* datagrams on their way
    chan,     \* the connection's demux channel
    srv,      \* the connection's thread
    dedup,    \* DedupCache.entries: message id -> response, time
    nextMid,  \* next_mid
    log,      \* history: the executions, in order
    said      \* history: the last reply

vars == <<clock, sent, waiting, wire, chan, srv, dedup, nextMid, log, said>>

clientVars == <<sent, waiting, wire>>

Never == MaxTime + 1

Mid == 0 .. MidSpace - 1

(* The channel holds transmissions of requests and, as NoReq, strays: empty *)
(* messages, responses, anything undecodable.                               *)

Idle == [pc |-> "idle", req |-> NoReq, start |-> 0]

-----------------------------------------------------------------------------
(* The client and the network, as RFC 7252 has them *)

StartedRecently == {q \in Req : sent[q] <= clock /\ clock - sent[q] < Window}

SendRequest(r) ==
    /\ sent[r] = Never
    /\ \A q \in Req : q < r => sent[q] # Never
    /\ Cardinality(StartedRecently) < Burst
    /\ \A q \in Req : sent[q] <= clock /\ MidOf[q] = MidOf[r] => clock - sent[q] > Lifetime
    /\ sent' = [sent EXCEPT ![r] = clock]
    /\ waiting' = IF r \in Con THEN waiting \cup {r} ELSE waiting
    /\ wire' = wire \cup {[req |-> r, at |-> clock]}
    /\ UNCHANGED <<clock, chan, srv, dedup, nextMid, log, said>>

Retransmit(r) ==
    /\ r \in waiting
    /\ clock - sent[r] <= Span
    /\ wire' = wire \cup {[req |-> r, at |-> clock]}
    /\ UNCHANGED <<clock, sent, waiting, chan, srv, dedup, nextMid, log, said>>

(* A reply of the request's own arrives (the token tells), or the client   *)
(* gives up.                                                               *)
StopWaiting(r) ==
    /\ r \in waiting
    /\ \/ \E n \in DOMAIN log : log[n].req = r
       \/ clock - sent[r] > Span
    /\ waiting' = waiting \ {r}
    /\ UNCHANGED <<clock, sent, wire, chan, srv, dedup, nextMid, log, said>>

(* A datagram gets through; a full channel drops it.  One that does not    *)
(* get through stays on the wire until it is too old.                      *)
Deliver(d) ==
    /\ d \in wire
    /\ wire' = wire \ {d}
    /\ chan' = IF Len(chan) < ChannelDepth THEN Append(chan, d.req) ELSE chan
    /\ UNCHANGED <<clock, sent, waiting, srv, dedup, nextMid, log, said>>

DeliverStray ==
    /\ Len(chan) < ChannelDepth
    /\ chan' = Append(chan, NoReq)
    /\ UNCHANGED <<clock, clientVars, srv, dedup, nextMid, log, said>>

(* A thread with something to read reads it within the clock's unit, and   *)
(* the handler returns within HandleTime.                                  *)
Tick ==
    /\ clock < MaxTime
    /\ srv.pc = "idle" => chan = <<>>
    /\ srv.pc = "handling" => clock < srv.start + HandleTime
    /\ clock' = clock + 1
    /\ wire' = {d \in wire : clock' - d.at <= Latency}
    /\ UNCHANGED <<sent, waiting, chan, srv, dedup, nextMid, log, said>>

-----------------------------------------------------------------------------
(* process_datagram *)

Takes(r) == srv.pc = "idle" /\ chan # <<>> /\ r = Head(chan) /\ chan' = Tail(chan)

(* An empty CON is answered by a reset, everything else ignored. *)
TakeStray(r) ==
    /\ Takes(r)
    /\ r = NoReq
    /\ UNCHANGED <<clock, clientVars, srv, dedup, nextMid, log, said>>

(* What DedupCache::get retains. *)
Swept == [m \in {m \in DOMAIN dedup : clock - dedup[m].at < Ttl} |-> dedup[m]]

TakeDuplicate(r) ==
    /\ Takes(r)
    /\ r # NoReq
    /\ MidOf[r] \in DOMAIN Swept
    /\ dedup' = Swept
    /\ said' = [to |-> r, resp |-> Swept[MidOf[r]].resp]
    /\ UNCHANGED <<clock, clientVars, srv, nextMid, log>>

TakeRequest(r) ==
    /\ Takes(r)
    /\ r # NoReq
    /\ MidOf[r] \notin DOMAIN Swept
    /\ dedup' = Swept
    /\ srv' = [pc |-> "handling", req |-> r, start |-> clock]
    /\ UNCHANGED <<clock, clientVars, nextMid, log, said>>

\* Bug: the newest entry makes room.
EvictsNewest ==
    IF Cardinality(DOMAIN dedup) < Cap \/ DOMAIN dedup = {} THEN {{}}
    ELSE {{m} : m \in {m \in DOMAIN dedup :
                        \A k \in DOMAIN dedup : dedup[m].at >= dedup[k].at}}

(* DedupCache::insert: what it may evict, ties included. *)
Evicts ==
    IF Cardinality(DOMAIN dedup) < Cap \/ DOMAIN dedup = {} THEN {{}}
    ELSE {{m} : m \in {m \in DOMAIN dedup :
                        \A k \in DOMAIN dedup : dedup[m].at <= dedup[k].at}}

\* Bug: a full cache refuses to record.
InsertIfRoom(mid, n) ==
    dedup' = IF Cardinality(DOMAIN dedup) >= Cap THEN dedup
             ELSE [m \in DOMAIN dedup \cup {mid} |->
                     IF m = mid THEN [resp |-> n, at |-> clock] ELSE dedup[m]]

Insert(mid, n) ==
    \E out \in Evicts :
        dedup' = [m \in (DOMAIN dedup \ out) \cup {mid} |->
                    IF m = mid THEN [resp |-> n, at |-> clock] ELSE dedup[m]]

\* Bug: the counter does not wrap.
CountedMid == nextMid + 1

WrappedMid == (nextMid + 1) % MidSpace

(* The handler returns: the response is encoded, stored and sent. *)
Respond ==
    /\ srv.pc = "handling"
    /\ LET n == Len(log) + 1
       IN  /\ log' = Append(log, [req |-> srv.req, at |-> clock])
           /\ Insert(MidOf[srv.req], n)
           /\ said' = [to |-> srv.req, resp |-> n]
    /\ nextMid' = IF srv.req \in Con THEN nextMid ELSE WrappedMid
    /\ srv' = Idle
    /\ UNCHANGED <<clock, clientVars, chan>>

-----------------------------------------------------------------------------
Init ==
    /\ clock = 0
    /\ sent = [r \in Req |-> Never]
    /\ waiting = {}
    /\ wire = {}
    /\ chan = <<>>
    /\ srv = Idle
    /\ dedup = <<>>
    /\ nextMid = FirstMid
    /\ log = <<>>
    /\ said = [to |-> NoReq, resp |-> 0]

Client == \E r \in Req : SendRequest(r) \/ Retransmit(r) \/ StopWaiting(r)

Network == DeliverStray \/ \E d \in wire : Deliver(d)

Server ==
    \/ Respond
    \/ \E r \in Req \cup {NoReq} : TakeStray(r) \/ TakeDuplicate(r) \/ TakeRequest(r)

Next == Tick \/ Client \/ Network \/ Server

Spec == Init /\ [][Next]_vars

-----------------------------------------------------------------------------
(* Every variable stays in its type. *)
TypeOK ==
    /\ clock \in Nat
    /\ sent \in [Req -> Nat]
    /\ waiting \subseteq Con
    /\ wire \subseteq [req : Req, at : Nat]
    /\ chan \in Seq(Req \cup {NoReq})
    /\ srv \in [pc : {"idle", "handling"}, req : Req \cup {NoReq}, start : Nat]
    /\ DOMAIN dedup \subseteq Mid
    /\ \A m \in DOMAIN dedup : dedup[m] \in [resp : Nat, at : Nat]
    /\ nextMid \in Mid
    /\ log \in Seq([req : Req, at : Nat])
    /\ said \in [to : Req \cup {NoReq}, resp : Nat]

(* The executions whose responses were stored no earlier than that of n. *)
NoOlder(n) == {k \in DOMAIN log \ {n} : log[k].at >= log[n].at}

(* What the duplicate cache promises whatever clients and networks do: a   *)
(* message id is taken for new only if every response stored under it has  *)
(* outlived the TTL or Cap others have been stored no earlier.  A bounded  *)
(* cache forgets nothing else.                                             *)
ForgetsOnlyOldest ==
    srv.pc = "handling" =>
        \A n \in DOMAIN log : MidOf[log[n].req] = MidOf[srv.req] =>
            \/ srv.start - log[n].at >= Ttl
            \/ Cardinality(NoOlder(n)) >= Cap

(* With a client and a network that keep to their windows (see the run's   *)
(* constants) the connection is an at-most-once service, and every reply,  *)
(* repeated ones included, is the requester's own.                         *)
Once == INSTANCE AtMostOnce WITH
    runs <- [r \in Req |-> Cardinality({n \in DOMAIN log : log[n].req = r})],
    said <- IF said.resp = 0 THEN <<NoReq, NoReq>>
            ELSE <<said.to, log[said.resp].req>>

(* The windows: nothing of a request arrives later than Arrival after it   *)
(* was first sent, and nothing of it is read later than Reading.           *)
Arrival == Span + Latency
Reading == Arrival + ChannelDepth * HandleTime

(* A late copy is read while the response is fresh, a response has gone    *)
(* before its message id is used again, and the requests started around    *)
(* another fit the cache together with it.                                 *)
Timely ==
    /\ Reading < Ttl
    /\ Reading + HandleTime + Ttl <= Lifetime + 1
    /\ Arrival + Reading + HandleTime < Window /\ Burst <= Cap

(* Exchange implements AtMostOnce: no retransmission, however it is        *)
(* delayed, queued or overtaken, is executed again, and no reply is that   *)
(* of another request that had the same message id.                        *)
ServesAtMostOnce == Once!OnceSpec
=============================================================================
