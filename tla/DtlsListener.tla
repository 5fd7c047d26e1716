---------------------------- MODULE DtlsListener ----------------------------
(***************************************************************************)
(* The OpenSSL CoAP/DTLS listener (loft/src/dtls.rs): one listener thread  *)
(* demultiplexes a socket by source address into connection threads;       *)
(* unknown sources pass the stateless cookie exchange of DTLSv1_listen on  *)
(* one shared pending stream, stamped with the source of each datagram.    *)
(* It charges the ConnQuota it shares with the mbedTLS listener.           *)
(*                                                                         *)
(* A step is one critical section (map, quota) or one channel operation    *)
(* with the thread-local work around it.  What OpenSSL makes of a datagram *)
(* is a choice among what the code handles, so a channel is its length.    *)
(* DTLSv1_listen empties the pending stream's channel on every call.       *)
(***************************************************************************)
EXTENDS ConnQuota

CONSTANTS
    Conn,          \* connection threads
    ChannelDepth,  \* CONN_CHANNEL_DEPTH
    OtherConn,     \* connections of the other UDP listener
    NoConn, NoAddr, NoBucket

ASSUME DtlsAssumption ==
    /\ NoConn \notin Conn
    /\ NoAddr \notin Addr
    /\ NoBucket \notin Bucket
    /\ ChannelDepth \in Nat \ {0}
    /\ IsFiniteSet(Conn)
    /\ IsFiniteSet(OtherConn)

VARIABLES
    lpc,      \* where listen_loop is with the current datagram
    cur,      \* that datagram
    pending,  \* a pending stream is built
    stamp,    \* the source stamped on the stream built or taken last
    conns,    \* ConnMap
    phase,    \* where each connection's thread is
    peer,     \* the address it was promoted for
    replyTo,  \* DgramIo.peer, where its datagrams go
    queued,   \* how many datagrams wait in its channel
    expired,  \* its handshake, or later its idle, deadline has passed
    cookies,  \* history: the sources that were sent a cookie of theirs
    others    \* the bucket each connection of the other listener holds

listenerVars == <<lpc, cur, pending, stamp, cookies>>
connVars == <<phase, peer, replyTo, queued, expired>>
vars == <<listenerVars, conns, connVars, quotaVars, others>>

(* A thread: handshake -> serving -> closing (connection_thread returned   *)
(* and dropped its receiver) -> leaving -> free.                           *)
Running == {"handshake", "serving"}

(* What demultiplexing and the cookie exchange tell apart: a ClientHello,  *)
(* with a cookie sealed for some address or none, and anything else.       *)
Dgram == [src : Addr \cup {NoAddr}, hello : BOOLEAN, cookie : Addr \cup {NoAddr}]

(* A cookie is presented by whoever got it, from any address: its holder   *)
(* may have moved in between.                                              *)
Arrivals ==
    {[src |-> a, hello |-> FALSE, cookie |-> NoAddr] : a \in Addr}
    \cup {[src |-> a, hello |-> TRUE, cookie |-> k] : a \in Addr, k \in cookies \cup {NoAddr}}

NoDgram == [src |-> NoAddr, hello |-> FALSE, cookie |-> NoAddr]

HasSender(c) == conns[peer[c]] = c

HoldsPermit(c) == phase[c] # "free"

-----------------------------------------------------------------------------
(* listen_loop, the demultiplexer's critical section *)

\* Bug: a datagram that does not fit is taken for a dead connection.
RouteOrReplace(d, c) ==
    /\ phase[c] \in Running
    /\ IF queued[c] < ChannelDepth
       THEN queued' = [queued EXCEPT ![c] = @ + 1] /\ UNCHANGED <<lpc, cur, conns>>
       ELSE /\ conns' = [conns EXCEPT ![d.src] = NoConn]
            /\ cur' = d
            /\ lpc' = "probe"
            /\ UNCHANGED queued

\* Bug: the channel has no bound.
RouteUnbounded(d, c) ==
    /\ phase[c] \in Running
    /\ queued' = [queued EXCEPT ![c] = @ + 1]
    /\ UNCHANGED <<lpc, cur, conns>>

(* try_send to a live receiver: a full channel drops. *)
RouteToConn(d, c) ==
    /\ phase[c] \in Running
    /\ queued' = IF queued[c] < ChannelDepth THEN [queued EXCEPT ![c] = @ + 1] ELSE queued
    /\ UNCHANGED <<lpc, cur, conns>>

(* No entry, or one whose thread has dropped its receiver. *)
RouteToCookie(d) ==
    /\ conns[d.src] \notin {c \in Conn : phase[c] \in Running}
    /\ conns' = [conns EXCEPT ![d.src] = NoConn]
    /\ cur' = d
    /\ lpc' = "probe"
    /\ UNCHANGED queued

Receive(d) ==
    /\ lpc = "recv"
    /\ \/ conns[d.src] # NoConn /\ RouteToConn(d, conns[d.src])
       \/ RouteToCookie(d)
    /\ UNCHANGED <<pending, stamp, cookies, phase, peer, replyTo, expired, quotaVars, others>>

Probe ==
    /\ lpc = "probe"
    /\ lpc' = IF IsFull THEN "recv" ELSE "listen"
    /\ UNCHANGED <<cur, pending, stamp, cookies, conns, connVars, quotaVars, others>>

PendingFails ==
    /\ lpc = "listen"
    /\ ~pending
    /\ lpc' = "recv"
    /\ UNCHANGED <<cur, pending, stamp, cookies, conns, connVars, quotaVars, others>>

\* Bug: only a new pending stream is stamped.
StampNewOnly == stamp' = IF pending THEN stamp ELSE cur.src

StampPending == stamp' = cur.src

(* The cookie is an HMAC over the stamped source: it verifies if it was    *)
(* sealed for that source.                                                 *)
CookieVerifies == cur.hello /\ cur.cookie = stamp'

GenerateCookie == cookies' = IF cur.hello THEN cookies \cup {stamp'} ELSE cookies

(* DTLSv1_listen: a ClientHello without a cookie of the stamped source is  *)
(* answered with one, anything else is dropped.                            *)
ListenRetry ==
    /\ lpc = "listen"
    /\ StampPending
    /\ ~CookieVerifies
    /\ GenerateCookie
    /\ pending' = TRUE
    /\ lpc' = "recv"
    /\ UNCHANGED <<cur, conns, connVars, quotaVars, others>>

ListenError ==
    /\ lpc = "listen"
    /\ StampPending
    /\ pending' = FALSE
    /\ lpc' = "recv"
    /\ UNCHANGED <<cur, cookies, conns, connVars, quotaVars, others>>

ListenAccepted ==
    /\ lpc = "listen"
    /\ StampPending
    /\ CookieVerifies
    /\ pending' = FALSE
    /\ lpc' = "acquire"
    /\ UNCHANGED <<cur, cookies, conns, connVars, quotaVars, others>>

Acquire ==
    /\ lpc = "acquire"
    /\ \/ TryAcquire(BucketAt(cur.src)) /\ lpc' = "promote"
       \/ RefuseAcquire(BucketAt(cur.src)) /\ lpc' = "recv"
    /\ UNCHANGED <<cur, pending, stamp, cookies, conns, connVars, others>>

(* promote_connection holds the map's lock from the insert to the spawn.   *)
(* An identifier is new: no thread and no entry left behind has it.        *)
Promote(c) ==
    /\ lpc = "promote"
    /\ phase[c] = "free"
    /\ \A a \in Addr : conns[a] # c
    /\ conns' = [conns EXCEPT ![cur.src] = c]
    /\ phase' = [phase EXCEPT ![c] = "handshake"]
    /\ peer' = [peer EXCEPT ![c] = cur.src]
    /\ replyTo' = [replyTo EXCEPT ![c] = stamp]
    /\ lpc' = "recv"
    /\ UNCHANGED <<cur, pending, stamp, cookies, queued, expired, quotaVars, others>>

\* Bug: the permit is forgotten rather than dropped.
SpawnLeaks ==
    /\ lpc = "promote"
    /\ conns' = [conns EXCEPT ![cur.src] = NoConn]
    /\ lpc' = "recv"
    /\ UNCHANGED <<cur, pending, stamp, cookies, connVars, quotaVars, others>>

(* The failed spawn drops the closure, and with it the permit. *)
SpawnFails ==
    /\ lpc = "promote"
    /\ conns' = [conns EXCEPT ![cur.src] = NoConn]
    /\ DropPermit(BucketAt(cur.src))
    /\ lpc' = "recv"
    /\ UNCHANGED <<cur, pending, stamp, cookies, connVars, others>>

-----------------------------------------------------------------------------
(* connection_thread *)

DropStream(c) ==
    /\ queued' = [queued EXCEPT ![c] = 0]
    /\ expired' = [expired EXCEPT ![c] = FALSE]

Close(c) ==
    /\ phase' = [phase EXCEPT ![c] = "closing"]
    /\ DropStream(c)

ThreadOnly == UNCHANGED <<listenerVars, conns, peer, replyTo, quotaVars, others>>

\* Bug: the deadline is looked at on quiet ticks only.
AcceptReadsLate(c) ==
    /\ phase[c] = "handshake"
    /\ queued[c] > 0
    /\ queued' = [queued EXCEPT ![c] = @ - 1]
    /\ phase' \in {phase, [phase EXCEPT ![c] = "serving"]}
    /\ expired' = [expired EXCEPT ![c] = @ /\ phase'[c] = "handshake"]
    /\ ThreadOnly

(* accept() reads a datagram and the handshake goes on or is complete.     *)
AcceptReads(c) ==
    /\ phase[c] = "handshake"
    /\ ~expired[c]
    /\ queued[c] > 0
    /\ queued' = [queued EXCEPT ![c] = @ - 1]
    /\ phase' \in {phase, [phase EXCEPT ![c] = "serving"]}
    /\ UNCHANGED expired
    /\ ThreadOnly

(* set_mtu, a failed handshake, an I/O error, no authenticated identity. *)
AcceptFails(c) ==
    /\ phase[c] = "handshake"
    /\ Close(c)
    /\ ThreadOnly

(* Past the deadline DgramIo::read delivers nothing any more, and a quiet  *)
(* tick ends the loop as well.                                             *)
AcceptExpires(c) ==
    /\ phase[c] = "handshake"
    /\ expired[c]
    /\ Close(c)
    /\ ThreadOnly

(* ssl_read: a record is handled and counts as activity, noise does not;   *)
(* a close_notify, a fatal error or a reply that cannot be sent ends it.   *)
ServeReads(c) ==
    /\ phase[c] = "serving"
    /\ queued[c] > 0
    /\ \/ /\ queued' = [queued EXCEPT ![c] = @ - 1]
          /\ expired' \in {expired, [expired EXCEPT ![c] = FALSE]}
          /\ UNCHANGED phase
       \/ Close(c)
    /\ ThreadOnly

ServeIdles(c) ==
    /\ phase[c] = "serving"
    /\ expired[c]
    /\ queued[c] = 0
    /\ Close(c)
    /\ ThreadOnly

\* Bug: a closed channel looks like a quiet tick.
TicksOn(c) ==
    /\ phase[c] = "serving"
    /\ queued[c] = 0 /\ ~HasSender(c)
    /\ expired[c]
    /\ Close(c)
    /\ ThreadOnly

(* The channel is closed and drained: the stream reads end of file. *)
HangUp(c) ==
    /\ phase[c] \in Running
    /\ queued[c] = 0 /\ ~HasSender(c)
    /\ Close(c)
    /\ ThreadOnly

(* A panic unwinds past the removal: the entry stays, with a dead channel, *)
(* until its source is heard from again.                                   *)
Panics(c) ==
    /\ phase[c] \in Running
    /\ phase' = [phase EXCEPT ![c] = "leaving"]
    /\ DropStream(c)
    /\ ThreadOnly

(* The removal is by address, whichever connection's entry it is. *)
Unmap(c) ==
    /\ phase[c] = "closing"
    /\ phase' = [phase EXCEPT ![c] = "leaving"]
    /\ conns' = [conns EXCEPT ![peer[c]] = NoConn]
    /\ UNCHANGED <<listenerVars, peer, replyTo, queued, expired, quotaVars, others>>

Finish(c) ==
    /\ phase[c] = "leaving"
    /\ DropPermit(BucketAt(peer[c]))
    /\ phase' = [phase EXCEPT ![c] = "free"]
    /\ peer' = [peer EXCEPT ![c] = NoAddr]
    /\ replyTo' = [replyTo EXCEPT ![c] = NoAddr]
    /\ UNCHANGED <<listenerVars, conns, queued, expired, others>>

TimePasses(c) ==
    /\ phase[c] \in Running
    /\ ~expired[c]
    /\ expired' = [expired EXCEPT ![c] = TRUE]
    /\ UNCHANGED <<listenerVars, conns, phase, peer, replyTo, queued, quotaVars, others>>

-----------------------------------------------------------------------------
(* The other listener on the same quota *)

OtherAcquires(o, b) ==
    /\ others[o] = NoBucket
    /\ TryAcquire(b)
    /\ others' = [others EXCEPT ![o] = b]
    /\ UNCHANGED <<listenerVars, conns, connVars>>

OtherReleases(o) ==
    /\ others[o] # NoBucket
    /\ DropPermit(others[o])
    /\ others' = [others EXCEPT ![o] = NoBucket]
    /\ UNCHANGED <<listenerVars, conns, connVars>>

-----------------------------------------------------------------------------
Init ==
    /\ lpc = "recv"
    /\ cur = NoDgram
    /\ pending = FALSE
    /\ stamp = NoAddr
    /\ conns = [a \in Addr |-> NoConn]
    /\ phase = [c \in Conn |-> "free"]
    /\ peer = [c \in Conn |-> NoAddr]
    /\ replyTo = [c \in Conn |-> NoAddr]
    /\ queued = [c \in Conn |-> 0]
    /\ expired = [c \in Conn |-> FALSE]
    /\ cookies = {}
    /\ QuotaInit
    /\ others = [o \in OtherConn |-> NoBucket]

Listener ==
    \/ \E d \in Arrivals : Receive(d)
    \/ Probe \/ PendingFails \/ ListenRetry \/ ListenError \/ ListenAccepted
    \/ Acquire \/ SpawnFails
    \/ \E c \in Conn : Promote(c)

(* What a thread does by itself, time and failures apart. *)
ThreadSteps(c) ==
    AcceptReads(c) \/ AcceptExpires(c) \/ ServeReads(c) \/ HangUp(c) \/ Unmap(c) \/ Finish(c)

Thread(c) == ThreadSteps(c) \/ AcceptFails(c) \/ ServeIdles(c) \/ Panics(c) \/ TimePasses(c)

Other ==
    \E o \in OtherConn : OtherReleases(o) \/ \E b \in Bucket : OtherAcquires(o, b)

Next == Listener \/ Other \/ \E c \in Conn : Thread(c)

Spec == Init /\ [][Next]_vars

(* Threads are scheduled and the handshake deadline passes; nothing is     *)
(* assumed of peers, the network or how long a connection stays in use.    *)
Fairness ==
    \A c \in Conn : /\ WF_vars(ThreadSteps(c))
                    /\ WF_vars(phase[c] = "handshake" /\ TimePasses(c))

LiveSpec == Spec /\ Fairness

-----------------------------------------------------------------------------
(* Every variable stays in its type; the quota's counters never go below   *)
(* zero.                                                                   *)
TypeOK ==
    /\ lpc \in {"recv", "probe", "listen", "acquire", "promote"}
    /\ cur \in Dgram
    /\ pending \in BOOLEAN
    /\ stamp \in Addr \cup {NoAddr}
    /\ conns \in [Addr -> Conn \cup {NoConn}]
    /\ phase \in [Conn -> Running \cup {"free", "closing", "leaving"}]
    /\ peer \in [Conn -> Addr \cup {NoAddr}]
    /\ replyTo \in [Conn -> Addr \cup {NoAddr}]
    /\ queued \in [Conn -> 0 .. ChannelDepth]
    /\ expired \in [Conn -> BOOLEAN]
    /\ cookies \subseteq Addr
    /\ total \in Nat
    /\ perIp \in [Bucket -> Nat]
    /\ ipKeys \subseteq Bucket
    /\ others \in [OtherConn -> Bucket \cup {NoBucket}]

(* Who holds permits: threads, the other listener, and the listener itself *)
(* between admission and spawn.                                            *)
Holders == {c \in Conn : HoldsPermit(c)}
HoldersOf(b) == {c \in Holders : BucketAt(peer[c]) = b}
OtherHolders == {o \in OtherConn : others[o] # NoBucket}
OthersOf(b) == {o \in OtherConn : others[o] = b}
InHand == IF lpc = "promote" THEN 1 ELSE 0
InHandOf(b) == IF lpc = "promote" /\ BucketAt(cur.src) = b THEN 1 ELSE 0

(* The shared quota counts exactly the permits in existence, within both   *)
(* caps, whatever path a connection takes out and whoever else charges it  *)
(* between the probe and the admission.                                    *)
PermitsCounted ==
    /\ total = Cardinality(Holders) + Cardinality(OtherHolders) + InHand
    /\ total <= MaxConnections
    /\ \A b \in Bucket :
         /\ perIp[b] = Cardinality(HoldersOf(b)) + Cardinality(OthersOf(b)) + InHandOf(b)
         /\ perIp[b] <= MaxPerIp
    /\ ipKeys = {b \in Bucket : perIp[b] > 0}

(* A connection exists, and replies, only for an address that was sent a   *)
(* cookie of its own and returned it, although every unknown source's      *)
(* datagrams go through one shared stream.                                 *)
CookieBound ==
    \A c \in Conn : phase[c] # "free" => peer[c] \in cookies /\ replyTo[c] = peer[c]

(* The one way a running connection loses its entry is the late removal by *)
(* an earlier connection of the same address: a full channel, a refused or *)
(* failed promotion and other addresses' traffic never cut it off.         *)
SlotLost ==
    [][\A c \in Conn :
        (phase[c] \in Running /\ HasSender(c) /\ phase'[c] \in Running /\ ~HasSender(c)')
        => \E e \in Conn \ {c} : peer[e] = peer[c] /\ phase[e] = "closing"
                                 /\ phase'[e] = "leaving"]_vars

(* A connection that lost its entry that way notices: its thread and its   *)
(* permit come back.                                                       *)
CutOffEnds ==
    \A c \in Conn : (phase[c] \in Running /\ ~HasSender(c)) ~> phase[c] = "free"

(* No handshake outlives its deadline, also against a peer that never lets *)
(* the stream go quiet.                                                    *)
AcceptEnds ==
    \A c \in Conn : phase[c] = "handshake" ~> phase[c] # "handshake"
=============================================================================
