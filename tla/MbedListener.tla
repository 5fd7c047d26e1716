---------------------------- MODULE MbedListener ----------------------------
(***************************************************************************)
(* The mbedTLS CoAP/DTLS listener with RFC 9146 Connection IDs             *)
(* (loft/src/dtls_mbed.rs over mbedtls-ffi-shim): one listener thread      *)
(* demultiplexes a socket into per-session channels through two maps,      *)
(* by_addr and by_cid, behind one mutex; unknown sources pass a stateless  *)
(* cookie exchange on a single pending session; each promoted session runs *)
(* on its own thread and cleans up after itself.                           *)
(*                                                                         *)
(* A step is one critical section (maps, quota, cookie flag) or one        *)
(* channel operation together with the thread-local work around it.  A     *)
(* session identifier stands for its conn_id; an identifier is used again  *)
(* only after its session has left the program.                            *)
(***************************************************************************)
EXTENDS ConnQuota, Sequences

CONSTANTS
    Session,       \* conn_ids
    Cid,           \* Connection IDs mint_cid can draw
    ChannelDepth,  \* CONN_CHANNEL_DEPTH
    OtherConn,     \* connections of the other UDP listener
    PortReuse,     \* mbedTLS is built with DTLS client port reuse
    NoSession, NoCid, NoAddr, NoBucket

ASSUME MbedAssumption ==
    /\ NoSession \notin Session
    /\ NoCid \notin Cid
    /\ NoAddr \notin Addr
    /\ ChannelDepth \in Nat \ {0}
    /\ NoBucket \notin Bucket
    /\ PortReuse \in BOOLEAN
    /\ IsFiniteSet(Session)
    /\ IsFiniteSet(OtherConn)

VARIABLES
    lpc,            \* where listen_loop is with the current datagram
    cur,            \* the datagram being handled beyond the maps
    pending,        \* a pending-listen session is built
    minted,         \* the CID minted for the current attempt
    cookieVerified, \* CookieState.verified, shared through the config
    byAddr,         \* Maps.by_addr
    byCid,          \* Maps.by_cid
    phase,          \* where each session's thread is
    peer,           \* the address each session was promoted for
    cid,            \* the CID each session was given
    established,    \* SessionHandle.established
    cidActive,      \* the handshake negotiated CID
    addrRouted,     \* addr_routed in session_thread
    committed,      \* ConnState.committed_peer
    staged,         \* ConnState.staged_peer
    chan,           \* the demux channel of each session
    expired,        \* ConnState.deadline has passed
    others,         \* the bucket each connection of the other listener holds
    authSrc         \* history: source of the last authenticated record

listenerVars == <<lpc, cur, pending, minted>>
mapVars      == <<byAddr, byCid>>
sessionVars  == <<peer, cid, established, cidActive, addrRouted,
                  committed, staged, authSrc>>
ioVars       == <<chan, expired>>
vars == <<listenerVars, cookieVerified, mapVars, phase, sessionVars, ioVars,
          quotaVars, others>>

-----------------------------------------------------------------------------
(* A session's thread: admitted (permit granted) -> born (mapped) ->       *)
(* handshake -> done (handshake complete, not yet advertised) ->           *)
(* uncid (dropping its CID route) or open -> unroute (first authenticated  *)
(* read of a CID session) -> open -> closing (channel dropped) -> closed   *)
(* (by_addr cleaned) -> exiting (by_cid cleaned) -> free.  A failed spawn  *)
(* goes born -> stillborn -> buried -> free on the listener thread.        *)

Phases == {"free", "admitted", "born", "handshake", "done", "uncid", "open",
           "unroute", "closing", "closed", "exiting", "stillborn", "buried"}

Running == {"handshake", "done", "uncid", "open", "unroute"}

-----------------------------------------------------------------------------
(* Datagrams, by what the demultiplexer and the record layer tell apart:   *)
(*   hello    plaintext ClientHello without a valid cookie for its source  *)
(*   cookied  plaintext ClientHello with a valid cookie for its source     *)
(*   flight   a client's second handshake flight (plaintext first record)  *)
(*   cid      content type 25; cid is NoCid for a runt or a wrong version  *)
(*   app      any other record                                             *)
(* key is the session whose keys protect the datagram, NoSession for junk, *)
(* forgeries and replays.                                                  *)

Dgram == [kind : {"hello", "cookied", "flight", "cid", "app"},
          src  : Addr \cup {NoAddr},
          key  : Session \cup {NoSession},
          cid  : Cid \cup {NoCid}]

PlaintextHandshake(d) == d.kind \in {"hello", "cookied", "flight"}

(* What the network can deliver.  Cookies are stateless: any client that   *)
(* reads its HelloVerifyRequest can present one.  A key only matters to    *)
(* the session it belongs to, so by address a keyed record comes from that *)
(* session's peer; one from elsewhere is the app record of key NoSession.  *)
Arrivals ==
    LET msg(k, a, s, c) == [kind |-> k, src |-> a, key |-> s, cid |-> c]
        up == {s \in Session : phase[s] \in {"admitted", "born"} \cup Running}
    IN  {msg(k, a, NoSession, NoCid) : k \in {"hello", "cookied", "app"}, a \in Addr}
        \cup {msg(k, peer[s], s, NoCid) : k \in {"flight", "app"}, s \in up}
        \cup {msg("cid", a, s, cid[s]) : a \in Addr, s \in up}
        \cup {msg("cid", a, NoSession, c) : a \in Addr, c \in Cid \cup {NoCid}}

NoDgram == [kind |-> "app", src |-> NoAddr, key |-> NoSession, cid |-> NoCid]

-----------------------------------------------------------------------------
RxAlive(s) == phase[s] \in {"born"} \cup Running

HoldsPermit(s) ==
    phase[s] \in {"admitted", "born", "closing", "closed", "exiting"} \cup Running

HasSender(s) ==
    \/ \E a \in Addr : byAddr[a] = s
    \/ \E c \in Cid : byCid[c] = s

\* Bug: the entry is removed whoever owns it.
RemoveByAddr(a, s) == byAddr' = [byAddr EXCEPT ![a] = NoSession]

RemoveByAddrIfMine(a, s) ==
    byAddr' = [byAddr EXCEPT ![a] = IF @ = s THEN NoSession ELSE @]

\* Bug: the entry is removed whoever owns it.
RemoveByCid(c, s) == byCid' = [byCid EXCEPT ![c] = NoSession]

RemoveByCidIfMine(c, s) ==
    byCid' = [byCid EXCEPT ![c] = IF @ = s THEN NoSession ELSE @]

(* SyncSender::try_send with a live receiver: a full channel drops *)
Push(s, d) ==
    chan' = IF Len(chan[s]) < ChannelDepth
            THEN [chan EXCEPT ![s] = Append(@, d)] ELSE chan

(* ConnState goes: the receiver, what is queued in it, and the deadline. *)
DropRx(s) ==
    /\ chan' = [chan EXCEPT ![s] = <<>>]
    /\ expired' = [expired EXCEPT ![s] = FALSE]

(* The thread's own state goes with it, and its identifier is free again. *)
Forget(s) ==
    /\ phase' = [phase EXCEPT ![s] = "free"]
    /\ peer' = [peer EXCEPT ![s] = NoAddr]
    /\ cid' = [cid EXCEPT ![s] = NoCid]
    /\ established' = [established EXCEPT ![s] = FALSE]
    /\ cidActive' = [cidActive EXCEPT ![s] = FALSE]
    /\ addrRouted' = [addrRouted EXCEPT ![s] = TRUE]
    /\ committed' = [committed EXCEPT ![s] = NoAddr]
    /\ staged' = [staged EXCEPT ![s] = NoAddr]
    /\ authSrc' = [authSrc EXCEPT ![s] = NoAddr]

-----------------------------------------------------------------------------
(* listen_loop, routes 1 and 2 *)

CidOwner(d) == IF d.cid = NoCid THEN NoSession ELSE byCid[d.cid]

(* Content type 25: by CID only; an unroutable record changes nothing. *)
RouteByCid(d) ==
    /\ lpc = "recv"
    /\ d.kind = "cid"
    /\ LET s == CidOwner(d)
       IN  /\ s # NoSession
           /\ \/ RxAlive(s) /\ Push(s, d) /\ UNCHANGED byCid
              \/ /\ ~RxAlive(s)
                 /\ byCid' = [byCid EXCEPT ![d.cid] = NoSession]
                 /\ UNCHANGED chan
    /\ UNCHANGED <<listenerVars, cookieVerified, byAddr, phase, sessionVars,
                   expired, quotaVars, others>>

Unroutable(d) ==
    /\ lpc = "recv"
    /\ d.kind = "cid"
    /\ CidOwner(d) = NoSession
    /\ UNCHANGED vars

\* Bug: a fresh ClientHello is let past a session still in its handshake.
PassesSessionEarly(s, d) == PlaintextHandshake(d)

(* A plaintext handshake record against an established session is not fed  *)
(* to it: the source address was reused.                                   *)
PassesSession(s, d) == PlaintextHandshake(d) /\ established[s]

RouteByAddr(d) ==
    /\ lpc = "recv"
    /\ d.kind # "cid"
    /\ LET s == byAddr[d.src]
       IN  /\ s # NoSession
           /\ ~PassesSession(s, d)
           /\ RxAlive(s)
           /\ Push(s, d)
    /\ UNCHANGED <<listenerVars, cookieVerified, mapVars, phase, sessionVars,
                   expired, quotaVars, others>>

RouteToPending(d) ==
    /\ lpc = "recv"
    /\ d.kind # "cid"
    /\ LET s == byAddr[d.src]
       IN  \/ s = NoSession /\ UNCHANGED byAddr
           \/ s # NoSession /\ PassesSession(s, d) /\ UNCHANGED byAddr
           \/ /\ s # NoSession
              /\ ~PassesSession(s, d)
              /\ ~RxAlive(s)
              /\ byAddr' = [byAddr EXCEPT ![d.src] = NoSession]
    /\ lpc' = "pending"
    /\ cur' = d
    /\ UNCHANGED <<pending, minted, cookieVerified, byCid, phase, sessionVars,
                   ioVars, quotaVars, others>>

-----------------------------------------------------------------------------
(* listen_loop, route 3: the stateless pending path *)

ListenerRests ==
    /\ lpc' = "recv"
    /\ cur' = NoDgram
    /\ minted' = NoCid

PendingDrop ==
    /\ lpc = "pending"
    /\ \/ IsFull /\ UNCHANGED pending
       \/ ~IsFull /\ pending' \in BOOLEAN  \* building, resetting or minting failed
    /\ ListenerRests
    /\ UNCHANGED <<cookieVerified, mapVars, phase, sessionVars, ioVars, quotaVars,
                   others>>

\* Bug: the minted CID is not checked against the live sessions.
MintsAny(c) == TRUE

Mints(c) == byCid[c] = NoSession

\* Bug: the flag of an earlier attempt survives into this one.
KeepCookieVerified == UNCHANGED cookieVerified

ClearCookieVerified == cookieVerified' = FALSE

PendingReset ==
    /\ lpc = "pending"
    /\ ~IsFull
    /\ \E c \in Cid : Mints(c) /\ minted' = c
    /\ pending' = TRUE
    /\ ClearCookieVerified
    /\ lpc' = "handshake"
    /\ UNCHANGED <<cur, mapVars, phase, sessionVars, ioVars, quotaVars, others>>

(* One step of mbedtls_ssl_handshake on the pending session.  A ClientHello *)
(* without a cookie is answered by a HelloVerifyRequest and nothing is      *)
(* kept; one with a cookie sets the flag and ends in WANT_READ; everything  *)
(* else is discarded, which is WANT_READ too; any of them can also fail.    *)
PendingHandshake ==
    /\ lpc = "handshake"
    /\ cookieVerified' = (cookieVerified \/ cur.kind = "cookied")
    /\ \/ cur.kind # "hello" /\ lpc' = "verdict" /\ UNCHANGED <<cur, minted, pending>>
       \/ ListenerRests /\ pending' \in BOOLEAN  \* Done poisons the pending session
    /\ UNCHANGED <<mapVars, phase, sessionVars, ioVars, quotaVars, others>>

(* WANT_READ without the flag: noise. *)
VerdictNoise ==
    /\ lpc = "verdict"
    /\ ~cookieVerified
    /\ ListenerRests
    /\ UNCHANGED <<pending, cookieVerified, mapVars, phase, sessionVars, ioVars,
                   quotaVars, others>>

VerdictRefused ==
    /\ lpc = "verdict"
    /\ cookieVerified
    /\ cookieVerified' = FALSE
    /\ pending' = FALSE
    /\ RefuseAcquire(BucketAt(cur.src))
    /\ ListenerRests
    /\ UNCHANGED <<mapVars, phase, sessionVars, ioVars, others>>

VerdictAdmit(s) ==
    /\ lpc = "verdict"
    /\ cookieVerified
    /\ cookieVerified' = FALSE
    /\ pending' = FALSE
    /\ TryAcquire(BucketAt(cur.src))
    /\ phase[s] = "free"
    /\ phase' = [phase EXCEPT ![s] = "admitted"]
    /\ peer' = [peer EXCEPT ![s] = cur.src]
    /\ cid' = [cid EXCEPT ![s] = minted]
    /\ committed' = [committed EXCEPT ![s] = cur.src]
    /\ staged' = [staged EXCEPT ![s] = cur.src]
    /\ authSrc' = [authSrc EXCEPT ![s] = cur.src]
    /\ established' = [established EXCEPT ![s] = FALSE]
    /\ cidActive' = [cidActive EXCEPT ![s] = FALSE]
    /\ addrRouted' = [addrRouted EXCEPT ![s] = TRUE]
    /\ lpc' = "promote"
    /\ UNCHANGED <<cur, minted, mapVars, ioVars, others>>

(* promote: both routes exist before the thread does. *)
Promote(s) ==
    /\ phase[s] = "admitted"
    /\ byAddr' = [byAddr EXCEPT ![peer[s]] = s]
    /\ byCid' = [byCid EXCEPT ![cid[s]] = s]
    /\ phase' = [phase EXCEPT ![s] = "born"]
    /\ UNCHANGED <<listenerVars, cookieVerified, sessionVars, ioVars, quotaVars,
                   others>>

Spawn(s) ==
    /\ phase[s] = "born"
    /\ phase' = [phase EXCEPT ![s] = "handshake"]
    /\ ListenerRests
    /\ UNCHANGED <<pending, cookieVerified, mapVars, sessionVars, ioVars,
                   quotaVars, others>>

(* The closure is dropped with the permit and the receiver it owns. *)
SpawnFails(s) ==
    /\ phase[s] = "born"
    /\ phase' = [phase EXCEPT ![s] = "stillborn"]
    /\ DropPermit(BucketAt(peer[s]))
    /\ DropRx(s)
    /\ UNCHANGED <<listenerVars, cookieVerified, mapVars, sessionVars, others>>

BuryAddr(s) ==
    /\ phase[s] = "stillborn"
    /\ phase' = [phase EXCEPT ![s] = "buried"]
    /\ RemoveByAddrIfMine(peer[s], s)
    /\ UNCHANGED <<listenerVars, cookieVerified, byCid, sessionVars, ioVars,
                   quotaVars, others>>

BuryCid(s) ==
    /\ phase[s] = "buried"
    /\ RemoveByCidIfMine(cid[s], s)
    /\ Forget(s)
    /\ ListenerRests
    /\ UNCHANGED <<pending, cookieVerified, byAddr, ioVars, quotaVars, others>>

-----------------------------------------------------------------------------
(* session_thread: the handshake *)

KeepsMaps == UNCHANGED <<listenerVars, mapVars, quotaVars, others>>

SessionReturns(s) ==
    /\ phase' = [phase EXCEPT ![s] = "closing"]
    /\ DropRx(s)

(* mbedtls_ssl_handshake consumes one datagram: a record of the session's  *)
(* client can complete the handshake, anything else is noise.              *)
HandshakeConsumes(s) ==
    /\ phase[s] = "handshake"
    /\ chan[s] # <<>>
    /\ chan' = [chan EXCEPT ![s] = Tail(@)]
    /\ staged' = [staged EXCEPT ![s] = Head(chan[s]).src]
    /\ \/ UNCHANGED <<phase, cidActive>>
       \/ /\ Head(chan[s]).key = s
          /\ phase' = [phase EXCEPT ![s] = "done"]
          /\ \E b \in BOOLEAN : cidActive' = [cidActive EXCEPT ![s] = b]
    /\ UNCHANGED <<cookieVerified, peer, cid, established, addrRouted,
                   committed, expired, authSrc>>
    /\ KeepsMaps

\* Bug: the deadline is only looked at between datagrams, on quiet ticks.
HandshakeRecvLate(s) == HandshakeConsumes(s)

(* Past the deadline ConnState::recv delivers nothing, queued or not. *)
HandshakeRecv(s) == ~expired[s] /\ HandshakeConsumes(s)

(* recv fails, or a quiet tick ends the loop: the deadline has passed. *)
HandshakeExpires(s) ==
    /\ phase[s] = "handshake"
    /\ expired[s]
    /\ SessionReturns(s)
    /\ UNCHANGED <<cookieVerified, sessionVars>>
    /\ KeepsMaps

(* The handshake failed otherwise, a refused PSK or an alert. *)
HandshakeFails(s) ==
    /\ phase[s] = "handshake"
    /\ SessionReturns(s)
    /\ UNCHANGED <<cookieVerified, sessionVars>>
    /\ KeepsMaps

(* Armed at promotion, the deadline is looked at by the thread only, and   *)
(* cleared when the handshake is done.                                     *)
DeadlinePasses(s) ==
    /\ phase[s] = "handshake"
    /\ ~expired[s]
    /\ expired' = [expired EXCEPT ![s] = TRUE]
    /\ UNCHANGED <<cookieVerified, phase, sessionVars, chan>>
    /\ KeepsMaps

(* established.store(true); a session without CID drops its CID route next. *)
Establish(s) ==
    /\ phase[s] = "done"
    /\ established' = [established EXCEPT ![s] = TRUE]
    /\ phase' = [phase EXCEPT ![s] = IF cidActive[s] THEN "open" ELSE "uncid"]
    /\ UNCHANGED <<cookieVerified, peer, cid, cidActive, addrRouted, committed,
                   staged, authSrc, ioVars>>
    /\ KeepsMaps

DropCidRoute(s) ==
    /\ phase[s] = "uncid"
    /\ phase' = [phase EXCEPT ![s] = "open"]
    /\ RemoveByCidIfMine(cid[s], s)
    /\ UNCHANGED <<listenerVars, cookieVerified, byAddr, sessionVars, ioVars,
                   quotaVars, others>>

-----------------------------------------------------------------------------
(* session_thread: the read loop *)

Authentic(s, d) ==
    d.key = s /\ d.kind = (IF cidActive[s] THEN "cid" ELSE "app")

(* With port reuse, mbedTLS re-checks the cookie of a plaintext ClientHello *)
(* on an open session and gives the session up when it is valid.            *)
Reconnects(s, d) == PortReuse /\ d.kind = "cookied" /\ d.src = peer[s]

\* Bug: the reply path follows the datagram, authenticated or not.
CommitOnArrival(s, d) == [committed EXCEPT ![s] = d.src]

(* take_migration after an authenticated read; without CID never. *)
CommitAfterRead(s, d) ==
    IF Authentic(s, d) /\ cidActive[s] /\ ~addrRouted[s]
    THEN [committed EXCEPT ![s] = d.src] ELSE committed

(* mbedtls_ssl_read consumes one datagram and the loop acts on the result.  *)
ReadRecord(s) ==
    /\ phase[s] = "open"
    /\ chan[s] # <<>>
    /\ LET d == Head(chan[s])
       IN  /\ ~Reconnects(s, d)
           /\ chan' = [chan EXCEPT ![s] = Tail(@)]
           /\ staged' = [staged EXCEPT ![s] = d.src]
           /\ committed' = CommitAfterRead(s, d)
           /\ authSrc' = IF Authentic(s, d)
                         THEN [authSrc EXCEPT ![s] = d.src] ELSE authSrc
           /\ phase' = IF Authentic(s, d) /\ cidActive[s] /\ addrRouted[s]
                       THEN [phase EXCEPT ![s] = "unroute"] ELSE phase
    /\ UNCHANGED <<cookieVerified, peer, cid, established, cidActive, addrRouted, expired>>
    /\ KeepsMaps

\* Bug: the migration is committed first, and the route dropped is the new one.
DropMigratedRoute(s) ==
    /\ phase[s] = "unroute"
    /\ phase' = [phase EXCEPT ![s] = "open"]
    /\ RemoveByAddrIfMine(staged[s], s)
    /\ addrRouted' = [addrRouted EXCEPT ![s] = FALSE]
    /\ committed' = [committed EXCEPT ![s] = staged[s]]
    /\ UNCHANGED <<listenerVars, cookieVerified, byCid, peer, cid, established,
                   cidActive, staged, authSrc, ioVars, quotaVars, others>>

(* The first authenticated read: the session is CID-routed from here on. *)
DropAddrRoute(s) ==
    /\ phase[s] = "unroute"
    /\ phase' = [phase EXCEPT ![s] = "open"]
    /\ RemoveByAddrIfMine(peer[s], s)
    /\ addrRouted' = [addrRouted EXCEPT ![s] = FALSE]
    /\ committed' = [committed EXCEPT ![s] = staged[s]]
    /\ UNCHANGED <<listenerVars, cookieVerified, byCid, peer, cid, established,
                   cidActive, staged, authSrc, ioVars, quotaVars, others>>

(* An authenticated record ends the session: close_notify, or a request    *)
(* whose reply cannot be written.                                          *)
ReadEnds(s) ==
    /\ phase[s] = "open"
    /\ chan[s] # <<>>
    /\ Authentic(s, Head(chan[s]))
    /\ SessionReturns(s)
    /\ UNCHANGED <<cookieVerified, sessionVars>>
    /\ KeepsMaps

ClientReconnect(s) ==
    /\ phase[s] = "open"
    /\ chan[s] # <<>>
    /\ Reconnects(s, Head(chan[s]))
    /\ cookieVerified' = TRUE
    /\ SessionReturns(s)
    /\ UNCHANGED sessionVars
    /\ KeepsMaps

IdleTimeout(s) ==
    /\ phase[s] = "open"
    /\ chan[s] = <<>>
    /\ SessionReturns(s)
    /\ UNCHANGED <<cookieVerified, sessionVars>>
    /\ KeepsMaps

\* Bug: a disconnected channel reads as an empty one.
ClosedReadsAsQuiet(s) == FALSE

(* recv_timeout reports Disconnected once no map holds a sender. *)
Disconnected(s) == chan[s] = <<>> /\ ~HasSender(s)

ChannelClosed(s) ==
    /\ phase[s] \in {"handshake", "open"}
    /\ Disconnected(s)
    /\ SessionReturns(s)
    /\ UNCHANGED <<cookieVerified, sessionVars>>
    /\ KeepsMaps

(* A panic anywhere in session_thread is caught; so is the early return of *)
(* a handshake that authenticated nobody.                                  *)
SessionPanics(s) ==
    /\ phase[s] \in Running
    /\ SessionReturns(s)
    /\ UNCHANGED <<cookieVerified, sessionVars>>
    /\ KeepsMaps

-----------------------------------------------------------------------------
(* The spawned closure after session_thread: both removals, then the permit *)

CleanAddr(s) ==
    /\ phase[s] = "closing"
    /\ phase' = [phase EXCEPT ![s] = "closed"]
    /\ RemoveByAddrIfMine(peer[s], s)
    /\ UNCHANGED <<listenerVars, cookieVerified, byCid, sessionVars, ioVars,
                   quotaVars, others>>

CleanCid(s) ==
    /\ phase[s] = "closed"
    /\ phase' = [phase EXCEPT ![s] = "exiting"]
    /\ RemoveByCidIfMine(cid[s], s)
    /\ UNCHANGED <<listenerVars, cookieVerified, byAddr, sessionVars, ioVars,
                   quotaVars, others>>

ThreadExits(s) ==
    /\ phase[s] = "exiting"
    /\ DropPermit(BucketAt(peer[s]))
    /\ Forget(s)
    /\ UNCHANGED <<listenerVars, cookieVerified, mapVars, ioVars, others>>

-----------------------------------------------------------------------------
(* The OpenSSL listener charges the same quota (main.rs, udp_quota). *)

OtherAcquires(o, b) ==
    /\ others[o] = NoBucket
    /\ TryAcquire(b)
    /\ others' = [others EXCEPT ![o] = b]
    /\ UNCHANGED <<listenerVars, cookieVerified, mapVars, phase, sessionVars,
                   ioVars>>

OtherReleases(o) ==
    /\ others[o] # NoBucket
    /\ DropPermit(others[o])
    /\ others' = [others EXCEPT ![o] = NoBucket]
    /\ UNCHANGED <<listenerVars, cookieVerified, mapVars, phase, sessionVars,
                   ioVars>>

-----------------------------------------------------------------------------
Init ==
    /\ lpc = "recv"
    /\ cur = NoDgram
    /\ pending = FALSE
    /\ minted = NoCid
    /\ cookieVerified = FALSE
    /\ byAddr = [a \in Addr |-> NoSession]
    /\ byCid = [c \in Cid |-> NoSession]
    /\ phase = [s \in Session |-> "free"]
    /\ peer = [s \in Session |-> NoAddr]
    /\ cid = [s \in Session |-> NoCid]
    /\ established = [s \in Session |-> FALSE]
    /\ cidActive = [s \in Session |-> FALSE]
    /\ addrRouted = [s \in Session |-> TRUE]
    /\ committed = peer
    /\ staged = peer
    /\ authSrc = peer
    /\ chan = [s \in Session |-> <<>>]
    /\ expired = [s \in Session |-> FALSE]
    /\ others = [o \in OtherConn |-> NoBucket]
    /\ QuotaInit

Receive ==
    \E d \in Arrivals :
        RouteByCid(d) \/ Unroutable(d) \/ RouteByAddr(d) \/ RouteToPending(d)

PendingPath ==
    PendingDrop \/ PendingReset \/ PendingHandshake \/ VerdictNoise \/ VerdictRefused

Promotion(s) ==
    \/ VerdictAdmit(s) \/ Promote(s) \/ Spawn(s)
    \/ SpawnFails(s) \/ BuryAddr(s) \/ BuryCid(s)

(* Steps a scheduled session thread takes by itself. *)
SessionStep(s) ==
    \/ HandshakeRecv(s) \/ HandshakeExpires(s) \/ Establish(s) \/ DropCidRoute(s)
    \/ ReadRecord(s) \/ DropAddrRoute(s) \/ ClientReconnect(s) \/ ChannelClosed(s)
    \/ CleanAddr(s) \/ CleanCid(s) \/ ThreadExits(s)

(* Steps that need the peer, the clock or a failure. *)
SessionEvent(s) ==
    \/ DeadlinePasses(s) \/ HandshakeFails(s)
    \/ ReadEnds(s) \/ IdleTimeout(s) \/ SessionPanics(s)

Next ==
    \/ Receive
    \/ PendingPath
    \/ \E s \in Session : Promotion(s) \/ SessionStep(s) \/ SessionEvent(s)
    \/ \E o \in OtherConn : OtherReleases(o) \/ \E b \in Bucket : OtherAcquires(o, b)

Spec == Init /\ [][Next]_vars

(* Every thread is scheduled, and the handshake deadline does pass. *)
Fairness ==
    /\ WF_vars(PendingPath)
    /\ \A s \in Session :
        /\ WF_vars(Promotion(s))
        /\ WF_vars(SessionStep(s))
        /\ WF_vars(DeadlinePasses(s))

LiveSpec == Spec /\ Fairness

-----------------------------------------------------------------------------
(* Every variable stays in its type. *)
TypeOK ==
    /\ lpc \in {"recv", "pending", "handshake", "verdict", "promote"}
    /\ cur \in Dgram
    /\ pending \in BOOLEAN
    /\ minted \in Cid \cup {NoCid}
    /\ cookieVerified \in BOOLEAN
    /\ byAddr \in [Addr -> Session \cup {NoSession}]
    /\ byCid \in [Cid -> Session \cup {NoSession}]
    /\ phase \in [Session -> Phases]
    /\ peer \in [Session -> Addr \cup {NoAddr}]
    /\ cid \in [Session -> Cid \cup {NoCid}]
    /\ established \in [Session -> BOOLEAN]
    /\ cidActive \in [Session -> BOOLEAN]
    /\ addrRouted \in [Session -> BOOLEAN]
    /\ committed \in [Session -> Addr \cup {NoAddr}]
    /\ staged \in [Session -> Addr \cup {NoAddr}]
    /\ authSrc \in [Session -> Addr \cup {NoAddr}]
    /\ chan \in [Session -> Seq(Dgram)]
    /\ expired \in [Session -> BOOLEAN]
    /\ others \in [OtherConn -> Bucket \cup {NoBucket}]
    /\ total \in Nat
    /\ perIp \in [Bucket -> Nat]
    /\ ipKeys \subseteq Bucket

Holders == {s \in Session : HoldsPermit(s)}
HoldersOf(b) == {s \in Holders : BucketAt(peer[s]) = b}
OthersOf(b) == {o \in OtherConn : others[o] = b}

(* The books balance at every instant: both counts equal the permits that  *)
(* exist, on the listener thread, on session threads, in cleanup and with  *)
(* the other listener; neither cap is passed; and per_ip has an entry for  *)
(* exactly the buckets that hold something.  quota.rs: "every teardown     *)
(* path settles the books".                                                *)
QuotaBooks ==
    /\ total = Cardinality(Holders) + Cardinality({o \in OtherConn : others[o] # NoBucket})
    /\ total <= MaxConnections
    /\ \A b \in Bucket : /\ perIp[b] = Cardinality(HoldersOf(b)) + Cardinality(OthersOf(b))
                         /\ perIp[b] <= MaxPerIp
    /\ ipKeys = {b \in Bucket : perIp[b] > 0}

(* A session that may still be spoken to by CID is found under its CID     *)
(* from before its thread starts until its thread leaves the read loop:    *)
(* no other session's promotion, cleanup or CID takes the route away.      *)
CidRouteIntact ==
    \A s \in Session :
        \/ phase[s] \in {"born", "handshake", "done"}
        \/ phase[s] \in {"open", "unroute"} /\ cidActive[s]
        => byCid[cid[s]] = s

(* Until it is established a session keeps its address route: no fresh     *)
(* ClientHello, late cleanup or promotion evicts a handshake in flight.    *)
HandshakeKeepsRoute ==
    \A s \in Session :
        phase[s] \in {"born", "handshake", "done"} => byAddr[peer[s]] = s

(* An entry belongs to the session stored in it, under that session's own  *)
(* key, and never outlives the cleanup of the session's thread: a map      *)
(* never routes into a finished session or one that is someone else's.     *)
EntriesOwned ==
    /\ \A a \in Addr : LET s == byAddr[a] IN
        s # NoSession => /\ peer[s] = a
                         /\ phase[s] \in {"born", "closing", "stillborn"} \cup Running
                         /\ phase[s] = "open" => ~cidActive[s] \/ addrRouted[s]
    /\ \A c \in Cid : LET s == byCid[c] IN
        s # NoSession => /\ cid[s] = c
                         /\ phase[s] \in {"born", "closing", "closed", "stillborn",
                                         "buried"} \cup Running
                         /\ phase[s] = "open" => cidActive[s]

(* Replies go to the address the session was promoted for or, once CID     *)
(* routing has taken over, to the source of the last authenticated record: *)
(* never to the source of a datagram that failed authentication.           *)
RepliesFollowAuthentication ==
    \A s \in Session : phase[s] = "open" =>
        committed[s] = IF cidActive[s] /\ ~addrRouted[s] THEN authSrc[s] ELSE peer[s]

(* Only a source that has just proved its address with a cookie gets a     *)
(* permit, a map entry, a channel and a thread.                            *)
VerifiedOnly ==
    \A s \in Session : phase[s] \in {"admitted", "born"} => cur.kind = "cookied"

(* The client's retransmitted handshake flight reaches the session that    *)
(* owns it for as long as the address route is retained for it.            *)
FlightReachesSession ==
    [][\A s \in Session :
        (lpc = "recv" /\ lpc' = "pending" /\ cur'.kind = "flight" /\ cur'.key = s)
        => ~(phase[s] \in Running /\ byAddr[cur'.src] = s)]_vars

(* A session that lost its last route (its address was taken over) notices *)
(* and gives back its thread and its permit.                               *)
OrphansLeave ==
    \A s \in Session :
        (phase[s] \in Running /\ ~HasSender(s)) ~> phase[s] = "free"

(* Every handshake ends: once its deadline has passed its thread stops     *)
(* reading, however many datagrams its peer keeps queued for it.           *)
HandshakesEnd ==
    \A s \in Session : phase[s] = "handshake" ~> phase[s] # "handshake"
=============================================================================
