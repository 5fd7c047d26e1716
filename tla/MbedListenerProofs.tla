------------------------- MODULE MbedListenerProofs -------------------------
(***************************************************************************)
(* Proofs about MbedListener: for every set of addresses, sessions and     *)
(* CIDs, every channel depth and every cap, with or without client port    *)
(* reuse.  The inductive invariant Structure ties the listener's program   *)
(* counter, the two maps and the threads' phases together; the quota       *)
(* argument counts permit holders on top of it.                            *)
(***************************************************************************)
EXTENDS MbedListener, FiniteSetTheorems, TLAPS

(* TypeOK without the quota counters, whose lower bound needs QuotaBooks. *)
MachineType ==
    /\ lpc \in {"recv", "pending", "handshake", "verdict", "promote"}
    /\ cur \in Dgram
    /\ pending \in BOOLEAN
    /\ minted \in Cid \cup {NoCid}
    /\ cookieVerified \in BOOLEAN
    /\ byAddr \in [Addr -> Session \cup {NoSession}]
    /\ byCid \in [Cid -> Session \cup {NoSession}]
    /\ phase \in [Session -> Phases]
    /\ peer \in [Session -> Addr \cup {NoAddr}]
    /\ cid \in [Session -> Cid \cup {NoCid}]
    /\ established \in [Session -> BOOLEAN]
    /\ cidActive \in [Session -> BOOLEAN]
    /\ addrRouted \in [Session -> BOOLEAN]
    /\ committed \in [Session -> Addr \cup {NoAddr}]
    /\ staged \in [Session -> Addr \cup {NoAddr}]
    /\ authSrc \in [Session -> Addr \cup {NoAddr}]
    /\ chan \in [Session -> Seq(Dgram)]
    /\ expired \in [Session -> BOOLEAN]
    /\ others \in [OtherConn -> Bucket \cup {NoBucket}]

(* A session has a key in each map's key space for as long as it exists. *)
Keyed == \A s \in Session : phase[s] # "free" => peer[s] \in Addr /\ cid[s] \in Cid

(* Sessions the listener thread itself is still responsible for. *)
Nascent == {"admitted", "born", "stillborn", "buried"}

(* The handshake is not over. *)
Early == {"born", "handshake", "done"}

OneNascent ==
    /\ \A s \in Session : phase[s] \in Nascent => lpc = "promote"
    /\ \A s, t \in Session : phase[s] \in Nascent /\ phase[t] \in Nascent => s = t

(* The datagram in hand has a source, its CID is nobody's, and no session  *)
(* in its handshake was promoted for its source.                           *)
Attempt ==
    /\ lpc # "recv" => cur.src \in Addr
    /\ lpc \in {"handshake", "verdict"} => minted \in Cid /\ byCid[minted] = NoSession
    /\ lpc \in {"pending", "handshake", "verdict"} =>
         \A s \in Session : phase[s] \in Early => peer[s] # cur.src
    /\ \A t \in Session : phase[t] = "admitted" =>
         /\ byCid[cid[t]] = NoSession
         /\ \A s \in Session : phase[s] \in Early => peer[s] # peer[t]

(* What the flags of a session are in each phase. *)
Flags ==
    \A s \in Session :
        /\ phase[s] \in {"admitted"} \cup Early => ~established[s]
        /\ phase[s] \in {"admitted", "uncid", "unroute"} \cup Early =>
             addrRouted[s] /\ committed[s] = peer[s]
        /\ phase[s] = "uncid" => ~cidActive[s]
        /\ phase[s] = "unroute" => cidActive[s] /\ staged[s] = authSrc[s]
        /\ phase[s] = "open" /\ ~addrRouted[s] => cidActive[s]

Rest ==
    /\ Keyed
    /\ OneNascent
    /\ Attempt
    /\ Flags
    /\ EntriesOwned
    /\ CidRouteIntact
    /\ HandshakeKeepsRoute
    /\ RepliesFollowAuthentication

Structure == MachineType /\ Rest

USE MbedAssumption
USE DEF Phases, Running, Nascent, Early, RxAlive, listenerVars, mapVars, sessionVars,
        ioVars

-----------------------------------------------------------------------------
(* Datagrams have a source or the placeholder. *)
LEMMA DgramTyped ==
    /\ NoDgram \in Dgram
    /\ \A d \in Dgram : d.src \in Addr \cup {NoAddr} /\ d.cid \in Cid \cup {NoCid}
BY DEF Dgram, NoDgram

(* Popping a channel yields a datagram and leaves a channel. *)
LEMMA PopTyped ==
    ASSUME MachineType, NEW s \in Session, chan[s] # <<>>
    PROVE  /\ Head(chan[s]) \in Dgram
           /\ Head(chan[s]).src \in Addr \cup {NoAddr}
           /\ [chan EXCEPT ![s] = Tail(@)] \in [Session -> Seq(Dgram)]
<1>1. chan[s] \in Seq(Dgram)
  BY DEF MachineType
<1>2. Head(chan[s]) \in Dgram /\ Tail(chan[s]) \in Seq(Dgram)
  BY <1>1
<1> QED
  BY <1>2, DgramTyped DEF MachineType

(* Whatever arrives has a real source. *)
LEMMA ArrivalTyped ==
    ASSUME MachineType, Keyed, NEW d \in Arrivals
    PROVE  d \in Dgram /\ d.src \in Addr
<1>1. \A s \in Session : phase[s] # "free" => peer[s] \in Addr /\ cid[s] \in Cid
  BY DEF Keyed
<1> QED
  BY <1>1 DEF Arrivals, Dgram

-----------------------------------------------------------------------------
(* A datagram is routed through the maps. *)
LEMMA ReceiveKeepsStructure ==
    ASSUME Structure, NEW d \in Arrivals,
           RouteByCid(d) \/ RouteByAddr(d) \/ RouteToPending(d)
    PROVE  Structure'
<1> USE DEF Structure, Rest, Keyed, OneNascent, Attempt, Flags, EntriesOwned,
             CidRouteIntact, HandshakeKeepsRoute, RepliesFollowAuthentication
<1>1. CASE RouteByCid(d)
  <2> DEFINE s == byCid[d.cid]
  <2>1. d.cid \in Cid /\ s \in Session
    BY <1>1, ArrivalTyped, DgramTyped DEF RouteByCid, CidOwner, MachineType
  <2>2. CASE RxAlive(s) /\ Push(s, d) /\ UNCHANGED byCid
    <3>1. chan' \in [Session -> Seq(Dgram)]
      BY <2>1, <2>2, ArrivalTyped DEF Push, MachineType
    <3>2. MachineType'
      BY <1>1, <2>2, <3>1 DEF RouteByCid, MachineType
    <3>3. Rest'
      BY <1>1, <2>2 DEF RouteByCid
    <3> QED BY <3>2, <3>3
  <2>3. CASE /\ ~RxAlive(s)
             /\ byCid' = [byCid EXCEPT ![d.cid] = NoSession]
             /\ UNCHANGED chan
    <3>1. MachineType'
      BY <1>1, <2>1, <2>3 DEF RouteByCid, MachineType
    <3>2. Rest'
      BY <1>1, <2>1, <2>3 DEF RouteByCid, MachineType
    <3> QED BY <3>1, <3>2
  <2> QED
    BY <1>1, <2>1, <2>2, <2>3 DEF RouteByCid, CidOwner
<1>2. CASE RouteByAddr(d)
  <2>1. MachineType'
    BY <1>2, ArrivalTyped DEF RouteByAddr, MachineType, Push, PassesSession
  <2>2. Rest'
    BY <1>2, ArrivalTyped DEF RouteByAddr, MachineType, Push, PassesSession
  <2> QED BY <2>1, <2>2 DEF Structure
<1>3. CASE RouteToPending(d)
  <2> DEFINE s == byAddr[d.src]
  <2>1. d \in Dgram /\ d.src \in Addr /\ s \in Session \cup {NoSession}
    BY ArrivalTyped DEF MachineType
  <2>2. \A r \in Session : phase[r] \in Early => peer[r] # d.src
    \* Such a session would be mapped at d.src, alive and not yet established.
    BY <1>3, <2>1 DEF RouteToPending, PassesSession, MachineType
  <2>3. MachineType'
    <3>1. byAddr' \in [Addr -> Session \cup {NoSession}]
      <4>1. byAddr' = byAddr \/ byAddr' = [byAddr EXCEPT ![d.src] = NoSession]
        BY <1>3 DEF RouteToPending
      <4>2. byAddr \in [Addr -> Session \cup {NoSession}]
        BY DEF MachineType
      <4> QED BY <4>1, <4>2
    <3> QED
      BY <1>3, <2>1, <3>1 DEF RouteToPending, MachineType
  <2>4. /\ Keyed' /\ OneNascent' /\ Flags' /\ CidRouteIntact'
        /\ HandshakeKeepsRoute' /\ RepliesFollowAuthentication'
    BY <1>3, <2>1, <2>2 DEF RouteToPending, MachineType
  <2>5. EntriesOwned'
    BY <1>3, <2>1 DEF RouteToPending, MachineType
  <2>6. Attempt'
    BY <1>3, <2>1, <2>2 DEF RouteToPending, MachineType
  <2> QED BY <2>3, <2>4, <2>5, <2>6
<1> QED
  BY <1>1, <1>2, <1>3 DEF Structure

(* The listener drives the pending session. *)
LEMMA PendingKeepsStructure ==
    ASSUME Structure, PendingPath
    PROVE  Structure'
<1> USE DEF Structure, Rest, Keyed, OneNascent, Attempt, Flags, EntriesOwned,
             CidRouteIntact, HandshakeKeepsRoute, RepliesFollowAuthentication
<1>1. CASE PendingDrop
  <2>1. MachineType'
    BY <1>1, DgramTyped DEF PendingDrop, MachineType, ListenerRests
  <2>2. Rest'
    BY <1>1, DgramTyped DEF PendingDrop, MachineType, ListenerRests
  <2> QED BY <2>1, <2>2 DEF Structure
<1>2. CASE PendingReset
  <2>1. PICK c \in Cid : Mints(c) /\ minted' = c
    BY <1>2 DEF PendingReset
  <2>2. MachineType'
    BY <1>2, <2>1 DEF PendingReset, MachineType, ClearCookieVerified
  <2>3. Rest'
    BY <1>2, <2>1 DEF PendingReset, MachineType, Mints
  <2> QED BY <2>2, <2>3
<1>3. CASE PendingHandshake
  <2>1. MachineType'
    BY <1>3, DgramTyped DEF PendingHandshake, MachineType, ListenerRests
  <2>2. Rest'
    BY <1>3, DgramTyped DEF PendingHandshake, MachineType, ListenerRests
  <2> QED BY <2>1, <2>2 DEF Structure
<1>4. CASE VerdictNoise
  <2>1. MachineType'
    BY <1>4, DgramTyped DEF VerdictNoise, MachineType, ListenerRests
  <2>2. Rest'
    BY <1>4, DgramTyped DEF VerdictNoise, MachineType, ListenerRests
  <2> QED BY <2>1, <2>2 DEF Structure
<1>5. CASE VerdictRefused
  <2>1. MachineType'
    BY <1>5, DgramTyped DEF VerdictRefused, MachineType, ListenerRests
  <2>2. Rest'
    BY <1>5, DgramTyped DEF VerdictRefused, MachineType, ListenerRests
  <2> QED BY <2>1, <2>2 DEF Structure
<1> QED
  BY <1>1, <1>2, <1>3, <1>4, <1>5 DEF PendingPath

(* The listener promotes a session, or buries one that could not start. *)
LEMMA PromotionKeepsStructure ==
    ASSUME Structure, NEW s \in Session, Promotion(s)
    PROVE  Structure'
<1> USE DEF Structure, Rest, Keyed, OneNascent, Attempt, Flags, EntriesOwned,
             CidRouteIntact, HandshakeKeepsRoute, RepliesFollowAuthentication
<1>1. CASE VerdictAdmit(s)
  <2>1. MachineType'
    BY <1>1 DEF VerdictAdmit, MachineType
  <2>2. Rest'
    BY <1>1 DEF VerdictAdmit, MachineType
  <2> QED BY <2>1, <2>2 DEF Structure
<1>2. CASE Promote(s)
  <2>1. MachineType'
    BY <1>2 DEF Promote, MachineType
  <2>2. Rest'
    BY <1>2 DEF Promote, MachineType
  <2> QED BY <2>1, <2>2 DEF Structure
<1>3. CASE Spawn(s)
  <2>1. MachineType'
    BY <1>3, DgramTyped DEF Spawn, MachineType, ListenerRests
  <2>2. Rest'
    BY <1>3, DgramTyped DEF Spawn, MachineType, ListenerRests
  <2> QED BY <2>1, <2>2 DEF Structure
<1>4. CASE SpawnFails(s)
  <2>1. MachineType'
    BY <1>4 DEF SpawnFails, MachineType, DropRx
  <2>2. Rest'
    BY <1>4 DEF SpawnFails, MachineType, DropRx
  <2> QED BY <2>1, <2>2 DEF Structure
<1>5. CASE BuryAddr(s)
  <2>1. MachineType'
    BY <1>5 DEF BuryAddr, MachineType, RemoveByAddrIfMine
  <2>2. Rest'
    BY <1>5 DEF BuryAddr, MachineType, RemoveByAddrIfMine
  <2> QED BY <2>1, <2>2 DEF Structure
<1>6. CASE BuryCid(s)
  <2>1. MachineType'
    BY <1>6, DgramTyped
       DEF BuryCid, MachineType, RemoveByCidIfMine, Forget, ListenerRests
  <2>2. Rest'
    BY <1>6, DgramTyped
       DEF BuryCid, MachineType, RemoveByCidIfMine, Forget, ListenerRests
  <2> QED BY <2>1, <2>2 DEF Structure
<1> QED
  BY <1>1, <1>2, <1>3, <1>4, <1>5, <1>6 DEF Promotion

(* A session thread runs. *)
LEMMA SessionStepKeepsStructure ==
    ASSUME Structure, NEW s \in Session, SessionStep(s)
    PROVE  Structure'
<1> USE DEF Structure, Rest, Keyed, OneNascent, Attempt, Flags, EntriesOwned,
             CidRouteIntact, HandshakeKeepsRoute, RepliesFollowAuthentication
<1>1. CASE HandshakeRecv(s)
  <2>1. /\ chan' \in [Session -> Seq(Dgram)]
        /\ staged' \in [Session -> Addr \cup {NoAddr}]
    BY <1>1, PopTyped DEF HandshakeRecv, HandshakeConsumes, MachineType
  <2>2. CASE UNCHANGED <<phase, cidActive>>
    <3>1. MachineType'
      BY <1>1, <2>1, <2>2 DEF HandshakeRecv, HandshakeConsumes, MachineType, KeepsMaps
    <3>2. Rest'
      BY <1>1, <2>1, <2>2 DEF HandshakeRecv, HandshakeConsumes, MachineType, KeepsMaps
    <3> QED BY <3>1, <3>2
  <2>3. ASSUME NEW b \in BOOLEAN,
               cidActive' = [cidActive EXCEPT ![s] = b],
               phase' = [phase EXCEPT ![s] = "done"]
        PROVE  Structure'
    <3>1. MachineType'
      BY <1>1, <2>1, <2>3 DEF HandshakeRecv, HandshakeConsumes, MachineType, KeepsMaps
    <3>2. /\ Keyed' /\ OneNascent' /\ Attempt' /\ Flags' /\ CidRouteIntact'
          /\ HandshakeKeepsRoute' /\ RepliesFollowAuthentication'
      BY <1>1, <2>1, <2>3 DEF HandshakeRecv, HandshakeConsumes, MachineType, KeepsMaps
    <3>3. EntriesOwned'
      BY <1>1, <2>3 DEF HandshakeRecv, HandshakeConsumes, MachineType, KeepsMaps
    <3> QED BY <3>1, <3>2, <3>3
  <2> QED
    BY <1>1, <2>2, <2>3 DEF HandshakeRecv, HandshakeConsumes
<1>2. CASE Establish(s)
  <2>1. MachineType'
    BY <1>2 DEF Establish, MachineType, KeepsMaps
  <2>2. Rest'
    BY <1>2 DEF Establish, MachineType, KeepsMaps
  <2> QED BY <2>1, <2>2 DEF Structure
<1>3. CASE DropCidRoute(s)
  <2>1. MachineType'
    BY <1>3 DEF DropCidRoute, MachineType, RemoveByCidIfMine
  <2>2. Rest'
    BY <1>3 DEF DropCidRoute, MachineType, RemoveByCidIfMine
  <2> QED BY <2>1, <2>2 DEF Structure
<1>4. CASE ReadRecord(s)
  <2>1. MachineType'
    BY <1>4, PopTyped
       DEF ReadRecord, MachineType, KeepsMaps, CommitAfterRead, Authentic
  <2>2. Rest'
    BY <1>4, PopTyped
       DEF ReadRecord, MachineType, KeepsMaps, CommitAfterRead, Authentic
  <2> QED BY <2>1, <2>2 DEF Structure
<1>5. CASE DropAddrRoute(s)
  <2>1. MachineType'
    BY <1>5 DEF DropAddrRoute, MachineType, RemoveByAddrIfMine
  <2>2. Rest'
    BY <1>5 DEF DropAddrRoute, MachineType, RemoveByAddrIfMine
  <2> QED BY <2>1, <2>2 DEF Structure
<1>6. CASE ClientReconnect(s)
  <2>1. MachineType'
    BY <1>6 DEF ClientReconnect, MachineType, SessionReturns, DropRx, KeepsMaps
  <2>2. Rest'
    BY <1>6 DEF ClientReconnect, MachineType, SessionReturns, DropRx, KeepsMaps
  <2> QED BY <2>1, <2>2 DEF Structure
<1>7. CASE ChannelClosed(s)
  <2>1. MachineType'
    BY <1>7 DEF ChannelClosed, MachineType, SessionReturns, DropRx, KeepsMaps
  <2>2. Rest'
    BY <1>7 DEF ChannelClosed, MachineType, SessionReturns, DropRx, KeepsMaps
  <2> QED BY <2>1, <2>2 DEF Structure
<1>8. CASE CleanAddr(s)
  <2>1. MachineType'
    BY <1>8 DEF CleanAddr, MachineType, RemoveByAddrIfMine
  <2>2. Rest'
    BY <1>8 DEF CleanAddr, MachineType, RemoveByAddrIfMine
  <2> QED BY <2>1, <2>2 DEF Structure
<1>9. CASE CleanCid(s)
  <2>1. MachineType'
    BY <1>9 DEF CleanCid, MachineType, RemoveByCidIfMine
  <2>2. Rest'
    BY <1>9 DEF CleanCid, MachineType, RemoveByCidIfMine
  <2> QED BY <2>1, <2>2 DEF Structure
<1>10. CASE ThreadExits(s)
  <2>1. MachineType'
    BY <1>10 DEF ThreadExits, MachineType, Forget
  <2>2. Rest'
    BY <1>10 DEF ThreadExits, MachineType, Forget
  <2> QED BY <2>1, <2>2 DEF Structure
<1>11. CASE HandshakeExpires(s)
  <2>1. MachineType'
    BY <1>11 DEF HandshakeExpires, MachineType, SessionReturns, DropRx, KeepsMaps
  <2>2. Rest'
    BY <1>11 DEF HandshakeExpires, MachineType, SessionReturns, DropRx, KeepsMaps
  <2> QED BY <2>1, <2>2 DEF Structure
<1> QED
  BY <1>1, <1>2, <1>3, <1>4, <1>5, <1>6, <1>7, <1>8, <1>9, <1>10, <1>11
     DEF SessionStep

(* A session ends by its peer, the clock or a failure. *)
LEMMA SessionEventKeepsStructure ==
    ASSUME Structure, NEW s \in Session, SessionEvent(s)
    PROVE  Structure'
<1> USE DEF Structure, Rest, Keyed, OneNascent, Attempt, Flags, EntriesOwned,
             CidRouteIntact, HandshakeKeepsRoute, RepliesFollowAuthentication
<1>1. CASE HandshakeFails(s)
  <2>1. MachineType'
    BY <1>1 DEF HandshakeFails, MachineType, SessionReturns, DropRx, KeepsMaps
  <2>2. Rest'
    BY <1>1 DEF HandshakeFails, MachineType, SessionReturns, DropRx, KeepsMaps
  <2> QED BY <2>1, <2>2 DEF Structure
<1>2. CASE ReadEnds(s)
  <2>1. MachineType'
    BY <1>2 DEF ReadEnds, MachineType, SessionReturns, DropRx, KeepsMaps
  <2>2. Rest'
    BY <1>2 DEF ReadEnds, MachineType, SessionReturns, DropRx, KeepsMaps
  <2> QED BY <2>1, <2>2 DEF Structure
<1>3. CASE IdleTimeout(s)
  <2>1. MachineType'
    BY <1>3 DEF IdleTimeout, MachineType, SessionReturns, DropRx, KeepsMaps
  <2>2. Rest'
    BY <1>3 DEF IdleTimeout, MachineType, SessionReturns, DropRx, KeepsMaps
  <2> QED BY <2>1, <2>2 DEF Structure
<1>4. CASE SessionPanics(s)
  <2>1. MachineType'
    BY <1>4 DEF SessionPanics, MachineType, SessionReturns, DropRx, KeepsMaps
  <2>2. Rest'
    BY <1>4 DEF SessionPanics, MachineType, SessionReturns, DropRx, KeepsMaps
  <2> QED BY <2>1, <2>2 DEF Structure
<1>5. CASE DeadlinePasses(s)
  <2>1. MachineType'
    BY <1>5 DEF DeadlinePasses, MachineType, KeepsMaps
  <2>2. Rest'
    BY <1>5 DEF DeadlinePasses, MachineType, KeepsMaps
  <2> QED BY <2>1, <2>2 DEF Structure
<1> QED
  BY <1>1, <1>2, <1>3, <1>4, <1>5 DEF SessionEvent

(* The other listener comes and goes. *)
LEMMA OthersKeepStructure ==
    ASSUME Structure, NEW o \in OtherConn,
           OtherReleases(o) \/ \E b \in Bucket : OtherAcquires(o, b)
    PROVE  Structure'
<1>1. others' \in [OtherConn -> Bucket \cup {NoBucket}]
  <2>1. CASE OtherReleases(o)
    BY <2>1 DEF OtherReleases, Structure, MachineType
  <2>2. ASSUME NEW b \in Bucket, OtherAcquires(o, b)
        PROVE  others' \in [OtherConn -> Bucket \cup {NoBucket}]
    BY <2>2 DEF OtherAcquires, Structure, MachineType
  <2> QED BY <2>1, <2>2
<1>3. MachineType'
  BY <1>1 DEF Structure, MachineType, OtherReleases, OtherAcquires
<1>2. Rest'
  BY DEF Structure, Rest, MachineType, OtherReleases, OtherAcquires, Keyed,
         OneNascent, Attempt, Flags, EntriesOwned, CidRouteIntact,
         HandshakeKeepsRoute, RepliesFollowAuthentication
<1> QED
  BY <1>2, <1>3 DEF Structure

(* Nothing changes. *)
LEMMA UnchangedKeepsStructure ==
    ASSUME Structure, UNCHANGED vars PROVE Structure'
BY DEF Structure, Rest, vars, MachineType, Keyed, OneNascent, Attempt, Flags, EntriesOwned,
       CidRouteIntact, HandshakeKeepsRoute, RepliesFollowAuthentication

(* Structure holds initially and every step keeps it. *)
THEOREM StructureInvariant == Spec => []Structure
<1>1. Init => Structure
  <2>1. Init => MachineType
    <3> SUFFICES ASSUME Init PROVE MachineType
      OBVIOUS
    <3>1. cur \in Dgram /\ chan \in [Session -> Seq(Dgram)]
      BY DgramTyped DEF Init
    <3>2. /\ peer \in [Session -> Addr \cup {NoAddr}]
          /\ committed = peer /\ staged = peer /\ authSrc = peer
      BY DEF Init
    <3> QED
      BY <3>1, <3>2 DEF Init, MachineType
  <2>2. Init => Rest
    BY DEF Init, Rest, Keyed, OneNascent, Attempt, Flags, EntriesOwned,
           CidRouteIntact, HandshakeKeepsRoute, RepliesFollowAuthentication
  <2> QED BY <2>1, <2>2 DEF Structure
<1>2. Structure /\ [Next]_vars => Structure'
  <2> SUFFICES ASSUME Structure, [Next]_vars PROVE Structure'
    OBVIOUS
  <2>1. CASE Receive
    BY <2>1, ReceiveKeepsStructure, UnchangedKeepsStructure DEF Receive, Unroutable
  <2>2. CASE PendingPath
    BY <2>2, PendingKeepsStructure
  <2>3. ASSUME NEW s \in Session, Promotion(s) \/ SessionStep(s) \/ SessionEvent(s)
        PROVE  Structure'
    BY <2>3, PromotionKeepsStructure, SessionStepKeepsStructure, SessionEventKeepsStructure
  <2>4. ASSUME NEW o \in OtherConn,
               OtherReleases(o) \/ \E b \in Bucket : OtherAcquires(o, b)
        PROVE  Structure'
    BY <2>4, OthersKeepStructure
  <2>5. CASE UNCHANGED vars
    BY <2>5, UnchangedKeepsStructure
  <2> QED
    BY <2>1, <2>2, <2>3, <2>4, <2>5 DEF Next
<1> QED
  BY <1>1, <1>2, PTL DEF Spec

(* A session that may be spoken to by CID is always found under its CID. *)
THEOREM CidRouteSafe == Spec => []CidRouteIntact
BY StructureInvariant, PTL DEF Structure, Rest

(* A handshake in flight keeps its address route. *)
THEOREM HandshakeRouteSafe == Spec => []HandshakeKeepsRoute
BY StructureInvariant, PTL DEF Structure, Rest

(* No map entry is stale or under another session's key. *)
THEOREM OwnershipSafe == Spec => []EntriesOwned
BY StructureInvariant, PTL DEF Structure, Rest

(* Replies never follow an unauthenticated datagram. *)
THEOREM ReplyPathSafe == Spec => []RepliesFollowAuthentication
BY StructureInvariant, PTL DEF Structure, Rest

-----------------------------------------------------------------------------
(* Without client port reuse nothing but the listener touches the cookie   *)
(* flag, and the flag then speaks of the datagram in hand.                 *)
CookieFlag ==
    /\ lpc = "handshake" => ~cookieVerified
    /\ lpc = "verdict" /\ cookieVerified => cur.kind = "cookied"
    /\ VerifiedOnly

(* Only a cookie-verified ClientHello is promoted, if sessions cannot set  *)
(* the flag.                                                               *)
THEOREM CookieGate ==
    ASSUME ~PortReuse
    PROVE  Spec => []VerifiedOnly
<1>1. Init => CookieFlag
  BY DEF Init, CookieFlag, VerifiedOnly
<1>2. Structure /\ CookieFlag /\ [Next]_vars => CookieFlag'
  <2> SUFFICES ASSUME Structure, CookieFlag, [Next]_vars PROVE CookieFlag'
    OBVIOUS
  <2> USE DEF Structure, Rest, MachineType, OneNascent, CookieFlag, VerifiedOnly
  <2>1. CASE Receive
    BY <2>1 DEF Receive, RouteByCid, Unroutable, RouteByAddr, RouteToPending, vars
  <2>2. CASE PendingPath
    BY <2>2 DEF PendingPath, PendingDrop, PendingReset, ClearCookieVerified,
       PendingHandshake, VerdictNoise, VerdictRefused, ListenerRests
  <2>3. ASSUME NEW s \in Session, Promotion(s)
        PROVE  CookieFlag'
    <3>1. CASE VerdictAdmit(s)
      BY <3>1 DEF VerdictAdmit
    <3>2. CASE Promote(s)
      BY <3>2 DEF Promote
    <3>3. CASE Spawn(s)
      BY <3>3 DEF Spawn, ListenerRests
    <3>4. CASE SpawnFails(s)
      BY <3>4 DEF SpawnFails
    <3>5. CASE BuryAddr(s)
      BY <3>5 DEF BuryAddr
    <3>6. CASE BuryCid(s)
      BY <3>6 DEF BuryCid, Forget, ListenerRests
    <3> QED
      BY <2>3, <3>1, <3>2, <3>3, <3>4, <3>5, <3>6 DEF Promotion
  <2>4. ASSUME NEW s \in Session, SessionStep(s)
        PROVE  CookieFlag'
    BY <2>4 DEF SessionStep, HandshakeRecv, HandshakeConsumes, HandshakeExpires, Establish,
       DropCidRoute, ReadRecord, DropAddrRoute, ClientReconnect, Reconnects, ChannelClosed, CleanAddr,
       CleanCid, ThreadExits, Forget, SessionReturns, KeepsMaps
  <2>5. ASSUME NEW s \in Session, SessionEvent(s)
        PROVE  CookieFlag'
    BY <2>5 DEF SessionEvent, DeadlinePasses, HandshakeFails, ReadEnds, IdleTimeout,
       SessionPanics, SessionReturns, KeepsMaps
  <2>6. ASSUME NEW o \in OtherConn,
               OtherReleases(o) \/ \E b \in Bucket : OtherAcquires(o, b)
        PROVE  CookieFlag'
    BY <2>6 DEF OtherReleases, OtherAcquires
  <2>7. CASE UNCHANGED vars
    BY <2>7 DEF vars
  <2> QED
    BY <2>1, <2>2, <2>3, <2>4, <2>5, <2>6, <2>7 DEF Next
<1>3. CookieFlag => VerifiedOnly
  BY DEF CookieFlag
<1> QED
  BY <1>1, <1>2, <1>3, StructureInvariant, PTL DEF Spec
-----------------------------------------------------------------------------
(* The quota.  QuotaBooks is inductive once the counters are naturals: a   *)
(* permit is returned by a holder, so the counts it lowers are positive.   *)

QuotaType ==
    /\ total \in Nat
    /\ perIp \in [Bucket -> Nat]
    /\ ipKeys \subseteq Bucket

QuotaInv == QuotaType /\ QuotaBooks

OtherHolders == {o \in OtherConn : others[o] # NoBucket}

(* A permit is charged to the bucket of a real address. *)
LEMMA PeerBucket ==
    ASSUME NEW a \in Addr PROVE BucketAt(a) \in Bucket /\ BucketAt(a) # NoBucket
BY DEF Bucket

(* The sets that are counted are finite. *)
LEMMA CountedFinite ==
    /\ IsFiniteSet(Holders) /\ IsFiniteSet(OtherHolders)
    /\ \A b \in Bucket : IsFiniteSet(HoldersOf(b)) /\ IsFiniteSet(OthersOf(b))
    /\ Cardinality(Holders) \in Nat /\ Cardinality(OtherHolders) \in Nat
    /\ \A b \in Bucket : /\ Cardinality(HoldersOf(b)) \in Nat
                         /\ Cardinality(OthersOf(b)) \in Nat
<1>1. /\ Holders \subseteq Session /\ OtherHolders \subseteq OtherConn
      /\ \A b \in Bucket : HoldersOf(b) \subseteq Session /\ OthersOf(b) \subseteq OtherConn
  BY DEF Holders, OtherHolders, HoldersOf, OthersOf
<1>2. /\ IsFiniteSet(Holders) /\ IsFiniteSet(OtherHolders)
      /\ \A b \in Bucket : IsFiniteSet(HoldersOf(b)) /\ IsFiniteSet(OthersOf(b))
  BY <1>1, FS_Subset
<1> QED
  BY <1>2, FS_CardinalityType

(* Counting one element more, or one fewer. *)
LEMMA CountedUp ==
    ASSUME NEW S, IsFiniteSet(S), NEW x, x \notin S
    PROVE  Cardinality(S \cup {x}) = Cardinality(S) + 1
BY FS_AddElement

LEMMA CountedDown ==
    ASSUME NEW S, IsFiniteSet(S), NEW x \in S
    PROVE  /\ Cardinality(S \ {x}) = Cardinality(S) - 1
           /\ Cardinality(S) \in Nat \ {0}
<1>1. IsFiniteSet(S \ {x}) /\ Cardinality(S \ {x}) \in Nat
  BY FS_Subset, FS_CardinalityType
<1>2. Cardinality((S \ {x}) \cup {x}) = Cardinality(S \ {x}) + 1
  BY <1>1, FS_AddElement
<1>3. (S \ {x}) \cup {x} = S
  OBVIOUS
<1> QED
  BY <1>1, <1>2, <1>3

(* Steps that move no permit leave the books alone. *)
LEMMA NoPermitMoves ==
    ASSUME QuotaInv, UNCHANGED <<total, perIp, ipKeys, others>>,
           Holders' = Holders, \A s \in Holders : peer'[s] = peer[s]
    PROVE  QuotaInv'
<1>1. \A b : HoldersOf(b)' = HoldersOf(b)
  BY DEF HoldersOf, BucketAt
<1>2. \A b : OthersOf(b)' = OthersOf(b)
  BY DEF OthersOf
<1> QED
  BY <1>1, <1>2 DEF QuotaInv, QuotaType, QuotaBooks

(* A session takes a permit. *)
LEMMA SessionAcquires ==
    ASSUME QuotaInv, NEW s \in Session, NEW a \in Addr, TryAcquire(BucketAt(a)),
           s \notin Holders, Holders' = Holders \cup {s}, peer'[s] = a,
           \A t \in Holders : peer'[t] = peer[t], UNCHANGED others
    PROVE  QuotaInv'
<1> DEFINE b == BucketAt(a)
<1>1. b \in Bucket
  BY PeerBucket
<1>2. Cardinality(Holders') = Cardinality(Holders) + 1
  BY CountedUp, CountedFinite
<1>3. HoldersOf(b)' = HoldersOf(b) \cup {s} /\ s \notin HoldersOf(b)
  BY DEF HoldersOf, BucketAt
<1>4. Cardinality(HoldersOf(b)') = Cardinality(HoldersOf(b)) + 1
  BY <1>1, <1>3, CountedUp, CountedFinite
<1>5. \A c : c # b => HoldersOf(c)' = HoldersOf(c)
  BY DEF HoldersOf, BucketAt
<1>6. OtherHolders' = OtherHolders /\ \A c : OthersOf(c)' = OthersOf(c)
  BY DEF OtherHolders, OthersOf
<1> QED
  BY <1>1, <1>2, <1>4, <1>5, <1>6, CountedFinite, QuotaAssumption
     DEF QuotaInv, QuotaType, QuotaBooks, OtherHolders, TryAcquire, Admits, IsFull

(* A session gives its permit back. *)
LEMMA SessionReleases ==
    ASSUME QuotaInv, NEW s \in Holders, peer[s] \in Addr,
           DropPermit(BucketAt(peer[s])), Holders' = Holders \ {s},
           \A t \in Holders \ {s} : peer'[t] = peer[t], UNCHANGED others
    PROVE  QuotaInv'
<1>1. PICK b \in Bucket : b = BucketAt(peer[s])
  BY PeerBucket
<1>2. /\ Cardinality(Holders') = Cardinality(Holders) - 1
      /\ Cardinality(Holders) \in Nat \ {0}
  BY CountedDown, CountedFinite
<1>3. HoldersOf(b)' = HoldersOf(b) \ {s} /\ s \in HoldersOf(b)
  BY <1>1 DEF HoldersOf, BucketAt
<1>4. /\ Cardinality(HoldersOf(b)') = Cardinality(HoldersOf(b)) - 1
      /\ Cardinality(HoldersOf(b)) \in Nat \ {0}
  BY <1>1, <1>3, CountedDown, CountedFinite
<1>5. \A c : c # b => HoldersOf(c)' = HoldersOf(c)
  BY <1>1 DEF HoldersOf, BucketAt
<1>6. OtherHolders' = OtherHolders /\ \A c : OthersOf(c)' = OthersOf(c)
  BY DEF OtherHolders, OthersOf
<1> QED
  BY <1>1, <1>2, <1>4, <1>5, <1>6, CountedFinite, QuotaAssumption
     DEF QuotaInv, QuotaType, QuotaBooks, OtherHolders, DropPermit

(* The other listener takes a permit. *)
LEMMA OtherAcquiresKeepsBooks ==
    ASSUME QuotaInv, MachineType, NEW o \in OtherConn, NEW b \in Bucket,
           OtherAcquires(o, b)
    PROVE  QuotaInv'
<1>1. Holders' = Holders /\ \A c : HoldersOf(c)' = HoldersOf(c)
  BY DEF OtherAcquires, Holders, HoldersOf, HoldsPermit, BucketAt
<1>2. OtherHolders' = OtherHolders \cup {o} /\ o \notin OtherHolders
  BY DEF OtherAcquires, OtherHolders, MachineType
<1>3. OthersOf(b)' = OthersOf(b) \cup {o} /\ o \notin OthersOf(b)
  BY DEF OtherAcquires, OthersOf, MachineType
<1>4. \A c \in Bucket : c # b => OthersOf(c)' = OthersOf(c)
  BY DEF OtherAcquires, OthersOf, MachineType
<1>5. /\ Cardinality(OtherHolders') = Cardinality(OtherHolders) + 1
      /\ Cardinality(OthersOf(b)') = Cardinality(OthersOf(b)) + 1
  BY <1>2, <1>3, CountedUp, CountedFinite
<1> QED
  BY <1>1, <1>4, <1>5, CountedFinite, QuotaAssumption
     DEF QuotaInv, QuotaType, QuotaBooks, OtherHolders, OtherAcquires, TryAcquire,
         Admits, IsFull

(* The other listener gives a permit back. *)
LEMMA OtherReleasesKeepsBooks ==
    ASSUME QuotaInv, MachineType, NEW o \in OtherConn, OtherReleases(o)
    PROVE  QuotaInv'
<1>1. PICK b \in Bucket : b = others[o]
  BY DEF OtherReleases, MachineType
<1>2. Holders' = Holders /\ \A c : HoldersOf(c)' = HoldersOf(c)
  BY DEF OtherReleases, Holders, HoldersOf, HoldsPermit, BucketAt
<1>3. OtherHolders' = OtherHolders \ {o} /\ o \in OtherHolders
  BY DEF OtherReleases, OtherHolders, MachineType
<1>4. OthersOf(b)' = OthersOf(b) \ {o} /\ o \in OthersOf(b)
  BY <1>1 DEF OtherReleases, OthersOf, MachineType
<1>5. \A c \in Bucket : c # b => OthersOf(c)' = OthersOf(c)
  BY <1>1 DEF OtherReleases, OthersOf, MachineType
<1>6. /\ Cardinality(OtherHolders') = Cardinality(OtherHolders) - 1
      /\ Cardinality(OtherHolders) \in Nat \ {0}
      /\ Cardinality(OthersOf(b)') = Cardinality(OthersOf(b)) - 1
      /\ Cardinality(OthersOf(b)) \in Nat \ {0}
  BY <1>1, <1>3, <1>4, CountedDown, CountedFinite
<1> QED
  BY <1>1, <1>2, <1>5, <1>6, CountedFinite, QuotaAssumption
     DEF QuotaInv, QuotaType, QuotaBooks, OtherHolders, OtherReleases, DropPermit

(* Both counts always equal the permits that exist, within both caps. *)
THEOREM QuotaInvariant == Spec => []QuotaInv
<1>1. Init => QuotaInv
  <2> SUFFICES ASSUME Init PROVE QuotaInv
    OBVIOUS
  <2>1. Holders = {} /\ OtherHolders = {}
    BY DEF Init, Holders, HoldsPermit, OtherHolders
  <2>2. \A b \in Bucket : HoldersOf(b) = {} /\ OthersOf(b) = {}
    BY <2>1 DEF Init, HoldersOf, OthersOf
  <2>3. Cardinality({}) = 0
    BY FS_EmptySet
  <2>4. QuotaType /\ total = 0 /\ \A b \in Bucket : perIp[b] = 0
    BY DEF Init, QuotaInit, QuotaType
  <2>5. ipKeys = {b \in Bucket : perIp[b] > 0}
    BY <2>4 DEF Init, QuotaInit
  <2> QED
    BY <2>1, <2>2, <2>3, <2>4, <2>5, QuotaAssumption
       DEF QuotaInv, QuotaBooks, OtherHolders
<1>2. Structure /\ QuotaInv /\ [Next]_vars => QuotaInv'
  <2> SUFFICES ASSUME Structure, QuotaInv, [Next]_vars PROVE QuotaInv'
    OBVIOUS
  <2> USE DEF Structure, MachineType
  <2>1. CASE Receive
    <3>1. Holders' = Holders /\ peer' = peer /\ UNCHANGED <<total, perIp, ipKeys, others>>
      BY <2>1 DEF Receive, RouteByCid, Unroutable, RouteByAddr, RouteToPending, vars,
         quotaVars, Holders, HoldsPermit
    <3> QED BY <3>1, NoPermitMoves
  <2>2. CASE PendingPath
    <3>1. Holders' = Holders /\ peer' = peer /\ UNCHANGED <<total, perIp, ipKeys, others>>
      BY <2>2 DEF PendingPath, PendingDrop, PendingReset, PendingHandshake,
         VerdictNoise, VerdictRefused, RefuseAcquire, quotaVars, Holders, HoldsPermit
    <3> QED BY <3>1, NoPermitMoves
  <2>3. ASSUME NEW s \in Session, VerdictAdmit(s)
        PROVE  QuotaInv'
    <3>1. /\ cur.src \in Addr /\ peer'[s] = cur.src /\ TryAcquire(BucketAt(cur.src))
          /\ s \notin Holders /\ Holders' = Holders \cup {s} /\ UNCHANGED others
          /\ \A t \in Holders : peer'[t] = peer[t]
      BY <2>3 DEF VerdictAdmit, Rest, Attempt, Holders, HoldsPermit
    <3> QED BY <3>1, SessionAcquires
  <2>4. ASSUME NEW s \in Session, SpawnFails(s)
        PROVE  QuotaInv'
    <3>1. /\ peer[s] \in Addr /\ DropPermit(BucketAt(peer[s])) /\ s \in Holders
          /\ Holders' = Holders \ {s} /\ UNCHANGED others /\ peer' = peer
      BY <2>4 DEF SpawnFails, Rest, Keyed, Holders, HoldsPermit
    <3> QED BY <3>1, SessionReleases
  <2>5. ASSUME NEW s \in Session, ThreadExits(s)
        PROVE  QuotaInv'
    <3>1. /\ peer[s] \in Addr /\ DropPermit(BucketAt(peer[s])) /\ s \in Holders
          /\ Holders' = Holders \ {s} /\ UNCHANGED others
          /\ \A t \in Holders \ {s} : peer'[t] = peer[t]
      BY <2>5 DEF ThreadExits, Forget, Rest, Keyed, Holders, HoldsPermit
    <3> QED BY <3>1, SessionReleases
  <2>6. ASSUME NEW s \in Session,
               Promote(s) \/ Spawn(s) \/ BuryAddr(s) \/ BuryCid(s)
        PROVE  QuotaInv'
    <3>1. /\ Holders' = Holders /\ \A t \in Holders : peer'[t] = peer[t]
          /\ UNCHANGED <<total, perIp, ipKeys, others>>
      BY <2>6 DEF Promote, Spawn, BuryAddr, BuryCid, Forget, quotaVars, Holders,
         HoldsPermit
    <3> QED BY <3>1, NoPermitMoves
  <2>7. ASSUME NEW s \in Session, SessionStep(s), ~ThreadExits(s)
        PROVE  QuotaInv'
    <3>1. /\ Holders' = Holders /\ peer' = peer
          /\ UNCHANGED <<total, perIp, ipKeys, others>>
      BY <2>7 DEF SessionStep, HandshakeRecv, HandshakeConsumes, HandshakeExpires, Establish,
         DropCidRoute, ReadRecord, DropAddrRoute, ClientReconnect, ChannelClosed, CleanAddr, CleanCid,
         SessionReturns, KeepsMaps, quotaVars, Holders, HoldsPermit
    <3> QED BY <3>1, NoPermitMoves
  <2>8. ASSUME NEW s \in Session, SessionEvent(s)
        PROVE  QuotaInv'
    <3>1. /\ Holders' = Holders /\ peer' = peer
          /\ UNCHANGED <<total, perIp, ipKeys, others>>
      BY <2>8 DEF SessionEvent, DeadlinePasses, HandshakeFails, ReadEnds, IdleTimeout,
         SessionPanics, SessionReturns, KeepsMaps, quotaVars, Holders, HoldsPermit
    <3> QED BY <3>1, NoPermitMoves
  <2>9. ASSUME NEW o \in OtherConn,
               OtherReleases(o) \/ \E b \in Bucket : OtherAcquires(o, b)
        PROVE  QuotaInv'
    BY <2>9, OtherAcquiresKeepsBooks, OtherReleasesKeepsBooks
  <2>10. CASE UNCHANGED vars
    <3>1. Holders' = Holders /\ peer' = peer /\ UNCHANGED <<total, perIp, ipKeys, others>>
      BY <2>10 DEF vars, quotaVars, Holders, HoldsPermit
    <3> QED BY <3>1, NoPermitMoves
  <2> QED
    BY <2>1, <2>2, <2>3, <2>4, <2>5, <2>6, <2>7, <2>8, <2>9, <2>10
       DEF Next, Promotion
<1> QED
  BY <1>1, <1>2, StructureInvariant, PTL DEF Spec

(* Every teardown path settles the books. *)
THEOREM QuotaSafe == Spec => []QuotaBooks
BY QuotaInvariant, PTL DEF QuotaInv

(* Type correctness; that no counter underflows is part of it. *)
THEOREM TypeCorrect == Spec => []TypeOK
<1>1. Structure /\ QuotaInv => TypeOK
  BY DEF Structure, MachineType, QuotaInv, QuotaType, TypeOK
<1> QED
  BY <1>1, StructureInvariant, QuotaInvariant, PTL

=============================================================================
