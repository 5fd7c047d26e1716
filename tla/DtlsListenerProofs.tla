------------------------- MODULE DtlsListenerProofs -------------------------
(***************************************************************************)
(* Proofs about DtlsListener, for any number of sources, connections and   *)
(* permits.                                                                *)
(***************************************************************************)
EXTENDS DtlsListener, FiniteSetTheorems, TLAPS

(* TypeOK without the quota counters, whose lower bound needs the books. *)
MachineType ==
    /\ lpc \in {"recv", "probe", "listen", "acquire", "promote"}
    /\ cur \in Dgram
    /\ pending \in BOOLEAN
    /\ stamp \in Addr \cup {NoAddr}
    /\ conns \in [Addr -> Conn \cup {NoConn}]
    /\ phase \in [Conn -> Running \cup {"free", "closing", "leaving"}]
    /\ peer \in [Conn -> Addr \cup {NoAddr}]
    /\ replyTo \in [Conn -> Addr \cup {NoAddr}]
    /\ queued \in [Conn -> 0 .. ChannelDepth]
    /\ expired \in [Conn -> BOOLEAN]
    /\ cookies \subseteq Addr
    /\ others \in [OtherConn -> Bucket \cup {NoBucket}]

(* The datagram in hand has a source without an entry; from the cookie's   *)
(* verification on, it is the stamped source and was sent a cookie.        *)
Attempt ==
    /\ cur.cookie \in cookies \cup {NoAddr}
    /\ lpc # "recv" => cur.src \in Addr /\ conns[cur.src] = NoConn
    /\ lpc \in {"acquire", "promote"} => stamp = cur.src /\ cur.src \in cookies

(* An entry is under the address of its connection, for as long as the     *)
(* connection exists.                                                      *)
EntriesOwn ==
    \A a \in Addr : \A c \in Conn :
        conns[a] = c /\ phase[c] # "free" => peer[c] = a

Structure == MachineType /\ Attempt /\ EntriesOwn /\ CookieBound

USE DtlsAssumption
USE DEF Running, listenerVars, connVars

-----------------------------------------------------------------------------
(* Whatever arrives has a real source, and no forged cookie. *)
LEMMA ArrivalTyped ==
    ASSUME MachineType, NEW d \in Arrivals
    PROVE  d \in Dgram /\ d.src \in Addr /\ d.cookie \in cookies \cup {NoAddr}
<1>1. CASE d \in {[src |-> a, hello |-> FALSE, cookie |-> NoAddr] : a \in Addr}
  <2>1. PICK a \in Addr : d = [src |-> a, hello |-> FALSE, cookie |-> NoAddr]
    BY <1>1
  <2> QED
    BY <2>1 DEF Dgram
<1>2. CASE d \in {[src |-> a, hello |-> TRUE, cookie |-> k] :
                    a \in Addr, k \in cookies \cup {NoAddr}}
  <2>1. PICK a \in Addr, k \in cookies \cup {NoAddr} :
          d = [src |-> a, hello |-> TRUE, cookie |-> k]
    BY <1>2
  <2>2. k \in Addr \cup {NoAddr}
    BY DEF MachineType
  <2> QED
    BY <2>1, <2>2 DEF Dgram
<1> QED
  BY <1>1, <1>2 DEF Arrivals

(* A dropped stream leaves an empty channel. *)
LEMMA DropTyped ==
    ASSUME MachineType, NEW c \in Conn, DropStream(c)
    PROVE  queued' \in [Conn -> 0 .. ChannelDepth] /\ expired' \in [Conn -> BOOLEAN]
<1>1. 0 \in 0 .. ChannelDepth
  OBVIOUS
<1>2. queued' \in [Conn -> 0 .. ChannelDepth]
  BY <1>1 DEF MachineType, DropStream
<1>3. expired' \in [Conn -> BOOLEAN]
  BY DEF MachineType, DropStream
<1> QED
  BY <1>2, <1>3

(* The demultiplexer's critical section. *)
LEMMA ReceiveKeepsStructure ==
    ASSUME Structure, NEW d \in Arrivals, Receive(d)
    PROVE  Structure'
<1> USE DEF Structure, Attempt, EntriesOwn, CookieBound
<1>1. d \in Dgram /\ d.src \in Addr /\ d.cookie \in cookies \cup {NoAddr}
  BY ArrivalTyped
<1>2. CASE conns[d.src] # NoConn /\ RouteToConn(d, conns[d.src])
  <2>1. conns[d.src] \in Conn
    BY <1>1, <1>2 DEF MachineType
  <2>2. queued' \in [Conn -> 0 .. ChannelDepth]
    BY <1>2, <2>1 DEF RouteToConn, MachineType
  <2>3. MachineType'
    BY <1>2, <2>2 DEF Receive, RouteToConn, MachineType
  <2> QED
    BY <1>2, <2>3 DEF Receive, RouteToConn
<1>3. CASE RouteToCookie(d)
  <2>1. conns' \in [Addr -> Conn \cup {NoConn}] /\ conns'[d.src] = NoConn
    BY <1>1, <1>3 DEF RouteToCookie, MachineType
  <2>2. MachineType'
    BY <1>1, <1>3, <2>1 DEF Receive, RouteToCookie, MachineType
  <2>3. EntriesOwn'
    BY <1>1, <1>3 DEF Receive, RouteToCookie, MachineType
  <2> QED
    BY <1>1, <1>3, <2>1, <2>2, <2>3 DEF Receive, RouteToCookie
<1> QED
  BY <1>2, <1>3 DEF Receive

(* The pending stream and the admission. *)
LEMMA PendingKeepsStructure ==
    ASSUME Structure,
           Probe \/ PendingFails \/ ListenRetry \/ ListenError \/ ListenAccepted \/ Acquire
    PROVE  Structure'
<1> USE DEF Structure, Attempt, EntriesOwn, CookieBound
<1>1. /\ lpc # "recv" /\ UNCHANGED <<cur, conns, phase, peer, replyTo, queued, expired, others>>
      /\ cookies \subseteq cookies' /\ cookies' \subseteq cookies \cup {stamp'}
  BY DEF Probe, PendingFails, ListenRetry, ListenError, ListenAccepted, Acquire, GenerateCookie
<1>2. /\ lpc' \in {"recv", "probe", "listen", "acquire", "promote"}
      /\ pending' \in BOOLEAN /\ stamp' \in Addr \cup {NoAddr}
      /\ cookies' # cookies => stamp' = cur.src
      /\ stamp' # stamp => stamp' = cur.src
  BY <1>1 DEF MachineType, Probe, PendingFails, ListenRetry, ListenError, ListenAccepted,
              Acquire, StampPending, GenerateCookie
<1>3. MachineType'
  BY <1>1, <1>2 DEF MachineType
<1>4. lpc' \in {"acquire", "promote"} => stamp' = cur.src /\ cur.src \in cookies
  BY <1>1 DEF Probe, PendingFails, ListenRetry, ListenError, ListenAccepted, Acquire,
              StampPending, CookieVerifies
<1> QED
  BY <1>1, <1>3, <1>4

(* The verified source gets its entry and its thread, or neither. *)
LEMMA PromotionKeepsStructure ==
    ASSUME Structure, SpawnFails \/ \E c \in Conn : Promote(c)
    PROVE  Structure'
<1> USE DEF Structure, Attempt, EntriesOwn, CookieBound
<1>1. CASE SpawnFails
  <2>1. MachineType'
    BY <1>1 DEF SpawnFails, MachineType
  <2> QED
    BY <1>1, <2>1 DEF SpawnFails, MachineType
<1>2. ASSUME NEW c \in Conn, Promote(c)
      PROVE  Structure'
  <2>1. MachineType'
    BY <1>2 DEF Promote, MachineType
  <2>2. EntriesOwn'
    BY <1>2 DEF Promote, MachineType
  <2>3. CookieBound'
    BY <1>2 DEF Promote, MachineType
  <2> QED
    BY <1>2, <2>1, <2>2, <2>3 DEF Promote
<1> QED
  BY <1>1, <1>2

(* A connection's thread runs, and ends. *)
LEMMA ThreadKeepsStructure ==
    ASSUME Structure, NEW c \in Conn, Thread(c)
    PROVE  Structure'
<1> USE DEF Structure, Attempt, EntriesOwn, CookieBound
<1>1. CASE Unmap(c)
  <2>1. MachineType'
    BY <1>1 DEF Unmap, MachineType
  <2> QED
    BY <1>1, <2>1 DEF Unmap, MachineType
<1>2. CASE Finish(c)
  <2>1. MachineType'
    BY <1>2 DEF Finish, MachineType
  <2> QED
    BY <1>2, <2>1 DEF Finish, MachineType
<1>3. CASE ~Unmap(c) /\ ~Finish(c)
  <2>1. ThreadOnly
    BY <1>3 DEF Thread, ThreadSteps, AcceptReads, AcceptExpires, ServeReads, HangUp,
                AcceptFails, ServeIdles, Panics, TimePasses, ThreadOnly
  <2>2. /\ queued' \in [Conn -> 0 .. ChannelDepth] /\ expired' \in [Conn -> BOOLEAN]
        /\ phase[c] # "free"
        /\ phase' = phase \/ \E p \in {"serving", "closing", "leaving"} :
                               phase' = [phase EXCEPT ![c] = p]
    <3> USE DEF MachineType
    <3>1. CASE AcceptReads(c)
      BY <3>1 DEF AcceptReads
    <3>2. CASE ServeReads(c) /\ Close(c)
      BY <3>2, DropTyped DEF ServeReads, Close
    <3>3. CASE ServeReads(c) /\ ~Close(c)
      <4>1. queued[c] - 1 \in 0 .. ChannelDepth
        BY <3>3 DEF ServeReads
      <4>2. queued' \in [Conn -> 0 .. ChannelDepth]
        BY <3>3, <4>1 DEF ServeReads
      <4>3. expired' \in [Conn -> BOOLEAN]
        BY <3>3 DEF ServeReads
      <4> QED
        BY <3>3, <4>2, <4>3 DEF ServeReads
    <3>4. CASE AcceptExpires(c) \/ HangUp(c) \/ AcceptFails(c) \/ ServeIdles(c)
      BY <3>4, DropTyped DEF AcceptExpires, HangUp, AcceptFails, ServeIdles, Close
    <3>5. CASE Panics(c)
      BY <3>5, DropTyped DEF Panics
    <3>6. CASE TimePasses(c)
      BY <3>6 DEF TimePasses
    <3> QED
      BY <1>3, <3>1, <3>2, <3>3, <3>4, <3>5, <3>6 DEF Thread, ThreadSteps
  <2>3. MachineType'
    BY <2>1, <2>2 DEF MachineType, ThreadOnly
  <2> QED
    BY <2>1, <2>2, <2>3 DEF ThreadOnly, MachineType
<1> QED
  BY <1>1, <1>2, <1>3

(* The other listener comes and goes. *)
LEMMA OtherKeepsStructure ==
    ASSUME Structure, Other
    PROVE  Structure'
<1>1. others' \in [OtherConn -> Bucket \cup {NoBucket}]
  BY DEF Structure, MachineType, Other, OtherAcquires, OtherReleases
<1>2. UNCHANGED <<listenerVars, conns, connVars>>
  BY DEF Other, OtherAcquires, OtherReleases
<1> QED
  BY <1>1, <1>2 DEF Structure, MachineType, Attempt, EntriesOwn, CookieBound

(* The listener's steps and the threads' keep to the structure. *)
THEOREM DtlsStructure == Spec => []Structure
<1>1. Init => Structure
  <2> SUFFICES ASSUME Init PROVE Structure
    OBVIOUS
  <2>1. cur \in Dgram /\ cur.cookie = NoAddr
    BY DEF Init, NoDgram, Dgram
  <2>2. queued \in [Conn -> 0 .. ChannelDepth]
    BY DEF Init
  <2>3. expired \in [Conn -> BOOLEAN]
    BY DEF Init
  <2>4. MachineType
    BY <2>1, <2>2, <2>3 DEF Init, MachineType
  <2> QED
    BY <2>1, <2>4 DEF Init, Structure, Attempt, EntriesOwn, CookieBound
<1>2. Structure /\ [Next]_vars => Structure'
  <2> SUFFICES ASSUME Structure, [Next]_vars PROVE Structure'
    OBVIOUS
  <2>1. CASE Listener
    BY <2>1, ReceiveKeepsStructure, PendingKeepsStructure, PromotionKeepsStructure DEF Listener
  <2>2. CASE Other
    BY <2>2, OtherKeepsStructure
  <2>3. CASE UNCHANGED vars
    BY <2>3 DEF vars, Structure, MachineType, Attempt, EntriesOwn, CookieBound
  <2> QED
    BY <2>1, <2>2, <2>3, ThreadKeepsStructure DEF Next
<1> QED
  BY <1>1, <1>2, PTL DEF Spec

(* Only a source that returned its own cookie has a connection, and the    *)
(* connection's datagrams go to that source.                               *)
THEOREM CookieSafe == Spec => []CookieBound
BY DtlsStructure, PTL DEF Structure

-----------------------------------------------------------------------------
(* What SlotLost says of one step. *)
SlotStep ==
    \A c \in Conn :
        (phase[c] \in Running /\ HasSender(c) /\ phase'[c] \in Running /\ ~HasSender(c)')
        => \E e \in Conn \ {c} : peer[e] = peer[c] /\ phase[e] = "closing"
                                 /\ phase'[e] = "leaving"

(* A running connection loses its entry to nobody but an earlier one of    *)
(* the same address that cleans up late.                                   *)
THEOREM SlotSafe == Spec => SlotLost
<1>1. Structure /\ [Next]_vars => SlotStep
  <2> SUFFICES ASSUME Structure, [Next]_vars, NEW c \in Conn, phase[c] \in Running,
                      HasSender(c), phase'[c] \in Running, ~HasSender(c)'
               PROVE  \E e \in Conn \ {c} : peer[e] = peer[c] /\ phase[e] = "closing"
                                             /\ phase'[e] = "leaving"
    BY DEF SlotStep
  <2> USE DEF Structure, MachineType, HasSender
  <2>1. peer[c] \in Addr /\ conns[peer[c]] = c
    BY DEF CookieBound
  <2>2. ASSUME UNCHANGED <<conns, peer>> PROVE FALSE
    BY <2>2
  <2>3. ASSUME NEW d \in Arrivals, Receive(d) PROVE FALSE
    <3>1. d.src \in Addr
      BY ArrivalTyped
    <3>2. CASE RouteToCookie(d)
      BY <2>1, <2>3, <3>1, <3>2 DEF Receive, RouteToCookie
    <3>3. CASE ~RouteToCookie(d)
      BY <2>2, <2>3, <3>3 DEF Receive, RouteToConn
    <3> QED
      BY <3>2, <3>3
  <2>4. CASE Probe \/ PendingFails \/ ListenRetry \/ ListenError \/ ListenAccepted \/ Acquire
    BY <2>2, <2>4 DEF Probe, PendingFails, ListenRetry, ListenError, ListenAccepted, Acquire
  <2>5. CASE SpawnFails
    BY <2>1, <2>5 DEF SpawnFails, Attempt
  <2>6. ASSUME NEW e \in Conn, Promote(e) PROVE FALSE
    BY <2>1, <2>6 DEF Promote, Attempt
  <2>7. CASE Other
    BY <2>2, <2>7 DEF Other, OtherAcquires, OtherReleases
  <2>8. ASSUME NEW e \in Conn, Thread(e), ~Unmap(e) PROVE FALSE
    <3>1. CASE Finish(e)
      BY <2>1, <3>1 DEF Finish
    <3>2. CASE ~Finish(e)
      BY <2>2, <2>8, <3>2 DEF Thread, ThreadSteps, AcceptReads, AcceptExpires, ServeReads,
         HangUp, AcceptFails, ServeIdles, Panics, TimePasses, ThreadOnly
    <3> QED
      BY <3>1, <3>2
  <2>9. ASSUME NEW e \in Conn, Unmap(e)
        PROVE  e # c /\ peer[e] = peer[c] /\ phase[e] = "closing" /\ phase'[e] = "leaving"
    BY <2>1, <2>9 DEF Unmap
  <2>10. CASE UNCHANGED vars
    BY <2>2, <2>10 DEF vars
  <2> QED
    BY <2>3, <2>4, <2>5, <2>6, <2>7, <2>8, <2>9, <2>10 DEF Next, Listener
<1> QED
  BY <1>1, DtlsStructure, PTL DEF Spec, SlotLost, SlotStep

-----------------------------------------------------------------------------
(* The quota.  A permit is with the listener, a thread or the other        *)
(* listener; each step moves at most one.                                  *)

QuotaType == total \in Nat /\ perIp \in [Bucket -> Nat] /\ ipKeys \subseteq Bucket

QuotaInv == QuotaType /\ PermitsCounted

(* A permit is charged to the bucket of a real address. *)
LEMMA PeerBucket ==
    ASSUME NEW a \in Addr PROVE BucketAt(a) \in Bucket /\ BucketAt(a) # NoBucket
BY DEF Bucket

(* What is counted is finite. *)
LEMMA CountedFinite ==
    /\ IsFiniteSet(Holders) /\ IsFiniteSet(OtherHolders)
    /\ \A b \in Bucket : IsFiniteSet(HoldersOf(b)) /\ IsFiniteSet(OthersOf(b))
    /\ Cardinality(Holders) \in Nat /\ Cardinality(OtherHolders) \in Nat
    /\ \A b \in Bucket : Cardinality(HoldersOf(b)) \in Nat /\ Cardinality(OthersOf(b)) \in Nat
<1>1. /\ Holders \subseteq Conn /\ OtherHolders \subseteq OtherConn
      /\ \A b \in Bucket : HoldersOf(b) \subseteq Conn /\ OthersOf(b) \subseteq OtherConn
  BY DEF Holders, OtherHolders, HoldersOf, OthersOf
<1>2. /\ IsFiniteSet(Holders) /\ IsFiniteSet(OtherHolders)
      /\ \A b \in Bucket : IsFiniteSet(HoldersOf(b)) /\ IsFiniteSet(OthersOf(b))
  BY <1>1, FS_Subset
<1> QED
  BY <1>2, FS_CardinalityType

(* Counting one element more, or one fewer. *)
LEMMA OneMore ==
    ASSUME NEW S, IsFiniteSet(S), NEW x, x \notin S
    PROVE  Cardinality(S \cup {x}) = Cardinality(S) + 1
BY FS_AddElement

LEMMA OneFewer ==
    ASSUME NEW S, IsFiniteSet(S), NEW x \in S
    PROVE  Cardinality(S) \in Nat \ {0} /\ Cardinality(S \ {x}) = Cardinality(S) - 1
BY FS_RemoveElement, FS_EmptySet, FS_CardinalityType

(* Steps that move no permit leave the books alone. *)
LEMMA NoPermitMoves ==
    ASSUME QuotaInv, UNCHANGED <<total, perIp, ipKeys, others>>, Holders' = Holders,
           \A c \in Holders : peer'[c] = peer[c],
           lpc' = "promote" <=> lpc = "promote", lpc = "promote" => UNCHANGED cur
    PROVE  QuotaInv'
<1>1. /\ \A b : HoldersOf(b)' = HoldersOf(b) /\ OthersOf(b)' = OthersOf(b)
      /\ OtherHolders' = OtherHolders
  BY DEF HoldersOf, OthersOf, OtherHolders, BucketAt
<1>2. InHand' = InHand /\ \A b : InHandOf(b)' = InHandOf(b)
  BY DEF InHand, InHandOf, BucketAt
<1> QED
  BY <1>1, <1>2 DEF QuotaInv, QuotaType, PermitsCounted

(* The listener takes a permit in hand, or drops the one it has. *)
LEMMA ListenerPermit ==
    ASSUME QuotaInv, NEW a \in Addr, cur.src = a,
           UNCHANGED <<cur, phase, peer, others>>,
           \/ TryAcquire(BucketAt(a)) /\ lpc # "promote" /\ lpc' = "promote"
           \/ DropPermit(BucketAt(a)) /\ lpc = "promote" /\ lpc' # "promote"
    PROVE  QuotaInv'
<1>1. PICK b \in Bucket : b = BucketAt(a)
  BY PeerBucket
<1>2. /\ Holders' = Holders /\ OtherHolders' = OtherHolders
      /\ \A k : HoldersOf(k)' = HoldersOf(k) /\ OthersOf(k)' = OthersOf(k)
  BY DEF Holders, HoldersOf, OtherHolders, OthersOf, HoldsPermit, BucketAt
<1>3. CASE TryAcquire(BucketAt(a)) /\ lpc # "promote" /\ lpc' = "promote"
  <2>1. InHand = 0 /\ InHand' = 1 /\ InHandOf(b) = 0 /\ InHandOf(b)' = 1
    BY <1>1, <1>3 DEF InHand, InHandOf, BucketAt
  <2>2. \A k \in Bucket : k # b => InHandOf(k)' = InHandOf(k)
    BY <1>1, <1>3 DEF InHandOf, BucketAt
  <2> QED
    BY <1>1, <1>2, <1>3, <2>1, <2>2, CountedFinite, QuotaAssumption
       DEF QuotaInv, QuotaType, PermitsCounted, TryAcquire, Admits, IsFull
<1>4. CASE DropPermit(BucketAt(a)) /\ lpc = "promote" /\ lpc' # "promote"
  <2>1. InHand = 1 /\ InHand' = 0 /\ InHandOf(b) = 1 /\ InHandOf(b)' = 0
    BY <1>1, <1>4 DEF InHand, InHandOf, BucketAt
  <2>2. \A k \in Bucket : k # b => InHandOf(k)' = InHandOf(k)
    BY <1>1, <1>4 DEF InHandOf, BucketAt
  <2>3. DropPermit(b)
    BY <1>1, <1>4
  <2> DEFINE h == Cardinality(Holders)
             o == Cardinality(OtherHolders)
             hb == Cardinality(HoldersOf(b))
             ob == Cardinality(OthersOf(b))
  <2>4. h \in Nat /\ o \in Nat /\ hb \in Nat /\ ob \in Nat
    BY CountedFinite
  <2>5. total = h + o + 1 /\ total' = total - 1
    BY <2>1, <2>3 DEF QuotaInv, PermitsCounted, DropPermit
  <2> HIDE DEF h, o, hb, ob
  <2>6. total' = h + o /\ total' = total - 1 /\ total' \in Nat
    BY ONLY <2>4, <2>5
  <2>7. perIp[b] = hb + ob + 1
    BY <2>1 DEF QuotaInv, PermitsCounted, hb, ob
  <2>8. perIp[b] \in Nat \ {0} /\ perIp[b] - 1 = hb + ob
    BY ONLY <2>7, <2>4
  <2>9. /\ perIp \in [Bucket -> Nat] /\ perIp' = [perIp EXCEPT ![b] = @ - 1]
        /\ ipKeys' = IF perIp[b] = 1 THEN ipKeys \ {b} ELSE ipKeys
    BY <2>3 DEF QuotaInv, QuotaType, DropPermit
  <2>10. perIp' \in [Bucket -> Nat] /\ perIp'[b] = perIp[b] - 1
        /\ \A k \in Bucket : k # b => perIp'[k] = perIp[k]
    BY <2>9, <2>8
  <2>11. ipKeys' = {k \in Bucket : perIp'[k] > 0}
    BY <2>9, <2>10, <2>8 DEF QuotaInv, PermitsCounted
  <2>12. \A k \in Bucket : k # b =>
           perIp'[k] = Cardinality(HoldersOf(k)') + Cardinality(OthersOf(k)') + InHandOf(k)'
           /\ perIp'[k] <= MaxPerIp
    BY <1>2, <2>2, <2>10 DEF QuotaInv, PermitsCounted
  <2>13. /\ perIp'[b] = Cardinality(HoldersOf(b)') + Cardinality(OthersOf(b)') + InHandOf(b)'
         /\ perIp'[b] <= MaxPerIp
    <3>1. perIp'[b] = hb + ob /\ perIp[b] <= MaxPerIp
      BY <2>10, <2>8 DEF QuotaInv, PermitsCounted
    <3>2. perIp'[b] <= MaxPerIp
      BY <2>10, <2>8, <3>1, QuotaAssumption
    <3>3. hb + ob = hb + ob + 0
      BY ONLY <2>4
    <3> QED
      BY <1>2, <2>1, <3>1, <3>2, <3>3 DEF hb, ob
  <2>14. /\ total' = Cardinality(Holders') + Cardinality(OtherHolders') + InHand'
         /\ total' <= MaxConnections
    <3>1. total <= MaxConnections
      BY DEF QuotaInv, PermitsCounted
    <3>2. total' <= MaxConnections
      BY <2>6, <3>1, QuotaAssumption DEF QuotaInv, QuotaType
    <3>3. h + o = h + o + 0
      BY ONLY <2>4
    <3> QED
      BY <1>2, <2>1, <2>6, <3>2, <3>3 DEF h, o
  <2> QED
    BY <2>6, <2>10, <2>11, <2>12, <2>13, <2>14 DEF QuotaInv, QuotaType, PermitsCounted
<1> QED
  BY <1>3, <1>4

(* The permit in hand moves to the new thread. *)
LEMMA PromotePermit ==
    ASSUME Structure, QuotaInv, NEW c \in Conn, Promote(c)
    PROVE  QuotaInv'
<1>1. cur.src \in Addr /\ lpc = "promote" /\ lpc' = "recv"
  BY DEF Promote, Structure, Attempt
<1>2. PICK b \in Bucket : b = BucketAt(cur.src)
  BY <1>1, PeerBucket
<1>3. /\ c \notin Holders /\ Holders' = Holders \cup {c} /\ peer'[c] = cur.src
      /\ \A t \in Holders : peer'[t] = peer[t]
  BY DEF Promote, Structure, MachineType, Holders, HoldsPermit
<1>4. HoldersOf(b)' = HoldersOf(b) \cup {c} /\ c \notin HoldersOf(b)
  BY <1>2, <1>3 DEF HoldersOf, BucketAt
<1>5. \A k : k # b => HoldersOf(k)' = HoldersOf(k)
  BY <1>2, <1>3 DEF HoldersOf, BucketAt
<1>6. OtherHolders' = OtherHolders /\ \A k : OthersOf(k)' = OthersOf(k)
  BY DEF Promote, OtherHolders, OthersOf
<1>7. /\ Cardinality(Holders') = Cardinality(Holders) + 1
      /\ Cardinality(HoldersOf(b)') = Cardinality(HoldersOf(b)) + 1
  BY <1>2, <1>3, <1>4, OneMore, CountedFinite
<1>8. /\ InHand = 1 /\ InHand' = 0 /\ InHandOf(b) = 1
      /\ \A k : InHandOf(k)' = 0
      /\ \A k : k # b => InHandOf(k) = 0
  BY <1>1, <1>2 DEF InHand, InHandOf
<1> QED
  BY <1>5, <1>6, <1>7, <1>8, CountedFinite
     DEF QuotaInv, QuotaType, PermitsCounted, Promote, quotaVars

(* A thread gives its permit back. *)
LEMMA FinishPermit ==
    ASSUME Structure, QuotaInv, NEW c \in Conn, Finish(c)
    PROVE  QuotaInv'
<1>1. peer[c] \in Addr /\ c \in Holders
  BY DEF Finish, Structure, MachineType, CookieBound, Holders, HoldsPermit
<1>2. PICK b \in Bucket : b = BucketAt(peer[c])
  BY <1>1, PeerBucket
<1>3. Holders' = Holders \ {c} /\ \A t \in Holders \ {c} : peer'[t] = peer[t]
  BY DEF Finish, Structure, MachineType, Holders, HoldsPermit
<1>4. HoldersOf(b)' = HoldersOf(b) \ {c} /\ c \in HoldersOf(b)
  BY <1>1, <1>2, <1>3 DEF HoldersOf, BucketAt
<1>5. \A k : k # b => HoldersOf(k)' = HoldersOf(k)
  BY <1>2, <1>3 DEF HoldersOf, BucketAt
<1>6. OtherHolders' = OtherHolders /\ \A k : OthersOf(k)' = OthersOf(k)
  BY DEF Finish, OtherHolders, OthersOf
<1>7. /\ Cardinality(Holders') = Cardinality(Holders) - 1
      /\ Cardinality(HoldersOf(b)') = Cardinality(HoldersOf(b)) - 1
      /\ Cardinality(Holders) \in Nat \ {0} /\ Cardinality(HoldersOf(b)) \in Nat \ {0}
  BY <1>1, <1>2, <1>3, <1>4, OneFewer, CountedFinite
<1>8. InHand' = InHand /\ InHand \in Nat /\ \A k : InHandOf(k)' = InHandOf(k) /\ InHandOf(k) \in Nat
  BY DEF Finish, InHand, InHandOf, BucketAt
<1>9. DropPermit(b)
  BY <1>2 DEF Finish
<1> QED
  BY <1>2, <1>5, <1>6, <1>7, <1>8, <1>9, CountedFinite, QuotaAssumption
     DEF QuotaInv, QuotaType, PermitsCounted, DropPermit

(* The other listener takes a permit, or gives one back. *)
LEMMA OtherPermit ==
    ASSUME Structure, QuotaInv, Other
    PROVE  QuotaInv'
<1>1. /\ Holders' = Holders /\ \A k : HoldersOf(k)' = HoldersOf(k)
      /\ InHand' = InHand /\ InHand \in Nat
      /\ \A k : InHandOf(k)' = InHandOf(k) /\ InHandOf(k) \in Nat
  BY DEF Other, OtherAcquires, OtherReleases, Holders, HoldersOf, HoldsPermit, InHand,
         InHandOf, BucketAt
<1>2. ASSUME NEW o \in OtherConn, NEW b \in Bucket, OtherAcquires(o, b)
      PROVE  QuotaInv'
  <2>1. OtherHolders' = OtherHolders \cup {o} /\ o \notin OtherHolders
    BY <1>2 DEF OtherAcquires, OtherHolders, Structure, MachineType
  <2>2. OthersOf(b)' = OthersOf(b) \cup {o} /\ o \notin OthersOf(b)
    BY <1>2 DEF OtherAcquires, OthersOf, Structure, MachineType
  <2>3. \A k \in Bucket : k # b => OthersOf(k)' = OthersOf(k)
    BY <1>2 DEF OtherAcquires, OthersOf, Structure, MachineType
  <2>4. /\ Cardinality(OtherHolders') = Cardinality(OtherHolders) + 1
        /\ Cardinality(OthersOf(b)') = Cardinality(OthersOf(b)) + 1
    BY <2>1, <2>2, OneMore, CountedFinite
  <2> QED
    BY <1>1, <1>2, <2>3, <2>4, CountedFinite, QuotaAssumption
       DEF QuotaInv, QuotaType, PermitsCounted, OtherAcquires, TryAcquire, Admits, IsFull
<1>3. ASSUME NEW o \in OtherConn, OtherReleases(o)
      PROVE  QuotaInv'
  <2>1. PICK b \in Bucket : b = others[o]
    BY <1>3 DEF OtherReleases, Structure, MachineType
  <2>2. OtherHolders' = OtherHolders \ {o} /\ o \in OtherHolders
    BY <1>3 DEF OtherReleases, OtherHolders, Structure, MachineType
  <2>3. OthersOf(b)' = OthersOf(b) \ {o} /\ o \in OthersOf(b)
    BY <1>3, <2>1 DEF OtherReleases, OthersOf, Structure, MachineType
  <2>4. \A k \in Bucket : k # b => OthersOf(k)' = OthersOf(k)
    BY <1>3, <2>1 DEF OtherReleases, OthersOf, Structure, MachineType
  <2>5. /\ Cardinality(OtherHolders') = Cardinality(OtherHolders) - 1
        /\ Cardinality(OthersOf(b)') = Cardinality(OthersOf(b)) - 1
        /\ Cardinality(OtherHolders) \in Nat \ {0} /\ Cardinality(OthersOf(b)) \in Nat \ {0}
    BY <2>1, <2>2, <2>3, OneFewer, CountedFinite
  <2>6. DropPermit(b)
    BY <1>3, <2>1 DEF OtherReleases
  <2> QED
    BY <1>1, <2>1, <2>4, <2>5, <2>6, CountedFinite, QuotaAssumption
       DEF QuotaInv, QuotaType, PermitsCounted, DropPermit
<1> QED
  BY <1>2, <1>3 DEF Other

(* The counts equal the permits that exist, within both caps. *)
THEOREM DtlsQuota == Spec => []QuotaInv
<1>1. Init => QuotaInv
  <2> SUFFICES ASSUME Init PROVE QuotaInv
    OBVIOUS
  <2>1. Holders = {} /\ OtherHolders = {} /\ \A b \in Bucket : HoldersOf(b) = {} /\ OthersOf(b) = {}
    BY DEF Init, Holders, HoldsPermit, OtherHolders, HoldersOf, OthersOf
  <2>2. InHand = 0 /\ \A b : InHandOf(b) = 0
    BY DEF Init, InHand, InHandOf
  <2>3. QuotaType /\ total = 0 /\ \A b \in Bucket : perIp[b] = 0
    BY DEF Init, QuotaInit, QuotaType
  <2>4. ipKeys = {b \in Bucket : perIp[b] > 0}
    BY <2>3 DEF Init, QuotaInit
  <2>5. Cardinality({}) = 0
    BY FS_EmptySet
  <2> QED
    BY <2>1, <2>2, <2>3, <2>4, <2>5, QuotaAssumption DEF QuotaInv, PermitsCounted
<1>2. Structure /\ QuotaInv /\ [Next]_vars => QuotaInv'
  <2> SUFFICES ASSUME Structure, QuotaInv, [Next]_vars PROVE QuotaInv'
    OBVIOUS
  <2> USE DEF quotaVars, Holders, HoldsPermit
  <2>1. ASSUME NEW d \in Arrivals, Receive(d) PROVE QuotaInv'
    <3>1. /\ UNCHANGED <<total, perIp, ipKeys, others, phase, peer>>
          /\ lpc # "promote" /\ lpc' # "promote"
      BY <2>1 DEF Receive, RouteToConn, RouteToCookie
    <3> QED BY <3>1, NoPermitMoves
  <2>2. CASE Probe \/ PendingFails \/ ListenRetry \/ ListenError \/ ListenAccepted
    <3>1. /\ UNCHANGED <<total, perIp, ipKeys, others, phase, peer>>
          /\ lpc # "promote" /\ lpc' # "promote"
      BY <2>2 DEF Probe, PendingFails, ListenRetry, ListenError, ListenAccepted
    <3> QED BY <3>1, NoPermitMoves
  <2>3. CASE Acquire
    <3>1. cur.src \in Addr /\ lpc # "promote" /\ UNCHANGED <<cur, phase, peer, others>>
      BY <2>3 DEF Acquire, Structure, Attempt
    <3>2. CASE TryAcquire(BucketAt(cur.src)) /\ lpc' = "promote"
      BY <3>1, <3>2, ListenerPermit
    <3>3. CASE RefuseAcquire(BucketAt(cur.src)) /\ lpc' = "recv"
      BY <3>1, <3>3, NoPermitMoves DEF RefuseAcquire
    <3> QED BY <2>3, <3>2, <3>3 DEF Acquire
  <2>4. CASE SpawnFails
    <3>1. /\ cur.src \in Addr /\ lpc = "promote" /\ lpc' # "promote"
          /\ DropPermit(BucketAt(cur.src)) /\ UNCHANGED <<cur, phase, peer, others>>
      BY <2>4 DEF SpawnFails, Structure, Attempt
    <3> QED BY <3>1, ListenerPermit
  <2>5. ASSUME NEW c \in Conn, Thread(c), ~Finish(c) PROVE QuotaInv'
    <3>1. UNCHANGED <<total, perIp, ipKeys, others, peer, lpc, cur>>
      BY <2>5 DEF Thread, ThreadSteps, AcceptReads, AcceptExpires, ServeReads, HangUp,
         Unmap, AcceptFails, ServeIdles, Panics, TimePasses, ThreadOnly
    <3>2. Holders' = Holders
      BY <2>5 DEF Thread, ThreadSteps, AcceptReads, AcceptExpires, ServeReads, HangUp,
         Unmap, AcceptFails, ServeIdles, Panics, TimePasses, Close, Structure, MachineType
    <3> HIDE DEF Holders
    <3> QED BY <3>1, <3>2, NoPermitMoves
  <2>6. CASE UNCHANGED vars
    BY <2>6, NoPermitMoves DEF vars
  <2> HIDE DEF Holders
  <2> QED
    BY <2>1, <2>2, <2>3, <2>4, <2>5, <2>6, PromotePermit, FinishPermit, OtherPermit
       DEF Next, Listener
<1> QED
  BY <1>1, <1>2, DtlsStructure, PTL DEF Spec

(* Every way out of a connection, a panic included, settles the books. *)
THEOREM PermitsSafe == Spec => []PermitsCounted
BY DtlsQuota, PTL DEF QuotaInv

(* Type correctness; that no counter underflows is part of it. *)
THEOREM DtlsTypeCorrect == Spec => []TypeOK
<1>1. Structure /\ QuotaInv => TypeOK
  BY DEF Structure, MachineType, QuotaInv, QuotaType, TypeOK
<1> QED
  BY <1>1, DtlsStructure, DtlsQuota, PTL
=============================================================================
