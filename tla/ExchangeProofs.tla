--------------------------- MODULE ExchangeProofs ---------------------------
(***************************************************************************)
(* Proofs about Exchange: for every client, network, cache size and age.   *)
(* The heart is eviction: when the oldest of Cap entries makes room, the   *)
(* other entries and the one being stored are Cap executions that are no   *)
(* older.                                                                  *)
(***************************************************************************)
EXTENDS Exchange, FiniteSetTheorems, TLAPS

(* An entry stands for an execution of a request with its message id. *)
EntriesLogged ==
    \A m \in DOMAIN dedup :
        /\ dedup[m].resp \in DOMAIN log
        /\ MidOf[log[dedup[m].resp].req] = m
        /\ log[dedup[m].resp].at = dedup[m].at

LogPast == \A n \in DOMAIN log : log[n].at <= clock

(* The request being handled is not in the cache. *)
MissHolds ==
    srv.pc = "handling" =>
        srv.req \in Req /\ MidOf[srv.req] \notin DOMAIN dedup /\ srv.start <= clock

Remembered(n) ==
    LET m == MidOf[log[n].req] IN m \in DOMAIN dedup /\ dedup[m].resp = n

(* An execution is remembered, too old, or behind Cap others. *)
Kept ==
    \A n \in DOMAIN log :
        \/ Remembered(n)
        \/ clock - log[n].at >= Ttl
        \/ Cardinality(NoOlder(n)) >= Cap

ExchangeInv == TypeOK /\ EntriesLogged /\ LogPast /\ MissHolds /\ Kept /\ ForgetsOnlyOldest

USE ExchangeAssumption

-----------------------------------------------------------------------------
(* The history is finite, so what is counted in it can be counted. *)
LEMMA LogFinite ==
    ASSUME TypeOK
    PROVE  /\ DOMAIN log = 1 .. Len(log) /\ Len(log) \in Nat
           /\ \A n \in DOMAIN log : log[n] \in [req : Req, at : Nat]
           /\ \A S \in SUBSET DOMAIN log : IsFiniteSet(S) /\ Cardinality(S) \in Nat
<1>1. DOMAIN log = 1 .. Len(log) /\ Len(log) \in Nat
  BY DEF TypeOK
<1>2. \A n \in DOMAIN log : log[n] \in [req : Req, at : Nat]
  <2> DEFINE Entry == [req : Req, at : Nat]
  <2>1. log \in Seq(Entry)
    BY DEF TypeOK
  <2> HIDE DEF Entry
  <2>2. \A n \in 1 .. Len(log) : log[n] \in Entry
    BY ONLY <2>1
  <2>3. \A n \in DOMAIN log : log[n] \in Entry
    BY ONLY <1>1, <2>2
  <2> QED
    BY ONLY <2>3 DEF Entry
<1>3. IsFiniteSet(DOMAIN log)
  BY <1>1, FS_Interval
<1> QED
  BY <1>1, <1>2, <1>3, FS_Subset, FS_CardinalityType

(* The client and the network leave the cache, the history and the thread  *)
(* alone.                                                                  *)
LEMMA OutsideKeepsInv ==
    ASSUME ExchangeInv, Client \/ Network
    PROVE  ExchangeInv'
<1>1. UNCHANGED <<clock, srv, dedup, nextMid, log, said>>
  BY DEF Client, Network, SendRequest, Retransmit, StopWaiting, Deliver, DeliverStray
<1>2. TypeOK'
  <2> DEFINE Typed == /\ sent' \in [Req -> Nat] /\ waiting' \subseteq Con
                      /\ wire' \subseteq [req : Req, at : Nat]
                      /\ chan' \in Seq(Req \cup {NoReq})
  <2>1. Typed
    <3>1. ASSUME NEW r \in Req, SendRequest(r) PROVE Typed
      BY <3>1 DEF ExchangeInv, TypeOK, SendRequest
    <3>2. ASSUME NEW r \in Req, Retransmit(r) PROVE Typed
      BY <3>2 DEF ExchangeInv, TypeOK, Retransmit
    <3>3. ASSUME NEW r \in Req, StopWaiting(r) PROVE Typed
      BY <3>3 DEF ExchangeInv, TypeOK, StopWaiting
    <3>4. ASSUME NEW d \in wire, Deliver(d) PROVE Typed
      BY <3>4 DEF ExchangeInv, TypeOK, Deliver
    <3>5. CASE DeliverStray
      BY <3>5 DEF ExchangeInv, TypeOK, DeliverStray, clientVars
    <3> HIDE DEF Typed
    <3>6. CASE Client
      BY <3>1, <3>2, <3>3, <3>6 DEF Client
    <3>7. CASE Network
      BY <3>4, <3>5, <3>7 DEF Network
    <3> QED
      BY <3>6, <3>7
  <2> QED
    BY <1>1, <2>1 DEF ExchangeInv, TypeOK
<1>3. (EntriesLogged /\ LogPast /\ MissHolds /\ Kept /\ ForgetsOnlyOldest)'
  BY <1>1 DEF ExchangeInv, EntriesLogged, LogPast, MissHolds, Kept, Remembered,
              ForgetsOnlyOldest, NoOlder
<1> QED
  BY <1>2, <1>3 DEF ExchangeInv

(* Time only makes entries older. *)
LEMMA TickKeepsInv ==
    ASSUME ExchangeInv, Tick
    PROVE  ExchangeInv'
<1>1. UNCHANGED <<srv, dedup, nextMid, log, said, sent, waiting, chan>> /\ clock' = clock + 1
      /\ wire' \subseteq wire
  BY DEF Tick
<1>2. clock \in Nat
  BY DEF ExchangeInv, TypeOK
<1>3. TypeOK'
  BY <1>1, <1>2 DEF ExchangeInv, TypeOK
<1>4. \A n \in DOMAIN log : log[n].at \in Nat
  BY LogFinite DEF ExchangeInv
<1>5. srv.start \in Nat
  BY DEF ExchangeInv, TypeOK
<1>6. (EntriesLogged /\ LogPast /\ MissHolds /\ ForgetsOnlyOldest)'
  BY <1>1, <1>2, <1>4, <1>5 DEF ExchangeInv, EntriesLogged, LogPast, MissHolds,
              ForgetsOnlyOldest, NoOlder
<1>7. Kept'
  <2> SUFFICES ASSUME NEW n \in DOMAIN log
               PROVE  Remembered(n) \/ clock' - log[n].at >= Ttl
                      \/ Cardinality(NoOlder(n)) >= Cap
    BY <1>1 DEF Kept, Remembered, NoOlder
  <2>1. clock - log[n].at >= Ttl => clock' - log[n].at >= Ttl
    BY <1>1, <1>2, <1>4
  <2> QED
    BY <2>1 DEF ExchangeInv, Kept
<1> QED
  BY <1>3, <1>6, <1>7 DEF ExchangeInv

(* What the cache keeps after a sweep. *)
LEMMA SweepFacts ==
    ASSUME TypeOK
    PROVE  /\ DOMAIN Swept \subseteq DOMAIN dedup
           /\ \A m \in DOMAIN Swept : Swept[m] = dedup[m]
           /\ \A m \in DOMAIN dedup \ DOMAIN Swept : clock - dedup[m].at >= Ttl
<1>1. clock \in Nat /\ \A m \in DOMAIN dedup : dedup[m].at \in Nat
  BY DEF TypeOK
<1> QED
  BY <1>1 DEF Swept

(* A sweep forgets only what is too old. *)
LEMMA SweepKeeps ==
    ASSUME ExchangeInv, dedup' = Swept, UNCHANGED <<clock, log>>
    PROVE  /\ EntriesLogged' /\ LogPast' /\ Kept'
           /\ DOMAIN dedup' \subseteq Mid
           /\ \A m \in DOMAIN dedup' : dedup'[m] \in [resp : Nat, at : Nat]
<1>1. DOMAIN dedup' \subseteq DOMAIN dedup /\ \A m \in DOMAIN dedup' : dedup'[m] = dedup[m]
  BY SweepFacts DEF ExchangeInv
<1>2. EntriesLogged' /\ LogPast'
  BY <1>1 DEF ExchangeInv, EntriesLogged, LogPast
<1>3. Kept'
  <2> SUFFICES ASSUME NEW n \in DOMAIN log
               PROVE  Remembered(n)' \/ clock - log[n].at >= Ttl
                      \/ Cardinality(NoOlder(n)) >= Cap
    BY DEF Kept, NoOlder
  <2> DEFINE m == MidOf[log[n].req]
  <2>1. CASE Remembered(n) /\ m \in DOMAIN dedup'
    BY <1>1, <2>1 DEF Remembered
  <2>2. CASE Remembered(n) /\ m \notin DOMAIN dedup'
    <3>1. clock - dedup[m].at >= Ttl
      BY <2>2, SweepFacts DEF ExchangeInv, Remembered
    <3>2. dedup[m].at = log[n].at
      BY <2>2 DEF ExchangeInv, EntriesLogged, Remembered
    <3> QED
      BY <3>1, <3>2
  <2>3. CASE ~Remembered(n)
    BY <2>3 DEF ExchangeInv, Kept
  <2> QED
    BY <2>1, <2>2, <2>3
<1> QED
  BY <1>1, <1>2, <1>3 DEF ExchangeInv, TypeOK

(* A stray is read and leaves nothing behind. *)
LEMMA StrayKeepsInv ==
    ASSUME ExchangeInv, NEW r \in Req \cup {NoReq}, TakeStray(r)
    PROVE  ExchangeInv'
<1>1. UNCHANGED <<clock, sent, waiting, wire, srv, dedup, nextMid, log, said>>
  BY DEF TakeStray, clientVars
<1>2. chan' \in Seq(Req \cup {NoReq})
  BY DEF ExchangeInv, TypeOK, TakeStray, Takes
<1>3. TypeOK'
  BY <1>1, <1>2 DEF ExchangeInv, TypeOK
<1>4. (EntriesLogged /\ LogPast /\ MissHolds /\ Kept /\ ForgetsOnlyOldest)'
  BY <1>1 DEF ExchangeInv, EntriesLogged, LogPast, MissHolds, Kept, Remembered,
              ForgetsOnlyOldest, NoOlder
<1> QED
  BY <1>3, <1>4 DEF ExchangeInv

(* A hit is answered from the cache. *)
LEMMA DuplicateKeepsInv ==
    ASSUME ExchangeInv, NEW r \in Req \cup {NoReq}, TakeDuplicate(r)
    PROVE  ExchangeInv'
<1>1. /\ dedup' = Swept /\ UNCHANGED <<clock, sent, waiting, wire, srv, nextMid, log>>
      /\ srv.pc = "idle" /\ r \in Req
      /\ said' = [to |-> r, resp |-> Swept[MidOf[r]].resp] /\ MidOf[r] \in DOMAIN Swept
  BY DEF TakeDuplicate, Takes, clientVars
<1>2. chan' \in Seq(Req \cup {NoReq})
  BY DEF ExchangeInv, TypeOK, TakeDuplicate, Takes
<1>3. /\ EntriesLogged' /\ LogPast' /\ Kept'
      /\ DOMAIN dedup' \subseteq Mid
      /\ \A m \in DOMAIN dedup' : dedup'[m] \in [resp : Nat, at : Nat]
  BY <1>1, SweepKeeps
<1>4. said' \in [to : Req \cup {NoReq}, resp : Nat]
  BY <1>1, <1>3
<1>5. TypeOK'
  BY <1>1, <1>2, <1>3, <1>4 DEF ExchangeInv, TypeOK
<1>6. MissHolds' /\ ForgetsOnlyOldest'
  BY <1>1 DEF MissHolds, ForgetsOnlyOldest
<1> QED
  BY <1>3, <1>5, <1>6 DEF ExchangeInv

(* A miss happens only to a message id the cache was allowed to forget. *)
LEMMA RequestKeepsInv ==
    ASSUME ExchangeInv, NEW r \in Req \cup {NoReq}, TakeRequest(r)
    PROVE  ExchangeInv'
<1>1. /\ dedup' = Swept /\ UNCHANGED <<clock, sent, waiting, wire, said, nextMid, log>>
      /\ srv' = [pc |-> "handling", req |-> r, start |-> clock] /\ r \in Req
      /\ MidOf[r] \notin DOMAIN dedup'
  BY DEF TakeRequest, Takes, clientVars
<1>2. chan' \in Seq(Req \cup {NoReq})
  BY DEF ExchangeInv, TypeOK, TakeRequest, Takes
<1>3. /\ EntriesLogged' /\ LogPast' /\ Kept'
      /\ DOMAIN dedup' \subseteq Mid
      /\ \A m \in DOMAIN dedup' : dedup'[m] \in [resp : Nat, at : Nat]
  BY <1>1, SweepKeeps
<1>4. clock \in Nat
  BY DEF ExchangeInv, TypeOK
<1>5. TypeOK'
  BY <1>1, <1>2, <1>3, <1>4 DEF ExchangeInv, TypeOK
<1>6. MissHolds'
  BY <1>1, <1>4 DEF MissHolds
<1>7. ForgetsOnlyOldest'
  BY <1>1, <1>3 DEF ForgetsOnlyOldest, Kept, Remembered, NoOlder
<1> QED
  BY <1>3, <1>5, <1>6, <1>7 DEF ExchangeInv

(* The executions no older than one of the past are still that many once   *)
(* another has been logged.                                                *)
LEMMA NoOlderGrows ==
    ASSUME TypeOK, TypeOK', NEW e \in [req : Req, at : Nat], log' = Append(log, e),
           NEW n \in DOMAIN log
    PROVE  /\ n \in DOMAIN log' /\ log'[n] = log[n]
           /\ NoOlder(n) \subseteq NoOlder(n)'
           /\ Cardinality(NoOlder(n)) <= Cardinality(NoOlder(n)')
           /\ Cardinality(NoOlder(n)) \in Nat /\ Cardinality(NoOlder(n)') \in Nat
<1>1. /\ DOMAIN log = 1 .. Len(log) /\ Len(log) \in Nat
      /\ DOMAIN log' = 1 .. Len(log) + 1
      /\ \A k \in DOMAIN log : log'[k] = log[k]
  BY DEF TypeOK
<1>2. NoOlder(n) \subseteq NoOlder(n)'
  BY <1>1 DEF NoOlder
<1>3. /\ NoOlder(n) \subseteq DOMAIN log /\ NoOlder(n)' \subseteq DOMAIN log'
  BY DEF NoOlder
<1>4. IsFiniteSet(NoOlder(n)') /\ Cardinality(NoOlder(n)') \in Nat
  <2>1. 1 \in Int /\ Len(log) + 1 \in Int
    BY <1>1
  <2>2. IsFiniteSet(1 .. (Len(log) + 1))
    BY ONLY <2>1, FS_Interval
  <2> QED
    BY <1>1, <1>3, <2>2, FS_Subset, FS_CardinalityType
<1>5. Cardinality(NoOlder(n)) \in Nat
  BY <1>3, LogFinite
<1>6. Cardinality(NoOlder(n)) <= Cardinality(NoOlder(n)')
  BY <1>2, <1>4, FS_Subset
<1> QED
  BY <1>1, <1>2, <1>4, <1>5, <1>6

(* The entry that makes room leaves Cap executions that are no older. *)
LEMMA EvictedBehind ==
    ASSUME ExchangeInv, TypeOK', LogPast, NEW e \in [req : Req, at : Nat], e.at = clock,
           log' = Append(log, e), NEW m \in DOMAIN dedup,
           NEW n \in Nat, dedup[m].resp = n,
           Cardinality(DOMAIN dedup) >= Cap,
           \A k \in DOMAIN dedup : dedup[m].at <= dedup[k].at
    PROVE  Cardinality(NoOlder(n)') >= Cap
<1> DEFINE T == {k \in DOMAIN log' \ {n} : log'[k].at >= log'[n].at}
           f == [k \in DOMAIN dedup |-> IF k = m THEN Len(log) + 1 ELSE dedup[k].resp]
<1>1. /\ DOMAIN log = 1 .. Len(log) /\ Len(log) \in Nat
      /\ DOMAIN log' = 1 .. Len(log) + 1
      /\ \A k \in DOMAIN log : log'[k] = log[k]
      /\ log'[Len(log) + 1] = e
  BY DEF ExchangeInv, TypeOK
<1>2. EntriesLogged /\ n \in DOMAIN log
  BY DEF ExchangeInv, EntriesLogged
<1>3. \A k \in DOMAIN dedup : f[k] \in T
  <2> SUFFICES ASSUME NEW k \in DOMAIN dedup PROVE f[k] \in T
    OBVIOUS
  <2>1. CASE k = m
    <3>1. f[k] = Len(log) + 1
      BY <2>1
    <3>2. log'[n] = log[n] /\ log[n].at <= clock
      BY <1>1, <1>2 DEF LogPast
    <3>3. log[n].at \in Nat /\ clock \in Nat
      BY <1>2, LogFinite DEF ExchangeInv, TypeOK
    <3> QED
      BY <1>1, <1>2, <3>1, <3>2, <3>3
  <2>2. CASE k # m
    <3>1. f[k] = dedup[k].resp /\ dedup[k].resp \in DOMAIN log
      BY <1>2, <2>2 DEF EntriesLogged
    <3>2. dedup[k].resp # n
      BY <1>2, <2>2 DEF EntriesLogged
    <3>3. log[dedup[k].resp].at = dedup[k].at /\ log[n].at = dedup[m].at
      BY <1>2 DEF EntriesLogged
    <3>4. dedup[m].at <= dedup[k].at /\ dedup[m].at \in Nat /\ dedup[k].at \in Nat
      BY DEF ExchangeInv, TypeOK
    <3> QED
      BY <1>1, <1>2, <3>1, <3>2, <3>3, <3>4
  <2> QED
    BY <2>1, <2>2
<1>4. \A j, k \in DOMAIN dedup : f[j] = f[k] => j = k
  BY <1>1, <1>2 DEF EntriesLogged
<1>5. f \in Injection(DOMAIN dedup, T)
  BY <1>3, <1>4 DEF Injection, IsInjective
<1>6. IsFiniteSet(T)
  <2>1. 1 \in Int /\ Len(log) + 1 \in Int
    BY <1>1
  <2>2. IsFiniteSet(1 .. (Len(log) + 1))
    BY ONLY <2>1, FS_Interval
  <2>3. T \subseteq 1 .. (Len(log) + 1)
    BY <1>1
  <2> QED
    BY ONLY <2>2, <2>3, FS_Subset
<1> HIDE DEF T, f
<1>7. Cardinality(DOMAIN dedup) <= Cardinality(T)
  BY ONLY <1>5, <1>6, FS_Injection
<1>8. IsFiniteSet(DOMAIN dedup)
  BY ONLY <1>5, <1>6, FS_Injection
<1>9. Cardinality(DOMAIN dedup) \in Nat /\ Cardinality(T) \in Nat
  BY <1>6, <1>8, FS_CardinalityType
<1>10. T = NoOlder(n)'
  BY DEF NoOlder, T
<1> QED
  BY <1>7, <1>9, <1>10

(* Storing a response forgets at most the oldest one. *)
LEMMA RespondKeepsInv ==
    ASSUME ExchangeInv, Respond
    PROVE  ExchangeInv'
<1> DEFINE e == [req |-> srv.req, at |-> clock]
           new == Len(log) + 1
           mid == MidOf[srv.req]
<1>1. /\ srv.pc = "handling" /\ log' = Append(log, e) /\ Insert(mid, new)
      /\ said' = [to |-> srv.req, resp |-> new] /\ srv' = Idle
      /\ UNCHANGED <<clock, sent, waiting, wire, chan>>
      /\ nextMid' = IF srv.req \in Con THEN nextMid ELSE WrappedMid
  BY DEF Respond, clientVars
<1>2. /\ srv.req \in Req /\ mid \notin DOMAIN dedup /\ clock \in Nat /\ mid \in Mid
      /\ e \in [req : Req, at : Nat] /\ new \in Nat
  <2>1. srv.req \in Req /\ mid \notin DOMAIN dedup
    BY <1>1 DEF ExchangeInv, MissHolds
  <2>2. clock \in Nat /\ Len(log) \in Nat
    BY DEF ExchangeInv, TypeOK
  <2>3. mid \in Mid
    BY <2>1 DEF Mid
  <2>4. e \in [req : Req, at : Nat]
    BY <2>1, <2>2
  <2>5. new \in Nat
    BY <2>2
  <2> QED
    BY ONLY <2>1, <2>2, <2>3, <2>4, <2>5
<1>3. PICK out \in Evicts :
        dedup' = [m \in (DOMAIN dedup \ out) \cup {mid} |->
                    IF m = mid THEN [resp |-> new, at |-> clock] ELSE dedup[m]]
  BY <1>1 DEF Insert
<1>4. nextMid' \in Mid
  BY <1>1 DEF ExchangeInv, TypeOK, WrappedMid, Mid
<1>5. TypeOK'
  <2>1. log' \in Seq([req : Req, at : Nat])
    BY <1>1, <1>2 DEF ExchangeInv, TypeOK
  <2>2. DOMAIN dedup' \subseteq Mid /\ \A m \in DOMAIN dedup' : dedup'[m] \in [resp : Nat, at : Nat]
    BY <1>2, <1>3 DEF ExchangeInv, TypeOK
  <2>3. srv' \in [pc : {"idle", "handling"}, req : Req \cup {NoReq}, start : Nat]
        /\ said' \in [to : Req \cup {NoReq}, resp : Nat]
    BY <1>1, <1>2 DEF Idle
  <2> QED
    BY <1>1, <1>2, <1>4, <2>1, <2>2, <2>3 DEF ExchangeInv, TypeOK
<1>6. /\ DOMAIN log = 1 .. Len(log) /\ Len(log) \in Nat
      /\ DOMAIN log' = 1 .. new
      /\ \A k \in DOMAIN log : log'[k] = log[k]
      /\ log'[new] = e
  BY <1>1, <1>2 DEF ExchangeInv, TypeOK
<1>7. EntriesLogged'
  BY <1>2, <1>3, <1>6 DEF ExchangeInv, EntriesLogged
<1>8. LogPast'
  BY <1>1, <1>2, <1>6 DEF ExchangeInv, LogPast
<1>9. MissHolds' /\ ForgetsOnlyOldest'
  BY <1>1 DEF MissHolds, ForgetsOnlyOldest, Idle
<1>10. Kept'
  <2> SUFFICES ASSUME NEW n \in DOMAIN log'
               PROVE  Remembered(n)' \/ clock' - log'[n].at >= Ttl
                      \/ Cardinality(NoOlder(n)') >= Cap
    BY DEF Kept
  <2>1. CASE n = new
    BY <1>2, <1>3, <1>6, <2>1 DEF Remembered
  <2>2. CASE n # new
    <3>1. n \in DOMAIN log /\ log'[n] = log[n]
      BY <1>6, <2>2
    <3>2. CASE clock - log[n].at >= Ttl
      BY <1>1, <3>1, <3>2
    <3>3. CASE Cardinality(NoOlder(n)) >= Cap
      <4>1. /\ Cardinality(NoOlder(n)) <= Cardinality(NoOlder(n)')
            /\ Cardinality(NoOlder(n)) \in Nat /\ Cardinality(NoOlder(n)') \in Nat
        BY <1>1, <1>2, <1>5, <3>1, NoOlderGrows DEF ExchangeInv
      <4> QED
        BY <3>3, <4>1
    <3>4. CASE Remembered(n)
      <4> DEFINE m == MidOf[log[n].req]
      <4>1. m \in DOMAIN dedup /\ dedup[m].resp = n /\ m # mid
        BY <1>2, <3>4 DEF Remembered
      <4>2. CASE m \notin out
        BY <1>3, <3>1, <4>1, <4>2 DEF Remembered
      <4>3. CASE m \in out
        <5>1. /\ ~(Cardinality(DOMAIN dedup) < Cap)
              /\ \A k \in DOMAIN dedup : dedup[m].at <= dedup[k].at
          BY <4>3 DEF Evicts
        <5>2. Cardinality(DOMAIN dedup) >= Cap
          <6>1. IsFiniteSet(Mid)
            BY FS_Interval DEF Mid
          <6>2. Cardinality(DOMAIN dedup) \in Nat
            BY <6>1, FS_Subset, FS_CardinalityType DEF ExchangeInv, TypeOK
          <6> QED
            BY <5>1, <6>2
        <5>3. LogPast /\ n \in Nat /\ e.at = clock
          BY <1>6, <3>1 DEF ExchangeInv
        <5> HIDE DEF e, m
        <5> QED
          BY <1>1, <1>2, <1>5, <4>1, <5>1, <5>2, <5>3, EvictedBehind
      <4> QED
        BY <4>2, <4>3
    <3> QED
      BY <3>1, <3>2, <3>3, <3>4 DEF ExchangeInv, Kept
  <2> QED
    BY <2>1, <2>2
<1> QED
  BY <1>5, <1>7, <1>8, <1>9, <1>10 DEF ExchangeInv

(* The inductive invariant: every execution is still in the cache, or old  *)
(* enough, or behind Cap others, so a miss is always excused.              *)
THEOREM ExchangeInvariant == Spec => []ExchangeInv
<1>1. Init => ExchangeInv
  <2> SUFFICES ASSUME Init PROVE ExchangeInv
    OBVIOUS
  <2>1. DOMAIN dedup = {} /\ DOMAIN log = {} /\ srv.pc = "idle"
    BY DEF Init, Idle
  <2>2. TypeOK
    BY <2>1 DEF Init, TypeOK, Idle, Mid, Never
  <2> QED
    BY <2>1, <2>2 DEF ExchangeInv, EntriesLogged, LogPast, MissHolds, Kept, ForgetsOnlyOldest
<1>2. ExchangeInv /\ [Next]_vars => ExchangeInv'
  <2> SUFFICES ASSUME ExchangeInv, [Next]_vars PROVE ExchangeInv'
    OBVIOUS
  <2>1. CASE Client \/ Network
    BY <2>1, OutsideKeepsInv
  <2>2. CASE Tick
    BY <2>2, TickKeepsInv
  <2>3. CASE Respond
    BY <2>3, RespondKeepsInv
  <2>4. ASSUME NEW r \in Req \cup {NoReq}, TakeStray(r) PROVE ExchangeInv'
    BY <2>4, StrayKeepsInv
  <2>5. ASSUME NEW r \in Req \cup {NoReq}, TakeDuplicate(r) PROVE ExchangeInv'
    BY <2>5, DuplicateKeepsInv
  <2>6. ASSUME NEW r \in Req \cup {NoReq}, TakeRequest(r) PROVE ExchangeInv'
    BY <2>6, RequestKeepsInv
  <2>7. CASE UNCHANGED vars
    BY <2>7 DEF vars, ExchangeInv, TypeOK, EntriesLogged, LogPast, MissHolds, Kept,
                Remembered, ForgetsOnlyOldest, NoOlder
  <2> QED
    BY <2>1, <2>2, <2>3, <2>4, <2>5, <2>6, <2>7 DEF Next, Server
<1> QED
  BY <1>1, <1>2, PTL DEF Spec

(* For every client and network the cache forgets only what is older than  *)
(* its TTL or behind Cap newer responses.                                  *)
THEOREM CacheForgetsOnlyOldest == Spec => []ForgetsOnlyOldest
BY ExchangeInvariant, PTL DEF ExchangeInv

(* Type correctness of the message layer, the wrapping message id included. *)
THEOREM ExchangeTypeCorrect == Spec => []TypeOK
BY ExchangeInvariant, PTL DEF ExchangeInv

-----------------------------------------------------------------------------
(* The refinement: where each copy of a request can be, and until when *)

Started == {q \in Req : sent[q] # Never}

InWindow(a) == {q \in Started : a <= sent[q] /\ sent[q] < a + Window}

(* What the client keeps to *)
ClientInv ==
    /\ clock <= MaxTime /\ \A q \in Started : sent[q] <= clock
    /\ waiting \subseteq Started /\ IsFiniteSet(Started)
    /\ \A q, r \in Started : q # r /\ MidOf[q] = MidOf[r] =>
          sent[q] + Lifetime < sent[r] \/ sent[r] + Lifetime < sent[q]
    /\ \A a \in Nat : Cardinality(InWindow(a)) <= Burst

WireInv ==
    \A d \in wire :
        /\ d.req \in Started /\ sent[d.req] <= d.at /\ d.at <= sent[d.req] + Span
        /\ d.at <= clock /\ clock <= d.at + Latency

(* When the thread will be free at the latest *)
Free == IF srv.pc = "handling" THEN srv.start + HandleTime ELSE clock

(* A copy in the channel is read in time, and what was read before it was  *)
(* not first sent long after it.                                           *)
ChanInv ==
    /\ Len(chan) <= ChannelDepth
    /\ \A i \in DOMAIN chan : chan[i] \in Req =>
          /\ chan[i] \in Started
          /\ Free + (i - 1) * HandleTime <= sent[chan[i]] + Reading
          /\ \A j \in DOMAIN chan : j < i /\ chan[j] \in Req =>
                sent[chan[j]] <= sent[chan[i]] + Arrival
          /\ srv.pc = "handling" => sent[srv.req] <= sent[chan[i]] + Arrival
          /\ \A n \in DOMAIN log : sent[log[n].req] <= sent[chan[i]] + Arrival

SrvInv ==
    srv.pc = "handling" =>
        /\ srv.req \in Started /\ sent[srv.req] <= srv.start
        /\ srv.start <= sent[srv.req] + Reading
        /\ srv.start <= clock /\ clock <= srv.start + HandleTime
        /\ \A n \in DOMAIN log : sent[log[n].req] <= sent[srv.req] + Arrival

LogInv ==
    \A n \in DOMAIN log :
        /\ log[n].req \in Started /\ sent[log[n].req] <= log[n].at
        /\ log[n].at <= sent[log[n].req] + Reading + HandleTime

(* No request has been executed twice, or is about to be. *)
OnceInv ==
    /\ \A k, n \in DOMAIN log : log[k].req = log[n].req => k = n
    /\ srv.pc = "handling" => \A n \in DOMAIN log : log[n].req # srv.req

TimeInv == ClientInv /\ WireInv /\ ChanInv /\ SrvInv /\ LogInv /\ OnceInv

LEMMA SentTyped ==
    ASSUME TypeOK, ClientInv
    PROVE  /\ clock \in Nat /\ \A q \in Req : sent[q] \in Nat
           /\ Never \in Nat /\ clock < Never
           /\ \A q \in Req : sent[q] <= clock => q \in Started
BY DEF TypeOK, ClientInv, Never, Started

(* What was started stays as it was, whatever else is sent. *)
LEMMA StartedStays ==
    ASSUME TypeOK, TimeInv, UNCHANGED <<clock, chan, srv, log>>,
           Started \subseteq Started', \A q \in Started : sent'[q] = sent[q]
    PROVE  (ChanInv /\ SrvInv /\ LogInv /\ OnceInv)'
<1>1. LogInv'
  BY DEF TimeInv, LogInv
<1>2. SrvInv'
  BY DEF TimeInv, SrvInv, LogInv
<1>3. OnceInv'
  BY DEF TimeInv, OnceInv
<1>4. ChanInv'
  <2> SUFFICES ASSUME NEW i \in DOMAIN chan, chan[i] \in Req
               PROVE  /\ chan[i] \in Started'
                      /\ Free + (i - 1) * HandleTime <= sent'[chan[i]] + Reading
                      /\ \A j \in DOMAIN chan : j < i /\ chan[j] \in Req =>
                            sent'[chan[j]] <= sent'[chan[i]] + Arrival
                      /\ srv.pc = "handling" => sent'[srv.req] <= sent'[chan[i]] + Arrival
                      /\ \A n \in DOMAIN log : sent'[log[n].req] <= sent'[chan[i]] + Arrival
    BY DEF TimeInv, ChanInv, Free
  <2>1. /\ chan[i] \in Started
        /\ Free + (i - 1) * HandleTime <= sent[chan[i]] + Reading
        /\ \A j \in DOMAIN chan : j < i /\ chan[j] \in Req =>
              sent[chan[j]] <= sent[chan[i]] + Arrival
        /\ srv.pc = "handling" => sent[srv.req] <= sent[chan[i]] + Arrival
        /\ \A n \in DOMAIN log : sent[log[n].req] <= sent[chan[i]] + Arrival
    BY DEF TimeInv, ChanInv
  <2>2. \A j \in DOMAIN chan : chan[j] \in Req => chan[j] \in Started
    BY DEF TimeInv, ChanInv
  <2>3. srv.pc = "handling" => srv.req \in Started
    BY DEF TimeInv, SrvInv
  <2>4. \A n \in DOMAIN log : log[n].req \in Started
    BY DEF TimeInv, LogInv
  <2> QED BY <2>1, <2>2, <2>3, <2>4
<1> QED
  BY <1>1, <1>2, <1>3, <1>4

LEMMA SendKeepsTime ==
    ASSUME TypeOK, TimeInv, NEW r \in Req, SendRequest(r)
    PROVE  TimeInv'
<1>1. /\ sent[r] = Never /\ Cardinality(StartedRecently) < Burst
      /\ \A q \in Req : sent[q] <= clock /\ MidOf[q] = MidOf[r] => clock - sent[q] > Lifetime
      /\ sent' = [sent EXCEPT ![r] = clock]
      /\ waiting' \subseteq waiting \cup {r} /\ wire' = wire \cup {[req |-> r, at |-> clock]}
      /\ UNCHANGED <<clock, chan, srv, log>>
  BY DEF SendRequest
<1>2. /\ clock \in Nat /\ \A q \in Req : sent[q] \in Nat
      /\ Never \in Nat /\ clock < Never /\ clock <= MaxTime
      /\ \A q \in Req : sent[q] <= clock => q \in Started
  BY SentTyped DEF TimeInv, ClientInv
<1>3. /\ r \notin Started /\ Started' = Started \cup {r} /\ sent'[r] = clock
      /\ \A q \in Started : sent'[q] = sent[q]
      /\ Started \subseteq Req
  BY <1>1, <1>2 DEF Started, TypeOK, Never
<1>4. \A q \in Started : sent[q] <= clock /\ sent[q] \in Nat
  BY <1>2, <1>3 DEF TimeInv, ClientInv
<1>5. (ChanInv /\ SrvInv /\ LogInv /\ OnceInv)'
  BY <1>1, <1>3, StartedStays
<1>6. WireInv'
  <2> SUFFICES ASSUME NEW d \in wire'
               PROVE  /\ d.req \in Started' /\ sent'[d.req] <= d.at
                      /\ d.at <= sent'[d.req] + Span
                      /\ d.at <= clock /\ clock <= d.at + Latency
    BY <1>1 DEF WireInv
  <2>1. CASE d \in wire
    BY <1>3, <2>1 DEF TimeInv, WireInv
  <2>2. CASE d = [req |-> r, at |-> clock]
    BY <1>2, <1>3, <2>2
  <2> QED BY <1>1, <2>1, <2>2
<1>7. ClientInv'
  <2>1. IsFiniteSet(Started)
    BY DEF TimeInv, ClientInv
  <2>2. IsFiniteSet(Started')
    BY <1>3, <2>1, FS_AddElement
  <2>3. \A p, q \in Started' : p # q /\ MidOf[p] = MidOf[q] =>
           sent'[p] + Lifetime < sent'[q] \/ sent'[q] + Lifetime < sent'[p]
    <3> SUFFICES ASSUME NEW p \in Started', NEW q \in Started', p # q, MidOf[p] = MidOf[q]
                 PROVE  sent'[p] + Lifetime < sent'[q] \/ sent'[q] + Lifetime < sent'[p]
      OBVIOUS
    <3>1. CASE p \in Started /\ q \in Started
      BY <1>3, <3>1 DEF TimeInv, ClientInv
    <3>2. CASE p = r
      BY <1>1, <1>2, <1>3, <1>4, <3>2
    <3>3. CASE q = r
      BY <1>1, <1>2, <1>3, <1>4, <3>3
    <3> QED BY <1>3, <3>1, <3>2, <3>3
  <2>4. ASSUME NEW a \in Nat PROVE Cardinality(InWindow(a)') <= Burst
    <3>1. Cardinality(InWindow(a)) <= Burst
      BY DEF TimeInv, ClientInv
    <3>2. CASE ~(a <= clock /\ clock < a + Window)
      <4>1. InWindow(a)' = InWindow(a)
        BY <1>3, <3>2 DEF InWindow
      <4> QED BY <3>1, <4>1
    <3>3. CASE a <= clock /\ clock < a + Window
      <4>1. InWindow(a)' = InWindow(a) \cup {r}
        BY <1>3, <3>3 DEF InWindow
      <4>2. InWindow(a) \subseteq StartedRecently
        <5> SUFFICES ASSUME NEW q \in InWindow(a) PROVE q \in StartedRecently
          OBVIOUS
        <5>1. q \in Started /\ a <= sent[q] /\ q \in Req
          BY <1>3 DEF InWindow
        <5>2. sent[q] <= clock /\ clock - sent[q] < Window
          BY <1>2, <1>4, <3>3, <5>1
        <5> QED BY <5>1, <5>2 DEF StartedRecently
      <4>3. StartedRecently \subseteq Started
        BY <1>2 DEF StartedRecently
      <4>4. /\ IsFiniteSet(StartedRecently) /\ IsFiniteSet(InWindow(a))
            /\ Cardinality(InWindow(a)) <= Cardinality(StartedRecently)
        BY <2>1, <4>2, <4>3, FS_Subset
      <4>5. Cardinality(InWindow(a)) \in Nat /\ Cardinality(StartedRecently) \in Nat
        BY <4>4, FS_CardinalityType
      <4>6. r \notin InWindow(a)
        BY <1>3 DEF InWindow
      <4>7. Cardinality(InWindow(a) \cup {r}) = Cardinality(InWindow(a)) + 1
        BY <4>4, <4>6, FS_AddElement
      <4> QED BY <1>1, <4>1, <4>4, <4>5, <4>7
    <3> QED BY <3>2, <3>3
  <2>5. clock' <= MaxTime /\ waiting' \subseteq Started' /\ \A q \in Started' : sent'[q] <= clock'
    BY <1>1, <1>2, <1>3, <1>4 DEF TimeInv, ClientInv
  <2> QED BY <2>2, <2>3, <2>4, <2>5 DEF ClientInv
<1> QED
  BY <1>5, <1>6, <1>7 DEF TimeInv

(* The client and the network otherwise *)
LEMMA ClientKeepsTime ==
    ASSUME TypeOK, TimeInv, NEW r \in Req, Retransmit(r) \/ StopWaiting(r)
    PROVE  TimeInv'
<1>1. /\ UNCHANGED <<clock, sent, chan, srv, log>> /\ waiting' \subseteq waiting
      /\ \A d \in wire' : d \in wire \/ ( /\ d = [req |-> r, at |-> clock]
                                          /\ r \in waiting /\ clock - sent[r] <= Span)
  BY DEF Retransmit, StopWaiting
<1>2. Started' = Started
  BY <1>1 DEF Started
<1>3. (ChanInv /\ SrvInv /\ LogInv /\ OnceInv)'
  BY <1>1, <1>2, StartedStays
<1>4. ClientInv'
  BY <1>1, <1>2 DEF TimeInv, ClientInv, InWindow
<1>5. WireInv'
  <2> SUFFICES ASSUME NEW d \in wire'
               PROVE  /\ d.req \in Started /\ sent[d.req] <= d.at
                      /\ d.at <= sent[d.req] + Span
                      /\ d.at <= clock /\ clock <= d.at + Latency
    BY <1>1, <1>2 DEF WireInv
  <2>1. CASE d \in wire
    BY <2>1 DEF TimeInv, WireInv
  <2>2. CASE d = [req |-> r, at |-> clock] /\ r \in waiting /\ clock - sent[r] <= Span
    <3>1. r \in Started /\ sent[r] <= clock /\ sent[r] \in Nat /\ clock \in Nat
      BY <2>2, SentTyped DEF TimeInv, ClientInv
    <3> QED BY <2>2, <3>1
  <2> QED BY <1>1, <2>1, <2>2
<1> QED
  BY <1>3, <1>4, <1>5 DEF TimeInv

LEMMA ReadingTyped ==
    /\ Arrival \in Nat /\ Reading \in Nat /\ ChannelDepth * HandleTime \in Nat
    /\ Reading = Arrival + ChannelDepth * HandleTime
<1>1. ChannelDepth * HandleTime \in Nat
  BY DEF Arrival
<1> QED
  BY <1>1 DEF Arrival, Reading

(* The place of a datagram in a channel that has room *)
LEMMA Places ==
    ASSUME NEW i \in Nat, i < ChannelDepth
    PROVE  i * HandleTime \in Nat /\ HandleTime + i * HandleTime <= ChannelDepth * HandleTime
<1>1. ChannelDepth * HandleTime = (i + 1) * HandleTime + (ChannelDepth - (i + 1)) * HandleTime
  OBVIOUS
<1>2. (i + 1) * HandleTime = HandleTime + i * HandleTime /\ i * HandleTime \in Nat
  OBVIOUS
<1>3. (ChannelDepth - (i + 1)) * HandleTime \in Nat
  <2>1. ChannelDepth - (i + 1) \in Nat
    OBVIOUS
  <2> QED BY <2>1
<1> QED
  BY <1>1, <1>2, <1>3

LEMMA ChanTyped ==
    ASSUME TypeOK
    PROVE  /\ chan \in Seq(Req \cup {NoReq}) /\ DOMAIN chan = 1 .. Len(chan) /\ Len(chan) \in Nat
BY DEF TypeOK

(* A datagram that got through, or a stray, at the end of the channel *)
LEMMA DeliverKeepsTime ==
    ASSUME TypeOK, TimeInv, (\E d \in wire : Deliver(d)) \/ DeliverStray
    PROVE  TimeInv'
<1>1. UNCHANGED <<clock, sent, waiting, srv, log>> /\ wire' \subseteq wire
  BY DEF Deliver, DeliverStray, clientVars
<1>2. Started' = Started /\ Free' = Free
  BY <1>1 DEF Started, Free
<1>3. ClientInv' /\ WireInv'
  BY <1>1, <1>2 DEF TimeInv, ClientInv, WireInv, InWindow
<1>4. SrvInv' /\ LogInv' /\ OnceInv'
  BY <1>1, <1>2 DEF TimeInv, SrvInv, LogInv, OnceInv
<1>5. chan' = chan \/ \E x \in Req \cup {NoReq} :
         /\ chan' = Append(chan, x) /\ Len(chan) < ChannelDepth
         /\ x \in Req => x \in Started /\ clock <= sent[x] + Arrival
  <2>1. ASSUME NEW d \in wire, Deliver(d)
        PROVE  d.req \in Req /\ d.req \in Started /\ clock <= sent[d.req] + Arrival
    <3>1. /\ d.req \in Started /\ sent[d.req] <= d.at /\ d.at <= sent[d.req] + Span
          /\ d.at <= clock /\ clock <= d.at + Latency
      BY DEF TimeInv, WireInv
    <3>2. d.req \in Req /\ d.at \in Nat /\ clock \in Nat
      BY DEF TypeOK
    <3>3. sent[d.req] \in Nat
      BY <3>2 DEF TypeOK
    <3> QED BY <3>1, <3>2, <3>3 DEF Arrival
  <2>2. CASE \E d \in wire : Deliver(d)
    <3>1. PICK d \in wire : Deliver(d)
      BY <2>2
    <3>2. chan' = IF Len(chan) < ChannelDepth THEN Append(chan, d.req) ELSE chan
      BY <3>1 DEF Deliver
    <3> QED BY <2>1, <3>1, <3>2
  <2>3. CASE DeliverStray
    BY <2>3 DEF DeliverStray
  <2> QED BY <2>2, <2>3
<1>6. ChanInv'
  <2>1. CASE chan' = chan
    BY <1>1, <1>2, <2>1 DEF TimeInv, ChanInv
  <2>2. ASSUME NEW x \in Req \cup {NoReq}, chan' = Append(chan, x), Len(chan) < ChannelDepth,
               x \in Req => x \in Started /\ clock <= sent[x] + Arrival
        PROVE  ChanInv'
    <3>1. /\ chan \in Seq(Req \cup {NoReq}) /\ DOMAIN chan = 1 .. Len(chan) /\ Len(chan) \in Nat
      BY ChanTyped
    <3>2. /\ DOMAIN chan' = 1 .. Len(chan) + 1 /\ Len(chan') = Len(chan) + 1
          /\ chan'[Len(chan) + 1] = x /\ \A i \in DOMAIN chan : chan'[i] = chan[i]
      BY <2>2, <3>1
    <3>3. SUFFICES ASSUME NEW i \in DOMAIN chan', chan'[i] \in Req
                   PROVE  /\ chan'[i] \in Started
                          /\ Free + (i - 1) * HandleTime <= sent[chan'[i]] + Reading
                          /\ \A j \in DOMAIN chan' : j < i /\ chan'[j] \in Req =>
                                sent[chan'[j]] <= sent[chan'[i]] + Arrival
                          /\ srv.pc = "handling" => sent[srv.req] <= sent[chan'[i]] + Arrival
                          /\ \A n \in DOMAIN log : sent[log[n].req] <= sent[chan'[i]] + Arrival
      <4>1. Len(chan') <= ChannelDepth
        BY <2>2, <3>1, <3>2
      <4> QED BY <1>1, <1>2, <4>1 DEF ChanInv
    <3>4. CASE i \in DOMAIN chan
      <4>1. \A j \in DOMAIN chan' : j < i => j \in DOMAIN chan
        BY <3>1, <3>2, <3>4
      <4>2. chan'[i] = chan[i] /\ \A j \in DOMAIN chan' : j < i => chan'[j] = chan[j]
        BY <3>2, <3>4, <4>1
      <4> QED BY <3>3, <3>4, <4>1, <4>2 DEF TimeInv, ChanInv
    <3>5. CASE i = Len(chan) + 1
      <4>1. x \in Started /\ chan'[i] = x /\ clock <= sent[x] + Arrival
        BY <2>2, <3>2, <3>3, <3>5
      <4>2. /\ \A q \in Started : sent[q] <= clock /\ sent[q] \in Nat
            /\ clock \in Nat /\ Arrival \in Nat
        BY ReadingTyped DEF TimeInv, ClientInv, TypeOK, Started
      <4>3. \A q \in Started : sent[q] <= sent[x] + Arrival
        BY <4>1, <4>2
      <4>4. \A j \in DOMAIN chan' : j < i /\ chan'[j] \in Req => chan'[j] \in Started
        BY <3>1, <3>2, <3>5 DEF TimeInv, ChanInv
      <4>5. /\ srv.pc = "handling" => srv.req \in Started
            /\ \A n \in DOMAIN log : log[n].req \in Started
        BY DEF TimeInv, SrvInv, LogInv
      <4>6. Free + (i - 1) * HandleTime <= sent[x] + Reading
        <5>1. i - 1 = Len(chan)
          BY <3>1, <3>5
        <5>2. Free <= clock + HandleTime /\ Free \in Nat
          BY <4>2 DEF Free, TimeInv, SrvInv, TypeOK
        <5>3. /\ Len(chan) * HandleTime \in Nat
              /\ HandleTime + Len(chan) * HandleTime <= ChannelDepth * HandleTime
          BY <2>2, <3>1, Places
        <5> DEFINE place == Len(chan) * HandleTime
                   all == ChannelDepth * HandleTime
        <5>4. (i - 1) * HandleTime = place
          BY <5>1
        <5> HIDE DEF place, all
        <5>5. place \in Nat /\ HandleTime + place <= all /\ all \in Nat
              /\ Reading = Arrival + all
          BY <5>3, ReadingTyped DEF place, all
        <5> QED BY <4>1, <4>2, <5>2, <5>4, <5>5
      <4> QED BY <4>1, <4>3, <4>4, <4>5, <4>6
    <3> QED BY <3>1, <3>2, <3>4, <3>5
  <2> QED BY <1>5, <2>1, <2>2
<1> QED
  BY <1>3, <1>4, <1>6 DEF TimeInv

(* Time passes only while the thread has nothing to read, or is not late. *)
LEMMA TickKeepsTime ==
    ASSUME TypeOK, TimeInv, Tick
    PROVE  TimeInv'
<1>1. /\ UNCHANGED <<sent, waiting, chan, srv, log>> /\ clock < MaxTime /\ clock' = clock + 1
      /\ srv.pc = "idle" => chan = <<>>
      /\ srv.pc = "handling" => clock < srv.start + HandleTime
      /\ wire' = {d \in wire : clock' - d.at <= Latency}
  BY DEF Tick
<1>2. Started' = Started /\ clock \in Nat /\ \A q \in Started : sent[q] \in Nat
  BY <1>1 DEF Started, TypeOK
<1>3. ClientInv'
  <2>1. \A q \in Started : sent[q] <= clock'
    BY <1>1, <1>2 DEF TimeInv, ClientInv
  <2> QED BY <1>1, <1>2, <2>1 DEF TimeInv, ClientInv, InWindow
<1>4. WireInv'
  <2> SUFFICES ASSUME NEW d \in wire, clock' - d.at <= Latency
               PROVE  /\ d.req \in Started /\ sent[d.req] <= d.at
                      /\ d.at <= sent[d.req] + Span
                      /\ d.at <= clock' /\ clock' <= d.at + Latency
    BY <1>1, <1>2 DEF WireInv
  <2>1. d.at \in Nat
    BY DEF TypeOK
  <2> QED BY <1>1, <1>2, <2>1 DEF TimeInv, WireInv
<1>5. SrvInv' /\ LogInv' /\ OnceInv'
  <2>1. srv.start \in Nat
    BY DEF TypeOK
  <2>2. SrvInv'
    BY <1>1, <1>2, <2>1 DEF TimeInv, SrvInv
  <2> QED BY <1>1, <1>2, <2>2 DEF TimeInv, LogInv, OnceInv
<1>6. ChanInv'
  <2>1. srv.pc \in {"idle", "handling"}
    BY DEF TypeOK
  <2>2. CASE srv.pc = "idle"
    <3>1. chan' = <<>> /\ DOMAIN chan' = {} /\ Len(chan') = 0
      BY <1>1, <2>2
    <3> QED BY <3>1 DEF ChanInv
  <2>3. CASE srv.pc = "handling"
    <3>1. Free' = Free
      BY <1>1, <2>3 DEF Free
    <3> QED BY <1>1, <1>2, <3>1 DEF TimeInv, ChanInv
  <2> QED BY <2>1, <2>2, <2>3
<1> QED
  BY <1>3, <1>4, <1>5, <1>6 DEF TimeInv

(* A copy at the head of the channel of an idle thread is read in time. *)
LEMMA HeadInTime ==
    ASSUME TypeOK, TimeInv, NEW r \in Req, Takes(r)
    PROVE  /\ r \in Started /\ sent[r] \in Nat /\ clock \in Nat
           /\ sent[r] <= clock /\ clock <= sent[r] + Reading
           /\ 1 \in DOMAIN chan /\ chan[1] = r
           /\ \A n \in DOMAIN log : sent[log[n].req] <= sent[r] + Arrival
<1>1. srv.pc = "idle" /\ chan # <<>> /\ r = Head(chan)
  BY DEF Takes
<1>2. 1 \in DOMAIN chan /\ chan[1] = r
  BY <1>1, ChanTyped
<1>3. Free = clock /\ clock \in Nat
  BY <1>1 DEF Free, TypeOK
<1>4. /\ r \in Started /\ Free + (1 - 1) * HandleTime <= sent[r] + Reading
      /\ \A n \in DOMAIN log : sent[log[n].req] <= sent[r] + Arrival
  BY <1>2 DEF TimeInv, ChanInv
<1>5. (1 - 1) * HandleTime = 0 /\ clock + 0 = clock
  BY <1>3
<1>6. sent[r] <= clock /\ sent[r] \in Nat
  BY <1>4 DEF TimeInv, ClientInv, TypeOK
<1> QED
  BY <1>2, <1>3, <1>4, <1>5, <1>6

(* A request that was executed is not taken for new: the response is too   *)
(* fresh to be swept, and the requests that could have pushed it out were  *)
(* all started within one window around it.                                *)
LEMMA NotAgain ==
    ASSUME ExchangeInv, TimeInv, Timely, NEW r \in Req, Takes(r), MidOf[r] \notin DOMAIN Swept
    PROVE  \A n \in DOMAIN log : log[n].req # r
<1> SUFFICES ASSUME NEW n \in DOMAIN log, log[n].req = r PROVE FALSE
  OBVIOUS
<1>1. TypeOK
  BY DEF ExchangeInv
<1>2. /\ r \in Started /\ sent[r] \in Nat /\ clock \in Nat
      /\ sent[r] <= clock /\ clock <= sent[r] + Reading
      /\ \A k \in DOMAIN log : sent[log[k].req] <= sent[r] + Arrival
  BY <1>1, HeadInTime
<1>3. \A k \in DOMAIN log : /\ log[k].at \in Nat /\ log[k].req \in Started
                            /\ sent[log[k].req] \in Nat
                            /\ sent[log[k].req] <= log[k].at
                            /\ log[k].at <= sent[log[k].req] + Reading + HandleTime
  BY <1>1, LogFinite DEF TimeInv, LogInv, TypeOK
<1>4. ~(clock - log[n].at >= Ttl)
  BY <1>2, <1>3, ReadingTyped DEF Timely
<1>5. Cardinality(NoOlder(n)) >= Cap
  <2>1. Remembered(n) => clock - log[n].at >= Ttl
    <3>1. SUFFICES ASSUME Remembered(n) PROVE clock - log[n].at >= Ttl
      OBVIOUS
    <3>2. MidOf[r] \in DOMAIN dedup /\ dedup[MidOf[r]].resp = n
      BY <3>1 DEF Remembered
    <3>3. clock - dedup[MidOf[r]].at >= Ttl
      BY <1>1, <3>2, SweepFacts
    <3>4. log[n].at = dedup[MidOf[r]].at
      BY <3>2 DEF ExchangeInv, EntriesLogged
    <3> QED BY <3>3, <3>4
  <2> QED BY <1>4, <2>1 DEF ExchangeInv, Kept
<1> DEFINE late == Reading + HandleTime
           a == IF sent[r] >= late THEN sent[r] - late ELSE 0
           others == InWindow(a) \ {r}
           f == [k \in NoOlder(n) |-> log[k].req]
<1>6. /\ late \in Nat /\ Arrival \in Nat /\ Arrival + late < Window
      /\ a \in Nat /\ a <= sent[r] /\ sent[r] - late <= a /\ sent[r] + Arrival < a + Window
  <2>1. late \in Nat /\ Arrival \in Nat /\ Arrival + late < Window
    BY ReadingTyped DEF Timely
  <2> HIDE DEF late
  <2> QED BY <1>2, <2>1
<1>7. \A k \in NoOlder(n) : log[k].req \in others
  <2> SUFFICES ASSUME NEW k \in NoOlder(n) PROVE log[k].req \in others
    OBVIOUS
  <2>1. k \in DOMAIN log /\ k # n /\ log[k].at >= log[n].at
    BY DEF NoOlder
  <2>2. log[k].req # r
    BY <2>1 DEF TimeInv, OnceInv
  <2>3. sent[log[k].req] >= sent[r] - late /\ sent[log[k].req] <= sent[r] + Arrival
    BY <1>2, <1>3, <2>1, ReadingTyped
  <2>4. a <= sent[log[k].req] /\ sent[log[k].req] < a + Window
    <3> HIDE DEF late
    <3>1. sent[log[k].req] \in Nat
      BY <1>3, <2>1
    <3> QED BY <1>2, <1>6, <2>3, <3>1 DEF a
  <2> QED BY <1>3, <2>1, <2>2, <2>4 DEF InWindow
<1>8. f \in Injection(NoOlder(n), others)
  <2>1. \A k, j \in NoOlder(n) : log[k].req = log[j].req => k = j
    BY DEF NoOlder, TimeInv, OnceInv
  <2> HIDE DEF others
  <2> QED BY <1>7, <2>1 DEF Injection, IsInjective
<1>9. IsFiniteSet(InWindow(a)) /\ Cardinality(InWindow(a)) <= Burst /\ r \in InWindow(a)
      /\ Cardinality(InWindow(a)) \in Nat
  <2> HIDE DEF a, late
  <2>1. InWindow(a) \subseteq Started /\ IsFiniteSet(Started)
    BY DEF InWindow, TimeInv, ClientInv
  <2>2. IsFiniteSet(InWindow(a))
    BY <2>1, FS_Subset
  <2>3. r \in InWindow(a)
    BY <1>2, <1>6 DEF InWindow
  <2> QED BY <1>6, <2>2, <2>3, FS_CardinalityType DEF TimeInv, ClientInv
<1>10. IsFiniteSet(others) /\ Cardinality(others) = Cardinality(InWindow(a)) - 1
  <2> HIDE DEF a
  <2> QED BY <1>9, FS_RemoveElement
<1>11. Cardinality(NoOlder(n)) <= Cardinality(others)
  <2> HIDE DEF f, others
  <2> QED BY <1>8, <1>10, FS_Injection
<1>12. Cardinality(NoOlder(n)) \in Nat
  BY <1>1, LogFinite DEF NoOlder
<1> HIDE DEF a, others
<1> QED
  BY <1>5, <1>9, <1>10, <1>11, <1>12 DEF Timely

(* A response that is still fresh under a request's message id is its own: *)
(* the id was not used for another request that recently.                  *)
LEMMA ReplyIsOwn ==
    ASSUME ExchangeInv, TimeInv, Timely, NEW r \in Req, Takes(r), MidOf[r] \in DOMAIN Swept
    PROVE  LET n == Swept[MidOf[r]].resp IN n \in DOMAIN log /\ log[n].req = r
<1> DEFINE m == MidOf[r]
           n == dedup[m].resp
           q == log[n].req
<1>1. TypeOK
  BY DEF ExchangeInv
<1>2. m \in DOMAIN dedup /\ Swept[m] = dedup[m] /\ clock - dedup[m].at < Ttl
  BY DEF Swept
<1>3. n \in DOMAIN log /\ MidOf[q] = m /\ log[n].at = dedup[m].at
  BY <1>2 DEF ExchangeInv, EntriesLogged
<1>4. /\ r \in Started /\ sent[r] \in Nat /\ clock \in Nat
      /\ sent[r] <= clock /\ clock <= sent[r] + Reading
  BY <1>1, HeadInTime
<1>5. /\ log[n].at \in Nat /\ log[n].at <= clock /\ q \in Started /\ sent[q] \in Nat
      /\ sent[q] <= log[n].at
      /\ log[n].at <= sent[q] + Reading + HandleTime
  BY <1>1, <1>3, LogFinite DEF TimeInv, LogInv, TypeOK, ExchangeInv, LogPast
<1> HIDE DEF m, n, q
<1>6. /\ Reading \in Nat /\ Reading < Ttl /\ Reading + HandleTime + Ttl <= Lifetime + 1
  BY ReadingTyped DEF Timely
<1>7. ~(sent[q] + Lifetime < sent[r])
  BY <1>2, <1>3, <1>4, <1>5, <1>6
<1>8. ~(sent[r] + Lifetime < sent[q])
  BY <1>4, <1>5, <1>6
<1>9. MidOf[r] = MidOf[q]
  BY <1>3 DEF m
<1>10. q = r
  BY <1>4, <1>5, <1>7, <1>8, <1>9 DEF TimeInv, ClientInv
<1> QED
  BY <1>2, <1>3, <1>10 DEF m, n, q

(* The thread takes the head of the channel; the others move up. *)
LEMMA TakeKeepsTime ==
    ASSUME ExchangeInv, TimeInv, Timely, NEW r \in Req \cup {NoReq},
           TakeStray(r) \/ TakeDuplicate(r) \/ TakeRequest(r)
    PROVE  TimeInv'
<1>1. /\ UNCHANGED <<clock, sent, waiting, wire, log>> /\ Takes(r)
      /\ \/ srv' = srv
         \/ /\ r # NoReq /\ MidOf[r] \notin DOMAIN Swept
            /\ srv' = [pc |-> "handling", req |-> r, start |-> clock]
  BY DEF TakeStray, TakeDuplicate, TakeRequest, clientVars
<1>2. TypeOK /\ srv.pc = "idle" /\ chan # <<>> /\ r = Head(chan) /\ chan' = Tail(chan)
  BY <1>1 DEF ExchangeInv, Takes
<1>3. Started' = Started /\ clock \in Nat
  BY <1>1, <1>2 DEF Started, TypeOK
<1>4. ClientInv' /\ WireInv' /\ LogInv'
  BY <1>1, <1>3 DEF TimeInv, ClientInv, WireInv, LogInv, InWindow
<1>5. ASSUME srv' # srv
      PROVE  /\ r \in Req /\ srv'.pc = "handling" /\ srv'.req = r /\ srv'.start = clock
             /\ r \in Started /\ sent[r] \in Nat
             /\ sent[r] <= clock /\ clock <= sent[r] + Reading
             /\ \A n \in DOMAIN log : sent[log[n].req] <= sent[r] + Arrival /\ log[n].req # r
  <2>1. r \in Req
    BY <1>1, <1>5
  <2>2. /\ r \in Started /\ sent[r] \in Nat /\ sent[r] <= clock /\ clock <= sent[r] + Reading
        /\ \A n \in DOMAIN log : sent[log[n].req] <= sent[r] + Arrival
    BY <1>1, <1>2, <2>1, HeadInTime
  <2>3. \A n \in DOMAIN log : log[n].req # r
    BY <1>1, <1>5, <2>1, NotAgain
  <2>4. srv'.pc = "handling" /\ srv'.req = r /\ srv'.start = clock
    BY <1>1, <1>5
  <2> QED BY <2>1, <2>2, <2>3, <2>4
<1>6. SrvInv' /\ OnceInv'
  <2>1. CASE srv' = srv
    BY <1>1, <1>2, <2>1 DEF TimeInv, SrvInv, OnceInv
  <2>2. CASE srv' # srv
    <3>1. SrvInv'
      BY <1>1, <1>3, <1>5, <2>2 DEF SrvInv
    <3>2. OnceInv'
      BY <1>1, <1>5, <2>2 DEF TimeInv, OnceInv
    <3> QED BY <3>1, <3>2
  <2> QED BY <2>1, <2>2
<1>7. ChanInv'
  <2>1. /\ chan \in Seq(Req \cup {NoReq}) /\ DOMAIN chan = 1 .. Len(chan) /\ Len(chan) \in Nat
    BY <1>2, ChanTyped
  <2>2. /\ DOMAIN chan' = 1 .. Len(chan) - 1 /\ Len(chan') = Len(chan) - 1
        /\ \A i \in DOMAIN chan' : i + 1 \in DOMAIN chan /\ chan'[i] = chan[i + 1] /\ i \in Nat
        /\ 1 \in DOMAIN chan /\ chan[1] = r
    BY <1>2, <2>1
  <2>3. SUFFICES ASSUME NEW i \in DOMAIN chan', chan'[i] \in Req
                 PROVE  /\ chan'[i] \in Started
                        /\ Free' + (i - 1) * HandleTime <= sent[chan'[i]] + Reading
                        /\ \A j \in DOMAIN chan' : j < i /\ chan'[j] \in Req =>
                              sent[chan'[j]] <= sent[chan'[i]] + Arrival
                        /\ srv'.pc = "handling" => sent[srv'.req] <= sent[chan'[i]] + Arrival
                        /\ \A n \in DOMAIN log : sent[log[n].req] <= sent[chan'[i]] + Arrival
    <3>1. Len(chan') <= ChannelDepth
      BY <2>1, <2>2 DEF TimeInv, ChanInv
    <3> QED BY <1>1, <1>3, <3>1 DEF ChanInv
  <2> DEFINE x == chan[i + 1]
  <2>4. /\ x \in Started
        /\ Free + ((i + 1) - 1) * HandleTime <= sent[x] + Reading
        /\ \A j \in DOMAIN chan : j < i + 1 /\ chan[j] \in Req => sent[chan[j]] <= sent[x] + Arrival
        /\ \A n \in DOMAIN log : sent[log[n].req] <= sent[x] + Arrival
    BY <2>2, <2>3 DEF TimeInv, ChanInv
  <2>5. chan'[i] = x /\ i \in Nat \ {0}
    BY <2>2
  <2>6. \A j \in DOMAIN chan' : j < i /\ chan'[j] \in Req => sent[chan'[j]] <= sent[x] + Arrival
    <3> SUFFICES ASSUME NEW j \in DOMAIN chan', j < i, chan'[j] \in Req
                 PROVE  sent[chan'[j]] <= sent[x] + Arrival
      OBVIOUS
    <3>1. j + 1 \in DOMAIN chan /\ chan'[j] = chan[j + 1] /\ j + 1 < i + 1
      BY <2>2, <2>5
    <3> HIDE DEF x
    <3> QED BY <2>4, <3>1
  <2>7. srv'.pc = "handling" => sent[srv'.req] <= sent[x] + Arrival
    <3>1. CASE srv' = srv
      BY <1>2, <3>1
    <3>2. CASE srv' # srv
      <4>1. srv'.req = chan[1] /\ chan[1] \in Req /\ 1 < i + 1
        BY <1>5, <2>2, <2>5, <3>2
      <4> HIDE DEF x
      <4> QED BY <2>2, <2>4, <4>1
    <3> QED BY <3>1, <3>2
  <2>8. Free' + (i - 1) * HandleTime <= sent[x] + Reading
    <3>1. Free = clock /\ Free' \in Nat /\ Free' <= clock + HandleTime
      BY <1>1, <1>2, <1>3 DEF Free
    <3> DEFINE place == (i - 1) * HandleTime
    <3>2. ((i + 1) - 1) * HandleTime = HandleTime + place /\ place \in Nat
      <4>1. i - 1 \in Nat
        BY <2>5
      <4> QED BY <2>5, <4>1
    <3>3. sent[x] \in Nat /\ Reading \in Nat
      BY <1>2, <2>4, ReadingTyped DEF TypeOK, Started
    <3> HIDE DEF place, x
    <3>4. clock + (HandleTime + place) <= sent[x] + Reading
      BY <2>4, <3>1, <3>2
    <3>5. Free' + place <= sent[x] + Reading
      BY <1>3, <3>1, <3>2, <3>3, <3>4
    <3> QED BY <3>5 DEF place
  <2> QED BY <2>4, <2>5, <2>6, <2>7, <2>8
<1> QED
  BY <1>4, <1>6, <1>7 DEF TimeInv

LEMMA RespondKeepsTime ==
    ASSUME ExchangeInv, TimeInv, Respond
    PROVE  TimeInv'
<1> DEFINE e == [req |-> srv.req, at |-> clock]
           new == Len(log) + 1
<1>1. /\ srv.pc = "handling" /\ log' = Append(log, e) /\ srv' = Idle
      /\ UNCHANGED <<clock, sent, waiting, wire, chan>>
  BY DEF Respond, clientVars
<1>2. TypeOK /\ clock \in Nat /\ srv.start \in Nat /\ log \in Seq([req : Req, at : Nat])
  BY DEF ExchangeInv, TypeOK
<1>3. /\ srv.req \in Started /\ sent[srv.req] <= srv.start
      /\ srv.start <= sent[srv.req] + Reading
      /\ srv.start <= clock /\ clock <= srv.start + HandleTime /\ sent[srv.req] \in Nat
  BY <1>1, <1>2 DEF TimeInv, SrvInv, TypeOK, Started
<1>4. /\ DOMAIN log = 1 .. Len(log) /\ Len(log) \in Nat /\ DOMAIN log' = 1 .. new
      /\ log'[new] = e /\ \A n \in DOMAIN log : log'[n] = log[n]
      /\ new \notin DOMAIN log /\ DOMAIN log' = DOMAIN log \cup {new}
  <2>1. DOMAIN log = 1 .. Len(log) /\ Len(log) \in Nat
    BY <1>2, LogFinite
  <2> DEFINE Entry == [req : Req, at : Nat]
  <2>2. log \in Seq(Entry) /\ e \in Entry
    BY <1>2, <1>3 DEF Started
  <2> HIDE DEF Entry, e
  <2>3. DOMAIN log' = 1 .. new /\ log'[new] = e /\ \A n \in DOMAIN log : log'[n] = log[n]
    BY <1>1, <2>1, <2>2
  <2> QED BY <2>1, <2>3
<1>5. e.req = srv.req /\ e.at = clock
  OBVIOUS
<1>6. Started' = Started /\ srv'.pc = "idle"
  BY <1>1 DEF Started, Idle
<1> HIDE DEF e, new
<1>7. ClientInv' /\ WireInv' /\ SrvInv'
  BY <1>1, <1>6 DEF TimeInv, ClientInv, WireInv, SrvInv, InWindow
<1>8. LogInv'
  <2> SUFFICES ASSUME NEW n \in DOMAIN log'
               PROVE  /\ log'[n].req \in Started /\ sent[log'[n].req] <= log'[n].at
                      /\ log'[n].at <= sent[log'[n].req] + Reading + HandleTime
    BY <1>1, <1>6 DEF LogInv
  <2>1. CASE n \in DOMAIN log
    BY <1>4, <2>1 DEF TimeInv, LogInv
  <2>2. CASE n = new
    <3>1. sent[srv.req] <= clock /\ clock <= sent[srv.req] + Reading + HandleTime
      <4>1. clock \in Nat /\ srv.start \in Nat /\ Reading \in Nat
        BY ONLY <1>2, ReadingTyped
      <4> QED BY <1>3, <4>1
    <3> QED BY <1>3, <1>4, <1>5, <2>2, <3>1
  <2> QED BY <1>4, <2>1, <2>2
<1>9. OnceInv'
  <2>1. \A n \in DOMAIN log : log[n].req # srv.req
    BY <1>1 DEF TimeInv, OnceInv
  <2>2. \A k, n \in DOMAIN log' : log'[k].req = log'[n].req => k = n
    BY <1>4, <1>5, <2>1 DEF TimeInv, OnceInv
  <2> QED BY <1>6, <2>2 DEF OnceInv
<1>10. ChanInv'
  <2> SUFFICES ASSUME NEW i \in DOMAIN chan, chan[i] \in Req
               PROVE  /\ chan[i] \in Started
                      /\ Free' + (i - 1) * HandleTime <= sent[chan[i]] + Reading
                      /\ \A j \in DOMAIN chan : j < i /\ chan[j] \in Req =>
                            sent[chan[j]] <= sent[chan[i]] + Arrival
                      /\ \A n \in DOMAIN log' : sent[log'[n].req] <= sent[chan[i]] + Arrival
    BY <1>1, <1>6 DEF TimeInv, ChanInv
  <2>1. /\ chan[i] \in Started
        /\ Free + (i - 1) * HandleTime <= sent[chan[i]] + Reading
        /\ \A j \in DOMAIN chan : j < i /\ chan[j] \in Req =>
              sent[chan[j]] <= sent[chan[i]] + Arrival
        /\ sent[srv.req] <= sent[chan[i]] + Arrival
        /\ \A n \in DOMAIN log : sent[log[n].req] <= sent[chan[i]] + Arrival
    BY <1>1 DEF TimeInv, ChanInv
  <2>2. \A n \in DOMAIN log' : sent[log'[n].req] <= sent[chan[i]] + Arrival
    BY <1>4, <1>5, <2>1
  <2>3. Free' <= Free /\ Free \in Nat /\ Free' \in Nat
    BY <1>1, <1>2, <1>3, <1>6 DEF Free
  <2> DEFINE place == (i - 1) * HandleTime
  <2>4. place \in Nat
    <3>1. i - 1 \in Nat
      BY <1>2, ChanTyped
    <3> QED BY <3>1
  <2>5. sent[chan[i]] \in Nat /\ Reading \in Nat
    BY <1>2, <2>1, ReadingTyped DEF TypeOK, Started
  <2> HIDE DEF place
  <2>6. Free' + place <= sent[chan[i]] + Reading
    <3>1. Free + place <= sent[chan[i]] + Reading
      BY <2>1 DEF place
    <3> QED BY <2>3, <2>4, <2>5, <3>1
  <2> QED BY <2>1, <2>2, <2>6 DEF place
<1> QED
  BY <1>7, <1>8, <1>9, <1>10 DEF TimeInv

(* With a client and a network in their windows, every copy of a request   *)
(* is where and when TimeInv says, and no request is executed twice.       *)
THEOREM ExchangeTimely == Timely => (Spec => [](ExchangeInv /\ TimeInv))
<1> SUFFICES ASSUME Timely PROVE Spec => [](ExchangeInv /\ TimeInv)
  OBVIOUS
<1>1. Init => TimeInv
  <2> SUFFICES ASSUME Init PROVE TimeInv
    OBVIOUS
  <2>1. DOMAIN chan = {} /\ Len(chan) = 0 /\ DOMAIN log = {} /\ srv.pc # "handling"
        /\ wire = {} /\ waiting = {} /\ clock = 0
    BY DEF Init, Idle
  <2>2. Started = {}
    BY DEF Init, Started
  <2>3. IsFiniteSet(Started) /\ \A a \in Nat : InWindow(a) = {}
    BY <2>2, FS_EmptySet DEF InWindow
  <2>4. ClientInv
    BY <2>1, <2>2, <2>3, FS_EmptySet DEF ClientInv
  <2> QED BY <2>1, <2>4 DEF TimeInv, WireInv, ChanInv, SrvInv, LogInv, OnceInv
<1>2. ExchangeInv /\ TimeInv /\ [Next]_vars => TimeInv'
  <2> SUFFICES ASSUME ExchangeInv, TimeInv, [Next]_vars PROVE TimeInv'
    OBVIOUS
  <2>0. TypeOK
    BY DEF ExchangeInv
  <2>1. CASE Client
    BY <2>0, <2>1, SendKeepsTime, ClientKeepsTime DEF Client
  <2>2. CASE Network
    BY <2>0, <2>2, DeliverKeepsTime DEF Network
  <2>3. CASE Tick
    BY <2>0, <2>3, TickKeepsTime
  <2>4. CASE Respond
    BY <2>4, RespondKeepsTime
  <2>5. CASE \E r \in Req \cup {NoReq} : TakeStray(r) \/ TakeDuplicate(r) \/ TakeRequest(r)
    BY <2>5, TakeKeepsTime
  <2>6. CASE UNCHANGED vars
    <3>1. Started' = Started /\ Free' = Free
      BY <2>6 DEF vars, Started, Free
    <3> QED BY <2>6, <3>1 DEF vars, TimeInv, ClientInv, WireInv, ChanInv, SrvInv, LogInv,
                              OnceInv, InWindow
  <2> QED BY <2>1, <2>2, <2>3, <2>4, <2>5, <2>6 DEF Next, Server
<1> QED
  BY <1>1, <1>2, ExchangeInvariant, PTL DEF Spec

(* Exchange implements AtMostOnce for every number of requests, cache size *)
(* and window: the handler's return maps to the execution, an answer from  *)
(* the cache to a repetition, and everything else to a stutter.            *)
THEOREM ExchangeRefines == Timely => (Spec => ServesAtMostOnce)
<1> SUFFICES ASSUME Timely PROVE Spec => ServesAtMostOnce
  OBVIOUS
<1>1. Init => Once!OnceInit
  <2> SUFFICES ASSUME Init PROVE Once!OnceInit
    OBVIOUS
  <2>1. DOMAIN log = {} /\ said.resp = 0
    BY DEF Init
  <2>2. \A r \in Req : {n \in DOMAIN log : log[n].req = r} = {}
    BY <2>1
  <2>3. \A r \in Req : Cardinality({n \in DOMAIN log : log[n].req = r}) = 0
    BY <2>2, FS_EmptySet
  <2> QED BY <2>1, <2>3 DEF Once!OnceInit
<1>2. ExchangeInv /\ TimeInv /\ [Next]_vars => [Once!OnceNext]_(Once!onceVars)
  <2> SUFFICES ASSUME ExchangeInv, TimeInv, [Next]_vars
               PROVE  [Once!OnceNext]_(Once!onceVars)
    OBVIOUS
  <2>1. CASE UNCHANGED <<log, said>>
    BY <2>1 DEF Once!onceVars
  <2>2. ASSUME NEW r \in Req \cup {NoReq}, TakeDuplicate(r) PROVE Once!OnceNext
    <3>1. /\ r \in Req /\ Takes(r) /\ MidOf[r] \in DOMAIN Swept
          /\ said' = [to |-> r, resp |-> Swept[MidOf[r]].resp] /\ log' = log
      BY <2>2 DEF TakeDuplicate
    <3>2. PICK n \in DOMAIN log : n = said'.resp /\ log[n].req = r
      BY <3>1, ReplyIsOwn
    <3>3. {k \in DOMAIN log : log[k].req = r} = {n}
      BY <3>2 DEF TimeInv, OnceInv
    <3>4. Cardinality({k \in DOMAIN log : log[k].req = r}) = 1
      BY <3>3, FS_Singleton
    <3>5. said'.to = r /\ said'.resp # 0
      BY <3>1, <3>2, LogFinite DEF ExchangeInv
    <3>6. Once!Repeat(r)
      BY <3>1, <3>2, <3>4, <3>5 DEF Once!Repeat
    <3> QED BY <3>1, <3>6 DEF Once!OnceNext
  <2>3. CASE Respond
    <3> DEFINE r == srv.req
               new == Len(log) + 1
    <3>1. /\ srv.pc = "handling" /\ log' = Append(log, [req |-> r, at |-> clock])
          /\ said' = [to |-> r, resp |-> new]
      BY <2>3 DEF Respond
    <3>2. r \in Req /\ \A n \in DOMAIN log : log[n].req # r
      BY <3>1 DEF TimeInv, OnceInv, SrvInv, Started
    <3>3. /\ DOMAIN log' = DOMAIN log \cup {new} /\ log'[new].req = r /\ new # 0
          /\ \A n \in DOMAIN log : log'[n] = log[n]
      <4> DEFINE Entry == [req : Req, at : Nat]
                 e == [req |-> r, at |-> clock]
      <4>1. log \in Seq(Entry) /\ e \in Entry /\ e.req = r
        BY <3>2 DEF ExchangeInv, TypeOK
      <4>2. DOMAIN log = 1 .. Len(log) /\ Len(log) \in Nat
        BY LogFinite DEF ExchangeInv
      <4>3. log' = Append(log, e)
        BY <3>1
      <4> HIDE DEF Entry, e
      <4>4. DOMAIN log' = 1 .. new /\ log'[new] = e /\ \A n \in DOMAIN log : log'[n] = log[n]
        BY <4>1, <4>2, <4>3
      <4> QED BY <4>1, <4>2, <4>4
    <3> HIDE DEF r, new
    <3>4. /\ {n \in DOMAIN log : log[n].req = r} = {} /\ {n \in DOMAIN log' : log'[n].req = r} = {new}
          /\ \A q \in Req \ {r} : {n \in DOMAIN log' : log'[n].req = q}
                                    = {n \in DOMAIN log : log[n].req = q}
      BY <3>2, <3>3
    <3>5. /\ Cardinality({n \in DOMAIN log : log[n].req = r}) = 0
          /\ Cardinality({n \in DOMAIN log' : log'[n].req = r}) = 1
      BY <3>4, FS_EmptySet, FS_Singleton
    <3>6. [q \in Req |-> Cardinality({n \in DOMAIN log' : log'[n].req = q})]
            = [[q \in Req |-> Cardinality({n \in DOMAIN log : log[n].req = q})] EXCEPT ![r] = 1]
      <4> DEFINE before(q) == Cardinality({n \in DOMAIN log : log[n].req = q})
                 after(q) == Cardinality({n \in DOMAIN log' : log'[n].req = q})
      <4>1. after(r) = 1
        BY <3>5
      <4>2. ASSUME NEW q \in Req \ {r} PROVE after(q) = before(q)
        BY <3>4, Zenon
      <4> HIDE DEF before, after
      <4>3. [q \in Req |-> after(q)] = [[q \in Req |-> before(q)] EXCEPT ![r] = 1]
        BY <3>2, <4>1, <4>2
      <4> QED BY <4>3 DEF before, after
    <3>7. said'.resp = new /\ said'.to = r
      BY <3>1
    <3>8. Once!Execute(r)
      BY <3>2, <3>3, <3>5, <3>6, <3>7 DEF Once!Execute
    <3> QED BY <3>2, <3>8 DEF Once!OnceNext
  <2>4. CASE Client \/ Network \/ Tick
    BY <2>1, <2>4 DEF Client, Network, Tick, SendRequest, Retransmit, StopWaiting, Deliver,
                      DeliverStray
  <2>5. ASSUME NEW r \in Req \cup {NoReq}, TakeStray(r) \/ TakeRequest(r)
        PROVE  UNCHANGED <<log, said>>
    BY <2>5 DEF TakeStray, TakeRequest
  <2>6. CASE UNCHANGED vars
    BY <2>1, <2>6 DEF vars
  <2> QED BY <2>1, <2>2, <2>3, <2>4, <2>5, <2>6 DEF Next, Server
<1> QED
  BY <1>1, <1>2, ExchangeTimely, PTL DEF Spec, ServesAtMostOnce, Once!OnceSpec
=============================================================================
