------------------------ MODULE PskHandshakeProofs ------------------------
(***************************************************************************)
(* Proofs about PskHandshake: the resolver keeps its invariant under the   *)
(* callbacks that drive it, and every served session is proven.            *)
(***************************************************************************)
EXTENDS PskHandshake, PskResolverProofs

(* What the registry said of n for i, in force or superseded, was a pigeon. *)
WasLive(i, n) ==
    /\ i \in Identity
    /\ n \in 1 .. Current(i)
    /\ registry[i][n].live

HsTypeOK ==
    hs \in [Thread -> [phase : {"none", "hello", "lookup", "keyed", "serving"},
                       id : Identity \cup {NoIdentity, BadIdentity},
                       key : Nat, creds : Nat]]

(* The key and the token on one session were minted together. *)
KeyedTruthful ==
    \A t \in Thread : hs[t].phase \in {"keyed", "serving"} =>
        \/ hs[t].key = NoKey /\ hs[t].phase = "keyed"
        \/ hs[t].creds = hs[t].key /\ WasLive(hs[t].id, hs[t].key)

(* The lookup a callback waits for is one of its own identity. *)
LookupsOwn ==
    /\ \A t \in Thread : hs[t].phase = "lookup" => call[t].id = hs[t].id
    /\ \A t \in Thread : hs[t].phase = "hello" => hs[t].id \in Identity \cup {BadIdentity}

HsInv == PskInv /\ HsTypeOK /\ KeyedTruthful /\ LookupsOwn

-----------------------------------------------------------------------------
(* The registry only grows: what it said stays said. *)
LEMMA LiveStays ==
    ASSUME PskInv, NEW i \in Identity, RegistryChanges(i), NEW j, NEW n, WasLive(j, n)
    PROVE  WasLive(j, n)'
<1>1. /\ n \in 1 .. Current(j)'
      /\ registry'[j][n] = registry[j][n]
  BY ChangeKeepsPast DEF PskInv, WasLive
<1> QED
  BY <1>1 DEF WasLive

(* What resolve returned as an entry was live: the resolver's own          *)
(* invariant, read in the state after the return.                          *)
LEMMA AcceptedLive ==
    ASSUME PskInv', UNCHANGED registry, NEW i \in Identity, served'.id = i, Accepted(served')
    PROVE  WasLive(i, served'.ans) /\ served'.ans \in Nat
<1>1. served'.how \in {"hit", "stale", "fetched"}
  BY DEF Accepted
<1>2. ServedRecently' /\ served' \in Result
  BY DEF PskInv, TypeOK
<1>3. served'.ans \in 1 .. Len(registry'[i])
  BY <1>1, <1>2 DEF ServedRecently, Current
<1>4. served'.how # "fetched" => registry'[i][served'.ans].live
  BY <1>1, <1>2 DEF ServedRecently
<1>5. registry[i][served'.ans].live
  BY <1>4 DEF Accepted
<1> QED
  BY <1>2, <1>3, <1>5 DEF WasLive, Current, Result

-----------------------------------------------------------------------------
(* A callback whose resolve returned for its own identity leaves a session *)
(* that is rejected, or keyed with what resolve returned.                  *)
LEMMA ReturnKeepsHs ==
    ASSUME HsInv, PskInv', UNCHANGED registry, NEW t \in Thread,
           hs[t].phase \in {"hello", "lookup"}, hs[t].id \in Identity,
           \A u \in Thread \ {t} : call'[u] = call[u],
           served'.id = hs[t].id, Returned(t)
    PROVE  HsTypeOK' /\ KeyedTruthful' /\ LookupsOwn'
<1> USE DEF HsInv
<1>1. \A i, n : WasLive(i, n)' = WasLive(i, n)
  BY DEF WasLive, Current
<1>2. CASE hs' = [hs EXCEPT ![t] = NoHandshake]
  BY <1>1, <1>2 DEF HsTypeOK, KeyedTruthful, LookupsOwn, NoHandshake, NoKey
<1>3. CASE hs' = [hs EXCEPT ![t].phase = "keyed", ![t].key = NoKey]
  BY <1>1, <1>3 DEF HsTypeOK, KeyedTruthful, LookupsOwn, NoKey
<1>4. CASE /\ Accepted(served')
           /\ hs' = [hs EXCEPT ![t].phase = "keyed", ![t].key = served'.ans,
                               ![t].creds = served'.ans]
  <2>1. WasLive(hs[t].id, served'.ans) /\ served'.ans \in Nat
    BY <1>4, AcceptedLive
  <2>2. HsTypeOK' /\ LookupsOwn'
    <3>1. HsTypeOK'
      <4>1. PICK n \in Nat : hs' = [hs EXCEPT ![t].phase = "keyed", ![t].key = n, ![t].creds = n]
        BY <1>4, <2>1
      <4> DEFINE h == [hs EXCEPT ![t].phase = "keyed", ![t].key = n]
                 S == [phase : {"none", "hello", "lookup", "keyed", "serving"},
                       id : Identity \cup {NoIdentity, BadIdentity},
                       key : Nat, creds : Nat]
      <4>2. h \in [Thread -> S]
        BY DEF HsTypeOK
      <4>3. hs' = [h EXCEPT ![t].creds = n]
        BY <4>1
      <4>4. hs' \in [Thread -> S]
        <5> HIDE DEF h
        <5> QED BY <4>2, <4>3
      <4> QED BY <4>4 DEF HsTypeOK
    <3>2. LookupsOwn'
      BY <1>4 DEF HsTypeOK, LookupsOwn
    <3> QED BY <3>1, <3>2
  <2>3. KeyedTruthful'
    BY <1>1, <1>4, <2>1 DEF HsTypeOK, KeyedTruthful
  <2> QED
    BY <2>2, <2>3
<1> QED
  BY <1>2, <1>3, <1>4 DEF Returned, Install, Reject, Drop

(* Steps of the registry and the clock leave the handshakes alone. *)
LEMMA RegistersKeepsHs ==
    ASSUME HsInv, Registers
    PROVE  HsInv'
<1> USE DEF HsInv
<1>1. UNCHANGED <<hs, call>>
  BY DEF Registers, Tick, RegistryChanges
<1>2. PskInv'
  BY TickKeepsInv, ChangeKeepsInv DEF Registers
<1>3. \A j, n : WasLive(j, n) => WasLive(j, n)'
  <2>1. CASE Tick
    BY <2>1 DEF Tick, WasLive, Current
  <2>2. CASE \E i \in Identity : RegistryChanges(i)
    BY <2>2, LiveStays
  <2> QED
    BY <2>1, <2>2 DEF Registers
<1>4. HsTypeOK' /\ LookupsOwn'
  BY <1>1 DEF HsTypeOK, LookupsOwn
<1>5. KeyedTruthful'
  BY <1>1, <1>3 DEF KeyedTruthful
<1> QED
  BY <1>2, <1>4, <1>5

(* Steps that leave the resolver alone. *)
LEMMA LocalKeepsHs ==
    ASSUME HsInv, NEW t \in Thread,
           Begin(t) \/ IdentityGarbled(t) \/ HandshakeDone(t) \/ Ends(t)
    PROVE  HsInv'
<1> USE DEF HsInv
<1>1. UNCHANGED vars
  BY DEF Begin, IdentityGarbled, HandshakeDone, Ends
<1>2. PskInv'
  BY <1>1, StutterKeepsInv
<1>3. UNCHANGED <<registry, call>> /\ \A i, n : WasLive(i, n)' = WasLive(i, n)
  BY <1>1 DEF vars, WasLive, Current
<1>4. HsTypeOK' /\ KeyedTruthful' /\ LookupsOwn'
  <2>1. CASE hs' = [hs EXCEPT ![t] = NoHandshake]
    BY <1>3, <2>1 DEF HsTypeOK, KeyedTruthful, LookupsOwn, NoHandshake, NoKey
  <2>2. CASE hs' = [hs EXCEPT ![t].phase = "keyed", ![t].key = NoKey]
    <3>1. HsTypeOK'
      BY <2>2 DEF HsTypeOK, NoKey
    <3>2. KeyedTruthful'
      BY <1>3, <2>2 DEF HsTypeOK, KeyedTruthful
    <3>3. LookupsOwn'
      BY <1>3, <2>2 DEF HsTypeOK, LookupsOwn
    <3> QED BY <3>1, <3>2, <3>3
  <2>3. CASE Begin(t)
    <3>1. PICK i \in Identity \cup {BadIdentity} :
            hs' = [hs EXCEPT ![t] = [phase |-> "hello", id |-> i, key |-> 0, creds |-> 0]]
      BY <2>3 DEF Begin, NoHandshake, NoKey
    <3> QED
      BY <1>3, <3>1 DEF HsTypeOK, KeyedTruthful, LookupsOwn
  <2>4. CASE /\ hs[t].phase = "keyed" /\ hs[t].key # NoKey
             /\ hs' = [hs EXCEPT ![t].phase = "serving", ![t].creds = hs[t].creds]
    BY <1>3, <2>4 DEF HsTypeOK, KeyedTruthful, LookupsOwn
  <2> QED
    BY <2>1, <2>2, <2>3, <2>4
       DEF IdentityGarbled, HandshakeDone, Ends, Reject, Drop, CredsOf
<1> QED
  BY <1>2, <1>4

(* The callback asks the cache, and returns or goes on to the lookup. *)
LEMMA CallbackKeepsHs ==
    ASSUME HsInv, NEW t \in Thread, CallbackFromCache(t) \/ CallbackFetches(t)
    PROVE  HsInv'
<1> USE DEF HsInv
<1>1. hs[t].phase = "hello" /\ hs[t].id \in Identity
  BY DEF CallbackFromCache, CallbackFetches, LookupsOwn
<1>2. PskInv'
  BY <1>1, ResolveKeepsInv DEF CallbackFromCache, CallbackFetches
<1>3. UNCHANGED registry /\ \A u \in Thread \ {t} : call'[u] = call[u]
  BY DEF CallbackFromCache, CallbackFetches, ResolveHit, ResolveMiss, ResolveFetches,
         Return, PskInv, TypeOK
<1>4. CASE CallbackFromCache(t)
  <2>1. served'.id = hs[t].id
    BY <1>4 DEF CallbackFromCache, ResolveHit, ResolveMiss, Return
  <2> QED
    BY <1>1, <1>2, <1>3, <1>4, <2>1, ReturnKeepsHs DEF CallbackFromCache
<1>5. CASE CallbackFetches(t)
  <2>1. hs' = [hs EXCEPT ![t].phase = "lookup"]
    BY <1>5 DEF CallbackFetches
  <2>2. call'[t].id = hs[t].id
    BY <1>5 DEF CallbackFetches, ResolveFetches, PskInv, TypeOK
  <2>3. HsTypeOK' /\ LookupsOwn'
    BY <1>3, <2>1, <2>2 DEF HsTypeOK, LookupsOwn
  <2>4. KeyedTruthful'
    BY <1>3, <2>1 DEF HsTypeOK, KeyedTruthful, WasLive, Current
  <2> QED
    BY <1>2, <2>3, <2>4
<1> QED
  BY <1>4, <1>5

(* The lookup reaches dovecote, and comes back or fails. *)
LEMMA LookupKeepsHs ==
    ASSUME HsInv, NEW t \in Thread, LookupReaches(t) \/ CallbackAnswered(t)
    PROVE  HsInv'
<1> USE DEF HsInv
<1>1. CASE LookupReaches(t)
  <2>1. UNCHANGED <<hs, registry>> /\ \A u \in Thread : call'[u].id = call[u].id
    BY <1>1 DEF LookupReaches, SourceAnswers, PskInv, TypeOK, Call
  <2>2. PskInv'
    BY <1>1, AnswerKeepsInv DEF LookupReaches
  <2> QED
    BY <2>1, <2>2 DEF HsTypeOK, LookupsOwn, KeyedTruthful, WasLive, Current
<1>2. CASE CallbackAnswered(t)
  <2>1. hs[t].phase = "lookup" /\ call[t].id = hs[t].id /\ call[t].pc # "idle"
    BY <1>2 DEF CallbackAnswered, LookupsOwn, StoreAnswer, FetchFails
  <2>2. hs[t].id \in Identity
    BY <2>1 DEF PskInv, CallsTruthful
  <2>3. PskInv'
    BY <1>2, StoreKeepsInv, FailureKeepsInv DEF CallbackAnswered
  <2>4. /\ UNCHANGED registry
        /\ \A u \in Thread \ {t} : call'[u] = call[u]
        /\ served'.id = hs[t].id
    BY <1>2, <2>1 DEF CallbackAnswered, StoreAnswer, FetchFails, Return, PskInv, TypeOK
  <2> QED
    BY <1>2, <2>1, <2>2, <2>3, <2>4, ReturnKeepsHs DEF CallbackAnswered
<1> QED
  BY <1>1, <1>2

-----------------------------------------------------------------------------
(* The resolver's invariant and the handshakes' hold together, in every    *)
(* state the callbacks of any number of threads can reach.                 *)
THEOREM HsInvariant == HsSpec => []HsInv
<1>1. HsInit => HsInv
  <2> SUFFICES ASSUME HsInit PROVE HsInv
    OBVIOUS
  <2>1. PskInv
    BY InitHasInv DEF HsInit
  <2> QED
    BY <2>1 DEF HsInit, HsInv, HsTypeOK, KeyedTruthful, LookupsOwn, NoHandshake, NoKey
<1>2. HsInv /\ [HsNext]_hsVars => HsInv'
  <2> SUFFICES ASSUME HsInv, [HsNext]_hsVars PROVE HsInv'
    OBVIOUS
  <2>1. CASE UNCHANGED hsVars
    <3>1. UNCHANGED <<hs, registry, call>> /\ UNCHANGED vars
      BY <2>1 DEF hsVars, vars
    <3>2. PskInv'
      BY <3>1, StutterKeepsInv DEF HsInv
    <3> QED
      BY <3>1, <3>2 DEF HsInv, HsTypeOK, KeyedTruthful, LookupsOwn, WasLive, Current
  <2> QED
    BY <2>1, RegistersKeepsHs, LocalKeepsHs, CallbackKeepsHs, LookupKeepsHs DEF HsNext
<1> QED
  BY <1>1, <1>2, PTL DEF HsSpec

(* A served session carries the token minted with the PSK its client       *)
(* proved to know, of the identity it named, whatever the other threads    *)
(* and dovecote did between the callback and the end of the handshake.     *)
THEOREM SessionsProven == HsSpec => []SessionProven
<1>1. HsInv => SessionProven
  BY DEF HsInv, KeyedTruthful, SessionProven, WasLive
<1> QED
  BY <1>1, HsInvariant, PTL
=============================================================================
