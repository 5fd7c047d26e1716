------------------------- MODULE PskResolverProofs -------------------------
(***************************************************************************)
(* Proofs about PskResolver: for every number of threads and identities,   *)
(* every TTL and every lookup time.  The argument is that an entry's age   *)
(* is counted from before dovecote read its registry, so that it is never  *)
(* younger than the answer it holds.                                       *)
(***************************************************************************)
EXTENDS PskResolver, TLAPS

(* The registry has an answer for every identity, none of it in the future. *)
RegistryPast ==
    \A i \in Identity :
        /\ Current(i) \in Nat \ {0}
        /\ \A n \in 1 .. Current(i) : registry[i][n].from <= clock

(* A lookup in progress is younger than the timeout, and what dovecote     *)
(* told it was not superseded before it began.                             *)
CallsTruthful ==
    \A t \in Thread : call[t].pc # "idle" =>
        /\ call[t].id \in Identity
        /\ call[t].start <= clock
        /\ clock <= call[t].start + FetchTimeout
        /\ call[t].pc = "answered" =>
             /\ call[t].ans \in 1 .. Current(call[t].id)
             /\ call[t].start <= Superseded(call[t].id, call[t].ans)

ServedPast ==
    /\ served.at <= clock
    /\ served.how # "none" => served.id \in Identity

PskInv ==
    TypeOK /\ RegistryPast /\ CallsTruthful /\ ServedPast /\ CacheTruthful /\ ServedRecently

USE PskAssumption

-----------------------------------------------------------------------------
(* Every recorded answer has its type. *)
LEMMA AnswerTyped ==
    ASSUME TypeOK, NEW i \in Identity, NEW n \in 1 .. Current(i)
    PROVE  /\ registry[i][n] \in [live : BOOLEAN, from : Nat]
           /\ registry[i][n].live \in BOOLEAN /\ registry[i][n].from \in Nat
<1> DEFINE R == [live : BOOLEAN, from : Nat]
<1>1. registry[i] \in Seq(R)
  BY DEF TypeOK
<1>2. registry[i][n] \in R
  <2> HIDE DEF R
  <2> QED BY <1>1 DEF Current
<1> QED
  BY <1>2

(* An answer is never superseded in the future. *)
LEMMA SupersededPast ==
    ASSUME TypeOK, RegistryPast, NEW i \in Identity, NEW n \in 1 .. Current(i)
    PROVE  Superseded(i, n) \in Nat /\ Superseded(i, n) <= clock
<1>1. clock \in Nat /\ Current(i) \in Nat
  BY DEF TypeOK, RegistryPast
<1>2. CASE n < Current(i)
  BY <1>1, <1>2, AnswerTyped DEF RegistryPast, Superseded
<1>3. CASE ~(n < Current(i))
  BY <1>1, <1>3 DEF Superseded
<1> QED BY <1>2, <1>3

(* A change of the registry keeps its past, and supersedes the answer in   *)
(* force at the present instant.                                           *)
LEMMA ChangeKeepsPast ==
    ASSUME TypeOK, RegistryPast, NEW i \in Identity, RegistryChanges(i)
    PROVE  /\ registry' \in [Identity -> Seq([live : BOOLEAN, from : Nat])]
           /\ RegistryPast'
           /\ \A j \in Identity : \A n \in 1 .. Current(j) :
                /\ n \in 1 .. Current(j)'
                /\ registry'[j][n] = registry[j][n]
                /\ Superseded(j, n)' = Superseded(j, n)
<1>1. PICK r \in [live : BOOLEAN, from : Nat] :
        r.from = clock /\ registry' = [registry EXCEPT ![i] = Append(@, r)]
  BY DEF RegistryChanges, TypeOK
<1>2. /\ registry' \in [Identity -> Seq([live : BOOLEAN, from : Nat])]
      /\ clock' = clock
  BY <1>1 DEF TypeOK, RegistryChanges
<1>3. ASSUME NEW j \in Identity
      PROVE  /\ Current(j) \in Nat
             /\ j # i => registry'[j] = registry[j]
             /\ j = i => /\ Current(j)' = Current(j) + 1
                         /\ registry'[j][Current(j) + 1] = r
                         /\ \A n \in 1 .. Current(j) : registry'[j][n] = registry[j][n]
  BY <1>1 DEF TypeOK, Current
<1>4. RegistryPast'
  <2> SUFFICES ASSUME NEW j \in Identity
               PROVE  /\ Current(j)' \in Nat \ {0}
                      /\ \A n \in 1 .. Current(j)' : registry'[j][n].from <= clock
    BY <1>2 DEF RegistryPast
  <2> QED
    BY <1>1, <1>3 DEF RegistryPast, Current, TypeOK
<1>5. ASSUME NEW j \in Identity, NEW n \in 1 .. Current(j)
      PROVE  /\ n \in 1 .. Current(j)'
             /\ registry'[j][n] = registry[j][n]
             /\ Superseded(j, n)' = Superseded(j, n)
  <2>1. CASE j # i
    BY <1>2, <1>3, <2>1 DEF Superseded, Current
  <2>2. CASE j = i
    <3>1. /\ n < Current(j)' /\ n \in 1 .. Current(j)'
          /\ registry'[j][n] = registry[j][n]
      BY <1>3, <2>2
    <3>2. Superseded(j, n)' = registry'[j][n + 1].from
      BY <3>1 DEF Superseded
    <3>3. CASE n < Current(j)
      BY <1>3, <2>2, <3>1, <3>2, <3>3 DEF Superseded
    <3>4. CASE n = Current(j)
      <4>1. registry'[j][n + 1] = r
        BY <1>3, <2>2, <3>4
      <4>2. Superseded(j, n) = clock
        BY <1>3, <3>4 DEF Superseded
      <4> QED
        BY <1>1, <3>1, <3>2, <4>1, <4>2
    <3> QED
      BY <1>3, <3>3, <3>4
  <2> QED BY <2>1, <2>2
<1> QED
  BY <1>2, <1>4, <1>5

(* Nothing but a change of the registry touches what it says. *)
LEMMA RegistryStill ==
    ASSUME UNCHANGED <<registry, clock>>
    PROVE  /\ \A i : Current(i)' = Current(i)
           /\ \A i, n : Superseded(i, n)' = Superseded(i, n)
BY DEF Superseded, Current

-----------------------------------------------------------------------------
(* The registry changes. *)
LEMMA ChangeKeepsInv ==
    ASSUME PskInv, NEW i \in Identity, RegistryChanges(i)
    PROVE  PskInv'
<1> USE DEF PskInv
<1>1. UNCHANGED <<clock, cache, call, served>>
  BY DEF RegistryChanges
<1>2. TypeOK' /\ RegistryPast'
  BY <1>1, ChangeKeepsPast DEF TypeOK
<1>3. CallsTruthful' /\ ServedPast'
  BY <1>1, ChangeKeepsPast DEF CallsTruthful, ServedPast
<1>4. CacheTruthful'
  BY <1>1, ChangeKeepsPast DEF CacheTruthful
<1>5. ServedRecently'
  <2> SUFFICES ASSUME served.how \in {"hit", "miss", "fetched", "stale"}
               PROVE  ServedRecently'
    BY <1>1 DEF ServedRecently
  <2>1. served.id \in Identity /\ served.ans \in 1 .. Current(served.id)
    BY DEF ServedRecently, ServedPast
  <2> QED
    BY <1>1, <2>1, ChangeKeepsPast DEF ServedRecently, Allowance
<1> QED
  BY <1>2, <1>3, <1>4, <1>5

(* Time passes. *)
LEMMA TickKeepsInv ==
    ASSUME PskInv, Tick
    PROVE  PskInv'
<1> USE DEF PskInv
<1>1. clock' = clock + 1 /\ UNCHANGED <<registry, cache, call, served>> /\ clock \in Nat
  BY DEF Tick, TypeOK
<1>2. /\ \A i : Current(i)' = Current(i)
      /\ \A i \in Identity : \A n \in 1 .. Current(i) :
           /\ Superseded(i, n) \in Nat /\ Superseded(i, n)' \in Nat
           /\ Superseded(i, n) <= Superseded(i, n)'
           /\ n = Current(i) => Superseded(i, n) = clock
           /\ n # Current(i) => Superseded(i, n)' = Superseded(i, n)
  BY <1>1, SupersededPast DEF Superseded, Current
<1>3. TypeOK' /\ ServedPast'
  BY <1>1 DEF TypeOK, ServedPast, Result
<1>7. RegistryPast'
  <2> SUFFICES ASSUME NEW i \in Identity, NEW n \in 1 .. Current(i)
               PROVE  registry[i][n].from <= clock + 1
    BY <1>1, <1>2 DEF RegistryPast
  <2> QED
    BY <1>1, AnswerTyped DEF RegistryPast
<1>4. CallsTruthful'
  BY <1>1, <1>2 DEF CallsTruthful, Tick, TypeOK, Call
<1>5. CacheTruthful'
  BY <1>1, <1>2 DEF CacheTruthful, TypeOK, Entry
<1>6. ServedRecently'
  <2> SUFFICES ASSUME served.how \in {"hit", "miss", "fetched", "stale"}
               PROVE  ServedRecently'
    BY <1>1 DEF ServedRecently
  <2>1. served.id \in Identity /\ served.ans \in 1 .. Current(served.id) /\ served.at \in Nat
    BY DEF ServedRecently, ServedPast, TypeOK, Result
  <2> QED
    BY <1>1, <1>2, <2>1 DEF ServedRecently, ServedPast, Allowance
<1> QED
  BY <1>3, <1>4, <1>5, <1>6, <1>7

(* A call answers from the cache, starts a lookup, or hears from dovecote. *)
LEMMA ResolveKeepsInv ==
    ASSUME PskInv, NEW t \in Thread, NEW i \in Identity,
           ResolveHit(t, i) \/ ResolveMiss(t, i) \/ ResolveFetches(t, i)
    PROVE  PskInv'
<1> USE DEF PskInv
<1>0. UNCHANGED <<clock, registry, cache>>
  BY DEF ResolveHit, ResolveMiss, ResolveFetches
<1>1. RegistryPast' /\ CacheTruthful'
  BY <1>0, RegistryStill DEF RegistryPast, CacheTruthful
<1>2. CASE ResolveFetches(t, i)
  <2>1. TypeOK' /\ ServedPast' /\ ServedRecently'
    BY <1>0, <1>2, RegistryStill
       DEF ResolveFetches, TypeOK, Call, ServedPast, ServedRecently, Allowance
  <2>2. CallsTruthful'
    BY <1>0, <1>2, RegistryStill DEF ResolveFetches, CallsTruthful, TypeOK, Call
  <2> QED BY <1>1, <2>1, <2>2
<1>3. CASE ResolveHit(t, i) \/ ResolveMiss(t, i)
  <2>1. /\ cache[i].kind # "absent" /\ cache[i].fetched \in Nat /\ cache[i].ans \in Nat
        /\ Superseded(i, cache[i].ans) \in Nat
        /\ cache[i].fetched <= Superseded(i, cache[i].ans)
        /\ cache[i].fetched <= clock /\ clock \in Nat
        /\ cache[i].ans \in 1 .. Current(i)
        /\ registry[i][cache[i].ans].live = (cache[i].kind = "known")
    BY <1>3, SupersededPast
       DEF ResolveHit, ResolveMiss, FreshKnown, FreshUnknown, CacheTruthful, TypeOK, Entry
  <2>5. PICK how \in {"hit", "miss"} : Return(t, how, i, cache[i].ans, "ok")
    BY <1>3 DEF ResolveHit, ResolveMiss
  <2>2. TypeOK'
    BY <1>0, <2>1, <2>5 DEF Return, TypeOK, Result, Call, Idle
  <2>3. ServedPast' /\ CallsTruthful'
    BY <1>0, <2>1, <2>5, RegistryStill DEF Return, ServedPast, CallsTruthful, Idle, TypeOK
  <2>4. ServedRecently'
    <3>1. CASE ResolveHit(t, i)
      <4>1. /\ served'.how = "hit" /\ served'.id = i
            /\ served'.ans = cache[i].ans /\ served'.at = clock
        BY <3>1 DEF ResolveHit, Return
      <4>2. cache[i].kind = "known" /\ clock - Superseded(i, cache[i].ans) < PositiveTtl
        BY <2>1, <3>1 DEF ResolveHit, FreshKnown, Younger
      <4>3. registry'[i][cache[i].ans].live
        BY <1>0, <2>1, <4>2
      <4> QED
        BY <2>1, <4>1, <4>2, <4>3, <1>0, RegistryStill DEF ServedRecently, Allowance
    <3>2. CASE ResolveMiss(t, i)
      <4>1. /\ served'.how = "miss" /\ served'.id = i
            /\ served'.ans = cache[i].ans /\ served'.at = clock
        BY <3>2 DEF ResolveMiss, Return
      <4>2. cache[i].kind = "unknown" /\ clock - Superseded(i, cache[i].ans) < NegativeTtl
        BY <2>1, <3>2 DEF ResolveMiss, FreshUnknown, Younger
      <4>3. ~registry'[i][cache[i].ans].live
        BY <1>0, <2>1, <4>2
      <4> QED
        BY <2>1, <4>1, <4>2, <4>3, <1>0, RegistryStill DEF ServedRecently, Allowance
    <3> QED BY <1>3, <3>1, <3>2
  <2> QED BY <1>1, <2>2, <2>3, <2>4
<1> QED
  BY <1>2, <1>3

(* dovecote answers with what is in force, so nothing superseded it yet. *)
LEMMA AnswerKeepsInv ==
    ASSUME PskInv, NEW t \in Thread, SourceAnswers(t)
    PROVE  PskInv'
<1> USE DEF PskInv
<1>1. UNCHANGED <<clock, registry, cache, served>>
  BY DEF SourceAnswers
<1>2. RegistryPast' /\ CacheTruthful' /\ ServedPast' /\ ServedRecently'
  BY <1>1, RegistryStill
     DEF RegistryPast, CacheTruthful, ServedPast, ServedRecently, Allowance
<1>3. /\ call[t].id \in Identity /\ Current(call[t].id) \in Nat \ {0}
      /\ Superseded(call[t].id, Current(call[t].id)) = clock
  BY DEF SourceAnswers, CallsTruthful, RegistryPast, Superseded
<1>4. TypeOK'
  BY <1>1, <1>3 DEF SourceAnswers, TypeOK, Call
<1>5. CallsTruthful'
  BY <1>1, <1>3, RegistryStill DEF SourceAnswers, CallsTruthful, TypeOK, Call
<1> QED
  BY <1>2, <1>4, <1>5

(* An answer is stored under the time its call began. *)
LEMMA StoreKeepsInv ==
    ASSUME PskInv, NEW t \in Thread, StoreAnswer(t)
    PROVE  PskInv'
<1> USE DEF PskInv
<1> DEFINE i == call[t].id
           n == call[t].ans
<1>1. UNCHANGED <<clock, registry>> /\ clock \in Nat
  BY DEF StoreAnswer, TypeOK
<1>2. /\ i \in Identity /\ n \in 1 .. Current(i) /\ n \in Nat
      /\ call[t].start \in Nat /\ call[t].start <= Superseded(i, n)
      /\ clock <= call[t].start + FetchTimeout
      /\ Superseded(i, n) \in Nat
      /\ registry[i][n].live \in BOOLEAN
  BY SupersededPast, AnswerTyped DEF StoreAnswer, CallsTruthful, TypeOK, Call
<1>3. RegistryPast'
  BY <1>1, RegistryStill DEF RegistryPast
<1>4. TypeOK'
  BY <1>1, <1>2 DEF StoreAnswer, Return, Stamp, TypeOK, Entry, Result, Call, Idle
<1>5. ServedPast' /\ CallsTruthful'
  BY <1>1, <1>2, RegistryStill
     DEF StoreAnswer, Return, ServedPast, CallsTruthful, Idle, TypeOK
<1>6. CacheTruthful'
  BY <1>1, <1>2, RegistryStill DEF StoreAnswer, Stamp, CacheTruthful, TypeOK
<1>7. ServedRecently'
  BY <1>1, <1>2, RegistryStill DEF StoreAnswer, Return, ServedRecently, Allowance
<1> QED
  BY <1>3, <1>4, <1>5, <1>6, <1>7

(* A failed lookup changes no entry; what it may serve is in its grace. *)
LEMMA FailureKeepsInv ==
    ASSUME PskInv, NEW t \in Thread, FetchFails(t)
    PROVE  PskInv'
<1> USE DEF PskInv
<1> DEFINE i == call[t].id
           e == cache[i]
           stale == e.kind = "known" /\ Younger(e, call[t].start, StaleGrace)
<1>1. UNCHANGED <<clock, registry, cache>> /\ clock \in Nat
  BY DEF FetchFails, KeepOnFailure, TypeOK
<1>2. PICK why \in {"transport", "status"} :
        Return(t, IF stale THEN "stale" ELSE "refused", i, IF stale THEN e.ans ELSE 0, why)
  BY DEF FetchFails
<1>3. /\ i \in Identity /\ call[t].start \in Nat /\ e.fetched \in Nat /\ e.ans \in Nat
      /\ call[t].start <= clock /\ clock <= call[t].start + FetchTimeout
  BY DEF FetchFails, CallsTruthful, TypeOK, Call, Entry
<1>4. e.kind = "known" => /\ e.ans \in 1 .. Current(i) /\ registry[i][e.ans].live
                          /\ Superseded(i, e.ans) \in Nat
                          /\ e.fetched <= Superseded(i, e.ans)
  BY <1>3, SupersededPast DEF CacheTruthful
<1>5. RegistryPast' /\ CacheTruthful'
  BY <1>1, RegistryStill DEF RegistryPast, CacheTruthful
<1>6. TypeOK'
  BY <1>1, <1>2, <1>3 DEF Return, TypeOK, Result, Call, Idle
<1>7. ServedPast' /\ CallsTruthful'
  BY <1>1, <1>2, <1>3, RegistryStill DEF Return, ServedPast, CallsTruthful, Idle, TypeOK
<1>8. ServedRecently'
  <2>1. CASE stale
    BY <1>1, <1>2, <1>3, <1>4, <2>1, RegistryStill
       DEF Return, ServedRecently, Allowance, Younger
  <2>2. CASE ~stale
    BY <1>2, <2>2 DEF Return, ServedRecently
  <2> QED BY <2>1, <2>2
<1> QED
  BY <1>5, <1>6, <1>7, <1>8

(* PskInv holds initially. *)
LEMMA InitHasInv == ASSUME Init PROVE PskInv
<1>1. \A i \in Identity :
        \E b \in BOOLEAN : registry[i] = <<[live |-> b, from |-> 0]>>
  BY DEF Init
<1>2. TypeOK
  <2> DEFINE R == [live : BOOLEAN, from : Nat]
  <2>3. \A b \in BOOLEAN : [live |-> b, from |-> 0] \in R
    OBVIOUS
  <2>1. registry \in [Identity -> Seq(R)]
    <3> HIDE DEF R
    <3>1. \A i \in Identity : registry[i] \in Seq(R)
      <4>1. \A x \in R : <<x>> \in Seq(R)
        OBVIOUS
      <4> QED BY <1>1, <2>3, <4>1
    <3> QED BY <3>1 DEF Init
  <2> QED
    BY <2>1 DEF Init, TypeOK, Entry, NoEntry, Call, Idle, Result
<1>3. RegistryPast
  BY <1>1 DEF RegistryPast, Current, Init
<1> QED
  BY <1>2, <1>3
     DEF Init, PskInv, CallsTruthful, ServedPast, CacheTruthful, ServedRecently,
         NoEntry, Idle

(* Nothing moves. *)
LEMMA StutterKeepsInv == ASSUME PskInv, UNCHANGED vars PROVE PskInv'
BY RegistryStill
   DEF vars, PskInv, TypeOK, RegistryPast, CallsTruthful, ServedPast, CacheTruthful,
       ServedRecently, Allowance

(* PskInv holds initially and every step keeps it. *)
THEOREM PskInvariant == Spec => []PskInv
<1>1. Init => PskInv
  BY InitHasInv
<1>2. PskInv /\ [Next]_vars => PskInv'
  BY TickKeepsInv, ChangeKeepsInv, ResolveKeepsInv, AnswerKeepsInv,
     StoreKeepsInv, FailureKeepsInv, StutterKeepsInv DEF Next, Resolve
<1> QED
  BY <1>1, <1>2, PTL DEF Spec

(* The cache holds only what dovecote said, no older than its age. *)
THEOREM CacheSafe == Spec => []CacheTruthful
BY PskInvariant, PTL DEF PskInv

(* No credential is served for longer after its refresh than its path      *)
(* allows.                                                                 *)
THEOREM FreshnessSafe == Spec => []ServedRecently
BY PskInvariant, PTL DEF PskInv

(* Type correctness of the resolver. *)
THEOREM PskTypeCorrect == Spec => []TypeOK
BY PskInvariant, PTL DEF PskInv
=============================================================================
