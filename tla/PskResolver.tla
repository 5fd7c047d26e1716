---------------------------- MODULE PskResolver ----------------------------
(***************************************************************************)
(* PSK resolution (loft/src/psk.rs): every handshake thread resolves its   *)
(* client's identity through one cache in front of dovecote.  The cache    *)
(* lock is not held across the lookup, so lookups of one identity overlap, *)
(* answers arrive late and out of order, and the registry behind them      *)
(* changes meanwhile.  Time is a discrete clock; `now` in the code is read *)
(* once, before the lookup.                                                *)
(***************************************************************************)
EXTENDS Naturals, Sequences

CONSTANTS
    Thread,        \* handshake threads
    Identity,      \* PSK identities
    PositiveTtl, NegativeTtl, StaleGrace,
    FetchTimeout,  \* the agent's overall timeout
    MaxTime,       \* bound on the clock
    MaxChanges,    \* bound on the registry's changes
    NoIdentity

ASSUME PskAssumption ==
    /\ PositiveTtl \in Nat /\ NegativeTtl \in Nat /\ StaleGrace \in Nat
    /\ FetchTimeout \in Nat /\ MaxTime \in Nat /\ MaxChanges \in Nat
    /\ NoIdentity \notin Identity

VARIABLES
    clock,
    registry,  \* dovecote: the successive answers for each identity
    cache,     \* PskResolver.cache
    call,      \* each thread's resolve call
    served     \* history: what the last resolve call to return returned

vars == <<clock, registry, cache, call, served>>

(* The registry keeps, per identity, the history of its answers: live says *)
(* whether a pigeon stands behind the identity, and since when.  The index *)
(* of an answer in the history identifies the credential pair.             *)
Current(i) == Len(registry[i])

(* When an answer was superseded; one in force counts as superseded now. *)
Superseded(i, n) == IF n < Current(i) THEN registry[i][n + 1].from ELSE clock

Entry == [kind : {"absent", "known", "unknown"}, ans : Nat, fetched : Nat]
NoEntry == [kind |-> "absent", ans |-> 0, fetched |-> 0]

(* pc: idle, fetching (request sent), answered (the reply is on its way).  *)
Call == [pc : {"idle", "fetching", "answered"}, id : Identity \cup {NoIdentity},
         start : Nat, ans : Nat]
Idle == [pc |-> "idle", id |-> NoIdentity, start |-> 0, ans |-> 0]

(* how: not yet, from a fresh entry, from the lookup, from a stale entry   *)
(* after a failure, or refused after a failure.                            *)
Result == [how : {"none", "hit", "miss", "fetched", "stale", "refused"},
           id : Identity \cup {NoIdentity}, ans : Nat, at : Nat,
           why : {"ok", "transport", "status"}]

-----------------------------------------------------------------------------
(* dovecote: a refresh replaces the credentials, a pigeon is deleted or    *)
(* created.                                                                *)
RegistryChanges(i) ==
    /\ Current(i) <= MaxChanges
    /\ \E live \in BOOLEAN :
        registry' = [registry EXCEPT ![i] = Append(@, [live |-> live, from |-> clock])]
    /\ UNCHANGED <<clock, cache, call, served>>

(* No lookup outlives the agent's timeout. *)
Tick ==
    /\ clock < MaxTime
    /\ \A t \in Thread : call[t].pc = "idle" \/ clock < call[t].start + FetchTimeout
    /\ clock' = clock + 1
    /\ UNCHANGED <<registry, cache, call, served>>

-----------------------------------------------------------------------------
(* now.duration_since(fetched) < ttl; duration_since saturates at zero. *)
Younger(e, now, ttl) ==
    IF now >= e.fetched THEN now - e.fetched < ttl ELSE 0 < ttl

FreshKnown(e, now) == e.kind = "known" /\ Younger(e, now, PositiveTtl)
FreshUnknown(e, now) == e.kind = "unknown" /\ Younger(e, now, NegativeTtl)

Return(t, how, i, n, why) ==
    /\ served' = [how |-> how, id |-> i, ans |-> n, at |-> clock, why |-> why]
    /\ call' = [call EXCEPT ![t] = Idle]

(* resolve answers from the cache *)
ResolveHit(t, i) ==
    /\ call[t].pc = "idle"
    /\ FreshKnown(cache[i], clock)
    /\ Return(t, "hit", i, cache[i].ans, "ok")
    /\ UNCHANGED <<clock, registry, cache>>

ResolveMiss(t, i) ==
    /\ call[t].pc = "idle"
    /\ FreshUnknown(cache[i], clock)
    /\ Return(t, "miss", i, cache[i].ans, "ok")
    /\ UNCHANGED <<clock, registry, cache>>

(* resolve goes on to fetch *)
ResolveFetches(t, i) ==
    /\ call[t].pc = "idle"
    /\ ~FreshKnown(cache[i], clock)
    /\ ~FreshUnknown(cache[i], clock)
    /\ call' = [call EXCEPT ![t] = [pc |-> "fetching", id |-> i, start |-> clock, ans |-> 0]]
    /\ UNCHANGED <<clock, registry, cache, served>>

(* dovecote reads its registry for the request. *)
SourceAnswers(t) ==
    /\ call[t].pc = "fetching"
    /\ call' = [call EXCEPT ![t].pc = "answered", ![t].ans = Current(call[t].id)]
    /\ UNCHANGED <<clock, registry, cache, served>>

\* Bug: the entry is stamped when the reply arrives.
StampAtReply(t) == clock

\* Bug: the lookup's own duration is subtracted once more.
StampBackdated(t) == call[t].start - (clock - call[t].start)

Stamp(t) == call[t].start

(* Ok(Some(entry)) or Ok(None): cached under the lock, and returned. *)
StoreAnswer(t) ==
    /\ call[t].pc = "answered"
    /\ LET i == call[t].id
           n == call[t].ans
           k == IF registry[i][n].live THEN "known" ELSE "unknown"
       IN  /\ cache' = [cache EXCEPT ![i] = [kind |-> k, ans |-> n, fetched |-> Stamp(t)]]
           /\ Return(t, "fetched", i, n, "ok")
    /\ UNCHANGED <<clock, registry>>

\* Bug: a failed lookup is remembered as an unknown identity.
PoisonOnFailure(t) ==
    cache' = [cache EXCEPT ![call[t].id] =
                [kind |-> "unknown", ans |-> call[t].ans, fetched |-> call[t].start]]

KeepOnFailure(t) == UNCHANGED cache

(* Err: no answer in time, a broken body, or a status other than 400/404.  *)
(* The cache is read again, against the time the call began.               *)
FetchFails(t) ==
    /\ call[t].pc # "idle"
    /\ LET i == call[t].id
           e == cache[i]
           stale == e.kind = "known" /\ Younger(e, call[t].start, StaleGrace)
       IN  \E why \in {"transport", "status"} :
             Return(t, IF stale THEN "stale" ELSE "refused", i,
                    IF stale THEN e.ans ELSE 0, why)
    /\ KeepOnFailure(t)
    /\ UNCHANGED <<clock, registry>>

-----------------------------------------------------------------------------
Init ==
    /\ clock = 0
    /\ registry \in [Identity -> {<<[live |-> b, from |-> 0]>> : b \in BOOLEAN}]
    /\ cache = [i \in Identity |-> NoEntry]
    /\ call = [t \in Thread |-> Idle]
    /\ served = [how |-> "none", id |-> NoIdentity, ans |-> 0, at |-> 0, why |-> "ok"]

Resolve(t) ==
    \E i \in Identity : ResolveHit(t, i) \/ ResolveMiss(t, i) \/ ResolveFetches(t, i)

Next ==
    \/ Tick
    \/ \E i \in Identity : RegistryChanges(i)
    \/ \E t \in Thread :
        Resolve(t) \/ SourceAnswers(t) \/ StoreAnswer(t) \/ FetchFails(t)

Spec == Init /\ [][Next]_vars

-----------------------------------------------------------------------------
(* Every variable stays in its type. *)
TypeOK ==
    /\ clock \in Nat
    /\ registry \in [Identity -> Seq([live : BOOLEAN, from : Nat])]
    /\ cache \in [Identity -> Entry]
    /\ call \in [Thread -> Call]
    /\ served \in Result

(* The cache holds only what dovecote said, of the right kind, and what it *)
(* said when the entry's age began or later: a failed lookup, a slow       *)
(* answer overtaken by a newer one and an answer about another identity    *)
(* never make an entry claim more than that.                               *)
CacheTruthful ==
    \A i \in Identity : cache[i].kind # "absent" =>
        /\ cache[i].ans \in 1 .. Current(i)
        /\ registry[i][cache[i].ans].live = (cache[i].kind = "known")
        /\ cache[i].fetched <= Superseded(i, cache[i].ans)

(* How long after it was superseded an answer may still be given out. *)
Allowance(how) ==
    CASE how = "hit"     -> PositiveTtl
      [] how = "miss"    -> NegativeTtl
      [] how = "fetched" -> FetchTimeout + 1
      [] how = "stale"   -> StaleGrace + FetchTimeout
      [] OTHER           -> 0

(* A resolve call never returns an answer for longer after a credential    *)
(* refresh, deletion or creation than the path it took allows: the         *)
(* positive TTL, the negative TTL, the time of one lookup, or, after a     *)
(* failed lookup only, the stale grace plus that lookup; and it accepts    *)
(* only identities that had a pigeon.                                      *)
ServedRecently ==
    LET r == served IN
    r.how \in {"hit", "miss", "fetched", "stale"} =>
        /\ r.ans \in 1 .. Current(r.id)
        /\ r.how \in {"hit", "stale"} => registry[r.id][r.ans].live
        /\ r.how = "miss" => ~registry[r.id][r.ans].live
        /\ \/ r.at <= Superseded(r.id, r.ans)
           \/ r.at - Superseded(r.id, r.ans) < Allowance(r.how)

(* While dovecote refuses the lookups themselves (401, 403), no handshake  *)
(* is accepted on an entry that has outlived the positive TTL.             *)
DeniedAfterDrain ==
    served.how = "stale" /\ served.why = "status" =>
        FreshKnown(cache[served.id], served.at)
=============================================================================
