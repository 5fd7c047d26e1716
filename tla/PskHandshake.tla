---------------------------- MODULE PskHandshake ----------------------------
(***************************************************************************)
(* PSK handshakes over the resolver: the PSK callbacks of the OpenSSL      *)
(* listeners (loft/src/tls_common.rs) and of the mbedTLS one               *)
(* (mbedtls-ffi-shim/src/config.rs), the credentials they leave on the     *)
(* session (mbedtls-ffi-shim/src/session.rs), and what the connection      *)
(* threads make of them.  The callback blocks its thread in resolve while  *)
(* other handshakes replace the cache and dovecote its registry.           *)
(*                                                                         *)
(* An answer n of the registry for identity i stands for a PSK and a       *)
(* bearer token, minted together.  A handshake completes exactly when its  *)
(* client knows the installed key, and nobody knows a random one.          *)
(***************************************************************************)
EXTENDS PskResolver

CONSTANT BadIdentity   \* what is no UTF-8 string

ASSUME HandshakeAssumption == BadIdentity \notin Identity \cup {NoIdentity}

VARIABLE hs   \* each thread's handshake, then session

hsVars == <<vars, hs>>

NoKey == 0      \* a random key, or no credentials

(* key is the installed one, creds the identity's token on the session. *)
NoHandshake == [phase |-> "none", id |-> NoIdentity, key |-> NoKey, creds |-> NoKey]

(* A ClientKeyExchange names an identity. *)
Begin(t) ==
    /\ hs[t].phase = "none"
    /\ \E i \in Identity \cup {BadIdentity} :
         hs' = [hs EXCEPT ![t] = [NoHandshake EXCEPT !.phase = "hello", !.id = i]]
    /\ UNCHANGED vars

Drop(t) == hs' = [hs EXCEPT ![t] = NoHandshake]

-----------------------------------------------------------------------------
(* The callbacks *)

(* psk_callback's Ok(0) ends the handshake; psk_tramp installs a random    *)
(* key under which it goes on, to fail where a wrong key does.             *)
Reject(t) ==
    \/ Drop(t)
    \/ hs' = [hs EXCEPT ![t].phase = "keyed", ![t].key = NoKey]

(* The key, and with it the identity and token; a key the library cannot   *)
(* take is a reject.                                                       *)
Install(t, n) ==
    \/ hs' = [hs EXCEPT ![t].phase = "keyed", ![t].key = n, ![t].creds = n]
    \/ Reject(t)

(* What resolve returned in this step: an entry, or None. *)
Accepted(r) ==
    \/ r.how \in {"hit", "stale"}
    \/ r.how = "fetched" /\ registry[r.id][r.ans].live

Returned(t) == IF Accepted(served') THEN Install(t, served'.ans) ELSE Reject(t)

(* resolve_psk_identity refuses what is no string before any lookup. *)
IdentityGarbled(t) ==
    /\ hs[t].phase = "hello"
    /\ hs[t].id = BadIdentity
    /\ Reject(t)
    /\ UNCHANGED vars

CallbackFromCache(t) ==
    /\ hs[t].phase = "hello"
    /\ hs[t].id # BadIdentity
    /\ ResolveHit(t, hs[t].id) \/ ResolveMiss(t, hs[t].id)
    /\ Returned(t)

CallbackFetches(t) ==
    /\ hs[t].phase = "hello"
    /\ hs[t].id # BadIdentity
    /\ ResolveFetches(t, hs[t].id)
    /\ hs' = [hs EXCEPT ![t].phase = "lookup"]

CallbackAnswered(t) ==
    /\ hs[t].phase = "lookup"
    /\ StoreAnswer(t) \/ FetchFails(t)
    /\ Returned(t)

LookupReaches(t) == SourceAnswers(t) /\ UNCHANGED hs

-----------------------------------------------------------------------------
(* The end of the handshake *)

\* Bug: the credentials are looked up again once the handshake is over.
CredsFromCache(t) == IF cache[hs[t].id].kind = "known" THEN cache[hs[t].id].ans ELSE NoKey

(* authenticated_session, take_credentials: what the callback left there. *)
CredsOf(t) == hs[t].creds

(* The client's Finished verifies under the installed key.  Without        *)
(* credentials the session is not served.                                  *)
HandshakeDone(t) ==
    /\ hs[t].phase = "keyed"
    /\ hs[t].key # NoKey
    /\ IF CredsOf(t) = NoKey THEN Drop(t)
       ELSE hs' = [hs EXCEPT ![t].phase = "serving", ![t].creds = CredsOf(t)]
    /\ UNCHANGED vars

(* A wrong key, a deadline or a lost peer; or the session's end. *)
Ends(t) ==
    /\ hs[t].phase \in {"hello", "keyed", "serving"}
    /\ Drop(t)
    /\ UNCHANGED vars

-----------------------------------------------------------------------------
HsInit == Init /\ hs = [t \in Thread |-> NoHandshake]

Registers == (Tick \/ \E i \in Identity : RegistryChanges(i)) /\ UNCHANGED hs

HsNext ==
    \/ Registers
    \/ \E t \in Thread :
         \/ Begin(t) \/ IdentityGarbled(t) \/ CallbackFromCache(t) \/ CallbackFetches(t)
         \/ LookupReaches(t) \/ CallbackAnswered(t) \/ HandshakeDone(t) \/ Ends(t)

HsSpec == HsInit /\ [][HsNext]_hsVars

-----------------------------------------------------------------------------
(* A served session belongs to the identity its client named, which had a  *)
(* pigeon, and presents upstream the very token minted with the PSK the    *)
(* client proved to know, whatever lookups, refreshes and cache updates    *)
(* came between the callback and the end of the handshake; a rejected      *)
(* identity is never served.                                               *)
SessionProven ==
    \A t \in Thread : hs[t].phase = "serving" =>
        /\ hs[t].id \in Identity
        /\ hs[t].creds = hs[t].key
        /\ hs[t].creds \in 1 .. Current(hs[t].id)
        /\ registry[hs[t].id][hs[t].creds].live
=============================================================================
