------------------------------ MODULE ConnQuota ------------------------------
(***************************************************************************)
(* Connection admission (loft/src/quota.rs): a global ceiling plus a fair  *)
(* share per source address, released by dropping the permit.  Each        *)
(* operation runs under one mutex and is one atomic step here.  The module *)
(* declares the state; the listeners that share it compose the operations  *)
(* into their own actions.                                                 *)
(***************************************************************************)
EXTENDS Naturals, FiniteSets

CONSTANTS
    Addr,            \* source socket addresses (canonical_peer applied)
    IpOf,            \* the IP address of each of them
    MaxConnections,  \* max_total
    MaxPerIp         \* max_per_ip

VARIABLES
    total,           \* Counts.total
    perIp,           \* Counts.per_ip, 0 where the map has no entry
    ipKeys           \* the keys Counts.per_ip really holds

quotaVars == <<total, perIp, ipKeys>>

ASSUME QuotaAssumption ==
    /\ MaxConnections \in Nat
    /\ MaxPerIp \in Nat

(***************************************************************************)
(* fn bucket: IPv4 counts per address, a v4-mapped IPv6 source as its      *)
(* embedded IPv4 address, any other IPv6 source per /64.  An address is    *)
(* [fam |-> "v4", net |-> n, iid |-> 0] with n the whole address, or has   *)
(* fam "mapped" (iid is the IPv4 address) or "v6" (net is the /64).        *)
(***************************************************************************)
BucketOf(ip) ==
    CASE ip.fam = "v4"     -> ip
      [] ip.fam = "mapped" -> [fam |-> "v4", net |-> ip.iid, iid |-> 0]
      [] OTHER             -> [fam |-> "v6", net |-> ip.net, iid |-> 0]

BucketAt(a) == BucketOf(IpOf[a])

Bucket == {BucketAt(a) : a \in Addr}

QuotaInit ==
    /\ total = 0
    /\ perIp = [b \in Bucket |-> 0]
    /\ ipKeys = {}

IsFull == total >= MaxConnections

\* Bug: the admission trusts the listener's earlier is_full probe.
AdmitsStale(b) == perIp[b] < MaxPerIp

Admits(b) == ~IsFull /\ perIp[b] < MaxPerIp

(* try_acquire, the admitting path *)
TryAcquire(b) ==
    /\ Admits(b)
    /\ total' = total + 1
    /\ perIp' = [perIp EXCEPT ![b] = @ + 1]
    /\ ipKeys' = ipKeys \cup {b}

\* Bug: a refused source is released as if it had been charged.
RefuseAndRelease(b) ==
    /\ ~Admits(b)
    /\ total' = total - 1
    /\ perIp' = [perIp EXCEPT ![b] = @ - 1]
    /\ UNCHANGED ipKeys

(* try_acquire, both refusing returns: no entry is left behind *)
RefuseAcquire(b) ==
    /\ ~Admits(b)
    /\ UNCHANGED quotaVars

(* impl Drop for ConnPermit *)
DropPermit(b) ==
    /\ total' = total - 1
    /\ perIp' = [perIp EXCEPT ![b] = @ - 1]
    /\ ipKeys' = IF perIp[b] = 1 THEN ipKeys \ {b} ELSE ipKeys
=============================================================================
