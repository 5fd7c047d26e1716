------------------------------ MODULE Handler ------------------------------
(***************************************************************************)
(* The request handler shared by every connection (loft/src/handler.rs):   *)
(* authorisation, dispatch, and Block1 reassembly of request bodies in one *)
(* table behind a mutex.  Each connection has a thread that handles one    *)
(* request at a time; the sweep at the start of a request, the reassembly  *)
(* step and the upstream call are separate critical sections, so requests  *)
(* of other connections come between them.                                 *)
(*                                                                         *)
(* A connection stands for its conn_id, which is process-unique: it is     *)
(* used again only after the connection closed and left nothing behind in  *)
(* the table.                                                              *)
(***************************************************************************)
EXTENDS Naturals, Sequences, FiniteSets

CONSTANTS
    Conn,        \* conn_ids
    Pigeon,      \* device identities
    Leaf,        \* the resources that accept a POST
    Byte,
    Payload,     \* request payloads, sequences of bytes
    BlockNum,    \* block numbers a client sends
    MaxBody,     \* MAX_BLOCK1_BODY
    MaxEntries,  \* MAX_BLOCK1_ENTRIES
    NoPigeon, NoRequest

VARIABLES
    pc,       \* where each connection's thread is
    pigeon,   \* DeviceSession.pigeon_id
    req,      \* the request each thread is handling
    block1,   \* Handler.block1: key -> Reassembly
    body,     \* the body each thread presents upstream
    run       \* history: each upload as its device sent it

vars == <<pc, pigeon, req, block1, body, run>>

Key == Conn \X Leaf

(* A request, by what the handler tells apart: well_formed stands for the  *)
(* method, option and path checks; kind is get, whole (a POST without      *)
(* Block1) or block; target is the pigeon its path names.  num and more    *)
(* mean something in a block only; what kind of request is ill-formed makes *)
(* no difference.                                                          *)
Request ==
    {r \in [well_formed : BOOLEAN, target : Pigeon, leaf : Leaf,
            kind : {"get", "whole", "block"}, num : BlockNum \cup {0}, more : BOOLEAN,
            payload : Payload] :
        /\ r.kind # "block" => r.num = 0 /\ ~r.more
        /\ ~r.well_formed => r.kind = "get"}

ASSUME HandlerAssumption ==
    /\ Payload \subseteq Seq(Byte)
    /\ BlockNum \subseteq Nat
    /\ MaxBody \in Nat
    /\ MaxEntries \in Nat
    /\ NoPigeon \notin Pigeon
    /\ NoRequest \notin Request
    /\ IsFiniteSet(Conn)
    /\ IsFiniteSet(Leaf)

(* Time is what age tells apart: an entry is fresh until it has seen no    *)
(* block for BLOCK1_IDLE_TIMEOUT.                                          *)
Reassembly == [data : Seq(Byte), next_num : Nat, fresh : BOOLEAN]

(* A device's upload to one resource as it was sent: the blocks since its  *)
(* last block 0, while they have been consecutive.                         *)
Run == [ok : BOOLEAN, n : Nat, data : Seq(Byte)]
NoRun == [ok |-> FALSE, n |-> 0, data |-> <<>>]

Continued(u, r) ==
    IF r.num = 0 THEN [ok |-> TRUE, n |-> 1, data |-> r.payload]
    ELSE IF u.ok /\ r.num = u.n
         THEN [ok |-> TRUE, n |-> u.n + 1, data |-> u.data \o r.payload]
         ELSE NoRun

Without(k) == [x \in DOMAIN block1 \ {k} |-> block1[x]]
With(k, e) == [x \in DOMAIN block1 \cup {k} |-> IF x = k THEN e ELSE block1[x]]

\* Bug: reassemblies are keyed by the device instead of the connection.
KeyByPigeon(c) == <<pigeon[c], req[c].leaf>>

KeyOf(c) == <<c, req[c].leaf>>

-----------------------------------------------------------------------------
(* Connections and time *)

Open(c, p) ==
    /\ pc[c] = "closed"
    /\ \A k \in DOMAIN block1 : k[1] # c
    /\ pc' = [pc EXCEPT ![c] = "idle"]
    /\ pigeon' = [pigeon EXCEPT ![c] = p]
    /\ run' = [k \in Key |-> IF k[1] = c THEN NoRun ELSE run[k]]
    /\ UNCHANGED <<req, block1, body>>

(* Nothing of a connection's reassemblies is cleaned up when it closes. *)
Close(c) ==
    /\ pc[c] = "idle"
    /\ pc' = [pc EXCEPT ![c] = "closed"]
    /\ pigeon' = [pigeon EXCEPT ![c] = NoPigeon]
    /\ UNCHANGED <<req, block1, body, run>>

EntryAges(k) ==
    /\ k \in DOMAIN block1
    /\ block1[k].fresh
    /\ block1' = [block1 EXCEPT ![k].fresh = FALSE]
    /\ UNCHANGED <<pc, pigeon, req, body, run>>

-----------------------------------------------------------------------------
(* handle: the sweep, authorisation and dispatch *)

\* Bug: the age comparison is the wrong way round.
RetainedInverted(r) == {k \in DOMAIN block1 : ~block1[k].fresh}

\* Bug: only requests that carry Block1 reclaim idle reassemblies.
SweepForBlocks(r) ==
    IF r.kind = "block" THEN {k \in DOMAIN block1 : block1[k].fresh} ELSE DOMAIN block1

(* The entries sweep_block1 retains. *)
Retained(r) == {k \in DOMAIN block1 : block1[k].fresh}

Receive(c, r) ==
    /\ pc[c] = "idle"
    /\ req' = [req EXCEPT ![c] = r]
    /\ block1' = [k \in Retained(r) |-> block1[k]]
    /\ pc' = [pc EXCEPT ![c] = "swept"]
    /\ UNCHANGED <<pigeon, body, run>>

(* The thread answers and waits for its next request. *)
Reply(c) ==
    /\ pc' = [pc EXCEPT ![c] = "idle"]
    /\ body' = [body EXCEPT ![c] = <<>>]
    /\ req' = [req EXCEPT ![c] = NoRequest]

\* Bug: the pigeon in the path is not compared with the handshake identity.
AuthorizedAny(c) == req[c].well_formed

Authorized(c) == req[c].well_formed /\ req[c].target = pigeon[c]

(* 4.00, 4.02, 4.03, 4.04 and 4.05 *)
Rejects(c) ==
    /\ pc[c] = "swept"
    /\ ~Authorized(c)
    /\ Reply(c)
    /\ UNCHANGED <<pigeon, block1, run>>

CallsUpstream(c, bytes) ==
    /\ pc' = [pc EXCEPT ![c] = "upstream"]
    /\ body' = [body EXCEPT ![c] = bytes]
    /\ UNCHANGED req

(* A GET, or a POST whose body came in one message. *)
PassesThrough(c) ==
    /\ pc[c] = "swept"
    /\ Authorized(c)
    /\ req[c].kind # "block"
    /\ CallsUpstream(c, IF req[c].kind = "whole" THEN req[c].payload ELSE <<>>)
    /\ UNCHANGED <<pigeon, block1, run>>

(* Whatever dovecote answers, or does not answer, becomes a response. *)
UpstreamReturns(c) ==
    /\ pc[c] = "upstream"
    /\ Reply(c)
    /\ UNCHANGED <<pigeon, block1, run>>

-----------------------------------------------------------------------------
(* assemble_body: one critical section *)

\* Bug: the ceiling is off by one.
HasRoomPastCap(k) == k \in DOMAIN block1 \/ Cardinality(DOMAIN block1) <= MaxEntries

(* A restart of a tracked upload overwrites its own entry. *)
HasRoom(k) == k \in DOMAIN block1 \/ Cardinality(DOMAIN block1) < MaxEntries

(* What the critical section finds under the key once block 0 has opened a *)
(* fresh entry.                                                            *)
Opened(c) ==
    IF req[c].num = 0 THEN [data |-> <<>>, next_num |-> 0, fresh |-> TRUE]
    ELSE block1[KeyOf(c)]

HasContext(c) == req[c].num = 0 \/ KeyOf(c) \in DOMAIN block1

TakesBlock(c) ==
    /\ pc[c] = "swept"
    /\ Authorized(c)
    /\ req[c].kind = "block"
    /\ run' = [run EXCEPT ![<<c, req[c].leaf>>] = Continued(@, req[c])]
    /\ UNCHANGED pigeon

(* 5.03 for a new upload, 4.08 for a block of no upload *)
BlockUnplaced(c) ==
    /\ TakesBlock(c)
    /\ IF req[c].num = 0 THEN ~HasRoom(KeyOf(c)) ELSE ~HasContext(c)
    /\ Reply(c)
    /\ UNCHANGED block1

InPlace(c) ==
    /\ req[c].num = 0 => HasRoom(KeyOf(c))
    /\ HasContext(c)

Fits(c) == Len(Opened(c).data) + Len(req[c].payload) <= MaxBody

\* Bug: a block out of sequence is refused but its upload goes on.
KeepUpload(k) == block1

DropUpload(k) == Without(k)

(* 4.08 out of sequence, 4.13 too large: the upload is dropped *)
BlockBreaks(c) ==
    /\ TakesBlock(c)
    /\ InPlace(c)
    /\ Opened(c).next_num # req[c].num \/ ~Fits(c)
    /\ block1' = DropUpload(KeyOf(c))
    /\ Reply(c)

Accepts(c) == Opened(c).next_num = req[c].num /\ Fits(c)

(* 2.31 Continue *)
BlockContinues(c) ==
    /\ TakesBlock(c)
    /\ InPlace(c)
    /\ Accepts(c)
    /\ req[c].more
    /\ block1' = With(KeyOf(c), [data |-> Opened(c).data \o req[c].payload,
                                 next_num |-> Opened(c).next_num + 1,
                                 fresh |-> TRUE])
    /\ Reply(c)

(* The last block: the entry leaves the table with the body. *)
BlockCompletes(c) ==
    /\ TakesBlock(c)
    /\ InPlace(c)
    /\ Accepts(c)
    /\ ~req[c].more
    /\ block1' = Without(KeyOf(c))
    /\ CallsUpstream(c, Opened(c).data \o req[c].payload)

-----------------------------------------------------------------------------
Init ==
    /\ pc = [c \in Conn |-> "closed"]
    /\ pigeon = [c \in Conn |-> NoPigeon]
    /\ req = [c \in Conn |-> NoRequest]
    /\ block1 = [k \in {} |-> <<>>]
    /\ body = [c \in Conn |-> <<>>]
    /\ run = [k \in Key |-> NoRun]

(* A thread's own steps *)
Handles(c) ==
    \/ Rejects(c) \/ PassesThrough(c) \/ UpstreamReturns(c) \/ BlockUnplaced(c)
    \/ BlockBreaks(c) \/ BlockContinues(c) \/ BlockCompletes(c)

Opens == \E c \in Conn, p \in Pigeon : Open(c, p)
Receives == \E c \in Conn, r \in Request : Receive(c, r)

Next ==
    \/ Opens
    \/ Receives
    \/ \E c \in Conn : Close(c) \/ Handles(c)
    \/ \E k \in DOMAIN block1 : EntryAges(k)

Spec == Init /\ [][Next]_vars

(* Threads run, time passes, and devices keep connecting and asking. *)
Fairness ==
    /\ \A c \in Conn : WF_vars(Handles(c))
    /\ \A k \in Key : WF_vars(EntryAges(k))
    /\ WF_vars(Opens)
    /\ SF_vars(Receives)

LiveSpec == Spec /\ Fairness

-----------------------------------------------------------------------------
(* Every variable stays in its type. *)
TypeOK ==
    /\ pc \in [Conn -> {"closed", "idle", "swept", "upstream"}]
    /\ pigeon \in [Conn -> Pigeon \cup {NoPigeon}]
    /\ req \in [Conn -> Request \cup {NoRequest}]
    /\ DOMAIN block1 \subseteq Key
    /\ \A k \in DOMAIN block1 : block1[k] \in Reassembly
    /\ body \in [Conn -> Seq(Byte)]
    /\ run \in [Key -> Run]

(* A body goes upstream only for the device the connection authenticated,  *)
(* and a reassembled one is exactly the consecutive blocks 0 to the last   *)
(* that this connection sent to this resource: whatever other connections  *)
(* of the same device do, whatever was swept, dropped or restarted, nothing*)
(* is missing, repeated, reordered or mixed in.                            *)
BodiesWhole ==
    \A c \in Conn : pc[c] = "upstream" =>
        /\ req[c].target = pigeon[c]
        /\ req[c].kind = "block" =>
             LET u == run[<<c, req[c].leaf>>] IN
             u.ok /\ u.n = req[c].num + 1 /\ ~req[c].more /\ body[c] = u.data

(* What the table holds is the upload in progress, so far. *)
EntriesFaithful ==
    \A k \in DOMAIN block1 :
        run[k].ok /\ block1[k].next_num = run[k].n /\ block1[k].data = run[k].data

(* The table's ceiling and the ceiling of each body hold together, so that *)
(* memory is bounded by their product.                                     *)
MemoryBounded ==
    /\ Cardinality(DOMAIN block1) <= MaxEntries
    /\ \A k \in DOMAIN block1 : Len(block1[k].data) <= MaxBody

(* An upload leaves the table by its own connection's next block or by     *)
(* age: no other connection, and no full table, takes it away.             *)
UploadsKept ==
    [][\A k \in DOMAIN block1 : k \notin DOMAIN block1' =>
        \/ ~block1[k].fresh
        \/ pc[k[1]] = "swept" /\ pc'[k[1]] # "swept" /\ req[k[1]].leaf = k[2]]_vars

(* What a closed connection left behind is reclaimed, by whatever requests *)
(* come, with or without Block1.                                           *)
LeftoversDrain ==
    \A k \in Key :
        (k \in DOMAIN block1 /\ pc[k[1]] = "closed") ~> k \notin DOMAIN block1
=============================================================================
