--------------------------- MODULE HandlerProofs ---------------------------
(***************************************************************************)
(* Proofs about Handler: for every set of connections, devices, resources  *)
(* and payloads and for both ceilings.  EntriesFaithful is what makes      *)
(* BodiesWhole inductive: between two blocks the table must hold exactly   *)
(* what the connection has sent.                                           *)
(***************************************************************************)
EXTENDS Handler, FiniteSetTheorems, TLAPS

(* A thread that is at work has a request. *)
Busy == \A c \in Conn : pc[c] \in {"swept", "upstream"} => req[c] \in Request

HandlerInv ==
    TypeOK /\ Busy /\ EntriesFaithful /\ BodiesWhole /\ MemoryBounded

USE HandlerAssumption

-----------------------------------------------------------------------------
(* The fields of a request have their types. *)
LEMMA RequestTyped ==
    ASSUME NEW r \in Request
    PROVE  /\ r.leaf \in Leaf /\ r.num \in Nat /\ r.payload \in Seq(Byte)
           /\ r.more \in BOOLEAN /\ r.target \in Pigeon
<1>1. /\ r.leaf \in Leaf /\ r.num \in BlockNum \cup {0} /\ r.payload \in Payload
      /\ r.more \in BOOLEAN /\ r.target \in Pigeon
  BY DEF Request
<1>2. r.num \in Nat
  <2>1. BlockNum \subseteq Nat
    BY HandlerAssumption
  <2>2. CASE r.num \in BlockNum
    BY <2>1, <2>2
  <2>3. CASE r.num = 0
    BY <2>3
  <2> QED BY <1>1, <2>2, <2>3
<1>3. r.payload \in Seq(Byte)
  BY <1>1
<1> QED
  BY <1>1, <1>2, <1>3

(* An upload continued is an upload. *)
LEMMA ContinuedTyped ==
    ASSUME NEW u \in Run, NEW r \in Request
    PROVE  Continued(u, r) \in Run
BY RequestTyped DEF Continued, Run, NoRun

(* Keys are pairs. *)
LEMMA KeyPair ==
    /\ \A c \in Conn, l \in Leaf : <<c, l>> \in Key
    /\ \A k \in Key : k[1] \in Conn /\ k[2] \in Leaf /\ k = <<k[1], k[2]>>
BY DEF Key

(* The table is finite, and taking entries out does not make it larger. *)
LEMMA TableFinite ==
    ASSUME NEW S \in SUBSET Key
    PROVE  /\ IsFiniteSet(S) /\ Cardinality(S) \in Nat
           /\ \A T \in SUBSET S : Cardinality(T) <= Cardinality(S)
           /\ \A k : k \notin S => Cardinality(S \cup {k}) = Cardinality(S) + 1
<1>1. IsFiniteSet(Key)
  BY FS_Product DEF Key
<1>2. IsFiniteSet(S) /\ Cardinality(S) \in Nat
  BY <1>1, FS_Subset, FS_CardinalityType
<1> QED
  BY <1>2, FS_Subset, FS_AddElement

-----------------------------------------------------------------------------
(* The threads' bookkeeping around a step that leaves the table alone. *)
LEMMA TableStill ==
    ASSUME HandlerInv, UNCHANGED <<block1, run>>
    PROVE  EntriesFaithful' /\ MemoryBounded'
BY DEF HandlerInv, EntriesFaithful, MemoryBounded

(* Connections open and close, entries age. *)
LEMMA OpenKeepsInv ==
    ASSUME HandlerInv, NEW c \in Conn, NEW p \in Pigeon, Open(c, p)
    PROVE  HandlerInv'
<1> USE DEF HandlerInv
<1>1. TypeOK'
  BY KeyPair DEF Open, TypeOK, Run, NoRun
<1>2. EntriesFaithful'
  BY KeyPair DEF Open, TypeOK, EntriesFaithful
<1>3. Busy'
  BY DEF Open, TypeOK, Busy
<1>4. BodiesWhole'
  BY KeyPair, RequestTyped DEF Open, TypeOK, Busy, BodiesWhole
<1>5. MemoryBounded'
  BY DEF Open, MemoryBounded
<1> QED
  BY <1>1, <1>2, <1>3, <1>4, <1>5

LEMMA CloseKeepsInv ==
    ASSUME HandlerInv, NEW c \in Conn, Close(c)
    PROVE  HandlerInv'
<1> USE DEF HandlerInv
<1>1. TypeOK'
  BY DEF Close, TypeOK
<1>2. Busy'
  BY DEF Close, TypeOK, Busy
<1>3. BodiesWhole'
  BY DEF Close, TypeOK, BodiesWhole
<1> QED
  BY <1>1, <1>2, <1>3, TableStill DEF Close

LEMMA AgingKeepsInv ==
    ASSUME HandlerInv, NEW k \in DOMAIN block1, EntryAges(k)
    PROVE  HandlerInv'
<1> USE DEF HandlerInv
<1>1. /\ DOMAIN block1' = DOMAIN block1
      /\ \A x \in DOMAIN block1 : /\ block1'[x].data = block1[x].data
                                  /\ block1'[x].next_num = block1[x].next_num
                                  /\ block1'[x] \in Reassembly
  BY DEF EntryAges, TypeOK, Reassembly
<1>2. TypeOK' /\ Busy' /\ BodiesWhole'
  BY <1>1 DEF EntryAges, TypeOK, Busy, BodiesWhole
<1>3. EntriesFaithful' /\ MemoryBounded'
  BY <1>1 DEF EntryAges, EntriesFaithful, MemoryBounded
<1> QED
  BY <1>2, <1>3

(* A request arrives and sweeps the table. *)
LEMMA ReceiveKeepsInv ==
    ASSUME HandlerInv, NEW c \in Conn, NEW r \in Request, Receive(c, r)
    PROVE  HandlerInv'
<1> USE DEF HandlerInv
<1>1. /\ DOMAIN block1' \subseteq DOMAIN block1
      /\ \A x \in DOMAIN block1' : block1'[x] = block1[x]
  BY DEF Receive, Retained
<1>2. TypeOK' /\ Busy'
  BY <1>1 DEF Receive, TypeOK, Busy
<1>3. BodiesWhole'
  BY DEF Receive, TypeOK, BodiesWhole
<1>4. EntriesFaithful'
  BY <1>1 DEF Receive, EntriesFaithful
<1>5. MemoryBounded'
  <2>1. Cardinality(DOMAIN block1') <= Cardinality(DOMAIN block1)
        /\ Cardinality(DOMAIN block1) \in Nat /\ Cardinality(DOMAIN block1') \in Nat
    BY <1>1, TableFinite DEF TypeOK
  <2> QED
    BY <1>1, <2>1 DEF MemoryBounded
<1> QED
  BY <1>2, <1>3, <1>4, <1>5

(* A request that carries no block is answered or passed on. *)
LEMMA PlainKeepsInv ==
    ASSUME HandlerInv, NEW c \in Conn,
           Rejects(c) \/ PassesThrough(c) \/ UpstreamReturns(c)
    PROVE  HandlerInv'
<1> USE DEF HandlerInv
<1>1. CASE Rejects(c) \/ UpstreamReturns(c)
  <2>1. Reply(c) /\ UNCHANGED <<pigeon, block1, run>>
    BY <1>1 DEF Rejects, UpstreamReturns
  <2>2. TypeOK' /\ Busy'
    BY <2>1 DEF Reply, TypeOK, Busy
  <2>3. BodiesWhole'
    BY <2>1 DEF Reply, TypeOK, BodiesWhole
  <2> QED BY <2>1, <2>2, <2>3, TableStill
<1>2. CASE PassesThrough(c)
  <2>1. /\ pc[c] = "swept" /\ req[c] \in Request /\ req[c].kind # "block"
        /\ req[c].target = pigeon[c] /\ UNCHANGED <<pigeon, req, block1, run>>
        /\ pc' = [pc EXCEPT ![c] = "upstream"]
    BY <1>2 DEF PassesThrough, Busy, Authorized, CallsUpstream
  <2>2. body' \in [Conn -> Seq(Byte)]
    BY <1>2, <2>1, RequestTyped DEF PassesThrough, CallsUpstream, TypeOK
  <2>3. TypeOK' /\ Busy'
    BY <2>1, <2>2 DEF TypeOK, Busy
  <2>4. BodiesWhole'
    BY <1>2, <2>1 DEF TypeOK, BodiesWhole, PassesThrough, CallsUpstream
  <2> QED BY <2>1, <2>3, <2>4, TableStill
<1> QED
  BY <1>1, <1>2

-----------------------------------------------------------------------------
(* What every block has in common. *)
LEMMA BlockFacts ==
    ASSUME HandlerInv, NEW c \in Conn, TakesBlock(c)
    PROVE  /\ pc[c] = "swept" /\ req[c] \in Request /\ req[c].target = pigeon[c]
           /\ KeyOf(c) = <<c, req[c].leaf>> /\ KeyOf(c) \in Key
           /\ pigeon' = pigeon
           /\ run' \in [Key -> Run]
           /\ run'[KeyOf(c)] = Continued(run[KeyOf(c)], req[c])
           /\ \A k \in Key : k # KeyOf(c) => run'[k] = run[k]
<1>1. pc[c] = "swept" /\ req[c] \in Request
  BY DEF TakesBlock, HandlerInv, Busy
<1>2. KeyOf(c) = <<c, req[c].leaf>> /\ KeyOf(c) \in Key
  BY <1>1, RequestTyped, KeyPair DEF KeyOf
<1>3. run[KeyOf(c)] \in Run
  BY <1>2 DEF HandlerInv, TypeOK
<1>4. Continued(run[KeyOf(c)], req[c]) \in Run
  BY <1>1, <1>3, ContinuedTyped
<1> QED
  BY <1>1, <1>2, <1>4 DEF TakesBlock, Authorized, HandlerInv, TypeOK

(* The bodies other connections have upstream are not touched by a block. *)
LEMMA OthersUntouched ==
    ASSUME HandlerInv, NEW c \in Conn, TakesBlock(c),
           NEW d \in Conn, d # c, pc'[d] = pc[d], req'[d] = req[d], body'[d] = body[d],
           pc[d] = "upstream"
    PROVE  /\ req'[d].target = pigeon'[d]
           /\ req'[d].kind = "block" =>
                LET u == run'[<<d, req'[d].leaf>>] IN
                u.ok /\ u.n = req'[d].num + 1 /\ ~req'[d].more /\ body'[d] = u.data
<1>1. req[d] \in Request /\ <<d, req[d].leaf>> \in Key
  BY RequestTyped, KeyPair DEF HandlerInv, Busy
<1>2. <<d, req[d].leaf>> # KeyOf(c)
  BY DEF KeyOf
<1>3. run'[<<d, req[d].leaf>>] = run[<<d, req[d].leaf>>] /\ pigeon' = pigeon
  BY <1>1, <1>2, BlockFacts
<1> QED
  BY <1>3 DEF HandlerInv, BodiesWhole

(* The block is answered and the thread is idle again. *)
LEMMA BlockReply ==
    ASSUME HandlerInv, NEW c \in Conn, TakesBlock(c), Reply(c),
           DOMAIN block1' \subseteq Key,
           \A k \in DOMAIN block1' : block1'[k] \in Reassembly
    PROVE  TypeOK' /\ Busy' /\ BodiesWhole'
<1> USE DEF HandlerInv
<1>1. TypeOK'
  BY BlockFacts DEF Reply, TypeOK
<1>2. Busy'
  BY DEF Reply, TypeOK, Busy
<1>3. BodiesWhole'
  <2> SUFFICES ASSUME NEW d \in Conn, pc'[d] = "upstream"
               PROVE  /\ req'[d].target = pigeon'[d]
                      /\ req'[d].kind = "block" =>
                           LET u == run'[<<d, req'[d].leaf>>] IN
                           /\ u.ok /\ u.n = req'[d].num + 1
                           /\ ~req'[d].more /\ body'[d] = u.data
    BY DEF BodiesWhole
  <2>1. d # c /\ pc'[d] = pc[d] /\ req'[d] = req[d] /\ body'[d] = body[d]
    BY DEF Reply, TypeOK
  <2> QED
    BY <2>1, OthersUntouched
<1> QED
  BY <1>1, <1>2, <1>3

(* No upload is concerned: the block's own has no entry. *)
LEMMA UnplacedKeepsInv ==
    ASSUME HandlerInv, NEW c \in Conn, BlockUnplaced(c)
    PROVE  HandlerInv'
<1> USE DEF HandlerInv
<1>1. TakesBlock(c) /\ Reply(c) /\ block1' = block1
  BY DEF BlockUnplaced
<1>2. KeyOf(c) \notin DOMAIN block1
  BY DEF BlockUnplaced, HasRoom, HasContext
<1>3. TypeOK' /\ Busy' /\ BodiesWhole'
  BY <1>1, BlockReply DEF TypeOK
<1>4. EntriesFaithful'
  BY <1>1, <1>2, BlockFacts DEF EntriesFaithful, TypeOK
<1>5. MemoryBounded'
  BY <1>1 DEF MemoryBounded
<1> QED
  BY <1>3, <1>4, <1>5

(* The upload is dropped. *)
LEMMA BreakKeepsInv ==
    ASSUME HandlerInv, NEW c \in Conn, BlockBreaks(c)
    PROVE  HandlerInv'
<1> USE DEF HandlerInv
<1>1. /\ TakesBlock(c) /\ Reply(c)
      /\ DOMAIN block1' = DOMAIN block1 \ {KeyOf(c)}
      /\ \A k \in DOMAIN block1' : block1'[k] = block1[k]
  BY DEF BlockBreaks, DropUpload, Without
<1>2. TypeOK' /\ Busy' /\ BodiesWhole'
  BY <1>1, BlockReply DEF TypeOK
<1>3. EntriesFaithful'
  BY <1>1, BlockFacts DEF EntriesFaithful, TypeOK
<1>4. /\ Cardinality(DOMAIN block1') <= Cardinality(DOMAIN block1)
      /\ Cardinality(DOMAIN block1) \in Nat /\ Cardinality(DOMAIN block1') \in Nat
  BY <1>1, TableFinite DEF TypeOK
<1>5. MemoryBounded'
  BY <1>1, <1>4 DEF MemoryBounded
<1> QED
  BY <1>2, <1>3, <1>5

(* The upload found in place, continued by this block, is what was sent. *)
LEMMA AcceptedFaithful ==
    ASSUME HandlerInv, NEW c \in Conn, TakesBlock(c), InPlace(c), Accepts(c)
    PROVE  /\ Opened(c) \in Reassembly
           /\ run'[KeyOf(c)].ok
           /\ run'[KeyOf(c)].n = req[c].num + 1
           /\ run'[KeyOf(c)].data = Opened(c).data \o req[c].payload
           /\ Opened(c).data \o req[c].payload \in Seq(Byte)
           /\ Len(Opened(c).data \o req[c].payload) <= MaxBody
<1> USE DEF HandlerInv
<1>1. /\ req[c].num \in Nat /\ req[c].payload \in Seq(Byte)
      /\ run'[KeyOf(c)] = Continued(run[KeyOf(c)], req[c])
  BY BlockFacts, RequestTyped
<1>2. CASE req[c].num = 0
  <2>1. Opened(c) = [data |-> <<>>, next_num |-> 0, fresh |-> TRUE]
    BY <1>2 DEF Opened
  <2>2. Opened(c) \in Reassembly
    BY <2>1 DEF Reassembly
  <2>3. Opened(c).data \o req[c].payload = req[c].payload
    BY <1>1, <2>1
  <2> QED
    BY <1>1, <1>2, <2>1, <2>2, <2>3 DEF Continued, Accepts, Fits
<1>3. CASE req[c].num # 0
  <2>1. KeyOf(c) \in DOMAIN block1 /\ Opened(c) = block1[KeyOf(c)]
    BY <1>3 DEF Opened, InPlace, HasContext
  <2>2. /\ Opened(c) \in Reassembly /\ Opened(c).data \in Seq(Byte)
        /\ run[KeyOf(c)].ok /\ Opened(c).next_num = run[KeyOf(c)].n
        /\ Opened(c).data = run[KeyOf(c)].data
    BY <2>1 DEF TypeOK, EntriesFaithful, Reassembly
  <2>3. req[c].num = run[KeyOf(c)].n
    BY <2>2 DEF Accepts
  <2> DEFINE w == run[KeyOf(c)].data \o req[c].payload
  <2>4. run'[KeyOf(c)] = [ok |-> TRUE, n |-> run[KeyOf(c)].n + 1, data |-> w]
    BY <1>1, <1>3, <2>2, <2>3 DEF Continued
  <2>5. /\ Opened(c).data \o req[c].payload \in Seq(Byte)
        /\ Len(Opened(c).data \o req[c].payload)
             = Len(Opened(c).data) + Len(req[c].payload)
    BY <1>1, <2>2
  <2>6. /\ run'[KeyOf(c)].ok /\ run'[KeyOf(c)].n = req[c].num + 1
        /\ run'[KeyOf(c)].data = Opened(c).data \o req[c].payload
    <3>1. run'[KeyOf(c)].ok
      BY <2>4
    <3>2. run'[KeyOf(c)].n = run[KeyOf(c)].n + 1
      BY <2>4
    <3>3. run'[KeyOf(c)].data = w
      <4> HIDE DEF w
      <4> QED BY <2>4
    <3> QED
      BY <2>2, <2>3, <3>1, <3>2, <3>3
  <2>7. Len(Opened(c).data \o req[c].payload) <= MaxBody
    BY <2>5 DEF Accepts, Fits
  <2> QED
    BY <2>2, <2>5, <2>6, <2>7
<1> QED
  BY <1>2, <1>3

(* 2.31: the entry holds one block more. *)
LEMMA ContinueKeepsInv ==
    ASSUME HandlerInv, NEW c \in Conn, BlockContinues(c)
    PROVE  HandlerInv'
<1> USE DEF HandlerInv
<1> DEFINE k == KeyOf(c)
           whole == Opened(c).data \o req[c].payload
           e == [data |-> whole, next_num |-> Opened(c).next_num + 1, fresh |-> TRUE]
<1>1. TakesBlock(c) /\ InPlace(c) /\ Accepts(c) /\ Reply(c)
  BY DEF BlockContinues
<1>2. /\ KeyOf(c) \in Key /\ req[c].num \in Nat /\ Opened(c).next_num = req[c].num
      /\ whole \in Seq(Byte) /\ Len(whole) <= MaxBody
      /\ run'[KeyOf(c)].ok /\ run'[KeyOf(c)].n = req[c].num + 1
      /\ run'[KeyOf(c)].data = whole
  BY <1>1, BlockFacts, RequestTyped, AcceptedFaithful DEF Accepts
<1>3. e \in Reassembly
  BY <1>2 DEF Reassembly
<1>4. /\ DOMAIN block1' = DOMAIN block1 \cup {KeyOf(c)}
      /\ block1'[KeyOf(c)] = e
      /\ block1'[KeyOf(c)].data = whole /\ block1'[KeyOf(c)].next_num = req[c].num + 1
      /\ \A x \in DOMAIN block1 : x # KeyOf(c) => block1'[x] = block1[x]
  BY <1>2 DEF BlockContinues, With
<1>5. TypeOK' /\ Busy' /\ BodiesWhole'
  BY <1>1, <1>2, <1>3, <1>4, BlockReply DEF TypeOK
<1>6. EntriesFaithful'
  <2> SUFFICES ASSUME NEW x \in DOMAIN block1'
               PROVE  /\ run'[x].ok /\ block1'[x].next_num = run'[x].n
                      /\ block1'[x].data = run'[x].data
    BY DEF EntriesFaithful
  <2>1. CASE x = KeyOf(c)
    BY <1>2, <1>4, <2>1
  <2>2. CASE x # KeyOf(c)
    BY <1>1, <1>4, <2>2, BlockFacts DEF EntriesFaithful, TypeOK
  <2> QED BY <2>1, <2>2
<1>7. Cardinality(DOMAIN block1') <= MaxEntries
  <2>1. CASE KeyOf(c) \in DOMAIN block1
    BY <1>4, <2>1 DEF MemoryBounded
  <2>2. CASE KeyOf(c) \notin DOMAIN block1
    <3>1. Cardinality(DOMAIN block1) < MaxEntries /\ Cardinality(DOMAIN block1) \in Nat
      BY <1>1, <2>2, TableFinite DEF InPlace, HasContext, HasRoom, TypeOK
    <3>2. Cardinality(DOMAIN block1') = Cardinality(DOMAIN block1) + 1
      BY <1>4, <2>2, TableFinite DEF TypeOK
    <3> QED BY <3>1, <3>2
  <2> QED BY <2>1, <2>2
<1>8. MemoryBounded'
  BY <1>2, <1>4, <1>7 DEF MemoryBounded
<1> QED
  BY <1>5, <1>6, <1>8

(* The last block: the body goes upstream. *)
LEMMA CompleteKeepsInv ==
    ASSUME HandlerInv, NEW c \in Conn, BlockCompletes(c)
    PROVE  HandlerInv'
<1> USE DEF HandlerInv
<1> DEFINE whole == Opened(c).data \o req[c].payload
<1>1. /\ TakesBlock(c) /\ InPlace(c) /\ Accepts(c) /\ ~req[c].more
      /\ DOMAIN block1' = DOMAIN block1 \ {KeyOf(c)}
      /\ \A k \in DOMAIN block1' : block1'[k] = block1[k]
      /\ pc' = [pc EXCEPT ![c] = "upstream"] /\ body' = [body EXCEPT ![c] = whole]
      /\ req' = req
  BY DEF BlockCompletes, Without, CallsUpstream
<1>2. /\ whole \in Seq(Byte)
      /\ run'[KeyOf(c)].ok /\ run'[KeyOf(c)].n = req[c].num + 1
      /\ run'[KeyOf(c)].data = whole
  BY <1>1, AcceptedFaithful
<1>3. TypeOK'
  BY <1>1, <1>2, BlockFacts DEF TypeOK
<1>4. Busy'
  BY <1>1, BlockFacts DEF TypeOK, Busy
<1>5. BodiesWhole'
  <2> SUFFICES ASSUME NEW d \in Conn, pc'[d] = "upstream"
               PROVE  /\ req'[d].target = pigeon'[d]
                      /\ req'[d].kind = "block" =>
                           LET u == run'[<<d, req'[d].leaf>>] IN
                           /\ u.ok /\ u.n = req'[d].num + 1
                           /\ ~req'[d].more /\ body'[d] = u.data
    BY DEF BodiesWhole
  <2>1. CASE d = c
    BY <1>1, <1>2, <2>1, BlockFacts DEF TypeOK
  <2>2. CASE d # c
    BY <1>1, <2>2, OthersUntouched DEF TypeOK
  <2> QED BY <2>1, <2>2
<1>6. EntriesFaithful'
  BY <1>1, BlockFacts DEF EntriesFaithful, TypeOK
<1>7. /\ Cardinality(DOMAIN block1') <= Cardinality(DOMAIN block1)
      /\ Cardinality(DOMAIN block1) \in Nat /\ Cardinality(DOMAIN block1') \in Nat
  BY <1>1, TableFinite DEF TypeOK
<1>8. MemoryBounded'
  BY <1>1, <1>7 DEF MemoryBounded
<1> QED
  BY <1>3, <1>4, <1>5, <1>6, <1>8

-----------------------------------------------------------------------------
(* HandlerInv holds initially and every step keeps it. *)
THEOREM HandlerInvariant == Spec => []HandlerInv
<1>1. Init => HandlerInv
  <2> SUFFICES ASSUME Init PROVE HandlerInv
    OBVIOUS
  <2>1. DOMAIN block1 = {}
    BY DEF Init
  <2>2. TypeOK
    BY <2>1 DEF Init, TypeOK, Run, NoRun
  <2>3. Cardinality({}) = 0
    BY FS_EmptySet
  <2>4. Busy /\ EntriesFaithful /\ BodiesWhole
    BY <2>1 DEF Init, Busy, EntriesFaithful, BodiesWhole
  <2>5. MemoryBounded
    BY <2>1, <2>3 DEF MemoryBounded
  <2> QED BY <2>2, <2>4, <2>5 DEF HandlerInv
<1>2. HandlerInv /\ [Next]_vars => HandlerInv'
  <2> SUFFICES ASSUME HandlerInv, [Next]_vars PROVE HandlerInv'
    OBVIOUS
  <2>1. CASE Opens
    BY <2>1, OpenKeepsInv DEF Opens
  <2>2. CASE Receives
    BY <2>2, ReceiveKeepsInv DEF Receives
  <2>3. ASSUME NEW c \in Conn, Close(c) \/ Handles(c)
        PROVE  HandlerInv'
    BY <2>3, CloseKeepsInv, PlainKeepsInv, UnplacedKeepsInv, BreakKeepsInv,
       ContinueKeepsInv, CompleteKeepsInv DEF Handles
  <2>4. ASSUME NEW k \in DOMAIN block1, EntryAges(k)
        PROVE  HandlerInv'
    BY <2>4, AgingKeepsInv
  <2>5. CASE UNCHANGED vars
    BY <2>5 DEF vars, HandlerInv, TypeOK, Busy, EntriesFaithful, BodiesWhole, MemoryBounded
  <2> QED
    BY <2>1, <2>2, <2>3, <2>4, <2>5 DEF Next
<1> QED
  BY <1>1, <1>2, PTL DEF Spec

(* Only whole bodies go upstream, for the device that sent them. *)
THEOREM BodiesSafe == Spec => []BodiesWhole
BY HandlerInvariant, PTL DEF HandlerInv

(* Every entry of the table is its own connection's upload so far. *)
THEOREM EntriesSafe == Spec => []EntriesFaithful
BY HandlerInvariant, PTL DEF HandlerInv

(* Type correctness of the handler. *)
THEOREM HandlerTypeCorrect == Spec => []TypeOK
BY HandlerInvariant, PTL DEF HandlerInv

(* The table and every body in it stay within their ceilings. *)
THEOREM MemorySafe == Spec => []MemoryBounded
BY HandlerInvariant, PTL DEF HandlerInv

(* No connection takes another's upload away. *)
THEOREM UploadsSafe == Spec => UploadsKept
<1> DEFINE Kept == \A k \in DOMAIN block1 : k \notin DOMAIN block1' =>
        \/ ~block1[k].fresh
        \/ pc[k[1]] = "swept" /\ pc'[k[1]] # "swept" /\ req[k[1]].leaf = k[2]
<1>1. HandlerInv /\ [Next]_vars => [Kept]_vars
  <2> SUFFICES ASSUME HandlerInv, [Next]_vars, NEW k \in DOMAIN block1,
                      k \notin DOMAIN block1', block1[k].fresh
               PROVE  pc[k[1]] = "swept" /\ pc'[k[1]] # "swept" /\ req[k[1]].leaf = k[2]
    OBVIOUS
  <2>1. ASSUME NEW c \in Conn, TakesBlock(c), Reply(c) \/ pc' = [pc EXCEPT ![c] = "upstream"],
               k = KeyOf(c)
        PROVE  pc[k[1]] = "swept" /\ pc'[k[1]] # "swept" /\ req[k[1]].leaf = k[2]
    BY <2>1, BlockFacts DEF HandlerInv, TypeOK, Reply
  <2>2. CASE Opens
    BY <2>2 DEF Opens, Open
  <2>3. CASE Receives
    BY <2>3 DEF Receives, Receive, Retained
  <2>4. ASSUME NEW c \in Conn, Close(c) \/ Rejects(c) \/ PassesThrough(c)
               \/ UpstreamReturns(c) \/ BlockUnplaced(c)
        PROVE  FALSE
    BY <2>4 DEF Close, Rejects, PassesThrough, UpstreamReturns, BlockUnplaced
  <2>5. ASSUME NEW c \in Conn, BlockBreaks(c) \/ BlockContinues(c) \/ BlockCompletes(c)
        PROVE  pc[k[1]] = "swept" /\ pc'[k[1]] # "swept" /\ req[k[1]].leaf = k[2]
    BY <2>1, <2>5 DEF BlockBreaks, BlockContinues, BlockCompletes, DropUpload, Without,
       With, CallsUpstream
  <2>6. ASSUME NEW x \in DOMAIN block1, EntryAges(x)
        PROVE  FALSE
    BY <2>6 DEF EntryAges
  <2>7. CASE UNCHANGED vars
    BY <2>7 DEF vars
  <2> QED
    BY <2>2, <2>3, <2>4, <2>5, <2>6, <2>7 DEF Next, Handles
<1> QED
  BY <1>1, HandlerInvariant, PTL DEF Spec, UploadsKept
=============================================================================
