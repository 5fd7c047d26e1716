---------------------------- MODULE TlsTcpProofs ----------------------------
(***************************************************************************)
(* Proofs about TlsTcp: for every number of connections and sources, every *)
(* deadline, tick and timeout and every size of the reads, the books of    *)
(* the quota are right and no handshake outlasts its deadline by more than *)
(* a tick and a lookup; and wherever the reads cut the stream, the frames of messages that      *)
(* survive the codec are answered in order, and none is left behind.       *)
(***************************************************************************)
EXTENDS TlsTcp, FiniteSetTheorems, SequenceTheorems, TLAPS

Byte == 0 .. 255

USE TcpAssumption
USE DEF InCall, Handshaking, CallLimit

-----------------------------------------------------------------------------
(* The connections that hold a permit, in all and of one source. *)
Held == {c \in Conn : phase[c] # "free"}
HeldOf(b) == {c \in Conn : phase[c] # "free" /\ BucketAt(peer[c]) = b}

(* Every connection has a peer, a handshake's clocks are at rest before it *)
(* begins, and after it.                                                   *)
ConnOK ==
    \A c \in Conn :
        /\ phase[c] # "free" => peer[c] \in Addr
        /\ phase[c] \notin Handshaking => age[c] = 0 /\ wait[c] = 0

(* A call was begun before the deadline, so a handshake is older than that *)
(* by less than its current call; and a lookup was begun within a call.    *)
Paced ==
    \A c \in Conn :
        /\ phase[c] \in InCall => age[c] < Deadline + wait[c]
        /\ phase[c] = "lookup" => age[c] < Deadline + HandshakeTick + wait[c]

StreamsOK ==
    /\ wire \in [Conn -> Seq(Byte)]
    /\ buf \in [Conn -> Seq(Byte)]

MachineOK ==
    /\ phase \in [Conn -> {"free", "admitted"} \cup Handshaking \cup Established]
    /\ peer \in [Conn -> Addr \cup {NoAddr}]
    /\ age \in [Conn -> Nat]
    /\ wait \in [Conn -> Nat]
    /\ \A c \in Conn : wait[c] <= CallLimit(c)

ThreadInv == MachineOK /\ StreamsOK /\ ConnOK /\ Paced

-----------------------------------------------------------------------------
(* What peers send, and what a read leaves and takes, is bytes. *)
LEMMA SentAreBytes ==
    (\A m \in Message : encode_frame(m) \in Seq(Byte)) /\ Malformed \subseteq Seq(Byte)
BY BytesAssumption DEF Byte

LEMMA PiecesAreBytes ==
    ASSUME NEW s \in Seq(Byte), NEW n \in Nat, n <= Len(s)
    PROVE  SubSeq(s, 1, n) \in Seq(Byte) /\ SubSeq(s, n + 1, Len(s)) \in Seq(Byte)
OBVIOUS

LEMMA ExtensionIsBytes ==
    ASSUME NEW s \in Seq(Byte), NEW e \in Nat, 1 + e <= Len(s)
    PROVE  SubSeq(s, 2, 2 + e - 1) \in Seq(Byte) /\ Len(SubSeq(s, 2, 2 + e - 1)) = e
OBVIOUS

LEMMA ByteIsNat ==
    ASSUME NEW x \in Byte
    PROVE  x \in Nat /\ x \div 16 \in 0 .. 15 /\ x % 16 \in 0 .. 15
BY DEF Byte

LEMMA BytesAreNat ==
    ASSUME NEW s \in Seq(Byte), NEW i \in 1 .. Len(s)
    PROVE  s[i] \in Nat /\ s[i] \div 16 \in 0 .. 15 /\ s[i] % 16 \in 0 .. 15
<1>1. s[i] \in Byte
  OBVIOUS
<1> QED
  BY <1>1, ByteIsNat

(* Two bytes make a number. *)
LEMMA PairIsNat ==
    ASSUME NEW x \in Nat, NEW y \in Nat
    PROVE  x * Radix + y \in Nat /\ x * Radix * Radix + y \in Nat
<1>1. Radix \in Nat
  BY FramesAssumption
<1>2. x * Radix \in Nat
  BY <1>1
<1>3. x * Radix * Radix \in Nat
  BY <1>1, <1>2
<1> QED
  BY <1>2, <1>3

(* A nibble announces a number, whatever the bytes that follow it. *)
LEMMA NumberIsNat ==
    ASSUME NEW s \in Seq(Byte), NEW k \in 0 .. 15, 1 + ExtBytes(k) <= Len(s)
    PROVE  Number(k, s, 2) \in Nat /\ ExtBytes(k) \in {0, 1, 2, 4}
<1>1. ExtBytes(k) \in {0, 1, 2, 4}
  BY FramesAssumption DEF ExtBytes
<1>2. PICK d \in Seq(Byte) : d = SubSeq(s, 2, 2 + ExtBytes(k) - 1) /\ Len(d) = ExtBytes(k)
  BY <1>1, ExtensionIsBytes
<1>3. FromBytes(d) \in Nat
  <2>1. CASE Len(d) = 0
    BY <2>1 DEF FromBytes
  <2>2. CASE Len(d) = 1
    <3>1. d[1] \in Nat /\ d # <<>>
      BY <2>2, BytesAreNat
    <3> QED BY <2>2, <3>1 DEF FromBytes
  <2>3. CASE Len(d) = 2
    <3>1. d[1] \in Nat /\ d[1 + 1] \in Nat
      BY <2>3, BytesAreNat
    <3>2. d[1] * Radix + d[1 + 1] \in Nat
      BY <3>1, PairIsNat
    <3> QED BY <2>3, <3>2 DEF FromBytes
  <2>4. CASE Len(d) = 4
    <3>1. d[1] \in Nat /\ d[1 + 1] \in Nat /\ d[3] \in Nat /\ d[3 + 1] \in Nat
      <4>1. \A i \in 1 .. 4 : d[i] \in Nat
        BY <2>4, BytesAreNat
      <4> QED BY <4>1
    <3>2. d[1] * Radix + d[1 + 1] \in Nat /\ d[3] * Radix + d[3 + 1] \in Nat
      BY <3>1, PairIsNat
    <3>3. (d[1] * Radix + d[1 + 1]) * Radix * Radix + (d[3] * Radix + d[3 + 1]) \in Nat
      BY <3>2, PairIsNat
    <3> QED BY <2>4, <3>3 DEF FromBytes
  <2> QED BY <1>1, <1>2, <2>1, <2>2, <2>3, <2>4
<1>4. ExtBase(k) \in Nat
  BY FramesAssumption DEF ExtBase
<1> QED
  BY <1>1, <1>2, <1>3, <1>4 DEF Number

(* A frame that was decoded is in the buffer, all of it. *)
LEMMA FrameInBuffer ==
    ASSUME NEW s \in Seq(Byte), try_decode_frame(s).kind = "frame"
    PROVE  try_decode_frame(s).consumed \in 2 .. Len(s)
<1> DEFINE nibble == s[1] \div 16
           tkl == s[1] % 16
           ext == ExtBytes(nibble)
           len == Number(nibble, s, 2)
<1>1. s # <<>> /\ ~(Len(s) < 1 + ext)
  BY Zenon DEF try_decode_frame, NeedsMore, BadFrame
<1>2. ~(Len(s) < 2 + ext + tkl + len) /\ try_decode_frame(s).consumed = 2 + ext + tkl + len
  BY Zenon DEF try_decode_frame, NeedsMore, BadFrame
<1>3. nibble \in 0 .. 15 /\ tkl \in 0 .. 15
  BY <1>1, BytesAreNat
<1> HIDE DEF nibble, tkl
<1>5. ext \in Nat
  BY <1>3, FramesAssumption DEF ExtBytes
<1>4. len \in Nat
  <2>1. 1 + ExtBytes(nibble) <= Len(s)
    BY <1>1, <1>5
  <2> QED BY <1>3, <2>1, NumberIsNat
<1> HIDE DEF ext, len
<1> QED
  BY <1>2, <1>3, <1>4, <1>5

(* What is in a buffer stays where it is when more arrives. *)
LEMMA PieceStays ==
    ASSUME NEW s \in Seq(Byte), NEW t \in Seq(Byte), NEW i \in Nat \ {0}, NEW j \in Nat,
           j <= Len(s)
    PROVE  SubSeq(s \o t, i, j) = SubSeq(s, i, j)
<1>1. CASE i <= j
  BY <1>1, SubSeqOfConcat1
<1>2. CASE j < i
  BY <1>2, SubSeqEmpty
<1> QED
  BY <1>1, <1>2

LEMMA ByteStays ==
    ASSUME NEW s \in Seq(Byte), NEW t \in Seq(Byte), NEW i \in 1 .. Len(s)
    PROVE  (s \o t)[i] = s[i]
<1>1. Len(s) \in Nat /\ Len(t) \in Nat /\ i \in 1 .. Len(s) + Len(t) /\ i <= Len(s)
  OBVIOUS
<1> QED
  BY <1>1, ConcatProperties

(* The decoder's verdict does not depend on how the stream is cut: once it *)
(* has found a frame, or that there is none, what follows changes nothing, *)
(* so that a read that ends within a frame only makes it wait.             *)
THEOREM VerdictStays ==
    ASSUME NEW s \in Seq(Byte), NEW t \in Seq(Byte), try_decode_frame(s).kind # "more"
    PROVE  try_decode_frame(s \o t) = try_decode_frame(s)
<1> DEFINE st == s \o t
           nibble == s[1] \div 16
           tkl == s[1] % 16
           ext == ExtBytes(nibble)
           len == Number(nibble, s, 2)
           all == 2 + ext + tkl + len
           body == DecodeOptions(SubSeq(s, 3 + ext + tkl, all))
           frame == [kind |-> "frame", consumed |-> all,
                     msg |-> Msg(s[2 + ext], SubSeq(s, 3 + ext, 2 + ext + tkl),
                                 body.options, body.payload)]
<1>0. NeedsMore.kind = "more"
  BY DEF NeedsMore
<1>1. s # <<>>
  BY <1>0, Zenon DEF try_decode_frame
<1>2. st \in Seq(Byte) /\ st # <<>> /\ Len(st) = Len(s) + Len(t) /\ Len(s) \in Nat
      /\ Len(t) \in Nat /\ 1 \in 1 .. Len(s)
  BY <1>1
<1>a. \A i \in Nat \ {0}, j \in Nat : j <= Len(s) => SubSeq(st, i, j) = SubSeq(s, i, j)
  BY PieceStays
<1>b. \A i \in 1 .. Len(s) : st[i] = s[i]
  BY ByteStays
<1>c. SUFFICES try_decode_frame(st) = try_decode_frame(s)
  OBVIOUS
<1> HIDE DEF st
<1>3. st[1] = s[1]
  BY <1>2, <1>b
<1>4. nibble \in 0 .. 15 /\ tkl \in 0 .. 15 /\ ext \in {0, 1, 2, 4}
  <2>1. nibble \in 0 .. 15 /\ tkl \in 0 .. 15
    BY <1>2, BytesAreNat
  <2> HIDE DEF nibble
  <2> QED BY <2>1, FramesAssumption DEF ExtBytes
<1>5. try_decode_frame(s) =
        IF tkl > MaxTokenLen THEN BadFrame
        ELSE IF Len(s) < 1 + ext THEN NeedsMore
        ELSE IF len > MaxFrameBody THEN BadFrame
        ELSE IF Len(s) < all THEN NeedsMore
        ELSE IF ~body.ok THEN BadFrame ELSE frame
  BY <1>1, Zenon DEF try_decode_frame
<1>6. try_decode_frame(st) =
        IF tkl > MaxTokenLen THEN BadFrame
        ELSE IF Len(st) < 1 + ext THEN NeedsMore
        ELSE IF Number(nibble, st, 2) > MaxFrameBody THEN BadFrame
        ELSE IF Len(st) < 2 + ext + tkl + Number(nibble, st, 2) THEN NeedsMore
        ELSE LET b == DecodeOptions(SubSeq(st, 3 + ext + tkl,
                                           2 + ext + tkl + Number(nibble, st, 2)))
             IN  IF ~b.ok THEN BadFrame
                 ELSE [kind |-> "frame", consumed |-> 2 + ext + tkl + Number(nibble, st, 2),
                       msg |-> Msg(st[2 + ext], SubSeq(st, 3 + ext, 2 + ext + tkl),
                                   b.options, b.payload)]
  BY <1>2, <1>3, Zenon DEF try_decode_frame
<1> HIDE DEF nibble, tkl, ext
<1>7. CASE tkl > MaxTokenLen
  BY <1>5, <1>6, <1>7, Zenon
<1>8. CASE ~(tkl > MaxTokenLen)
  <2>1. ~(Len(s) < 1 + ext)
    BY <1>0, <1>5, <1>8, Zenon
  <2>2. ~(Len(st) < 1 + ext)
    BY <1>2, <1>4, <2>1
  <2>3. Number(nibble, st, 2) = len
    <3>1. 2 + ext - 1 \in Nat /\ 2 + ext - 1 <= Len(s) /\ 2 \in Nat \ {0}
      BY <1>2, <1>4, <2>1
    <3>2. SubSeq(st, 2, 2 + ext - 1) = SubSeq(s, 2, 2 + ext - 1)
      BY <3>1, <1>a, Zenon
    <3> QED BY <3>2 DEF Number, ext
  <2>4. len \in Nat
    <3>1. 1 + ExtBytes(nibble) <= Len(s)
      BY <1>2, <1>4, <2>1 DEF ext
    <3> QED BY <1>4, <3>1, NumberIsNat
  <2> HIDE DEF len
  <2>5. CASE len > MaxFrameBody
    BY <1>5, <1>6, <1>8, <2>1, <2>2, <2>3, <2>5, Zenon
  <2>6. CASE ~(len > MaxFrameBody)
    <3>1. ~(Len(s) < all)
      BY <1>0, <1>5, <1>8, <2>1, <2>6, Zenon
    <3>2. all \in Nat /\ all <= Len(s) /\ 3 + ext + tkl \in Nat \ {0}
          /\ 3 + ext \in Nat \ {0} /\ 2 + ext + tkl \in Nat /\ 2 + ext + tkl <= Len(s)
          /\ 2 + ext \in 1 .. Len(s)
      BY <1>2, <1>4, <2>4, <3>1
    <3>3. SubSeq(st, 3 + ext + tkl, all) = SubSeq(s, 3 + ext + tkl, all)
      <4> HIDE DEF all
      <4> QED BY <3>2, <1>a, Zenon
    <3>4. SubSeq(st, 3 + ext, 2 + ext + tkl) = SubSeq(s, 3 + ext, 2 + ext + tkl)
      BY <3>2, <1>a, Zenon
    <3>5. st[2 + ext] = s[2 + ext]
      BY <3>2, <1>b, Zenon
    <3>6. ~(Len(st) < all)
      <4> HIDE DEF all
      <4> QED BY <1>2, <3>2
    <3>7. try_decode_frame(st) = IF ~body.ok THEN BadFrame ELSE frame
      BY <1>6, <1>8, <2>2, <2>3, <2>6, <3>3, <3>4, <3>5, <3>6, Zenon
    <3>8. try_decode_frame(s) = IF ~body.ok THEN BadFrame ELSE frame
      BY <1>5, <1>8, <2>1, <2>6, <3>1, Zenon
    <3> HIDE DEF body, frame
    <3> QED BY <3>7, <3>8
  <2> QED BY <2>5, <2>6
<1> QED
  BY <1>7, <1>8

(* The thread's end resets everything of its own. *)
LEMMA EndKeepsThreads ==
    ASSUME ThreadInv, NEW c \in Conn, End(c)
    PROVE  ThreadInv'
<1> USE DEF ThreadInv
<1>1. MachineOK'
  BY DEF End, Goto, MachineOK, Established
<1>2. StreamsOK'
  BY DEF End, StreamsOK
<1>3. ConnOK' /\ Paced'
  BY DEF End, Goto, MachineOK, ConnOK, Paced
<1> QED
  BY <1>1, <1>2, <1>3

LEMMA AdmissionKeepsThreads ==
    ASSUME ThreadInv, NEW c \in Conn,
           Spawned(c) \/ \E a \in Addr : Accept(c, a)
    PROVE  ThreadInv'
<1> USE DEF ThreadInv
<1>1. StreamsOK'
  BY DEF Spawned, Accept, ioVars, StreamsOK
<1>2. MachineOK'
  BY DEF Spawned, Accept, Goto, MachineOK, Established
<1>3. ConnOK' /\ Paced'
  BY DEF Spawned, Accept, Goto, MachineOK, ConnOK, Paced
<1> QED
  BY <1>1, <1>2, <1>3

LEMMA HandshakeKeepsThreads ==
    ASSUME ThreadInv, NEW c \in Conn, Handshakes(c)
    PROVE  ThreadInv'
<1> USE DEF ThreadInv
<1>1. ASSUME NEW p \in InCall, phase[c] \in Handshaking, ~Expired(c), Goto(c, p),
             wait' = [wait EXCEPT ![c] = 0], UNCHANGED <<peer, age, ioVars>>
      PROVE  ThreadInv'
  <2>1. MachineOK' /\ StreamsOK'
    BY <1>1 DEF Goto, MachineOK, StreamsOK, ioVars
  <2>2. ConnOK' /\ Paced'
    BY <1>1 DEF Goto, MachineOK, ConnOK, Paced, Expired
  <2> QED BY <2>1, <2>2
<1>2. CASE HandshakeCompletes(c)
  <2>1. MachineOK' /\ StreamsOK'
    BY <1>2 DEF HandshakeCompletes, Goto, MachineOK, StreamsOK, Established, ioVars
  <2>2. ConnOK' /\ Paced'
    BY <1>2 DEF HandshakeCompletes, Goto, MachineOK, ConnOK, Paced
  <2> QED
    BY <2>1, <2>2
<1>3. CASE LookupBegins(c)
  <2>1. MachineOK' /\ StreamsOK'
    BY <1>3 DEF LookupBegins, Goto, MachineOK, StreamsOK, ioVars
  <2>2. age[c] < Deadline + HandshakeTick
    BY <1>3 DEF LookupBegins, MachineOK, Paced
  <2>3. ConnOK' /\ Paced'
    BY <1>3, <2>2 DEF LookupBegins, Goto, MachineOK, ConnOK, Paced
  <2> QED
    BY <2>1, <2>3
<1>4. ASSUME NEW p \in InCall, phase[c] \in Handshaking, NextCall(c, p) PROVE ThreadInv'
  BY <1>1, <1>4, EndKeepsThreads DEF NextCall
<1> QED
  BY <1>2, <1>3, <1>4, EndKeepsThreads
     DEF Handshakes, HandshakeTrickles, HandshakeQuiet, LookupReturns, HandshakeFails

LEMMA TickKeepsThreads ==
    ASSUME ThreadInv, Tick
    PROVE  ThreadInv'
<1> USE DEF ThreadInv
<1>1. StreamsOK' /\ UNCHANGED <<phase, peer>>
  BY DEF Tick, TimePasses, StreamsOK, ioVars
<1>2. /\ age' = [c \in Conn |-> Older(c)]
      /\ wait' = [c \in Conn |-> IF phase[c] \in Handshaking THEN wait[c] + 1 ELSE wait[c]]
      /\ \A c \in Conn : phase[c] \in Handshaking => wait[c] < CallLimit(c)
  BY DEF Tick, TimePasses
<1>3. \A c \in Conn : Older(c) \in Nat /\ Older(c) <= age[c] + 1
                      /\ (phase[c] \notin Handshaking => Older(c) = age[c])
  BY DEF Older, MachineOK
<1>4. MachineOK'
  BY <1>1, <1>2, <1>3 DEF MachineOK
<1>5. ConnOK'
  BY <1>1, <1>2, <1>3 DEF ConnOK
<1>6. Paced'
  BY <1>1, <1>2, <1>3 DEF Paced, MachineOK
<1> QED
  BY <1>1, <1>4, <1>5, <1>6

(* The stream's traffic leaves the machine of the others alone. *)
LEMMA ServiceKeepsThreads ==
    ASSUME ThreadInv, NEW c \in Conn, Serves(c) \/ PeerSends(c)
    PROVE  ThreadInv'
<1> USE DEF ThreadInv
<1>1. CASE ReadEnds(c) \/ WriteFails(c) \/ Leave(c)
  BY <1>1, EndKeepsThreads DEF ReadEnds, WriteFails, Leave
<1>2. ASSUME UNCHANGED <<peer, age, wait>>, phase[c] \in Established,
             NEW p \in Established, Goto(c, p)
      PROVE  MachineOK' /\ ConnOK' /\ Paced'
  BY <1>2 DEF Goto, MachineOK, ConnOK, Paced, Established
<1>3. CASE Greet(c) \/ Write(c)
  <2>1. StreamsOK'
    BY <1>3 DEF Greet, Write, StreamsOK
  <2> QED
    BY <1>2, <1>3, <2>1 DEF Greet, Write, DecodeAgain, Established
<1>4. CASE Read(c)
  <2>1. PICK n \in 1 .. ReadSize :
          /\ n <= Len(wire[c])
          /\ buf' = [buf EXCEPT ![c] = buf[c] \o SubSeq(wire[c], 1, n)]
          /\ wire' = [wire EXCEPT ![c] = SubSeq(@, n + 1, Len(@))]
    BY <1>4 DEF Read, Extended
  <2>2. /\ SubSeq(wire[c], 1, n) \in Seq(Byte)
        /\ SubSeq(wire[c], n + 1, Len(wire[c])) \in Seq(Byte)
    BY <2>1, PiecesAreBytes DEF StreamsOK
  <2>3. StreamsOK'
    <3> QED BY <2>1, <2>2 DEF StreamsOK
  <2> QED
    BY <1>2, <1>4, <2>3 DEF Read, Established
<1>5. CASE NextFrame(c)
  <2>1. UNCHANGED <<peer, age, wait, wire>> /\ phase[c] = "decode"
    BY <1>5 DEF NextFrame
  <2>2. \E p \in {"read", "closing", "write", "decode"} : Goto(c, p)
    BY <1>5 DEF NextFrame, DecodeAgain
  <2>3. buf' \in [Conn -> Seq(Byte)]
    <3> DEFINE r == try_decode_frame(buf[c])
    <3>1. CASE UNCHANGED buf
      BY <3>1 DEF StreamsOK
    <3>2. CASE /\ r.kind = "frame"
               /\ buf' = [buf EXCEPT ![c] = SubSeq(@, r.consumed + 1, Len(@))]
      <4>1. buf[c] \in Seq(Byte)
        BY DEF StreamsOK
      <4>2. r.consumed \in Nat /\ r.consumed <= Len(buf[c])
        BY <3>2, <4>1, FrameInBuffer
      <4> HIDE DEF r
      <4>3. SubSeq(buf[c], r.consumed + 1, Len(buf[c])) \in Seq(Byte)
        BY <4>1, <4>2, PiecesAreBytes
      <4> QED BY <3>2, <4>3 DEF StreamsOK
    <3> QED
      BY <1>5, <3>1, <3>2 DEF NextFrame
  <2> QED
    BY <1>2, <2>1, <2>2, <2>3 DEF StreamsOK, Established
<1>6. CASE PeerSends(c)
  <2>1. PICK bytes \in Seq(Byte) : wire' = [wire EXCEPT ![c] = @ \o bytes]
    BY <1>6, SentAreBytes DEF PeerSends, Send
  <2>2. UNCHANGED <<phase, peer, age, wait, buf>>
    BY <1>6 DEF PeerSends, Send
  <2>3. StreamsOK'
    <3> QED BY <2>1, <2>2 DEF StreamsOK
  <2> QED
    BY <2>2, <2>3 DEF MachineOK, ConnOK, Paced
<1> QED
  BY <1>1, <1>3, <1>4, <1>5, <1>6 DEF Serves

-----------------------------------------------------------------------------
(* The quota.  A permit is with the thread it was taken for. *)

QuotaOK == total \in Nat /\ perIp \in [Bucket -> Nat] /\ PermitsCounted

LEMMA PeerBucket == ASSUME NEW a \in Addr PROVE BucketAt(a) \in Bucket
BY DEF Bucket

LEMMA CountedFinite ==
    /\ IsFiniteSet(Held) /\ Cardinality(Held) \in Nat
    /\ \A b : IsFiniteSet(HeldOf(b)) /\ Cardinality(HeldOf(b)) \in Nat
<1>1. Held \subseteq Conn /\ \A b : HeldOf(b) \subseteq Conn
  BY DEF Held, HeldOf
<1>2. IsFiniteSet(Held) /\ \A b : IsFiniteSet(HeldOf(b))
  BY <1>1, FS_Subset
<1> QED
  BY <1>2, FS_CardinalityType

LEMMA OneFewer ==
    ASSUME NEW S, IsFiniteSet(S), NEW x \in S
    PROVE  Cardinality(S) # 0 /\ Cardinality(S \ {x}) = Cardinality(S) - 1
BY FS_RemoveElement, FS_EmptySet

LEMMA QuotaReads ==
    QuotaOK <=> /\ total \in Nat /\ perIp \in [Bucket -> Nat]
                /\ total = Cardinality(Held) /\ total <= MaxConnections
                /\ \A b \in Bucket : perIp[b] = Cardinality(HeldOf(b)) /\ perIp[b] <= MaxPerIp
BY DEF QuotaOK, PermitsCounted, Held, HeldOf

(* Steps that move no permit leave the books alone. *)
LEMMA NoPermitMoves ==
    ASSUME QuotaOK, UNCHANGED <<total, perIp, peer>>,
           \A c \in Conn : phase'[c] = "free" <=> phase[c] = "free"
    PROVE  QuotaOK'
<1>1. Held' = Held /\ \A b : HeldOf(b)' = HeldOf(b)
  BY DEF Held, HeldOf, BucketAt
<1> QED
  BY <1>1 DEF QuotaOK, PermitsCounted, Held, HeldOf

LEMMA AcceptCounts ==
    ASSUME ThreadInv, QuotaOK, NEW c \in Conn, NEW a \in Addr, Accept(c, a)
    PROVE  QuotaOK'
<1>1. PICK b \in Bucket : b = BucketAt(a)
  BY PeerBucket
<1>2. /\ Held' = Held \cup {c} /\ c \notin Held
      /\ HeldOf(b)' = HeldOf(b) \cup {c} /\ c \notin HeldOf(b)
      /\ \A k \in Bucket \ {b} : HeldOf(k)' = HeldOf(k)
  BY <1>1 DEF Accept, Goto, ThreadInv, MachineOK, Held, HeldOf, BucketAt
<1>3. /\ Cardinality(Held') = Cardinality(Held) + 1
      /\ Cardinality(HeldOf(b)') = Cardinality(HeldOf(b)) + 1
  BY <1>2, CountedFinite, FS_AddElement
<1>4. TryAcquire(b)
  BY <1>1 DEF Accept
<1>5. /\ total' = Cardinality(Held') /\ total' \in Nat /\ total' <= MaxConnections
  BY <1>3, <1>4, QuotaReads, QuotaAssumption DEF TryAcquire, Admits, IsFull
<1>6. perIp' \in [Bucket -> Nat]
      /\ \A k \in Bucket : perIp'[k] = Cardinality(HeldOf(k)') /\ perIp'[k] <= MaxPerIp
  <2>1. /\ perIp \in [Bucket -> Nat] /\ perIp[b] < MaxPerIp
        /\ perIp' = [perIp EXCEPT ![b] = @ + 1]
    BY <1>4, QuotaReads DEF TryAcquire, Admits
  <2>2. perIp'[b] = Cardinality(HeldOf(b)') /\ perIp'[b] <= MaxPerIp
    BY <1>3, <2>1, QuotaReads, QuotaAssumption
  <2>3. \A k \in Bucket \ {b} : perIp'[k] = Cardinality(HeldOf(k)') /\ perIp'[k] <= MaxPerIp
    BY <1>2, <2>1, QuotaReads
  <2> QED BY <2>1, <2>2, <2>3
<1> QED
  BY <1>5, <1>6 DEF QuotaOK, PermitsCounted, Held, HeldOf

LEMMA EndCounts ==
    ASSUME ThreadInv, QuotaOK, NEW c \in Conn, phase[c] # "free", End(c)
    PROVE  QuotaOK'
<1>1. PICK b \in Bucket : b = BucketAt(peer[c])
  BY PeerBucket DEF ThreadInv, ConnOK
<1>2. /\ Held' = Held \ {c} /\ c \in Held
      /\ HeldOf(b)' = HeldOf(b) \ {c} /\ c \in HeldOf(b)
      /\ \A k \in Bucket \ {b} : HeldOf(k)' = HeldOf(k)
  BY <1>1 DEF End, Goto, ThreadInv, MachineOK, Held, HeldOf, BucketAt
<1>3. /\ Cardinality(Held') = Cardinality(Held) - 1 /\ Cardinality(Held) # 0
      /\ Cardinality(HeldOf(b)') = Cardinality(HeldOf(b)) - 1 /\ Cardinality(HeldOf(b)) # 0
  BY <1>2, CountedFinite, OneFewer
<1>4. total' = total - 1 /\ perIp' = [perIp EXCEPT ![b] = @ - 1]
  BY <1>1 DEF End, DropPermit
<1>5. total' = Cardinality(Held') /\ total' \in Nat /\ total' <= MaxConnections
  BY <1>3, <1>4, CountedFinite, QuotaReads, QuotaAssumption
<1>6. perIp' \in [Bucket -> Nat]
      /\ \A k \in Bucket : perIp'[k] = Cardinality(HeldOf(k)') /\ perIp'[k] <= MaxPerIp
  <2>1. perIp[b] \in Nat \ {0} /\ perIp[b] <= MaxPerIp /\ perIp \in [Bucket -> Nat]
        /\ perIp[b] = Cardinality(HeldOf(b))
    BY <1>3, QuotaReads
  <2>2. perIp' \in [Bucket -> Nat] /\ perIp'[b] = perIp[b] - 1
        /\ \A k \in Bucket \ {b} : perIp'[k] = perIp[k]
    BY <1>4, <2>1
  <2>3. perIp'[b] = Cardinality(HeldOf(b)') /\ perIp'[b] <= MaxPerIp
    BY <1>3, <2>1, <2>2, QuotaAssumption
  <2> QED
    BY <1>2, <2>2, <2>3, QuotaReads
<1> QED
  BY <1>5, <1>6 DEF QuotaOK, PermitsCounted, Held, HeldOf

(* Every step of a connection's thread moves its permit only at its end. *)
LEMMA StepCounts ==
    ASSUME ThreadInv, QuotaOK, NEW c \in Conn,
           SpawnFails(c) \/ Spawned(c) \/ Handshakes(c) \/ Serves(c) \/ PeerSends(c)
    PROVE  QuotaOK'
<1>1. CASE phase[c] # "free" /\ End(c)
  BY <1>1, EndCounts
<1>2. CASE /\ UNCHANGED <<total, perIp, peer>>
           /\ \/ UNCHANGED phase
              \/ phase[c] # "free" /\ \E p \in Handshaking \cup Established : Goto(c, p)
  <2>1. \A d \in Conn : phase'[d] = "free" <=> phase[d] = "free"
    BY <1>2 DEF Goto, Established, ThreadInv, MachineOK
  <2> QED BY <1>2, <2>1, NoPermitMoves
<1>3. CASE SpawnFails(c) \/ Spawned(c)
  BY <1>1, <1>2, <1>3 DEF SpawnFails, Spawned, quotaVars
<1>4. CASE Handshakes(c)
  BY <1>1, <1>2, <1>4
     DEF Handshakes, HandshakeTrickles, HandshakeQuiet, LookupBegins, LookupReturns,
         HandshakeFails, HandshakeCompletes, NextCall, Established, quotaVars
<1>5. CASE Greet(c) \/ Read(c) \/ Write(c)
  BY <1>2, <1>5 DEF Greet, Read, Write, DecodeAgain, Established, quotaVars
<1>6. CASE NextFrame(c)
  <2>1. UNCHANGED <<total, perIp, peer>> /\ phase[c] = "decode"
    BY <1>6 DEF NextFrame, quotaVars
  <2>2. \E p \in {"read", "closing", "write", "decode"} : Goto(c, p)
    BY <1>6 DEF NextFrame, DecodeAgain
  <2> QED BY <1>2, <2>1, <2>2 DEF Established
<1>7. CASE ReadEnds(c) \/ WriteFails(c) \/ Leave(c)
  BY <1>1, <1>7 DEF ReadEnds, WriteFails, Leave
<1>8. CASE PeerSends(c)
  BY <1>2, <1>8 DEF PeerSends, Send, quotaVars
<1> QED
  BY <1>3, <1>4, <1>5, <1>6, <1>7, <1>8 DEF Serves

-----------------------------------------------------------------------------
TcpInv == ThreadInv /\ QuotaOK

(* The inductive invariant of the listener and its threads. *)
THEOREM TcpInvariant == Spec => []TcpInv
<1>1. Init => TcpInv
  <2> SUFFICES ASSUME Init PROVE TcpInv
    OBVIOUS
  <2>1. ThreadInv
    BY DEF Init, ThreadInv, MachineOK, StreamsOK, ConnOK, Paced
  <2>2. Held = {} /\ \A b : HeldOf(b) = {}
    BY DEF Init, Held, HeldOf
  <2>3. QuotaOK
    <3>1. total = 0 /\ perIp = [b \in Bucket |-> 0] /\ Cardinality({}) = 0
      BY FS_EmptySet DEF Init, QuotaInit
    <3>2. 0 <= MaxConnections /\ 0 <= MaxPerIp
      BY QuotaAssumption
    <3> QED
      BY <2>2, <3>1, <3>2, QuotaReads
  <2> QED BY <2>1, <2>3 DEF TcpInv
<1>2. TcpInv /\ [Next]_vars => TcpInv'
  <2> SUFFICES ASSUME ThreadInv, QuotaOK, [Next]_vars PROVE ThreadInv' /\ QuotaOK'
    BY DEF TcpInv
  <2>1. CASE Tick
    <3>1. UNCHANGED <<total, perIp, peer, phase>>
      BY <2>1 DEF Tick, TimePasses, quotaVars
    <3> QED BY <2>1, <3>1, TickKeepsThreads, NoPermitMoves
  <2>2. ASSUME NEW c \in Conn, NEW a \in Addr, Accept(c, a) PROVE ThreadInv' /\ QuotaOK'
    BY <2>2, AdmissionKeepsThreads, AcceptCounts
  <2>3. ASSUME NEW c \in Conn,
               SpawnFails(c) \/ Spawned(c) \/ Handshakes(c) \/ Serves(c) \/ PeerSends(c)
        PROVE  ThreadInv' /\ QuotaOK'
    <3>1. ThreadInv'
      BY <2>3, EndKeepsThreads, AdmissionKeepsThreads, HandshakeKeepsThreads,
         ServiceKeepsThreads DEF SpawnFails
    <3> QED BY <2>3, <3>1, StepCounts
  <2>4. CASE UNCHANGED vars
    <3>1. UNCHANGED <<phase, peer, age, wait, wire, buf, total, perIp>>
      BY <2>4 DEF vars, ioVars, quotaVars
    <3> QED
      BY <3>1, NoPermitMoves DEF ThreadInv, MachineOK, StreamsOK, ConnOK, Paced
  <2> QED
    BY <2>1, <2>2, <2>3, <2>4 DEF Next
<1> QED
  BY <1>1, <1>2, PTL DEF Spec

(* Type correctness of the TLS/TCP listener. *)
THEOREM TcpTypeCorrect == Spec => []TypeOK
<1>1. TcpInv => TypeOK
  BY DEF TcpInv, ThreadInv, MachineOK, StreamsOK, QuotaOK, TypeOK, Byte
<1> QED
  BY <1>1, TcpInvariant, PTL

(* Its quota counts the connections there are, for each source and in all, *)
(* however the others ended, and stays within both limits.                 *)
THEOREM TcpPermitsSafe == Spec => []PermitsCounted
<1>1. TcpInv => PermitsCounted
  BY DEF TcpInv, QuotaOK
<1> QED
  BY <1>1, TcpInvariant, PTL

(* For every deadline, tick and timeout, a peer that trickles bytes keeps  *)
(* its handshake for less than a tick longer than the deadline, and a slow *)
(* dovecote for less than a tick and the lookup's timeout.                 *)
THEOREM DeadlineHolds == Spec => []HandshakeBounded
<1>1. TcpInv => HandshakeBounded
  BY DEF TcpInv, ThreadInv, MachineOK, Paced, HandshakeBounded
<1> QED
  BY <1>1, TcpInvariant, PTL

-----------------------------------------------------------------------------
(* The stream.  What has been read and what is on its way are together the *)
(* messages that have not been decoded: rest[i] follows the i-th.          *)

Sent == Message \cup {NoMsg}

Piece(m, bytes) ==
    \/ m \in Message /\ bytes = encode_frame(m)
    \/ m = NoMsg /\ bytes \in Malformed

Tails(msgs, d, stream, rest) ==
    /\ rest[d] = stream /\ rest[Len(msgs)] = <<>>
    /\ \A i \in d .. Len(msgs) - 1 : \E bytes \in Seq(Byte) :
          Piece(msgs[i + 1], bytes) /\ rest[i] = bytes \o rest[i + 1]

Undecoded(msgs, d, stream) == \E rest \in [Nat -> Seq(Byte)] : Tails(msgs, d, stream, rest)

LEMMA NothingSent == Undecoded(<<>>, 0, <<>>)
<1> DEFINE rest == [i \in Nat |-> <<>>]
<1>1. rest \in [Nat -> Seq(Byte)]
  OBVIOUS
<1>2. Tails(<<>>, 0, <<>>, rest)
  BY DEF Tails
<1> QED
  BY <1>1, <1>2 DEF Undecoded

LEMMA Assoc ==
    ASSUME NEW s \in Seq(Byte), NEW t \in Seq(Byte), NEW u \in Seq(Byte)
    PROVE  (s \o t) \o u = s \o (t \o u)
BY ConcatAssociative

LEMMA EmptyNeutral ==
    ASSUME NEW s \in Seq(Byte)
    PROVE  s \o <<>> = s /\ <<>> \o s = s
BY ConcatEmptySeq

(* A message more is sent. *)
LEMMA MoreSent ==
    ASSUME NEW msgs \in Seq(Sent), NEW d \in 0 .. Len(msgs), NEW stream \in Seq(Byte),
           NEW m \in Sent, NEW bytes \in Seq(Byte), Piece(m, bytes),
           Undecoded(msgs, d, stream)
    PROVE  Undecoded(Append(msgs, m), d, stream \o bytes)
<1>1. PICK rest \in [Nat -> Seq(Byte)] : Tails(msgs, d, stream, rest)
  BY DEF Undecoded
<1> DEFINE n == Len(msgs)
           more == [i \in Nat |-> IF i <= n THEN rest[i] \o bytes ELSE <<>>]
<1>2. n \in Nat /\ d \in Nat /\ d <= n /\ Len(Append(msgs, m)) = n + 1
      /\ Append(msgs, m)[n + 1] = m /\ \A i \in 1 .. n : Append(msgs, m)[i] = msgs[i]
  <2>1. n \in Nat /\ d \in Nat /\ d <= n
    OBVIOUS
  <2> QED BY <2>1, AppendProperties
<1>3. \A i \in Nat : rest[i] \in Seq(Byte) /\ rest[i] \o bytes \in Seq(Byte)
  OBVIOUS
<1>4. more \in [Nat -> Seq(Byte)]
  BY <1>3
<1>5. \A i \in Nat : i <= n => more[i] = rest[i] \o bytes
  OBVIOUS
<1>6. more[n + 1] = <<>> /\ n + 1 \in Nat
  <2>1. \A k \in Nat : k + 1 \in Nat /\ ~(k + 1 <= k)
    OBVIOUS
  <2> QED BY <1>2, <2>1, Zenon
<1> HIDE DEF more
<1>7. more[d] = stream \o bytes
  BY <1>1, <1>2, <1>5 DEF Tails
<1>8. ASSUME NEW i \in d .. n
      PROVE  \E b \in Seq(Byte) : Piece(Append(msgs, m)[i + 1], b) /\ more[i] = b \o more[i + 1]
  <2>0. i \in Nat /\ i <= n /\ more[i] = rest[i] \o bytes
    <3>1. i \in Nat /\ i <= n
      BY ONLY <1>2, i \in d .. n
    <3> QED BY <1>5, <3>1, Zenon
  <2>1. CASE i = n
    <3>1. rest[n] = <<>>
      BY <1>1 DEF Tails
    <3>2. more[n] = bytes /\ bytes = bytes \o more[n + 1]
      BY <1>6, <2>0, <2>1, <3>1, EmptyNeutral
    <3> QED BY <1>2, <2>1, <3>2
  <2>2. CASE i # n
    <3>1. i \in d .. Len(msgs) - 1 /\ i + 1 \in Nat /\ i + 1 <= n /\ i + 1 \in 1 .. n
      BY <1>2, <2>0, <2>2, <1>8
    <3>2. PICK b \in Seq(Byte) : Piece(msgs[i + 1], b) /\ rest[i] = b \o rest[i + 1]
      BY <1>1, <3>1 DEF Tails
    <3>3. rest[i + 1] \in Seq(Byte)
      BY <1>3, <3>1
    <3>4. more[i] = b \o (rest[i + 1] \o bytes)
      <4>1. (b \o rest[i + 1]) \o bytes = b \o (rest[i + 1] \o bytes)
        BY <3>3, Assoc
      <4> QED BY <2>0, <3>2, <4>1, Zenon
    <3>5. more[i + 1] = rest[i + 1] \o bytes /\ Append(msgs, m)[i + 1] = msgs[i + 1]
      BY <1>2, <1>5, <3>1
    <3> QED BY <3>2, <3>4, <3>5
  <2> QED BY <2>1, <2>2
<1>9. Tails(Append(msgs, m), d, stream \o bytes, more)
  <2>1. more[Len(Append(msgs, m))] = <<>> /\ Len(Append(msgs, m)) - 1 = n
    BY <1>2, <1>6
  <2> QED BY <1>7, <1>8, <2>1 DEF Tails
<1> QED
  BY <1>4, <1>9 DEF Undecoded

(* The first of them is decoded as by itself. *)
LEMMA FirstOfStream ==
    ASSUME CodecSound, NEW msgs \in Seq(Sent), NEW d \in 0 .. Len(msgs) - 1,
           NEW stream \in Seq(Byte), Undecoded(msgs, d, stream)
    PROVE  \E bytes \in Seq(Byte), tail \in Seq(Byte) :
             /\ stream = bytes \o tail /\ Undecoded(msgs, d + 1, tail)
             /\ Piece(msgs[d + 1], bytes)
             /\ try_decode_frame(stream) = try_decode_frame(bytes)
             /\ IF msgs[d + 1] = NoMsg THEN try_decode_frame(bytes).kind = "bad"
                ELSE msgs[d + 1] \in Message /\ Carries(bytes, msgs[d + 1])
<1>1. PICK rest \in [Nat -> Seq(Byte)] : Tails(msgs, d, stream, rest)
  BY DEF Undecoded
<1>2. d \in Nat /\ d + 1 \in Nat /\ d \in d .. Len(msgs) - 1
      /\ \A i \in d + 1 .. Len(msgs) - 1 : i \in d .. Len(msgs) - 1
  OBVIOUS
<1>3. PICK bytes \in Seq(Byte) : Piece(msgs[d + 1], bytes) /\ rest[d] = bytes \o rest[d + 1]
  BY <1>1, <1>2 DEF Tails
<1>4. rest[d + 1] \in Seq(Byte) /\ stream = bytes \o rest[d + 1]
  BY <1>1, <1>2, <1>3 DEF Tails
<1>5. Tails(msgs, d + 1, rest[d + 1], rest)
  BY <1>1, <1>2, Zenon DEF Tails
<1>6. IF msgs[d + 1] = NoMsg THEN try_decode_frame(bytes).kind = "bad"
      ELSE msgs[d + 1] \in Message /\ Carries(bytes, msgs[d + 1])
  BY <1>3, Zenon DEF Piece, CodecSound
<1>7. try_decode_frame(bytes).kind # "more"
  <2>1. CASE msgs[d + 1] = NoMsg
    <3>1. try_decode_frame(bytes).kind = "bad"
      BY <1>6, <2>1
    <3> QED BY <3>1
  <2>2. CASE msgs[d + 1] # NoMsg
    <3>1. Carries(bytes, msgs[d + 1])
      BY <1>6, <2>2
    <3>2. try_decode_frame(bytes).kind = "frame"
      BY <3>1 DEF Carries
    <3> QED BY <3>2
  <2> QED BY <2>1, <2>2
<1>8. try_decode_frame(stream) = try_decode_frame(bytes)
  BY <1>4, <1>7, VerdictStays
<1> QED
  BY <1>1, <1>3, <1>4, <1>5, <1>6, <1>8, Zenon DEF Undecoded

(* Taking a frame out of the buffer takes it out of the stream. *)
LEMMA Taken ==
    ASSUME NEW b \in Seq(Byte), NEW w \in Seq(Byte), NEW x \in Seq(Byte), NEW y \in Seq(Byte),
           b \o w = x \o y, Len(x) <= Len(b)
    PROVE  SubSeq(b, Len(x) + 1, Len(b)) \o w = y
<1> DEFINE k == Len(x)
           r == SubSeq(b, k + 1, Len(b))
           z == r \o w
<1>1. k \in Nat /\ k <= Len(b) /\ Len(b) \in Nat /\ Len(w) \in Nat /\ Len(y) \in Nat
  OBVIOUS
<1>2. r \in Seq(Byte) /\ Len(r) = Len(b) - k /\ \A i \in 1 .. Len(r) : r[i] = b[k + i]
  BY <1>1
<1>3. Len(b) + Len(w) = k + Len(y)
  <2>1. Len(b \o w) = Len(b) + Len(w) /\ Len(x \o y) = k + Len(y)
    BY ConcatProperties
  <2> QED BY <2>1
<1> HIDE DEF r
<1>4. z \in Seq(Byte) /\ Len(z) = Len(y)
  BY <1>1, <1>2, <1>3, ConcatProperties
<1>5. ASSUME NEW i \in 1 .. Len(y) PROVE z[i] = y[i]
  <2>1. (x \o y)[k + i] = y[i]
    <3>1. k + i \in 1 .. Len(x) + Len(y) /\ ~(k + i <= Len(x)) /\ k + i - Len(x) = i
      BY <1>1
    <3> QED BY <3>1, ConcatProperties
  <2>2. CASE i <= Len(r)
    <3>1. z[i] = r[i] /\ i \in 1 .. Len(r)
      BY <1>2, <1>4, <2>2, ConcatProperties
    <3>2. (b \o w)[k + i] = b[k + i]
      <4>1. k + i \in 1 .. Len(b)
        BY <1>1, <1>2, <2>2
      <4> QED BY <4>1, ByteStays
    <3> QED BY <1>2, <2>1, <3>1, <3>2
  <2>3. CASE ~(i <= Len(r))
    <3>1. i \in 1 .. Len(r) + Len(w) /\ Len(r) \in Nat
      BY <1>1, <1>2, <1>3
    <3>2. z[i] = w[i - Len(r)]
      BY <1>2, <2>3, <3>1, ConcatProperties
    <3>3. (b \o w)[k + i] = w[k + i - Len(b)]
      <4>1. k + i \in 1 .. Len(b) + Len(w) /\ ~(k + i <= Len(b))
        BY <1>1, <1>2, <1>3, <2>3, <3>1
      <4> QED BY <4>1, ConcatProperties
    <3>4. k + i - Len(b) = i - Len(r)
      BY <1>1, <1>2
    <3> QED BY <2>1, <3>2, <3>3, <3>4
  <2> QED BY <2>2, <2>3
<1> HIDE DEF z
<1>6. z = y
  BY <1>4, <1>5, SeqEqual
<1> QED
  BY <1>6 DEF z, r

-----------------------------------------------------------------------------
(* How many of the first n messages get an answer *)
Count(msgs, n) == Cardinality(Answered(msgs, n))

LEMMA CountTyped ==
    ASSUME NEW msgs, NEW n \in Nat
    PROVE  IsFiniteSet(Answered(msgs, n)) /\ Count(msgs, n) \in Nat
<1>1. IsFiniteSet(1 .. n)
  BY FS_Interval
<1>2. Answered(msgs, n) \subseteq 1 .. n
  BY DEF Answered
<1>3. IsFiniteSet(Answered(msgs, n))
  BY <1>1, <1>2, FS_Subset
<1> QED
  BY <1>3, FS_CardinalityType DEF Count

LEMMA CountGrows ==
    ASSUME NEW msgs, NEW m \in Nat, NEW n \in Nat, m <= n
    PROVE  /\ Answered(msgs, m) \subseteq Answered(msgs, n)
           /\ Count(msgs, m) <= Count(msgs, n)
<1>1. Answered(msgs, m) \subseteq Answered(msgs, n)
  <2>1. 1 .. m \subseteq 1 .. n
    OBVIOUS
  <2> QED BY <2>1 DEF Answered
<1> QED
  BY <1>1, CountTyped, FS_Subset DEF Count

(* RepliesOK have different places. *)
LEMMA CountIsStrict ==
    ASSUME NEW msgs, NEW m \in Nat, NEW n \in Nat, NEW i \in Answered(msgs, n), m < i
    PROVE  Count(msgs, m) + 1 <= Count(msgs, i)
<1>1. i \in 1 .. n /\ i \in Nat /\ i \in 1 .. i
  BY DEF Answered
<1>2. i \in Answered(msgs, i) /\ i \notin Answered(msgs, m)
  <2>1. i \notin 1 .. m
    BY <1>1
  <2> QED BY <1>1, <2>1 DEF Answered
<1>3. Answered(msgs, m) \subseteq Answered(msgs, i)
  BY <1>1, CountGrows
<1>4. Answered(msgs, m) \cup {i} \subseteq Answered(msgs, i)
  BY <1>2, <1>3
<1>5. Cardinality(Answered(msgs, m) \cup {i}) = Count(msgs, m) + 1
  BY <1>2, CountTyped, FS_AddElement DEF Count
<1>6. Cardinality(Answered(msgs, m) \cup {i}) <= Count(msgs, i)
  BY <1>1, <1>4, CountTyped, FS_Subset DEF Count
<1> QED
  BY <1>5, <1>6

(* The next message adds an answer, or none. *)
LEMMA CountNext ==
    ASSUME NEW msgs, NEW d \in Nat, \A j \in 1 .. d : ~Ends(msgs[j]), ~Ends(msgs[d + 1])
    PROVE  IF ReplyTo(msgs[d + 1]) = NoMsg
           THEN Answered(msgs, d + 1) = Answered(msgs, d)
           ELSE d + 1 \in Answered(msgs, d + 1) /\ Count(msgs, d + 1) = Count(msgs, d) + 1
<1>1. \A i : i \in 1 .. d + 1 <=> i \in 1 .. d \/ i = d + 1
  OBVIOUS
<1>2. d + 1 \notin 1 .. d /\ (d + 1) - 1 = d
  OBVIOUS
<1>3. CASE ReplyTo(msgs[d + 1]) = NoMsg
  <2>1. \A i : i \in Answered(msgs, d + 1) <=> i \in Answered(msgs, d)
    BY <1>1, <1>3 DEF Answered
  <2>2. Answered(msgs, d + 1) = Answered(msgs, d)
    BY <2>1
  <2> QED BY <1>3, <2>2
<1>4. CASE ReplyTo(msgs[d + 1]) # NoMsg
  <2>1. Reached(msgs, d + 1)
    BY <1>2, Zenon DEF Reached
  <2>2. Answered(msgs, d + 1) = Answered(msgs, d) \cup {d + 1} /\ d + 1 \notin Answered(msgs, d)
    BY <1>1, <1>2, <1>4, <2>1 DEF Answered
  <2>3. Count(msgs, d + 1) = Count(msgs, d) + 1
    BY <2>2, CountTyped, FS_AddElement DEF Count
  <2> QED BY <1>4, <2>2, <2>3
<1> QED
  BY <1>3, <1>4

(* After the message the connection ends with nothing is answered. *)
LEMMA CountStops ==
    ASSUME NEW msgs, NEW d \in Nat, NEW n \in Nat, d <= n, Ends(msgs[d + 1])
    PROVE  Answered(msgs, n) = Answered(msgs, d)
<1>1. ASSUME NEW i \in Answered(msgs, n) PROVE i \in Answered(msgs, d)
  <2>1. i \in 1 .. n /\ Reached(msgs, i) /\ ~Ends(msgs[i])
    BY DEF Answered
  <2>2. i # d + 1
    BY <2>1
  <2>3. ~(d + 1 < i)
    <3>1. SUFFICES ASSUME d + 1 < i PROVE FALSE
      OBVIOUS
    <3>2. d + 1 \in 1 .. i - 1
      BY <2>1, <3>1
    <3> QED BY <2>1, <3>2, Zenon DEF Reached
  <2>4. i \in 1 .. d
    BY <2>1, <2>2, <2>3
  <2> QED BY <2>4 DEF Answered
<1> QED
  BY <1>1, CountGrows

(* What is sent later does not change what was due. *)
LEMMA CountStays ==
    ASSUME NEW msgs \in Seq(Sent), NEW m \in Sent, NEW n \in 0 .. Len(msgs)
    PROVE  Answered(Append(msgs, m), n) = Answered(msgs, n)
<1>1. \A i \in 1 .. n : Append(msgs, m)[i] = msgs[i]
  BY AppendProperties
<1>2. ASSUME NEW i \in 1 .. n PROVE Reached(Append(msgs, m), i) <=> Reached(msgs, i)
  <2>1. \A j \in 1 .. i - 1 : j \in 1 .. n
    OBVIOUS
  <2> QED BY <1>1, <2>1, Zenon DEF Reached
<1> QED
  BY <1>1, <1>2, Zenon DEF Answered

-----------------------------------------------------------------------------
(* A connection in order: its thread has decoded d messages, none of which *)
(* ends the connection, and has answered those that get an answer.         *)

Written == {encode_frame(Signal(CSM, <<>>)), encode_frame(Signal(ABORT, <<>>))}
           \cup {encode_frame(Canonical(ReplyTo(m))) : m \in Message}

RepliesOK(o, msgs, n) ==
    /\ o # <<>> => Carries(o[1], Signal(CSM, <<>>))
    /\ \A i \in Answered(msgs, n) :
          Count(msgs, i) + 1 <= Len(o) => Carries(o[Count(msgs, i) + 1], ReplyTo(msgs[i]))

(* What has been written when the thread is at p *)
Progress(p, r, o, msgs, d) ==
    /\ p = "greet" => d = 0 /\ o = <<>>
    /\ p \in {"read", "decode"} => Len(o) = Count(msgs, d) + 1
    /\ p = "write" =>
          /\ d \in Answered(msgs, d) /\ Len(o) = Count(msgs, d)
          /\ r = Canonical(ReplyTo(msgs[d]))
    /\ p = "closing" =>
          /\ d < Len(msgs) /\ Ends(msgs[d + 1])
          /\ \/ Len(o) = Count(msgs, d) + 1
             \/ /\ Len(o) = Count(msgs, d) + 2 /\ msgs[d + 1] = NoMsg
                /\ Carries(o[Len(o)], Signal(ABORT, <<>>))

Upto(p, w, b, r, o, msgs, d) ==
    /\ \A j \in 1 .. d : ~Ends(msgs[j])
    /\ p # "closing" => Undecoded(msgs, d, b \o w)
    /\ p \in {"greet", "read"} => try_decode_frame(b).kind = "more"
    /\ Progress(p, r, o, msgs, d)
    /\ RepliesOK(o, msgs, d)

Orderly(p, w, b, r, o, msgs) ==
    /\ msgs \in Seq(Sent) /\ o \in Seq(Written)
    /\ p \in Established => \E d \in 0 .. Len(msgs) : Upto(p, w, b, r, o, msgs, d)
    /\ p \notin Established => w = <<>> /\ b = <<>> /\ o = <<>> /\ msgs = <<>>

OfConns(f) == f = [c \in Conn |-> f[c]]

OrderInv ==
    /\ OfConns(reply) /\ OfConns(out) /\ OfConns(sent)
    /\ \A c \in Conn : Orderly(phase[c], wire[c], buf[c], reply[c], out[c], sent[c])

LEMMA NoneYet ==
    ASSUME NEW msgs
    PROVE  Answered(msgs, 0) = {} /\ Count(msgs, 0) = 0
<1>1. Answered(msgs, 0) = {}
  BY DEF Answered
<1> QED
  BY <1>1, FS_EmptySet DEF Count

LEMMA EmptyWaits == try_decode_frame(<<>>).kind = "more"
BY DEF try_decode_frame, NeedsMore

(* The handshake completes. *)
LEMMA Greets ==
    ASSUME NEW p, NEW r, p \notin Established
    PROVE  /\ Orderly(p, <<>>, <<>>, r, <<>>, <<>>)
           /\ Orderly("greet", <<>>, <<>>, r, <<>>, <<>>)
<1>1. <<>> \in Seq(Sent) /\ <<>> \in Seq(Written) /\ Len(<<>>) = 0 /\ 0 \in 0 .. 0
  OBVIOUS
<1>2. Progress("greet", r, <<>>, <<>>, 0)
  BY DEF Progress
<1>3. RepliesOK(<<>>, <<>>, 0)
  BY NoneYet DEF RepliesOK
<1>4. Undecoded(<<>>, 0, <<>> \o <<>>)
  BY NothingSent, EmptySeq, ConcatEmptySeq
<1>5. Upto("greet", <<>>, <<>>, r, <<>>, <<>>, 0)
  <2>1. \A j \in 1 .. 0 : ~Ends(<<>>[j])
    OBVIOUS
  <2> QED BY <1>2, <1>3, <1>4, <2>1, EmptyWaits DEF Upto
<1>6. Orderly("greet", <<>>, <<>>, r, <<>>, <<>>)
  BY <1>1, <1>5 DEF Orderly, Established
<1> QED
  BY <1>1, <1>6 DEF Orderly

(* Our CSM is written. *)
LEMMA Greeted ==
    ASSUME CodecSound, NEW w, NEW b, NEW r, NEW o, NEW msgs,
           Orderly("greet", w, b, r, o, msgs)
    PROVE  Orderly("read", w, b, r, <<encode_frame(Signal(CSM, <<>>))>>, msgs)
<1> DEFINE e == encode_frame(Signal(CSM, <<>>))
<1>1. PICK d \in 0 .. Len(msgs) : Upto("greet", w, b, r, o, msgs, d)
  BY DEF Orderly, Established
<1>2. d = 0 /\ Count(msgs, 0) = 0 /\ Answered(msgs, 0) = {}
  BY <1>1, NoneYet DEF Upto, Progress
<1>3. e \in Written /\ Carries(e, Signal(CSM, <<>>))
  BY DEF Written, CodecSound
<1> HIDE DEF e
<1>4. <<e>> \in Seq(Written) /\ Len(<<e>>) = 1 /\ <<e>>[1] = e
  BY <1>3
<1>5. Progress("read", r, <<e>>, msgs, d) /\ RepliesOK(<<e>>, msgs, d)
  BY <1>2, <1>3, <1>4 DEF Progress, RepliesOK
<1>6. Upto("read", w, b, r, <<e>>, msgs, d)
  BY <1>1, <1>5 DEF Upto
<1> QED
  BY <1>4, <1>6 DEF Orderly, Established, e

(* A read moves bytes within the stream. *)
LEMMA ReadKeeps ==
    ASSUME NEW w \in Seq(Byte), NEW b \in Seq(Byte), NEW r, NEW o, NEW msgs,
           NEW n \in 1 .. Len(w), Orderly("read", w, b, r, o, msgs)
    PROVE  Orderly("decode", SubSeq(w, n + 1, Len(w)), b \o SubSeq(w, 1, n), r, o, msgs)
<1> DEFINE x == SubSeq(w, 1, n)
           y == SubSeq(w, n + 1, Len(w))
<1>1. PICK d \in 0 .. Len(msgs) : Upto("read", w, b, r, o, msgs, d)
  BY DEF Orderly, Established
<1>2. x \in Seq(Byte) /\ y \in Seq(Byte) /\ x \o y = w
  <2>1. x \in Seq(Byte) /\ y \in Seq(Byte)
    BY PiecesAreBytes
  <2>2. 1 \in 1 .. Len(w) + 1 /\ n \in 1 - 1 .. Len(w) /\ Len(w) \in n .. Len(w)
    OBVIOUS
  <2>3. x \o y = SubSeq(w, 1, Len(w))
    BY <2>2, ConcatAdjacentSubSeq
  <2>4. SubSeq(w, 1, Len(w)) = w
    OBVIOUS
  <2> QED BY <2>1, <2>3, <2>4
<1> HIDE DEF x, y
<1>3. (b \o x) \o y = b \o w
  BY <1>2, Assoc
<1>4. Progress("decode", r, o, msgs, d)
  BY <1>1 DEF Upto, Progress
<1>5. Upto("decode", y, b \o x, r, o, msgs, d)
  BY <1>1, <1>3, <1>4 DEF Upto
<1>6. Orderly("decode", y, b \o x, r, o, msgs)
  BY <1>5 DEF Orderly, Established
<1> QED
  BY <1>6 DEF x, y

(* Something more is sent. *)
LEMMA SendKeeps ==
    ASSUME NEW p \in Established, NEW w \in Seq(Byte), NEW b \in Seq(Byte), NEW r, NEW o,
           NEW msgs, NEW m \in Sent, NEW bytes \in Seq(Byte), Piece(m, bytes),
           Orderly(p, w, b, r, o, msgs)
    PROVE  Orderly(p, w \o bytes, b, r, o, Append(msgs, m))
<1> DEFINE all == Append(msgs, m)
<1>1. PICK d \in 0 .. Len(msgs) : Upto(p, w, b, r, o, msgs, d)
  BY DEF Orderly
<1>2. msgs \in Seq(Sent) /\ all \in Seq(Sent) /\ Len(all) = Len(msgs) + 1 /\ Len(msgs) \in Nat
      /\ \A i \in 1 .. Len(msgs) : all[i] = msgs[i]
  BY AppendProperties DEF Orderly
<1>3. \A n \in 0 .. Len(msgs) : Answered(all, n) = Answered(msgs, n) /\ Count(all, n) = Count(msgs, n)
  BY <1>2, CountStays DEF Count
<1> HIDE DEF all
<1>4. /\ d \in Nat /\ d \in 0 .. Len(all) /\ d \in 0 .. Len(msgs)
      /\ \A i \in Answered(msgs, d) : i \in 1 .. Len(msgs) /\ i \in 0 .. Len(msgs)
      /\ \A i \in 1 .. d : i \in 1 .. Len(msgs)
      /\ (d < Len(msgs) => d + 1 \in 1 .. Len(msgs) /\ d < Len(all))
  <2>1. \A i \in Answered(msgs, d) : i \in 1 .. d
    BY DEF Answered
  <2> QED BY <1>1, <1>2, <2>1
<1>5. p # "closing" => Undecoded(all, d, b \o (w \o bytes))
  <2>1. (b \o w) \o bytes = b \o (w \o bytes) /\ b \o w \in Seq(Byte)
    BY Assoc, ConcatProperties
  <2> QED BY <1>1, <1>2, <2>1, MoreSent DEF Upto, all
<1>6. RepliesOK(o, all, d)
  <2>1. RepliesOK(o, msgs, d)
    BY <1>1 DEF Upto
  <2>2. \A i \in Answered(msgs, d) : all[i] = msgs[i] /\ Count(all, i) = Count(msgs, i)
    BY <1>2, <1>3, <1>4, Zenon
  <2>3. Answered(all, d) = Answered(msgs, d)
    BY <1>3, <1>4, Zenon
  <2> QED BY <2>1, <2>2, <2>3, Zenon DEF RepliesOK
<1>7. Progress(p, r, o, all, d)
  <2>1. Progress(p, r, o, msgs, d)
    BY <1>1 DEF Upto
  <2>2. Count(all, d) = Count(msgs, d) /\ Answered(all, d) = Answered(msgs, d)
    BY <1>3, <1>4, Zenon
  <2>3. d \in Answered(msgs, d) => all[d] = msgs[d]
    BY <1>2, <1>4, Zenon
  <2>4. ASSUME d < Len(msgs) PROVE d < Len(all) /\ all[d + 1] = msgs[d + 1]
    <3>1. d + 1 \in 1 .. Len(msgs) /\ d < Len(all)
      BY <1>4, <2>4, Zenon
    <3> QED BY <1>2, <3>1
  <2>5. d < Len(msgs) => d < Len(all) /\ all[d + 1] = msgs[d + 1]
    BY <2>4
  <2> QED BY <2>1, <2>2, <2>3, <2>5, Zenon DEF Progress
<1>8. \A j \in 1 .. d : ~Ends(all[j])
  <2> SUFFICES ASSUME NEW j \in 1 .. d PROVE ~Ends(all[j])
    OBVIOUS
  <2>1. ~Ends(msgs[j])
    BY <1>1 DEF Upto
  <2>2. j \in 1 .. Len(msgs)
    BY ONLY <1>4, j \in 1 .. d
  <2>3. all[j] = msgs[j]
    BY <1>2, <2>2
  <2> QED BY <2>1, <2>3
<1>9. Upto(p, w \o bytes, b, r, o, all, d)
  BY <1>1, <1>5, <1>6, <1>7, <1>8, Zenon DEF Upto
<1>10. Orderly(p, w \o bytes, b, r, o, all)
  BY <1>2, <1>4, <1>9, Zenon DEF Orderly
<1> QED
  BY <1>10 DEF all

(* What the decoder finds in the buffer is the next message of the stream. *)
LEMMA HeadIsNext ==
    ASSUME CodecSound, NEW b \in Seq(Byte), NEW w \in Seq(Byte), NEW msgs \in Seq(Sent),
           NEW d \in 0 .. Len(msgs), Undecoded(msgs, d, b \o w),
           try_decode_frame(b).kind # "more"
    PROVE  LET v == try_decode_frame(b) IN
           /\ d < Len(msgs)
           /\ IF msgs[d + 1] = NoMsg THEN v.kind = "bad"
              ELSE /\ v.kind = "frame"
                   /\ msgs[d + 1] \in Message /\ v.msg = Canonical(msgs[d + 1])
                   /\ Undecoded(msgs, d + 1, SubSeq(b, v.consumed + 1, Len(b)) \o w)
<1> DEFINE v == try_decode_frame(b)
           m == msgs[d + 1]
<1>1. d < Len(msgs)
  <2>1. SUFFICES ASSUME d = Len(msgs) PROVE FALSE
    OBVIOUS
  <2>2. b \o w = <<>>
    BY <2>1 DEF Undecoded, Tails
  <2>3. b = <<>>
    BY <2>2, ConcatEqualIffEmpty
  <2> QED BY <2>3, EmptyWaits
<1>2. b \o w \in Seq(Byte) /\ d \in 0 .. Len(msgs) - 1
  BY <1>1, ConcatProperties
<1>3. PICK x \in Seq(Byte), y \in Seq(Byte) :
         /\ b \o w = x \o y /\ Undecoded(msgs, d + 1, y)
         /\ try_decode_frame(b \o w) = try_decode_frame(x)
         /\ IF m = NoMsg THEN try_decode_frame(x).kind = "bad"
            ELSE m \in Message /\ Carries(x, m)
  BY <1>2, FirstOfStream
<1>4. try_decode_frame(x) = v
  BY <1>3, VerdictStays
<1>5. CASE m = NoMsg
  BY <1>1, <1>3, <1>4, <1>5
<1>6. CASE m # NoMsg
  <2>1. m \in Message /\ v = [kind |-> "frame", consumed |-> Len(x), msg |-> Canonical(m)]
    BY <1>3, <1>4, <1>6, Zenon DEF Carries
  <2>2. v.kind = "frame" /\ v.consumed = Len(x) /\ v.msg = Canonical(m)
    <3> HIDE DEF v, m
    <3> QED BY <2>1
  <2>3. Len(x) <= Len(b)
    <3>1. v.consumed \in 2 .. Len(b)
      BY <2>2, FrameInBuffer
    <3> HIDE DEF v
    <3> QED BY <2>2, <3>1
  <2>4. SubSeq(b, Len(x) + 1, Len(b)) \o w = y
    BY <1>3, <2>3, Taken
  <2>5. Undecoded(msgs, d + 1, SubSeq(b, v.consumed + 1, Len(b)) \o w)
    <3> HIDE DEF v
    <3> QED BY <1>3, <2>2, <2>4
  <2> HIDE DEF v
  <2>6. msgs[d + 1] = m
    OBVIOUS
  <2> QED BY <1>1, <1>6, <2>1, <2>2, <2>5, Zenon DEF v
<1> QED
  BY <1>5, <1>6

LEMMA WaitsForMore ==
    ASSUME NEW w, NEW b, NEW r, NEW o, NEW msgs, Orderly("decode", w, b, r, o, msgs),
           try_decode_frame(b).kind = "more"
    PROVE  Orderly("read", w, b, r, o, msgs)
<1>1. PICK d \in 0 .. Len(msgs) : Upto("decode", w, b, r, o, msgs, d)
  BY DEF Orderly, Established
<1>2. Progress("read", r, o, msgs, d)
  BY <1>1 DEF Upto, Progress
<1>3. Upto("read", w, b, r, o, msgs, d)
  BY <1>1, <1>2 DEF Upto
<1> QED
  BY <1>3 DEF Orderly, Established

(* One frame more is written. *)
LEMMA OneMore ==
    ASSUME NEW o \in Seq(Written), NEW e \in Written
    PROVE  LET q == Append(o, e) IN
           /\ q \in Seq(Written) /\ Len(q) = Len(o) + 1 /\ q[Len(o) + 1] = e /\ q # <<>>
           /\ \A k \in 1 .. Len(o) : q[k] = o[k]
BY AppendProperties

(* What is no frame is answered by an Abort. *)
LEMMA Aborts ==
    ASSUME CodecSound, NEW w \in Seq(Byte), NEW b \in Seq(Byte), NEW r, NEW o, NEW msgs,
           Orderly("decode", w, b, r, o, msgs), try_decode_frame(b).kind = "bad"
    PROVE  Orderly("closing", w, b, r, Append(o, encode_frame(Signal(ABORT, <<>>))), msgs)
<1> DEFINE e == encode_frame(Signal(ABORT, <<>>))
           q == Append(o, e)
<1>1. PICK d \in 0 .. Len(msgs) : Upto("decode", w, b, r, o, msgs, d)
  BY DEF Orderly, Established
<1>2. msgs \in Seq(Sent) /\ o \in Seq(Written) /\ Len(o) \in Nat /\ d \in Nat
  BY DEF Orderly
<1>3. d < Len(msgs) /\ msgs[d + 1] = NoMsg
  <2>1. Undecoded(msgs, d, b \o w) /\ try_decode_frame(b).kind # "more"
        /\ try_decode_frame(b).kind # "frame"
    BY <1>1 DEF Upto
  <2> QED BY <1>2, <2>1, HeadIsNext
<1>4. e \in Written /\ Carries(e, Signal(ABORT, <<>>))
  BY DEF Written, CodecSound
<1> HIDE DEF e
<1>5. q \in Seq(Written) /\ Len(q) = Len(o) + 1 /\ q[Len(o) + 1] = e /\ q # <<>>
      /\ \A k \in 1 .. Len(o) : q[k] = o[k]
  BY <1>2, <1>4, OneMore
<1> HIDE DEF q
<1>6. Len(o) = Count(msgs, d) + 1 /\ Count(msgs, d) \in Nat
  BY <1>1, <1>2, CountTyped DEF Upto, Progress
<1>7. Progress("closing", r, q, msgs, d)
  BY <1>3, <1>4, <1>5, <1>6 DEF Progress, Ends
<1>8. RepliesOK(q, msgs, d)
  <2>1. o # <<>> /\ 1 \in 1 .. Len(o) /\ q[1] = o[1] /\ Carries(o[1], Signal(CSM, <<>>))
    <3>1. 1 \in 1 .. Len(o) /\ o # <<>>
      BY <1>2, <1>6
    <3> QED BY <1>1, <1>5, <3>1 DEF Upto, RepliesOK
  <2>2. ASSUME NEW i \in Answered(msgs, d)
        PROVE  Carries(q[Count(msgs, i) + 1], ReplyTo(msgs[i]))
    <3>1. i \in Nat /\ i <= d
      BY DEF Answered
    <3>2. Count(msgs, i) \in Nat /\ Count(msgs, i) <= Count(msgs, d)
      BY <1>2, <3>1, CountTyped, CountGrows
    <3>3. Count(msgs, i) + 1 \in 1 .. Len(o) /\ Count(msgs, i) + 1 <= Len(o)
      BY <1>6, <3>2
    <3>4. Carries(o[Count(msgs, i) + 1], ReplyTo(msgs[i]))
      BY <1>1, <3>3 DEF Upto, RepliesOK
    <3> QED BY <1>5, <3>3, <3>4
  <2> QED BY <2>1, <2>2 DEF RepliesOK
<1>9. Upto("closing", w, b, r, q, msgs, d)
  BY <1>1, <1>7, <1>8 DEF Upto
<1>10. Orderly("closing", w, b, r, q, msgs)
  BY <1>2, <1>5, <1>9 DEF Orderly, Established
<1> QED
  BY <1>10 DEF q, e

(* The place where the thread goes with the message it decoded *)
Onward(m) == IF m.code \in {RELEASE, ABORT} THEN "closing"
            ELSE IF ReplyTo(m) # NoMsg THEN "write" ELSE "decode"

LEMMA TakesFrame ==
    ASSUME CodecSound, NEW w \in Seq(Byte), NEW b \in Seq(Byte), NEW r, NEW o, NEW msgs,
           Orderly("decode", w, b, r, o, msgs), try_decode_frame(b).kind = "frame"
    PROVE  LET v == try_decode_frame(b) IN
           Orderly(Onward(v.msg), w, SubSeq(b, v.consumed + 1, Len(b)), ReplyTo(v.msg), o, msgs)
<1>1. PICK d \in 0 .. Len(msgs) : Upto("decode", w, b, r, o, msgs, d)
  BY DEF Orderly, Established
<1> DEFINE v == try_decode_frame(b)
           b2 == SubSeq(b, v.consumed + 1, Len(b))
           m == msgs[d + 1]
<1>2. msgs \in Seq(Sent) /\ o \in Seq(Written) /\ Len(o) \in Nat /\ d \in Nat
  BY DEF Orderly
<1>3. d < Len(msgs) /\ m \in Message /\ v.msg = Canonical(m) /\ Undecoded(msgs, d + 1, b2 \o w)
      /\ m # NoMsg
  <2>1. Undecoded(msgs, d, b \o w) /\ v.kind # "more" /\ v.kind # "bad"
    BY <1>1 DEF Upto
  <2> QED BY <1>2, <2>1, HeadIsNext
<1> HIDE DEF v, b2
<1>4. /\ Canonical(m).code = m.code
      /\ ReplyTo(Canonical(m)) = NoMsg <=> ReplyTo(m) = NoMsg
      /\ ReplyTo(m) # NoMsg => ReplyTo(Canonical(m)) = Canonical(ReplyTo(m))
  BY <1>3, Zenon DEF CodecSound
<1>5. Len(o) = Count(msgs, d) + 1 /\ Count(msgs, d) \in Nat
  BY <1>1, <1>2, CountTyped DEF Upto, Progress
<1>6. CASE Ends(m)
  <2>1. Onward(v.msg) = "closing"
    BY <1>3, <1>4, <1>6 DEF Onward, Ends
  <2>2. Progress("closing", ReplyTo(v.msg), o, msgs, d)
    BY <1>3, <1>5, <1>6 DEF Progress
  <2>3. Upto("closing", w, b2, ReplyTo(v.msg), o, msgs, d)
    BY <1>1, <2>2 DEF Upto
  <2> QED BY <1>2, <2>1, <2>3 DEF Orderly, Established, v, b2
<1>7. CASE ~Ends(m)
  <2> DEFINE p == Onward(v.msg)
  <2>1. \A j \in 1 .. d : ~Ends(msgs[j])
    BY <1>1 DEF Upto
  <2>2. \A j \in 1 .. d + 1 : ~Ends(msgs[j])
    <3>1. \A j \in 1 .. d + 1 : j \in 1 .. d \/ j = d + 1
      BY <1>2
    <3> QED BY <1>7, <2>1, <3>1, Zenon
  <2>3. d + 1 \in 0 .. Len(msgs) /\ d + 1 \in Nat
    BY <1>2, <1>3
  <2>4. IF ReplyTo(m) = NoMsg THEN Answered(msgs, d + 1) = Answered(msgs, d)
        ELSE d + 1 \in Answered(msgs, d + 1) /\ Count(msgs, d + 1) = Count(msgs, d) + 1
    BY <1>2, <1>7, <2>1, CountNext
  <2>5. ~(v.msg.code \in {RELEASE, ABORT})
    BY <1>3, <1>4, <1>7, Zenon DEF Ends
  <2>6. /\ p = IF ReplyTo(m) = NoMsg THEN "decode" ELSE "write"
        /\ ReplyTo(m) # NoMsg => ReplyTo(v.msg) = Canonical(ReplyTo(m))
    <3>1. CASE ReplyTo(m) = NoMsg
      <4>1. ReplyTo(v.msg) = NoMsg
        BY <1>3, <1>4, <3>1
      <4> QED BY <2>5, <3>1, <4>1 DEF Onward
    <3>2. CASE ReplyTo(m) # NoMsg
      <4>1. ReplyTo(v.msg) = Canonical(ReplyTo(m))
        BY <1>3, <1>4, <3>2
      <4>2. ReplyTo(v.msg) # NoMsg
        BY <1>3, <1>4, <3>2
      <4> QED BY <2>5, <3>2, <4>1, <4>2 DEF Onward
    <3> QED BY <3>1, <3>2
  <2> HIDE DEF p
  <2>7. Progress(p, ReplyTo(v.msg), o, msgs, d + 1)
    <3>1. CASE ReplyTo(m) = NoMsg
      BY <1>5, <2>4, <2>6, <3>1 DEF Progress, Count
    <3>2. CASE ReplyTo(m) # NoMsg
      <4>1. p = "write" /\ d + 1 \in Answered(msgs, d + 1) /\ Len(o) = Count(msgs, d + 1)
            /\ ReplyTo(v.msg) = Canonical(ReplyTo(m))
        BY <1>5, <2>4, <2>6, <3>2
      <4> QED BY <4>1 DEF Progress
    <3> QED BY <3>1, <3>2
  <2>8. RepliesOK(o, msgs, d + 1)
    <3>1. RepliesOK(o, msgs, d)
      BY <1>1 DEF Upto
    <3>2. ASSUME NEW i \in Answered(msgs, d + 1), Count(msgs, i) + 1 <= Len(o)
          PROVE  i \in Answered(msgs, d)
      <4>1. i \in Nat /\ i \in 1 .. d + 1 /\ Count(msgs, i) \in Nat
        <5>1. i \in 1 .. d + 1
          BY DEF Answered
        <5>2. i \in Nat
          BY <5>1
        <5> QED BY <5>1, <5>2, CountTyped
      <4>2. ~(d < i)
        BY <1>2, <1>5, <2>3, <3>2, <4>1, CountIsStrict
      <4>3. i \in 1 .. d
        BY <1>2, <4>1, <4>2
      <4> QED BY <4>3 DEF Answered
    <3> QED BY <3>1, <3>2 DEF RepliesOK
  <2>9. p \in {"write", "decode"}
    BY <2>6
  <2>10. Upto(p, w, b2, ReplyTo(v.msg), o, msgs, d + 1)
    BY <1>3, <2>2, <2>7, <2>8, <2>9 DEF Upto
  <2>11. Orderly(p, w, b2, ReplyTo(v.msg), o, msgs)
    BY <1>2, <2>3, <2>9, <2>10 DEF Orderly, Established
  <2> QED BY <2>11 DEF p, v, b2
<1> QED
  BY <1>6, <1>7

(* The answer is written. *)
LEMMA WritesAnswer ==
    ASSUME CodecSound, NEW w, NEW b, NEW r, NEW s, NEW o, NEW msgs,
           Orderly("write", w, b, r, o, msgs)
    PROVE  Orderly("decode", w, b, s, Append(o, encode_frame(r)), msgs)
<1> DEFINE e == encode_frame(r)
           q == Append(o, e)
<1>1. PICK d \in 0 .. Len(msgs) : Upto("write", w, b, r, o, msgs, d)
  BY DEF Orderly, Established
<1>2. msgs \in Seq(Sent) /\ o \in Seq(Written) /\ Len(o) \in Nat /\ d \in Nat
  BY DEF Orderly
<1>3. d \in Answered(msgs, d) /\ Len(o) = Count(msgs, d) /\ r = Canonical(ReplyTo(msgs[d]))
  BY <1>1 DEF Upto, Progress
<1>4. d \in 1 .. Len(msgs) /\ ~Ends(msgs[d]) /\ ReplyTo(msgs[d]) # NoMsg
  <2>1. d \in 1 .. d /\ ~Ends(msgs[d]) /\ ReplyTo(msgs[d]) # NoMsg
    BY <1>3 DEF Answered
  <2> QED BY <1>2, <2>1
<1>5. msgs[d] \in Message
  <2>1. msgs[d] \in Sent
    BY <1>2, <1>4
  <2> QED BY <1>4, <2>1, Zenon DEF Sent, Ends
<1>6. e \in Written /\ Carries(e, ReplyTo(msgs[d]))
  BY <1>3, <1>4, <1>5, Zenon DEF Written, CodecSound
<1> HIDE DEF e
<1>7. q \in Seq(Written) /\ Len(q) = Len(o) + 1 /\ q[Len(o) + 1] = e /\ q # <<>>
      /\ \A k \in 1 .. Len(o) : q[k] = o[k]
  BY <1>2, <1>6, OneMore
<1> HIDE DEF q
<1>8. Progress("decode", s, q, msgs, d)
  BY <1>3, <1>7 DEF Progress
<1>9. 1 \in 1 .. Len(o) /\ o # <<>>
  <2>1. Count(msgs, 0) + 1 <= Count(msgs, d) /\ Count(msgs, 0) = 0
    BY <1>2, <1>3, <1>4, CountIsStrict, NoneYet
  <2> QED BY <1>2, <1>3, <2>1
<1>10. RepliesOK(q, msgs, d)
  <2>0. RepliesOK(o, msgs, d)
    BY <1>1 DEF Upto
  <2>1. Carries(q[1], Signal(CSM, <<>>))
    BY <1>7, <1>9, <2>0 DEF RepliesOK
  <2>2. ASSUME NEW i \in Answered(msgs, d)
        PROVE  Carries(q[Count(msgs, i) + 1], ReplyTo(msgs[i]))
    <3>1. i \in Nat /\ i <= d /\ Count(msgs, i) \in Nat
      <4>1. i \in 1 .. d
        BY DEF Answered
      <4>2. i \in Nat /\ i <= d
        BY <1>2, <4>1
      <4> QED BY <4>2, CountTyped
    <3>2. CASE i = d
      BY <1>3, <1>6, <1>7, <3>2
    <3>3. CASE i < d
      <4>1. Count(msgs, i) + 1 <= Count(msgs, d)
        BY <1>2, <1>3, <3>1, <3>3, CountIsStrict
      <4>2. Count(msgs, i) + 1 \in 1 .. Len(o) /\ Count(msgs, i) + 1 <= Len(o)
        BY <1>3, <3>1, <4>1
      <4>3. Carries(o[Count(msgs, i) + 1], ReplyTo(msgs[i]))
        BY <2>0, <4>2 DEF RepliesOK
      <4> QED BY <1>7, <4>2, <4>3
    <3> QED BY <1>2, <3>1, <3>2, <3>3
  <2> QED BY <2>1, <2>2 DEF RepliesOK
<1>11. Upto("decode", w, b, s, q, msgs, d)
  BY <1>1, <1>8, <1>10 DEF Upto
<1>12. Orderly("decode", w, b, s, q, msgs)
  BY <1>2, <1>7, <1>11 DEF Orderly, Established
<1> QED
  BY <1>12 DEF q, e

-----------------------------------------------------------------------------
(* Every step is a step of one connection, or of none. *)

(* g is f but for c, where it is x. *)
Puts(f, g, c, x) == OfConns(g) /\ g[c] = x /\ \A e \in Conn : e # c => g[e] = f[e]

LEMMA PutsOne ==
    ASSUME NEW f, OfConns(f), NEW c \in Conn
    PROVE  Puts(f, f, c, f[c]) /\ \A x : Puts(f, [f EXCEPT ![c] = x], c, x)
BY DEF OfConns, Puts

LEMMA AllOfConns ==
    ASSUME OrderInv, ThreadInv
    PROVE  /\ OfConns(phase) /\ OfConns(wire) /\ OfConns(buf)
           /\ OfConns(reply) /\ OfConns(out) /\ OfConns(sent)
BY DEF OrderInv, ThreadInv, MachineOK, StreamsOK, OfConns

LEMMA OneConnection ==
    ASSUME OrderInv, NEW c \in Conn,
           NEW p, NEW w, NEW b, NEW r, NEW o, NEW msgs, Orderly(p, w, b, r, o, msgs),
           Puts(phase, phase', c, p), Puts(wire, wire', c, w), Puts(buf, buf', c, b),
           Puts(reply, reply', c, r), Puts(out, out', c, o), Puts(sent, sent', c, msgs)
    PROVE  OrderInv'
<1>1. ASSUME NEW e \in Conn
      PROVE  Orderly(phase'[e], wire'[e], buf'[e], reply'[e], out'[e], sent'[e])
  <2>1. CASE e = c
    BY <2>1, Zenon DEF Puts
  <2>2. CASE e # c
    <3>1. /\ phase'[e] = phase[e] /\ wire'[e] = wire[e] /\ buf'[e] = buf[e]
          /\ reply'[e] = reply[e] /\ out'[e] = out[e] /\ sent'[e] = sent[e]
      BY <2>2, Zenon DEF Puts
    <3>2. Orderly(phase[e], wire[e], buf[e], reply[e], out[e], sent[e])
      BY DEF OrderInv
    <3> QED BY <3>1, <3>2
  <2> QED BY <2>1, <2>2
<1>2. OfConns(reply') /\ OfConns(out') /\ OfConns(sent')
  BY DEF Puts
<1> QED
  BY <1>1, <1>2 DEF OrderInv, OfConns

LEMMA EndKeepsOrder ==
    ASSUME OrderInv, ThreadInv, NEW c \in Conn, End(c)
    PROVE  OrderInv'
<1>1. "free" \notin Established
  BY DEF Established
<1>2. Orderly("free", <<>>, <<>>, NoMsg, <<>>, <<>>)
  BY <1>1, Greets
<1>3. /\ Puts(phase, phase', c, "free") /\ Puts(wire, wire', c, <<>>)
      /\ Puts(buf, buf', c, <<>>) /\ Puts(reply, reply', c, NoMsg)
      /\ Puts(out, out', c, <<>>) /\ Puts(sent, sent', c, <<>>)
  BY AllOfConns, PutsOne, Zenon DEF End, Goto
<1> QED
  BY <1>2, <1>3, OneConnection

(* Before the stream is served there is nothing of it. *)
LEMMA EarlyKeepsOrder ==
    ASSUME OrderInv, ThreadInv, NEW c \in Conn, phase[c] \notin Established,
           NEW p, p \notin Established \/ p = "greet", Goto(c, p), UNCHANGED ioVars
    PROVE  OrderInv'
<1>1. wire[c] = <<>> /\ buf[c] = <<>> /\ out[c] = <<>> /\ sent[c] = <<>>
  BY DEF OrderInv, Orderly
<1>2. Orderly(p, wire[c], buf[c], reply[c], out[c], sent[c])
  BY <1>1, Greets
<1>3. /\ Puts(phase, phase', c, p) /\ Puts(wire, wire', c, wire[c])
      /\ Puts(buf, buf', c, buf[c]) /\ Puts(reply, reply', c, reply[c])
      /\ Puts(out, out', c, out[c]) /\ Puts(sent, sent', c, sent[c])
  BY AllOfConns, PutsOne DEF Goto, ioVars
<1> QED
  BY <1>2, <1>3, OneConnection

LEMMA NothingMoves ==
    ASSUME OrderInv, UNCHANGED <<phase, ioVars>>
    PROVE  OrderInv'
BY DEF OrderInv, OfConns, ioVars

LEMMA HandshakeKeepsOrder ==
    ASSUME OrderInv, ThreadInv, NEW c \in Conn, Handshakes(c)
    PROVE  OrderInv'
<1>1. CASE End(c)
  BY <1>1, EndKeepsOrder
<1>2. ASSUME NEW p \in Handshaking \cup {"greet"}, phase[c] \in Handshaking, Goto(c, p),
             UNCHANGED ioVars
      PROVE  OrderInv'
  <2>1. phase[c] \notin Established /\ (p \notin Established \/ p = "greet")
    BY <1>2 DEF Established
  <2> QED BY <1>2, <2>1, EarlyKeepsOrder
<1>3. ASSUME NEW p \in Handshaking, phase[c] \in Handshaking, NextCall(c, p)
      PROVE  OrderInv'
  BY <1>1, <1>2, <1>3 DEF NextCall
<1>4. CASE HandshakeCompletes(c) \/ LookupBegins(c)
  BY <1>2, <1>4 DEF HandshakeCompletes, LookupBegins
<1>5. CASE HandshakeTrickles(c) \/ HandshakeQuiet(c) \/ LookupReturns(c) \/ HandshakeFails(c)
  BY <1>1, <1>3, <1>5 DEF HandshakeTrickles, HandshakeQuiet, LookupReturns, HandshakeFails
<1> QED
  BY <1>4, <1>5 DEF Handshakes

LEMMA AdmissionKeepsOrder ==
    ASSUME OrderInv, ThreadInv, NEW c \in Conn, Spawned(c) \/ \E a \in Addr : Accept(c, a)
    PROVE  OrderInv'
<1>1. phase[c] \in {"free", "admitted"} /\ UNCHANGED ioVars
      /\ \E p \in {"admitted", "handshake"} : Goto(c, p)
  BY DEF Spawned, Accept
<1>2. phase[c] \notin Established /\ \A p \in {"admitted", "handshake"} : p \notin Established
  BY <1>1 DEF Established
<1> QED
  BY <1>1, <1>2, EarlyKeepsOrder

LEMMA ServiceKeepsOrder ==
    ASSUME CodecSound, OrderInv, ThreadInv, NEW c \in Conn, Serves(c) \/ PeerSends(c)
    PROVE  OrderInv'
<1>0. /\ Orderly(phase[c], wire[c], buf[c], reply[c], out[c], sent[c])
      /\ wire[c] \in Seq(Byte) /\ buf[c] \in Seq(Byte)
  BY DEF OrderInv, ThreadInv, StreamsOK
<1>a. ASSUME NEW p, NEW w, NEW b, NEW r, NEW o, NEW msgs, Orderly(p, w, b, r, o, msgs),
             phase' = [phase EXCEPT ![c] = p] \/ (UNCHANGED phase /\ p = phase[c]),
             wire' = [wire EXCEPT ![c] = w] \/ (UNCHANGED wire /\ w = wire[c]),
             buf' = [buf EXCEPT ![c] = b] \/ (UNCHANGED buf /\ b = buf[c]),
             reply' = [reply EXCEPT ![c] = r] \/ (UNCHANGED reply /\ r = reply[c]),
             out' = [out EXCEPT ![c] = o] \/ (UNCHANGED out /\ o = out[c]),
             sent' = [sent EXCEPT ![c] = msgs] \/ (UNCHANGED sent /\ msgs = sent[c])
      PROVE  OrderInv'
  <2>1. /\ Puts(phase, phase', c, p) /\ Puts(wire, wire', c, w) /\ Puts(buf, buf', c, b)
        /\ Puts(reply, reply', c, r) /\ Puts(out, out', c, o) /\ Puts(sent, sent', c, msgs)
    BY <1>a, AllOfConns, PutsOne
  <2> QED BY <1>a, <2>1, OneConnection
<1>1. CASE ReadEnds(c) \/ WriteFails(c) \/ Leave(c)
  BY <1>1, EndKeepsOrder DEF ReadEnds, WriteFails, Leave
<1>2. CASE Greet(c)
  <2> DEFINE o == <<encode_frame(Signal(CSM, <<>>))>>
  <2>1. phase[c] = "greet" /\ phase' = [phase EXCEPT ![c] = "read"] /\ out' = [out EXCEPT ![c] = o]
        /\ UNCHANGED <<wire, buf, reply, sent>>
    BY <1>2 DEF Greet, Goto
  <2>2. Orderly("read", wire[c], buf[c], reply[c], o, sent[c])
    BY <1>0, <2>1, Greeted
  <2> HIDE DEF o
  <2> QED BY <1>a, <2>1, <2>2
<1>3. CASE Read(c)
  <2>1. PICK n \in 1 .. ReadSize :
          /\ n <= Len(wire[c])
          /\ buf' = [buf EXCEPT ![c] = buf[c] \o SubSeq(wire[c], 1, n)]
          /\ wire' = [wire EXCEPT ![c] = SubSeq(@, n + 1, Len(@))]
    BY <1>3 DEF Read, Extended
  <2>2. phase[c] = "read" /\ phase' = [phase EXCEPT ![c] = "decode"]
        /\ UNCHANGED <<reply, out, sent>>
    BY <1>3 DEF Read, Goto
  <2> DEFINE b == buf[c] \o SubSeq(wire[c], 1, n)
             w == SubSeq(wire[c], n + 1, Len(wire[c]))
  <2>3. Orderly("decode", w, b, reply[c], out[c], sent[c])
    <3>1. n \in 1 .. Len(wire[c])
      BY <1>0, <2>1
    <3> QED BY <1>0, <2>2, <3>1, ReadKeeps
  <2>4. buf' = [buf EXCEPT ![c] = b] /\ wire' = [wire EXCEPT ![c] = w]
    BY <2>1
  <2> HIDE DEF b, w
  <2> QED BY <1>a, <2>2, <2>3, <2>4
<1>4. CASE NextFrame(c)
  <2> DEFINE v == try_decode_frame(buf[c])
             e == encode_frame(Signal(ABORT, <<>>))
             b == SubSeq(buf[c], v.consumed + 1, Len(buf[c]))
             o == Append(out[c], e)
  <2>0. phase[c] = "decode" /\ UNCHANGED <<wire, sent>>
        /\ Orderly("decode", wire[c], buf[c], reply[c], out[c], sent[c])
    BY <1>0, <1>4 DEF NextFrame
  <2>1. CASE /\ v.kind = "more" /\ Goto(c, "read") /\ UNCHANGED <<buf, reply, out>>
    <3>1. Orderly("read", wire[c], buf[c], reply[c], out[c], sent[c])
      BY <2>0, <2>1, WaitsForMore
    <3> QED BY <1>a, <2>0, <2>1, <3>1 DEF Goto
  <2>2. CASE /\ v.kind = "bad" /\ out' = [out EXCEPT ![c] = Append(@, e)]
             /\ Goto(c, "closing") /\ UNCHANGED <<buf, reply>>
    <3>1. Orderly("closing", wire[c], buf[c], reply[c], o, sent[c])
      BY <1>0, <2>0, <2>2, Aborts
    <3>2. out' = [out EXCEPT ![c] = o]
      BY <2>2
    <3> HIDE DEF o
    <3> QED BY <1>a, <2>0, <2>2, <3>1, <3>2 DEF Goto
  <2>3. CASE /\ v.kind = "frame"
             /\ buf' = [buf EXCEPT ![c] = SubSeq(@, v.consumed + 1, Len(@))]
             /\ reply' = [reply EXCEPT ![c] = ReplyTo(v.msg)]
             /\ IF v.msg.code \in {RELEASE, ABORT} THEN Goto(c, "closing")
                ELSE IF ReplyTo(v.msg) # NoMsg THEN Goto(c, "write") ELSE DecodeAgain(c)
             /\ UNCHANGED out
    <3>1. Orderly(Onward(v.msg), wire[c], b, ReplyTo(v.msg), out[c], sent[c])
      BY <1>0, <2>0, <2>3, TakesFrame
    <3>2. phase' = [phase EXCEPT ![c] = Onward(v.msg)]
      <4> HIDE DEF v
      <4> QED BY <2>3, Zenon DEF Onward, Goto, DecodeAgain
    <3>3. buf' = [buf EXCEPT ![c] = b]
      BY <2>3
    <3> HIDE DEF b, v
    <3> QED BY <1>a, <2>0, <2>3, <3>1, <3>2, <3>3
  <2> QED
    BY <1>4, <2>1, <2>2, <2>3, Zenon DEF NextFrame
<1>5. CASE Write(c)
  <2> DEFINE o == Append(out[c], encode_frame(reply[c]))
  <2>1. phase[c] = "write" /\ phase' = [phase EXCEPT ![c] = "decode"]
        /\ out' = [out EXCEPT ![c] = o] /\ reply' = [reply EXCEPT ![c] = NoMsg]
        /\ UNCHANGED <<wire, buf, sent>>
    BY <1>5 DEF Write, DecodeAgain, Goto
  <2>2. Orderly("decode", wire[c], buf[c], NoMsg, o, sent[c])
    BY <1>0, <2>1, WritesAnswer
  <2> HIDE DEF o
  <2> QED BY <1>a, <2>1, <2>2
<1>6. CASE PeerSends(c)
  <2>1. PICK m \in Sent, bytes \in Seq(Byte) : Piece(m, bytes) /\ Send(c, m, bytes)
    BY <1>6, SentAreBytes, Zenon DEF PeerSends, Sent, Piece
  <2> DEFINE w == wire[c] \o bytes
             msgs == Append(sent[c], m)
  <2>2. phase[c] \in Established /\ UNCHANGED <<phase, buf, reply, out>>
        /\ wire' = [wire EXCEPT ![c] = w] /\ sent' = [sent EXCEPT ![c] = msgs]
    BY <2>1 DEF Send
  <2>3. Orderly(phase[c], w, buf[c], reply[c], out[c], msgs)
    BY <1>0, <2>1, <2>2, SendKeeps
  <2> HIDE DEF w, msgs
  <2> QED BY <1>a, <2>2, <2>3
<1> QED
  BY <1>1, <1>2, <1>3, <1>4, <1>5, <1>6 DEF Serves

(* The invariant of the streams, for messages that survive the codec. *)
THEOREM OrderInvariant == CodecSound => (Spec => []OrderInv)
<1> SUFFICES ASSUME CodecSound PROVE Spec => []OrderInv
  OBVIOUS
<1>1. Init => OrderInv
  <2> SUFFICES ASSUME Init PROVE OrderInv
    OBVIOUS
  <2>1. OfConns(reply) /\ OfConns(out) /\ OfConns(sent)
    BY DEF Init, OfConns
  <2>2. "free" \notin Established
    BY DEF Established
  <2>3. ASSUME NEW c \in Conn
        PROVE  Orderly(phase[c], wire[c], buf[c], reply[c], out[c], sent[c])
    <3>1. phase[c] = "free" /\ wire[c] = <<>> /\ buf[c] = <<>> /\ out[c] = <<>> /\ sent[c] = <<>>
      BY DEF Init
    <3> QED BY <2>2, <3>1, Greets
  <2> QED BY <2>1, <2>3 DEF OrderInv
<1>2. TcpInv /\ OrderInv /\ [Next]_vars => OrderInv'
  <2> SUFFICES ASSUME ThreadInv, OrderInv, [Next]_vars PROVE OrderInv'
    BY DEF TcpInv
  <2>1. CASE Tick
    BY <2>1, NothingMoves DEF Tick, TimePasses
  <2>2. ASSUME NEW c \in Conn, NEW a \in Addr, Accept(c, a) PROVE OrderInv'
    BY <2>2, AdmissionKeepsOrder
  <2>3. ASSUME NEW c \in Conn,
               SpawnFails(c) \/ Spawned(c) \/ Handshakes(c) \/ Serves(c) \/ PeerSends(c)
        PROVE  OrderInv'
    BY <2>3, EndKeepsOrder, AdmissionKeepsOrder, HandshakeKeepsOrder, ServiceKeepsOrder
       DEF SpawnFails
  <2>4. CASE UNCHANGED vars
    BY <2>4, NothingMoves DEF vars
  <2> QED
    BY <2>1, <2>2, <2>3, <2>4 DEF Next
<1> QED
  BY <1>1, <1>2, TcpInvariant, PTL DEF Spec

LEMMA OrderShows ==
    ASSUME NEW p, NEW w, NEW b, NEW r, NEW o, NEW msgs, Orderly(p, w, b, r, o, msgs)
    PROVE  InTurn(p, r, o, msgs)
<1>0. msgs \in Seq(Sent) /\ o \in Seq(Written) /\ Len(msgs) \in Nat /\ Len(o) \in Nat
  BY DEF Orderly
<1> DEFINE n == Len(msgs)
           due == Answered(msgs, n)
<1>1. Count(msgs, n) = Cardinality(due) /\ Count(msgs, n) \in Nat
      /\ Expected(msgs) \in {Count(msgs, n) + 1, Count(msgs, n) + 2}
      /\ (Broken(msgs) => Expected(msgs) = Count(msgs, n) + 2)
  <2>1. Count(msgs, n) \in Nat
    BY <1>0, CountTyped
  <2> QED BY <2>1 DEF Expected, Count
<1>2. CASE p \notin Established
  <2>1. o = <<>> /\ p # "write" /\ Len(o) = 0
    BY <1>2 DEF Orderly, Established
  <2>2. \A i \in due : Cardinality(Answered(msgs, i)) \in Nat
    <3>1. \A i \in due : i \in Nat
      BY DEF Answered
    <3> QED BY <3>1, CountTyped DEF Count
  <2> QED BY <1>0, <1>1, <2>1, <2>2 DEF InTurn
<1>3. CASE p \in Established
  <2>1. PICK d \in 0 .. n : Upto(p, w, b, r, o, msgs, d)
    BY <1>3 DEF Orderly
  <2>2. d \in Nat /\ d <= n /\ n \in Nat /\ Count(msgs, d) \in Nat
        /\ Answered(msgs, d) \subseteq due /\ Count(msgs, d) <= Count(msgs, n)
    <3>1. d \in Nat /\ d <= n /\ n \in Nat
      BY <1>0, <2>1
    <3> QED BY <3>1, CountTyped, CountGrows
  <2>3. RepliesOK(o, msgs, d) /\ Progress(p, r, o, msgs, d)
    BY <2>1 DEF Upto
  <2> HIDE DEF n
  <2>4. p = "closing" => due = Answered(msgs, d) /\ Count(msgs, n) = Count(msgs, d)
    <3>1. ASSUME p = "closing" PROVE due = Answered(msgs, d)
      BY <2>2, <2>3, <3>1, CountStops DEF Progress
    <3> QED BY <3>1 DEF Count
  <2>5. p # "closing" => Len(o) <= Count(msgs, d) + 1
    BY <1>3, <2>2, <2>3 DEF Progress, Established
  <2>6. ASSUME NEW i \in due, Count(msgs, i) + 1 <= Len(o)
        PROVE  Carries(o[Count(msgs, i) + 1], ReplyTo(msgs[i]))
    <3>1. i \in Answered(msgs, d)
      <4>1. CASE p = "closing"
        BY <2>4, <4>1
      <4>2. CASE p # "closing"
        <5>1. i \in 1 .. n /\ Reached(msgs, i) /\ ~Ends(msgs[i]) /\ ReplyTo(msgs[i]) # NoMsg
          BY DEF Answered
        <5>2. i \in Nat /\ Count(msgs, i) \in Nat
          <6>1. i \in Nat
            BY <2>2, <5>1
          <6> QED BY <6>1, CountTyped
        <5>3. ~(d < i)
          <6>1. SUFFICES ASSUME d < i PROVE FALSE
            OBVIOUS
          <6>2. Count(msgs, d) + 1 <= Count(msgs, i)
            BY <2>2, <6>1, CountIsStrict
          <6> QED BY <1>0, <2>2, <2>5, <2>6, <4>2, <5>2, <6>2
        <5>4. i \in 1 .. d
          BY <2>2, <5>1, <5>3
        <5> QED BY <5>1, <5>4 DEF Answered
      <4> QED BY <4>1, <4>2
    <3> QED BY <2>3, <2>6, <3>1 DEF RepliesOK
  <2>7. \A i \in due : Cardinality(Answered(msgs, i)) = Count(msgs, i) /\ Count(msgs, i) \in Nat
    <3>1. \A i \in due : i \in Nat
      BY <2>2 DEF Answered
    <3> QED BY <3>1, CountTyped DEF Count
  <2>8. \A i \in due : 1 + Cardinality(Answered(msgs, i)) <= Len(o) =>
           Carries(o[1 + Cardinality(Answered(msgs, i))], ReplyTo(msgs[i]))
    <3> SUFFICES ASSUME NEW i \in due, 1 + Cardinality(Answered(msgs, i)) <= Len(o)
                 PROVE  Carries(o[1 + Cardinality(Answered(msgs, i))], ReplyTo(msgs[i]))
      OBVIOUS
    <3>1. 1 + Cardinality(Answered(msgs, i)) = Count(msgs, i) + 1
      BY <2>7
    <3> QED BY <2>6, <3>1
  <2>9. Len(o) <= Expected(msgs)
        /\ (Len(o) > 1 + Cardinality(due) => Carries(o[Len(o)], Signal(ABORT, <<>>)))
    <3>1. CASE p # "closing"
      BY <1>0, <1>1, <2>2, <2>5, <3>1 DEF n
    <3>2. CASE p = "closing" /\ Len(o) = Count(msgs, d) + 1
      BY <1>0, <1>1, <2>2, <2>4, <3>2 DEF n
    <3>3. CASE p = "closing" /\ Len(o) = Count(msgs, d) + 2 /\ msgs[d + 1] = NoMsg
               /\ Carries(o[Len(o)], Signal(ABORT, <<>>))
      <4>1. d < Len(msgs) /\ \A j \in 1 .. d : ~Ends(msgs[j])
        BY <2>1, <2>3, <3>3 DEF Upto, Progress
      <4>2. d + 1 \in DOMAIN msgs /\ (d + 1) - 1 = d
        BY <1>0, <2>2, <4>1
      <4>3. Broken(msgs)
        BY <3>3, <4>1, <4>2, Zenon DEF Broken, Reached
      <4> QED BY <1>1, <2>2, <2>4, <3>3, <4>3 DEF n
    <3> QED BY <2>3, <3>1, <3>2, <3>3 DEF Progress
  <2>10. p = "write" => \E i \in due :
            1 + Cardinality(Answered(msgs, i)) = Len(o) + 1 /\ r = Canonical(ReplyTo(msgs[i]))
    <3> SUFFICES ASSUME p = "write"
                 PROVE  \E i \in due : 1 + Cardinality(Answered(msgs, i)) = Len(o) + 1
                                       /\ r = Canonical(ReplyTo(msgs[i]))
      OBVIOUS
    <3>1. d \in due /\ Len(o) = Count(msgs, d) /\ r = Canonical(ReplyTo(msgs[d]))
      BY <2>2, <2>3 DEF Progress
    <3>2. 1 + Cardinality(Answered(msgs, d)) = Len(o) + 1
      BY <2>2, <3>1 DEF Count
    <3> QED BY <3>1, <3>2
  <2>11. o # <<>> => Carries(o[1], Signal(CSM, <<>>))
    BY <2>3 DEF RepliesOK
  <2> QED BY <2>8, <2>9, <2>10, <2>11, Zenon DEF n, InTurn
<1> QED
  BY <1>2, <1>3

(* For every cut of the streams, all messages and any number of            *)
(* connections: the frames a thread writes are the answers to its peer's   *)
(* messages, in their order, if those messages survive the codec.          *)
THEOREM ServedInOrder == CodecSound => (Spec => []AnswersInOrder)
<1>1. OrderInv => AnswersInOrder
  <2> SUFFICES ASSUME OrderInv PROVE AnswersInOrder
    OBVIOUS
  <2> QED BY OrderShows DEF OrderInv, AnswersInOrder
<1> QED
  BY <1>1, OrderInvariant, PTL

(* A thread that waits has answered everything that has arrived. *)
LEMMA WaitingIsDone ==
    ASSUME CodecSound, NEW b \in Seq(Byte), NEW r, NEW o, NEW msgs,
           Orderly("read", <<>>, b, r, o, msgs)
    PROVE  Len(o) = Expected(msgs)
<1>0. msgs \in Seq(Sent) /\ o \in Seq(Written) /\ Len(msgs) \in Nat
  BY DEF Orderly
<1>1. PICK d \in 0 .. Len(msgs) : Upto("read", <<>>, b, r, o, msgs, d)
  BY DEF Orderly, Established
<1>2. try_decode_frame(b).kind = "more" /\ Undecoded(msgs, d, b \o <<>>)
      /\ Len(o) = Count(msgs, d) + 1
  BY <1>1 DEF Upto, Progress
<1>3. Undecoded(msgs, d, b)
  BY <1>2, EmptyNeutral
<1>4. d = Len(msgs)
  <2>1. SUFFICES ASSUME d # Len(msgs) PROVE FALSE
    OBVIOUS
  <2>2. d \in 0 .. Len(msgs) - 1
    BY <1>0, <2>1
  <2>3. PICK x \in Seq(Byte) :
          /\ try_decode_frame(b) = try_decode_frame(x)
          /\ IF msgs[d + 1] = NoMsg THEN try_decode_frame(x).kind = "bad"
             ELSE Carries(x, msgs[d + 1])
    BY <1>0, <1>3, <2>2, FirstOfStream
  <2>4. try_decode_frame(b).kind \in {"bad", "frame"}
    <3>1. CASE msgs[d + 1] = NoMsg
      BY <2>3, <3>1
    <3>2. CASE msgs[d + 1] # NoMsg
      <4>1. Carries(x, msgs[d + 1])
        BY <2>3, <3>2
      <4> QED BY <2>3, <4>1 DEF Carries
    <3> QED BY <3>1, <3>2
  <2> QED BY <1>2, <2>4
<1>5. ~Broken(msgs)
  <2>1. \A j \in 1 .. d : ~Ends(msgs[j])
    BY <1>1 DEF Upto
  <2>2. DOMAIN msgs = 1 .. d
    BY <1>0, <1>4
  <2> QED BY <2>1, <2>2, Zenon DEF Broken, Ends
<1>6. Count(msgs, d) \in Nat /\ Count(msgs, d) = Cardinality(Answered(msgs, Len(msgs)))
  BY <1>0, <1>4, CountTyped DEF Count
<1> QED
  BY <1>2, <1>5, <1>6 DEF Expected

(* For every cut of the streams: a thread that waits for bytes has         *)
(* answered all that has arrived, if the messages survive the codec.       *)
THEOREM NothingWaits == CodecSound => (Spec => []NothingLeftBehind)
<1> SUFFICES ASSUME CodecSound PROVE Spec => []NothingLeftBehind
  OBVIOUS
<1>1. TcpInv /\ OrderInv => NothingLeftBehind
  <2> SUFFICES ASSUME TcpInv, OrderInv, NEW c \in Conn, phase[c] = "read", wire[c] = <<>>
               PROVE  Len(out[c]) = Expected(sent[c])
    BY DEF NothingLeftBehind
  <2>1. buf[c] \in Seq(Byte)
    BY DEF TcpInv, ThreadInv, StreamsOK
  <2>2. Orderly("read", <<>>, buf[c], reply[c], out[c], sent[c])
    BY DEF OrderInv
  <2> QED BY <2>1, <2>2, WaitingIsDone
<1> QED
  BY <1>1, TcpInvariant, OrderInvariant, PTL
=============================================================================
