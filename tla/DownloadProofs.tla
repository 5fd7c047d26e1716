--------------------------- MODULE DownloadProofs ---------------------------
(***************************************************************************)
(* Proofs about Download: for documents of any length below the reach of   *)
(* the block numbers, every block size and ceiling and any number of       *)
(* changes, what a device holds is what one version of the document has at *)
(* that place.                                                             *)
(***************************************************************************)
EXTENDS Download, SequenceTheorems, TLAPS

Szx == 0 .. 6
Reach == NumSpace * BaseSize

-----------------------------------------------------------------------------
(* Arithmetic of blocks *)

LEMMA ShiftValues ==
    /\ Shift(0) = 1 /\ Shift(1) = 2 /\ Shift(2) = 4 /\ Shift(3) = 8
    /\ Shift(4) = 16 /\ Shift(5) = 32 /\ Shift(6) = 64
BY DEF Shift

LEMMA ShiftAdds ==
    \A m, d \in Szx : /\ Shift(m) \in Nat \ {0}
                      /\ d + m <= 6 => Shift(d + m) = Shift(d) * Shift(m)
<1> SUFFICES ASSUME NEW m \in Szx, NEW d \in Szx
             PROVE  /\ Shift(m) \in Nat \ {0}
                    /\ d + m <= 6 => Shift(d + m) = Shift(d) * Shift(m)
  OBVIOUS
<1>1. CASE m = 0
  BY <1>1, ShiftValues DEF Szx
<1>2. CASE m = 1
  BY <1>2, ShiftValues DEF Szx
<1>3. CASE m = 2
  BY <1>3, ShiftValues DEF Szx
<1>4. CASE m = 3
  BY <1>4, ShiftValues DEF Szx
<1>5. CASE m \in 4 .. 6
  BY <1>5, ShiftValues DEF Szx
<1> QED
  BY <1>1, <1>2, <1>3, <1>4, <1>5 DEF Szx

LEMMA Grows ==
    ASSUME NEW x \in Nat, NEW y \in Nat, NEW z \in Nat, x <= y
    PROVE  x * z <= y * z
<1>1. y * z = x * z + (y - x) * z
  OBVIOUS
<1>2. (y - x) * z \in Nat /\ x * z \in Nat
  OBVIOUS
<1> QED
  BY <1>1, <1>2

(* The sizes of blocks, and the larger in terms of the smaller *)
LEMMA Sizes ==
    ASSUME NEW m \in Szx, NEW s \in Szx, m <= s
    PROVE  /\ size_for(m) \in Nat \ {0} /\ size_for(s) \in Nat
           /\ s - m \in Szx /\ Shift(s - m) \in Nat \ {0}
           /\ size_for(s) = Shift(s - m) * size_for(m)
           /\ size_for(m) <= size_for(s)
           /\ BaseSize <= size_for(m)
<1>1. /\ Shift(m) \in Nat \ {0} /\ Shift(s) \in Nat \ {0} /\ Shift(s - m) \in Nat \ {0}
      /\ s - m \in Szx /\ Shift(s) = Shift(s - m) * Shift(m)
  <2>1. s - m \in Szx /\ (s - m) + m = s /\ s <= 6
    BY DEF Szx
  <2> QED BY <2>1, ShiftAdds
<1>2. BaseSize \in Nat \ {0}
  BY BlocksAssumption
<1>3. ASSUME NEW x \in Nat \ {0}, NEW y \in Nat \ {0}
      PROVE  x * y \in Nat \ {0} /\ y <= x * y
  <2>1. 1 * y <= x * y
    BY Grows
  <2>2. 1 * y = y
    OBVIOUS
  <2> QED BY <2>1, <2>2
<1>4. size_for(m) \in Nat \ {0} /\ size_for(s) \in Nat /\ BaseSize <= size_for(m)
  BY <1>1, <1>2, <1>3 DEF size_for
<1>5. size_for(s) = Shift(s - m) * size_for(m)
  BY <1>1, <1>2 DEF size_for
<1> QED
  BY <1>1, <1>3, <1>4, <1>5

LEMMA SizeTyped ==
    ASSUME NEW s \in Szx
    PROVE  size_for(s) \in Nat \ {0} /\ BaseSize <= size_for(s)
<1>1. s <= s
  BY DEF Szx
<1> QED
  BY <1>1, Sizes

(* A block that begins within reach has a number the option can carry. *)
LEMMA WithinReach ==
    ASSUME NEW n \in Nat, NEW s \in Szx, n * size_for(s) < Reach
    PROVE  n < NumSpace
<1>1. size_for(s) \in Nat /\ BaseSize <= size_for(s) /\ BaseSize \in Nat /\ NumSpace \in Nat
  BY SizeTyped, BlocksAssumption
<1>2. SUFFICES ASSUME NumSpace <= n PROVE FALSE
  BY <1>1
<1>3. NumSpace * BaseSize <= n * BaseSize
  BY <1>1, <1>2, Grows
<1>4. BaseSize * n <= size_for(s) * n
  BY <1>1, Grows
<1> QED
  BY <1>1, <1>3, <1>4 DEF Reach

Blk == [num : Nat, more : BOOLEAN, szx : Szx]

LEMMA DecodeTyped ==
    ASSUME NEW value \in Nat
    PROVE  Decode(value) \in Blk
<1>1. value \div 16 \in Nat /\ value % 8 \in 0 .. 7
  OBVIOUS
<1> QED
  BY <1>1 DEF Decode, Blk, Block, Szx, MaxSzx

LEMMA OffsetTyped ==
    ASSUME NEW b \in Blk
    PROVE  Offset(b) \in Nat /\ size_for(b.szx) \in Nat \ {0}
<1>1. b.num \in Nat /\ b.szx \in Szx
  BY DEF Blk
<1>2. size_for(b.szx) \in Nat \ {0}
  BY <1>1, SizeTyped
<1> QED
  BY <1>1, <1>2 DEF Offset

(* Rescaling keeps the offset, unless the number leaves the word: then it  *)
(* is out of the option's reach before as well as after.                   *)
LEMMA CappedFacts ==
    ASSUME NEW b \in Blk, NEW m \in Szx
    PROVE  LET c == Capped(b, m) IN
           /\ c \in Blk /\ c.szx <= m /\ c.szx <= b.szx
           /\ c.num < NumSpace => Offset(c) = Offset(b)
           /\ Offset(b) < Reach => Offset(c) = Offset(b)
<1> DEFINE c == Capped(b, m)
           n == b.num * Shift(b.szx - m)
<1>0. b.num \in Nat /\ b.szx \in Szx /\ b.more \in BOOLEAN /\ NumSpace \in Nat \ {0}
  BY BlocksAssumption DEF Blk
<1>1. CASE b.szx <= m
  <2>1. c = b
    BY <1>1 DEF Capped
  <2>2. b.szx <= b.szx
    BY <1>0 DEF Szx
  <2> QED BY <1>1, <2>1, <2>2
<1>2. CASE ~(b.szx <= m)
  <2>1. m <= b.szx
    BY <1>0, <1>2 DEF Szx
  <2>2. /\ size_for(m) \in Nat /\ size_for(b.szx) = Shift(b.szx - m) * size_for(m)
        /\ Shift(b.szx - m) \in Nat
    BY <1>0, <2>1, Sizes
  <2>3. n \in Nat /\ n * size_for(m) = Offset(b)
    BY <1>0, <2>2 DEF Offset
  <2>4. c = Block(IF n \in Word THEN n ELSE WordSize - 1, b.more, m)
    BY <1>2 DEF Capped
  <2> HIDE DEF n, c
  <2>5. /\ c.num = (IF n \in Word THEN n ELSE WordSize - 1)
        /\ c.szx = m /\ c.more = b.more /\ c \in Blk
    <3>1. (IF n \in Word THEN n ELSE WordSize - 1) \in Nat
      BY <1>0, <2>3 DEF WordSize
    <3> QED BY <1>0, <2>4, <3>1 DEF Block, Blk
  <2>6. n \in Word => Offset(c) = Offset(b)
    BY <2>3, <2>5 DEF Offset
  <2>7. c.num < NumSpace => n \in Word
    BY <1>0, <2>5 DEF WordSize
  <2>8. Offset(b) < Reach => n \in Word
    <3>1. Offset(b) < Reach => n < NumSpace
      BY <2>3, WithinReach
    <3> QED BY <1>0, <2>3, <3>1 DEF Word, WordSize
  <2> QED
    BY <2>1, <2>5, <2>6, <2>7, <2>8 DEF c, Szx
<1> QED
  BY <1>1, <1>2

LEMMA Multiples ==
    ASSUME NEW n \in Nat, NEW N \in Nat \ {0}
    PROVE  \E q \in Nat : (n * 16) % (16 * N) = q * 16 /\ (n < N => q = n)
<1> DEFINE W == 16 * N
           a == n \div N
           q == n % N
<1>1. a \in Nat /\ q \in 0 .. N - 1 /\ n = N * a + q
  OBVIOUS
<1>2. n < N => q = n
  OBVIOUS
<1> HIDE DEF a, q
<1>3. n * 16 = W * a + q * 16 /\ q * 16 \in 0 .. W - 1
  BY <1>1
<1>4. (W * a + q * 16) % W = q * 16
  BY <1>1, <1>3
<1> QED
  BY <1>1, <1>2, <1>3, <1>4

(* The option carries a block whose number it has room for, and the more   *)
(* bit of every other.                                                     *)
LEMMA OptionCarries ==
    ASSUME NEW n \in Nat, NEW more \in BOOLEAN, NEW s \in Szx
    PROVE  LET v == Encode(Block(n, more, s)) IN
           /\ v \in Nat
           /\ Decode(v).more = more
           /\ n < NumSpace => Decode(v) = Block(n, more, s)
<1> DEFINE b == Block(n, more, s)
           low == IF more THEN 8 ELSE 0
<1>1. NumSpace \in Nat \ {0}
  BY BlocksAssumption
<1>2. PICK q \in Nat : /\ (n * 16) % WordSize = q * 16
                       /\ n < NumSpace => q = n
  BY <1>1, Multiples DEF WordSize
<1>3. b.num = n /\ b.more = more /\ b.szx = s
  BY DEF Block
<1> HIDE DEF b
<1>4. Encode(b) = ((n * 16) % WordSize) + low + s
  BY <1>3, Zenon DEF Encode
<1>5. low \in {0, 8} /\ (low = 8) = more
  <2>1. CASE more = TRUE
    BY <2>1
  <2>2. CASE more = FALSE
    BY <2>2
  <2> QED BY <2>1, <2>2
<1> HIDE DEF low
<1>6. PICK w : w = Encode(b) /\ w = q * 16 + low + s
  <2>1. WordSize \in Nat \ {0} /\ n * 16 \in Nat
    BY <1>1 DEF WordSize
  <2> QED BY <1>2, <1>4, <1>5, <2>1 DEF Szx
<1>7. w \div 16 = q /\ w % 8 = s /\ w \in Nat /\ ((w \div 8) % 2 = 1) = (low = 8)
  BY <1>5, <1>6 DEF Szx
<1>8. w \div 16 = q /\ (IF w % 8 > MaxSzx THEN MaxSzx ELSE w % 8) = s
  BY <1>7 DEF MaxSzx, Szx
<1>9. Decode(w) = Block(q, more, s)
  BY <1>5, <1>7, <1>8, Zenon DEF Decode
<1>10. Block(q, more, s).more = more
  BY DEF Block
<1>11. Decode(w).more = more /\ (n < NumSpace => Decode(w) = Block(n, more, s))
  <2>1. Decode(w).more = more
    BY <1>9, <1>10, Zenon
  <2>2. n < NumSpace => Decode(w) = Block(n, more, s)
    BY <1>2, <1>9, Zenon
  <2> QED BY <2>1, <2>2, Zenon
<1> QED
  BY <1>6, <1>7, <1>11 DEF b

-----------------------------------------------------------------------------
(* Sequences *)

LEMMA SubLen ==
    ASSUME NEW S, NEW s \in Seq(S), NEW i \in Nat, NEW j \in Nat, i <= j, j <= Len(s)
    PROVE  SubSeq(s, i + 1, j) \in Seq(S) /\ Len(SubSeq(s, i + 1, j)) = j - i
OBVIOUS

LEMMA WholeSub ==
    ASSUME NEW S, NEW s \in Seq(S)
    PROVE  SubSeq(s, 1, Len(s)) = s
OBVIOUS

LEMMA Glue ==
    ASSUME NEW S, NEW s \in Seq(S), NEW i \in Nat, NEW j \in Nat, i <= j, j <= Len(s)
    PROVE  SubSeq(s, 1, i) \o SubSeq(s, i + 1, j) = SubSeq(s, 1, j)
<1>1. i \in (1 - 1) .. Len(s) /\ j \in i .. Len(s) /\ 1 \in 1 .. Len(s) + 1
  OBVIOUS
<1> QED
  BY <1>1, ConcatAdjacentSubSeq

Stuff(v) == {v} \X Nat

LEMMA BytesTyped ==
    ASSUME NEW v \in Version
    PROVE  /\ Length[v] \in Nat /\ Length[v] <= Reach
           /\ Bytes(v) \in Seq(Stuff(v)) /\ Len(Bytes(v)) = Length[v]
<1>1. Length[v] \in Nat /\ Length[v] <= Reach
  BY DownloadAssumption DEF Reach
<1>2. \A i \in 1 .. Length[v] : <<v, i>> \in Stuff(v)
  BY <1>1 DEF Stuff
<1>3. Bytes(v) \in [1 .. Length[v] -> Stuff(v)]
  BY <1>2 DEF Bytes
<1> QED
  BY <1>1, <1>3

-----------------------------------------------------------------------------
(* What an answer says about the version it was made from *)

Requests == [leaf : Leaf, method : {"get", "post"}, block2 : Word \cup {Absent}]

LastOf(b, n) == IF MoreAfter(b, n) THEN Offset(b) + size_for(b.szx) ELSE n

(* An answer with a block: the block asked for, or nothing of nothing. *)
BlockOf(b, m, v) ==
    /\ m.block2 = Encode(Block(b.num, MoreAfter(b, Length[v]), b.szx))
    /\ \/ Length[v] = 0 /\ m.payload = <<>>
       \/ /\ Offset(b) < Length[v]
          /\ m.payload = SubSeq(Bytes(v), Offset(b) + 1, LastOf(b, Length[v]))

(* An answer with the whole document *)
WholeOf(r, m, v) ==
    /\ r.block2 = Absent /\ m.block2 = Absent /\ m.payload = Bytes(v)
    /\ transport = "udp" => Length[v] <= size_for(max_szx)

Sound(r, m, v) ==
    /\ m.code \in Success =>
          /\ v \in Version
          /\ r.leaf = "firmware" => m.etag = v
          /\ BlockOf(Asked(r), m, v) \/ (WholeOf(r, m, v) /\ r.leaf = "shadow")
    /\ m.code = 400 => v \in Version /\ Length[v] <= Offset(Asked(r))

LEMMA CeilingTyped ==
    ASSUME transport \in {"udp", "tcp"}
    PROVE  max_szx \in Szx /\ (transport = "udp" => size_for(max_szx) = UdpMaxBlock)
<1>1. CASE transport = "udp"
  <2>1. SzxForBytes(UdpMaxBlock) # {}
    BY DownloadAssumption
  <2>2. max_szx = CHOOSE szx \in SzxForBytes(UdpMaxBlock) : TRUE
    BY <1>1, Zenon DEF max_szx
  <2>3. max_szx \in SzxForBytes(UdpMaxBlock)
    BY <2>1, <2>2, Zenon
  <2> HIDE DEF max_szx
  <2> QED BY <2>3 DEF SzxForBytes, Szx, MaxSzx
<1>2. CASE transport = "tcp"
  BY <1>2 DEF max_szx, Szx, MaxSzx
<1> QED
  BY <1>1, <1>2

LEMMA AskedTyped ==
    ASSUME transport \in {"udp", "tcp"}, NEW r \in Requests
    PROVE  LET b == Asked(r) IN
           /\ b \in Blk /\ b.szx <= max_szx
           /\ r.block2 = Absent => Offset(b) = 0
           /\ r.block2 # Absent =>
                 /\ Decode(r.block2) \in Blk /\ b.szx <= Decode(r.block2).szx
                 /\ b.num < NumSpace => Offset(b) = Offset(Decode(r.block2))
                 /\ Offset(Decode(r.block2)) < Reach => Offset(b) = Offset(Decode(r.block2))
<1>1. max_szx \in Szx
  BY CeilingTyped
<1>2. r.block2 # Absent => r.block2 \in Nat
  <2>1. WordSize \in Nat
    BY BlocksAssumption DEF WordSize
  <2> QED BY <2>1 DEF Requests, Word
<1>3. CASE r.block2 = Absent
  <2>1. Asked(r) = Block(0, FALSE, max_szx)
    BY <1>3 DEF Asked
  <2>2. Block(0, FALSE, max_szx) \in Blk /\ Block(0, FALSE, max_szx).szx = max_szx
    BY <1>1 DEF Block, Blk
  <2>3. Offset(Block(0, FALSE, max_szx)) = 0
    <3>1. size_for(max_szx) \in Nat
      BY <1>1, SizeTyped
    <3> QED BY <3>1 DEF Offset, Block
  <2>4. max_szx <= max_szx
    BY <1>1 DEF Szx
  <2>5. Asked(r) \in Blk /\ Asked(r).szx <= max_szx /\ Offset(Asked(r)) = 0
    BY <2>1, <2>2, <2>3, <2>4, Zenon
  <2> QED BY <1>3, <2>5, Zenon
<1>4. CASE r.block2 # Absent
  <2>1. Asked(r) = Capped(Decode(r.block2), max_szx) /\ Decode(r.block2) \in Blk
    BY <1>2, <1>4, DecodeTyped DEF Asked
  <2> QED BY <1>1, <1>4, <2>1, CappedFacts
<1> QED
  BY <1>3, <1>4

(* Every block lies on a multiple of its size: one that begins within a    *)
(* document no longer than a block is the first.                           *)
LEMMA FirstBlock ==
    ASSUME NEW b \in Blk, NEW n \in Nat, n <= size_for(b.szx), Offset(b) < n
    PROVE  Offset(b) = 0
<1>1. b.num \in Nat /\ b.szx \in Szx
  BY DEF Blk
<1>2. size_for(b.szx) \in Nat \ {0}
  BY <1>1, SizeTyped
<1>3. CASE b.num = 0
  BY <1>2, <1>3 DEF Offset
<1>4. CASE 1 <= b.num
  <2>1. 1 * size_for(b.szx) <= b.num * size_for(b.szx)
    BY <1>1, <1>2, <1>4, Grows
  <2>2. b.num * size_for(b.szx) \in Nat
    BY <1>1, <1>2
  <2> QED BY <1>2, <2>1, <2>2 DEF Offset
<1> QED
  BY <1>1, <1>3, <1>4

(* The arithmetic of the cut: the end of the block, or of the document. *)
LEMMA CutFacts ==
    ASSUME NEW b \in Blk, NEW n \in Nat
    PROVE  /\ Offset(b) < n => /\ LastOf(b, n) \in Nat /\ Offset(b) < LastOf(b, n)
                               /\ LastOf(b, n) <= n
                               /\ LastOf(b, n) - Offset(b) <= size_for(b.szx)
           /\ (IF RangeEnd(b) < n THEN RangeEnd(b) + 1 ELSE n) = LastOf(b, n)
           /\ (IF RangeEnd(b) < n THEN RangeEnd(b) ELSE n - 1) + 1 = LastOf(b, n)
           /\ MoreAfter(b, n) \in BOOLEAN
           /\ MoreAfter(b, n) => LastOf(b, n) < n
           /\ ~MoreAfter(b, n) => LastOf(b, n) = n
<1>1. Offset(b) \in Nat /\ size_for(b.szx) \in Nat \ {0}
  BY OffsetTyped
<1> QED
  BY <1>1 DEF LastOf, MoreAfter, RangeEnd

LEMMA SliceIsBlock ==
    ASSUME NEW b \in Blk, NEW v \in Version
    PROVE  Slice(Bytes(v), Offset(b), RangeEnd(b))
              = SubSeq(Bytes(v), Offset(b) + 1, LastOf(b, Length[v]))
<1>1. Len(Bytes(v)) = Length[v] /\ Length[v] \in Nat
  BY BytesTyped
<1>2. (IF RangeEnd(b) < Length[v] THEN RangeEnd(b) + 1 ELSE Length[v]) = LastOf(b, Length[v])
  BY <1>1, CutFacts
<1> QED
  BY <1>1, <1>2, Zenon DEF Slice

LEMMA EmptyBytes ==
    ASSUME NEW v \in Version, Length[v] = 0
    PROVE  Bytes(v) = <<>>
BY BytesTyped, EmptySeq

(* The handler's answers are sound: a failure, whichever it is, carries no *)
(* data, and 4.00 stands for a block past the end.                         *)
LEMMA FailureSound ==
    ASSUME NEW r \in Requests, NEW v, NEW a \in {Plain(500), Plain(0), Plain(404)}
    PROVE  ~Succeeds(a) /\ Sound(r, ErrorResponse(a), v)
<1>1. a.status \in {500, 0, 404}
  BY DEF Plain, Answer
<1>2. ErrorResponse(a).code \in {502, 504, 404}
  BY <1>1 DEF ErrorResponse, Diagnostic, Response
<1>3. ErrorResponse(a).code \notin Success /\ ErrorResponse(a).code # 400
  BY <1>2 DEF Success
<1>4. ~Succeeds(a)
  BY <1>1 DEF Succeeds
<1> QED
  BY <1>3, <1>4, Zenon DEF Sound

LEMMA RefusalSound ==
    ASSUME NEW r \in Requests, NEW v \in Version, Length[v] <= Offset(Asked(r))
    PROVE  /\ ~Succeeds(Plain(416)) /\ Sound(r, ErrorResponse(Plain(416)), v)
           /\ Sound(r, OutOfRange, v)
<1>1. Plain(416).status = 416
  BY DEF Plain, Answer
<1>2. ErrorResponse(Plain(416)).code = 400 /\ OutOfRange.code = 400
  BY <1>1 DEF ErrorResponse, Diagnostic, Response, OutOfRange
<1>3. 400 \notin Success /\ ~Succeeds(Plain(416))
  BY <1>1 DEF Success, Succeeds
<1> QED
  BY <1>2, <1>3, Zenon DEF Sound

LEMMA BlockSound ==
    ASSUME transport \in {"udp", "tcp"}, NEW r \in Requests, NEW v \in Version,
           NEW code \in Success, NEW tag, NEW payload,
           r.leaf = "firmware" => tag = v,
           \/ Length[v] = 0 /\ payload = <<>>
           \/ /\ Offset(Asked(r)) < Length[v]
              /\ payload = SubSeq(Bytes(v), Offset(Asked(r)) + 1, LastOf(Asked(r), Length[v]))
    PROVE  Sound(r, BlockResponse(code, Asked(r), Length[v],
                                  MoreAfter(Asked(r), Length[v]), tag, payload), v)
<1> DEFINE b == Asked(r)
           m == BlockResponse(code, b, Length[v], MoreAfter(b, Length[v]), tag, payload)
<1>1. /\ m.code = code /\ m.etag = tag /\ m.payload = payload
      /\ m.block2 = Encode(Block(b.num, MoreAfter(b, Length[v]), b.szx))
  BY DEF BlockResponse, Response
<1>2. code # 400
  BY DEF Success
<1> HIDE DEF m, b
<1>3. BlockOf(b, m, v)
  BY <1>1, Zenon DEF BlockOf, b
<1>4. m.code # 400 /\ (r.leaf = "firmware" => m.etag = v)
  BY <1>1, <1>2, Zenon
<1>5. Sound(r, m, v)
  BY <1>3, <1>4 DEF Sound, b
<1> QED
  BY <1>5 DEF m, b

(* The image came whole, with or without its size: the block is cut out of *)
(* it here, or it is no longer than a block.                               *)
LEMMA WholeImageSound ==
    ASSUME transport \in {"udp", "tcp"}, NEW r \in Requests, NEW v \in Version,
           r.leaf = "firmware", NEW size \in {Length[v], Absent}
    PROVE  Sound(r, firmware(r, Whole(v, size, v)), v)
<1> DEFINE a == Whole(v, size, v)
           b == Asked(r)
           n == Length[v]
<1>1. /\ a.status = 200 /\ a.body = Bytes(v) /\ a.start = Absent /\ a.size = size /\ a.sha = v
  BY DEF Whole, Answer
<1>2. n \in Nat /\ Bytes(v) \in Seq(Stuff(v)) /\ Len(Bytes(v)) = n
  BY BytesTyped
<1>3. b \in Blk /\ Offset(b) \in Nat /\ size_for(b.szx) \in Nat \ {0}
  BY AskedTyped, OffsetTyped
<1>4. Succeeds(a)
  BY <1>1 DEF Succeeds
<1> HIDE DEF a
<1>5. (IF a.start # Absent THEN a.total ELSE IF a.size # Absent THEN a.size ELSE Len(a.body)) = n
  BY <1>1, <1>2
<1>6. firmware(r, a) = IF Misses(b, a, n) THEN OutOfRange
                       ELSE BlockResponse(205, b, n, MoreAfter(b, n), TagOf(b, a), BodyOf(b, a))
  BY <1>4, <1>5, Zenon DEF firmware
<1>7. Misses(b, a, n) <=> Offset(b) >= n /\ n > 0
  BY <1>1 DEF Misses
<1>8. TagOf(b, a) = v
  BY <1>1 DEF TagOf
<1> HIDE DEF b, n
<1>9. CASE Offset(b) >= n /\ n > 0
  <2>1. n <= Offset(b)
    BY <1>2, <1>3, <1>9
  <2>2. firmware(r, a) = OutOfRange
    BY <1>6, <1>7, <1>9, Zenon
  <2> QED BY <2>1, <2>2, RefusalSound DEF a, b, n
<1>10. CASE ~(Offset(b) >= n /\ n > 0)
  <2>1. firmware(r, a) = BlockResponse(205, b, n, MoreAfter(b, n), v, BodyOf(b, a))
    BY <1>6, <1>7, <1>8, <1>10, Zenon
  <2>2. CASE n > size_for(b.szx)
    <3>1. Offset(b) < n
      BY <1>2, <1>3, <1>10, <2>2
    <3>2. BodyOf(b, a) = Slice(Bytes(v), Offset(b), RangeEnd(b))
      BY <1>1, <1>2, <2>2 DEF BodyOf
    <3>3. BodyOf(b, a) = SubSeq(Bytes(v), Offset(b) + 1, LastOf(b, n))
      BY <1>3, <3>2, SliceIsBlock DEF n
    <3>4. 205 \in Success
      BY DEF Success
    <3> QED BY <2>1, <3>1, <3>3, <3>4, BlockSound DEF a, b, n
  <2>3. CASE n <= size_for(b.szx)
    <3>1. BodyOf(b, a) = Bytes(v)
      BY <1>1, <1>2, <1>3, <2>3 DEF BodyOf
    <3>2. 205 \in Success
      BY DEF Success
    <3>3. CASE n = 0
      <4>1. BodyOf(b, a) = <<>>
        BY <3>1, <3>3, EmptyBytes DEF n
      <4> QED BY <2>1, <3>2, <3>3, <4>1, BlockSound DEF a, b, n
    <3>4. CASE n > 0
      <4>1. Offset(b) < n
        BY <1>2, <1>3, <1>10, <3>4
      <4>2. Offset(b) = 0
        BY <1>2, <1>3, <2>3, <4>1, FirstBlock
      <4>3. LastOf(b, n) = n
        BY <1>2, <1>3, <2>3, <4>2 DEF LastOf, MoreAfter
      <4>4. SubSeq(Bytes(v), 1, n) = Bytes(v)
        BY <1>2, WholeSub
      <4>5. BodyOf(b, a) = SubSeq(Bytes(v), Offset(b) + 1, LastOf(b, n))
        BY <3>1, <4>2, <4>3, <4>4
      <4> QED BY <2>1, <3>2, <4>1, <4>5, BlockSound DEF a, b, n
    <3> QED BY <1>2, <3>3, <3>4
  <2> QED BY <1>2, <1>3, <2>2, <2>3
<1> QED
  BY <1>9, <1>10 DEF a

(* The range was honoured, or clamped to a document that ends before it. *)
LEMMA PartialImageSound ==
    ASSUME transport \in {"udp", "tcp"}, NEW r \in Requests, NEW v \in Version,
           r.leaf = "firmware", NEW first \in Nat, NEW last \in Int,
           \/ /\ first = Offset(Asked(r)) /\ first < Length[v]
              /\ last + 1 = LastOf(Asked(r), Length[v])
           \/ first = 0 /\ Length[v] <= Offset(Asked(r)) /\ Length[v] > 0
    PROVE  Sound(r, firmware(r, Partial(v, first, last)), v)
<1> DEFINE a == Partial(v, first, last)
           b == Asked(r)
           n == Length[v]
<1>1. /\ a.status = 206 /\ a.body = SubSeq(Bytes(v), first + 1, last + 1)
      /\ a.start = first /\ a.total = n /\ a.sha = v
  BY DEF Partial, Answer
<1>2. n \in Nat
  BY BytesTyped
<1>3. b \in Blk /\ Offset(b) \in Nat
  BY AskedTyped, OffsetTyped
<1>4. Succeeds(a)
  BY <1>1 DEF Succeeds
<1>5. a.start # Absent
  BY <1>1 DEF Absent
<1> HIDE DEF a
<1>6. firmware(r, a) = IF Misses(b, a, n) THEN OutOfRange
                       ELSE BlockResponse(205, b, n, MoreAfter(b, n), TagOf(b, a), BodyOf(b, a))
  BY <1>1, <1>4, <1>5, Zenon DEF firmware
<1> HIDE DEF b, n
<1>7. CASE first = Offset(b) /\ first < n /\ last + 1 = LastOf(b, n)
  <2>1. ~Misses(b, a, n)
    BY <1>1, <1>2, <1>3, <1>7 DEF Misses
  <2>2. TagOf(b, a) = v /\ BodyOf(b, a) = a.body
    BY <1>1 DEF TagOf, BodyOf
  <2>3. firmware(r, a) = BlockResponse(205, b, n, MoreAfter(b, n), v, a.body)
    BY <1>6, <2>1, <2>2, Zenon
  <2>4. 205 \in Success
    BY DEF Success
  <2>5. a.body = SubSeq(Bytes(v), Offset(b) + 1, LastOf(b, n)) /\ Offset(b) < n
    BY <1>1, <1>7
  <2> QED BY <2>3, <2>4, <2>5, BlockSound DEF a, b, n
<1>8. CASE first = 0 /\ n <= Offset(b) /\ n > 0
  <2>1. Misses(b, a, n)
    BY <1>1, <1>2, <1>3, <1>5, <1>8 DEF Misses
  <2>2. firmware(r, a) = OutOfRange
    BY <1>6, <2>1, Zenon
  <2> QED BY <1>8, <2>2, RefusalSound DEF a, b, n
<1> QED
  BY <1>7, <1>8 DEF a, b, n

LEMMA FirmwareSound ==
    ASSUME transport \in {"udp", "tcp"}, NEW r \in Requests, r.leaf = "firmware",
           NEW v \in Version \cup {None},
           NEW a \in FirmwareAnswers(v, Offset(Asked(r)), RangeEnd(Asked(r)))
    PROVE  Sound(r, firmware(r, a), v)
<1> DEFINE b == Asked(r)
           n == Length[v]
<1>0. ASSUME NEW x, ~Succeeds(x) PROVE firmware(r, x) = ErrorResponse(x)
  BY <1>0, Zenon DEF firmware
<1>1. CASE v = None
  <2>1. a = Plain(404)
    BY <1>1 DEF FirmwareAnswers
  <2> QED BY <1>0, <2>1, FailureSound
<1>2. CASE v \in Version
  <2>1. b \in Blk /\ Offset(b) \in Nat /\ n \in Nat /\ v # None
        /\ size_for(b.szx) \in Nat
    BY <1>2, AskedTyped, OffsetTyped, BytesTyped, DownloadAssumption
  <2>2. \/ a \in {Plain(500), Plain(0)}
        \/ a \in {Whole(v, n, v), Whole(v, Absent, v)}
        \/ /\ Offset(b) < n
           /\ a = Partial(v, Offset(b), IF RangeEnd(b) < n THEN RangeEnd(b) ELSE n - 1)
        \/ Offset(b) >= n /\ a = Plain(416)
        \/ Offset(b) >= n /\ n > 0 /\ a = Partial(v, 0, n - 1)
    <3> HIDE DEF b
    <3>1. a \in FirmwareAnswers(v, Offset(b), RangeEnd(b))
      BY DEF b
    <3>2. a \in Faults \cup {Whole(v, n, v), Whole(v, Absent, v)} \cup
              IF Offset(b) < n
              THEN {Partial(v, Offset(b), IF RangeEnd(b) < n THEN RangeEnd(b) ELSE n - 1)}
              ELSE {Plain(416)} \cup (IF n > 0 THEN {Partial(v, 0, n - 1)} ELSE {})
      BY <2>1, <3>1, Zenon DEF FirmwareAnswers
    <3> HIDE DEF n
    <3>3. CASE Offset(b) < n
      BY <3>2, <3>3, Zenon DEF Faults, Unreachable
    <3>4. CASE ~(Offset(b) < n)
      <4>1. Offset(b) >= n
        BY <2>1, <3>4
      <4>2. a \in Faults \cup {Whole(v, n, v), Whole(v, Absent, v)} \cup
                  ({Plain(416)} \cup (IF n > 0 THEN {Partial(v, 0, n - 1)} ELSE {}))
        BY <3>2, <3>4, Zenon
      <4>3. CASE n > 0
        BY <4>1, <4>2, <4>3, Zenon DEF Faults, Unreachable
      <4>4. CASE ~(n > 0)
        BY <4>1, <4>2, <4>4, Zenon DEF Faults, Unreachable
      <4> QED BY <4>3, <4>4
    <3> QED BY <3>3, <3>4
  <2> HIDE DEF b, n
  <2>3. CASE a \in {Plain(500), Plain(0)}
    BY <1>0, <2>3, FailureSound
  <2>4. CASE a \in {Whole(v, n, v), Whole(v, Absent, v)}
    BY <1>2, <2>4, WholeImageSound DEF n
  <2>5. CASE /\ Offset(b) < n
             /\ a = Partial(v, Offset(b), IF RangeEnd(b) < n THEN RangeEnd(b) ELSE n - 1)
    <3> DEFINE last == IF RangeEnd(b) < n THEN RangeEnd(b) ELSE n - 1
    <3>1. RangeEnd(b) \in Int
      BY <2>1 DEF RangeEnd
    <3>2. last \in Int /\ last + 1 = LastOf(b, n)
      BY <2>1, <3>1, CutFacts
    <3> HIDE DEF last
    <3>3. a = Partial(v, Offset(b), last)
      BY <2>5 DEF last
    <3> QED BY <1>2, <2>1, <2>5, <3>2, <3>3, PartialImageSound DEF b, n
  <2>6. CASE Offset(b) >= n /\ a = Plain(416)
    <3>1. n <= Offset(b)
      BY <2>1, <2>6
    <3> QED BY <1>0, <1>2, <2>6, <3>1, RefusalSound DEF b, n
  <2>7. CASE Offset(b) >= n /\ n > 0 /\ a = Partial(v, 0, n - 1)
    <3>1. n <= Offset(b) /\ n - 1 \in Int /\ 0 \in Nat
      BY <2>1, <2>7
    <3> QED BY <1>2, <2>7, <3>1, PartialImageSound DEF b, n
  <2> QED BY <2>2, <2>3, <2>4, <2>5, <2>6, <2>7
<1> QED
  BY <1>1, <1>2

LEMMA ShadowSound ==
    ASSUME transport \in {"udp", "tcp"}, NEW r \in Requests, r.leaf = "shadow",
           NEW v \in Version, NEW a \in ShadowAnswers(v, r.method)
    PROVE  Sound(r, json_response(r, a), v)
<1> DEFINE b == Asked(r)
           n == Length[v]
           code == IF a.status = 201 THEN 201 ELSE IF r.method = "get" THEN 205 ELSE 204
           whole == r.block2 = Absent /\ ~(transport = "udp" /\ n > size_for(max_szx))
<1>1. CASE a \in {Plain(500), Plain(0)}
  <2>1. ~Succeeds(a) /\ Sound(r, ErrorResponse(a), v)
    BY <1>1, FailureSound
  <2> QED BY <2>1, Zenon DEF json_response
<1>2. CASE a \notin {Plain(500), Plain(0)}
  <2>1. PICK s \in {200, 201} : a = [Whole(v, Absent, None) EXCEPT !.status = s]
    BY <1>2 DEF ShadowAnswers, Faults, Unreachable
  <2>2. a.status = s /\ a.body = Bytes(v)
    BY <2>1 DEF Whole, Answer
  <2>3. Succeeds(a)
    BY <2>2 DEF Succeeds
  <2>4. Len(Bytes(v)) = n /\ n \in Nat
    BY BytesTyped
  <2>5. b \in Blk /\ Offset(b) \in Nat /\ b.num \in Nat
    <3>1. b \in Blk
      BY AskedTyped
    <3> QED BY <3>1, OffsetTyped DEF Blk
  <2>6. code \in Success /\ r.leaf # "firmware" /\ code # 400
    BY DEF Success
  <2> HIDE DEF code
  <2>7. json_response(r, a) =
          IF whole THEN Response(code, Absent, Absent, None, Bytes(v))
          ELSE IF Offset(b) >= n /\ b.num > 0 THEN OutOfRange
          ELSE BlockResponse(code, b, n, MoreAfter(b, n), None,
                             Slice(Bytes(v), Offset(b), RangeEnd(b)))
    <3>1. json_response(r, a) =
            IF r.block2 = Absent /\ ~(transport = "udp" /\ Len(a.body) > size_for(max_szx))
            THEN Response(code, Absent, Absent, None, a.body)
            ELSE IF Offset(b) >= Len(a.body) /\ b.num > 0 THEN OutOfRange
            ELSE BlockResponse(code, b, Len(a.body), MoreAfter(b, Len(a.body)), None,
                               Slice(a.body, Offset(b), RangeEnd(b)))
      BY <2>3, Zenon DEF json_response, code
    <3> HIDE DEF b, n
    <3>2. a.body = Bytes(v) /\ Len(a.body) = n
      BY <2>2, <2>4
    <3> QED BY <3>1, <3>2, Zenon DEF whole
  <2> HIDE DEF b, n, whole
  <2>8. CASE whole
    <3> DEFINE m == Response(code, Absent, Absent, None, Bytes(v))
    <3>1. json_response(r, a) = m
      BY <2>7, <2>8, Zenon
    <3>2. m.code = code /\ m.block2 = Absent /\ m.payload = Bytes(v)
      BY DEF Response
    <3> HIDE DEF m
    <3>3. max_szx \in Szx /\ size_for(max_szx) \in Nat
      BY CeilingTyped, SizeTyped
    <3>4. transport = "udp" => n <= size_for(max_szx)
      BY <2>4, <2>8, <3>3 DEF whole
    <3>5. WholeOf(r, m, v)
      BY <2>8, <3>2, <3>4 DEF WholeOf, whole, n
    <3>6. Sound(r, m, v)
      BY <2>6, <3>2, <3>5 DEF Sound
    <3> QED BY <3>1, <3>6
  <2>9. CASE ~whole /\ Offset(b) >= n /\ b.num > 0
    <3>1. json_response(r, a) = OutOfRange
      BY <2>7, <2>9, Zenon
    <3>2. n <= Offset(b)
      BY <2>4, <2>5, <2>9
    <3> QED BY <3>1, <3>2, RefusalSound DEF b, n
  <2>10. CASE ~whole /\ ~(Offset(b) >= n /\ b.num > 0)
    <3> DEFINE cut == SubSeq(Bytes(v), Offset(b) + 1, LastOf(b, n))
    <3>1. Slice(Bytes(v), Offset(b), RangeEnd(b)) = cut
      BY <2>5, SliceIsBlock DEF n
    <3>2. json_response(r, a) = BlockResponse(code, b, n, MoreAfter(b, n), None, cut)
      BY <2>7, <2>10, <3>1, Zenon
    <3>3. Offset(b) < n \/ (n = 0 /\ cut = <<>>)
      <4> HIDE DEF cut
      <4>1. CASE n = 0
        <5>1. b.szx \in Szx /\ size_for(b.szx) \in Nat
          BY <2>5, OffsetTyped DEF Blk
        <5>2. LastOf(b, n) = 0 /\ Offset(b) + 1 > 0
          BY <2>5, <4>1, <5>1 DEF LastOf, MoreAfter
        <5> QED BY <2>5, <4>1, <5>2, SubSeqEmpty DEF cut
      <4>2. CASE n > 0
        <5>1. b.num = 0 => Offset(b) = 0
          <6>1. size_for(b.szx) \in Nat
            BY <2>5, OffsetTyped
          <6> QED BY <6>1 DEF Offset
        <5> QED BY <2>4, <2>5, <2>10, <4>2, <5>1
      <4> QED BY <2>4, <4>1, <4>2
    <3>4. \/ n = 0 /\ cut = <<>>
          \/ Offset(b) < n /\ cut = SubSeq(Bytes(v), Offset(b) + 1, LastOf(b, n))
      BY <3>3, Zenon
    <3> HIDE DEF cut
    <3>5. code \in Success /\ (r.leaf = "firmware" => None = v)
      BY <2>6
    <3>6. Sound(r, BlockResponse(code, b, n, MoreAfter(b, n), None, cut), v)
      BY <3>4, <3>5, BlockSound DEF b, n
    <3> QED BY <3>2, <3>6
  <2> QED BY <2>8, <2>9, <2>10
<1> QED
  BY <1>1, <1>2

-----------------------------------------------------------------------------
(* The device *)

Prefix(g, v) == Len(g) <= Length[v] /\ g = SubSeq(Bytes(v), 1, Len(g))

LEMMA NothingIsPrefix ==
    ASSUME NEW v \in Version
    PROVE  Prefix(<<>>, v)
<1>1. Len(<<>>) = 0 /\ Length[v] \in Nat
  BY BytesTyped, EmptySeq
<1>2. SubSeq(Bytes(v), 1, 0) = <<>>
  BY SubSeqEmpty
<1> QED
  BY <1>1, <1>2 DEF Prefix

LEMMA PrefixTyped ==
    ASSUME NEW v \in Version, NEW g, Prefix(g, v), Len(g) \in Nat
    PROVE  g \in Seq(Stuff(v)) /\ (g # <<>> => Len(g) > 0)
<1>1. Bytes(v) \in Seq(Stuff(v)) /\ Len(Bytes(v)) = Length[v]
  BY BytesTyped
<1>2. SubSeq(Bytes(v), 0 + 1, Len(g)) \in Seq(Stuff(v))
  BY <1>1, SubLen DEF Prefix
<1>3. g \in Seq(Stuff(v))
  BY <1>2 DEF Prefix
<1> QED
  BY <1>3, EmptySeq

(* The block a served answer names, once it has data *)
LEMMA ServedOffset ==
    ASSUME transport \in {"udp", "tcp"}, NEW r \in Requests, NEW v \in Version, NEW m,
           BlockOf(Asked(r), m, v)
    PROVE  LET b == Asked(r) IN
           /\ m.block2 \in Nat /\ Decode(m.block2).more = MoreAfter(b, Length[v])
           /\ Offset(b) < Length[v] =>
                 /\ Offset(Decode(m.block2)) = Offset(b)
                 /\ r.block2 # Absent => Offset(Decode(r.block2)) = Offset(b)
<1> DEFINE b == Asked(r)
           n == Length[v]
<1>1. /\ b \in Blk /\ b.num \in Nat /\ b.szx \in Szx /\ n \in Nat /\ n <= Reach
      /\ MoreAfter(b, n) \in BOOLEAN /\ Offset(b) \in Nat /\ Reach \in Nat
  <2>1. b \in Blk
    BY AskedTyped
  <2>2. n \in Nat /\ n <= Reach
    BY BytesTyped
  <2>3. Reach \in Nat
    BY BlocksAssumption DEF Reach
  <2> HIDE DEF b, n
  <2> QED BY <2>1, <2>2, <2>3, CutFacts, OffsetTyped DEF Blk
<1>2. m.block2 = Encode(Block(b.num, MoreAfter(b, n), b.szx))
  BY DEF BlockOf
<1>3. r.block2 # Absent => (b.num < NumSpace => Offset(b) = Offset(Decode(r.block2)))
  BY AskedTyped
<1> HIDE DEF b, n
<1>4. /\ m.block2 \in Nat /\ Decode(m.block2).more = MoreAfter(b, n)
      /\ b.num < NumSpace => Decode(m.block2) = Block(b.num, MoreAfter(b, n), b.szx)
  BY <1>1, <1>2, OptionCarries
<1>5. Offset(b) < n => b.num < NumSpace
  <2>1. Offset(b) = b.num * size_for(b.szx)
    BY DEF Offset
  <2>2. Offset(b) < n => Offset(b) < Reach
    BY <1>1
  <2> QED BY <1>1, <2>1, <2>2, WithinReach
<1>6. Offset(Block(b.num, MoreAfter(b, n), b.szx)) = Offset(b)
  BY DEF Offset, Block
<1> QED
  BY <1>3, <1>4, <1>5, <1>6 DEF b, n

(* The block that follows a prefix makes a longer one: all of the version  *)
(* unless more is to come.                                                 *)
LEMMA TakeBlock ==
    ASSUME transport \in {"udp", "tcp"}, NEW r \in Requests, NEW v \in Version, NEW m,
           Sound(r, m, v), Follows(m), Prefix(got, v), Len(got) \in Nat,
           r.block2 = Absent => got = <<>>
    PROVE  LET g == got \o m.payload
               more == m.block2 # Absent /\ Decode(m.block2).more
           IN  /\ Prefix(g, v) /\ Len(g) \in Nat
               /\ more => Len(g) < Length[v]
               /\ ~more => g = Bytes(v)
<1> DEFINE b == Asked(r)
           n == Length[v]
           g == got \o m.payload
           more == m.block2 # Absent /\ Decode(m.block2).more
<1>1. /\ m.code \in Success
      /\ m.block2 # Absent => Offset(Decode(m.block2)) = Len(got)
  BY DEF Follows
<1>2. BlockOf(b, m, v) \/ WholeOf(r, m, v)
  BY <1>1 DEF Sound
<1>3. n \in Nat /\ Bytes(v) \in Seq(Stuff(v)) /\ Len(Bytes(v)) = n /\ got \in Seq(Stuff(v))
  BY BytesTyped, PrefixTyped
<1>4. Prefix(Bytes(v), v)
  BY <1>3, WholeSub DEF Prefix
<1>5. CASE WholeOf(r, m, v)
  <2>1. m.block2 = Absent /\ got = <<>> /\ m.payload = Bytes(v)
    BY <1>5 DEF WholeOf
  <2>2. g = Bytes(v)
    BY <1>3, <2>1, ConcatEmptySeq
  <2> QED BY <1>3, <1>4, <2>1, <2>2
<1>6. CASE BlockOf(b, m, v)
  <2>1. /\ m.block2 # Absent /\ Decode(m.block2).more = MoreAfter(b, n)
        /\ Offset(b) < n => Offset(Decode(m.block2)) = Offset(b)
    <3>1. m.block2 \in Nat
      BY <1>6, ServedOffset
    <3>2. m.block2 # Absent
      BY <3>1 DEF Absent
    <3> QED BY <1>6, <3>2, ServedOffset
  <2>2. b \in Blk /\ Offset(b) \in Nat /\ size_for(b.szx) \in Nat
    BY AskedTyped, OffsetTyped
  <2>3. CASE n = 0 /\ m.payload = <<>>
    <3>1. got = <<>> /\ Bytes(v) = <<>>
      BY <1>3, <2>3, EmptyBytes, EmptySeq DEF Prefix
    <3>2. g = Bytes(v)
      BY <1>3, <2>3, <3>1, ConcatEmptySeq
    <3>3. ~more
      <4>1. ~MoreAfter(b, n)
        BY <2>2, <2>3 DEF MoreAfter
      <4> QED BY <2>1, <4>1
    <3> QED BY <1>3, <1>4, <3>2, <3>3
  <2>4. CASE Offset(b) < n /\ m.payload = SubSeq(Bytes(v), Offset(b) + 1, LastOf(b, n))
    <3> HIDE DEF b, n
    <3>1. Offset(b) = Len(got)
      BY <1>1, <2>1, <2>4
    <3>2. /\ LastOf(b, n) \in Nat /\ Offset(b) <= LastOf(b, n) /\ LastOf(b, n) <= n
          /\ MoreAfter(b, n) => LastOf(b, n) < n
          /\ ~MoreAfter(b, n) => LastOf(b, n) = n
      BY <1>3, <2>2, <2>4, CutFacts
    <3>3. got = SubSeq(Bytes(v), 1, Offset(b))
      BY <3>1 DEF Prefix
    <3>4. g = SubSeq(Bytes(v), 1, LastOf(b, n))
      <4>1. SubSeq(Bytes(v), 1, Offset(b)) \o SubSeq(Bytes(v), Offset(b) + 1, LastOf(b, n))
               = SubSeq(Bytes(v), 1, LastOf(b, n))
        BY <1>3, <2>2, <3>2, Glue
      <4> QED BY <2>4, <3>3, <4>1, Zenon
    <3> HIDE DEF g
    <3>5. Len(g) = LastOf(b, n)
      <4>1. Len(SubSeq(Bytes(v), 0 + 1, LastOf(b, n))) = LastOf(b, n) - 0
        BY <1>3, <3>2, SubLen
      <4>2. 0 + 1 = 1 /\ LastOf(b, n) - 0 = LastOf(b, n)
        BY <3>2
      <4> QED BY <3>4, <4>1, <4>2
    <3>6. Prefix(g, v)
      BY <3>2, <3>4, <3>5 DEF Prefix, n
    <3>7. ~MoreAfter(b, n) => g = Bytes(v)
      BY <1>3, <3>2, <3>4, WholeSub
    <3> QED BY <2>1, <3>2, <3>5, <3>6, <3>7 DEF g, n
  <2> QED BY <1>6, <2>3, <2>4 DEF BlockOf
<1> QED
  BY <1>2, <1>5, <1>6

-----------------------------------------------------------------------------
(* The inductive invariant *)

TypeInv ==
    /\ transport \in {"udp", "tcp"}
    /\ doc \in [Leaf -> Version \cup {None}] /\ doc["shadow"] \in Version
    /\ phase \in {"idle", "fetching", "done"} /\ (phase # "idle" => leaf \in Leaf)
    /\ clean \in BOOLEAN

(* A device asks for what it is missing. *)
ReqInv ==
    /\ req # None => req \in Requests
    /\ phase = "fetching" /\ req # None =>
          /\ req.leaf = leaf
          /\ IF req.block2 = Absent THEN got = <<>> ELSE Offset(Decode(req.block2)) = Len(got)

(* An answer is sound, and of the current version while that stays. *)
RespInv ==
    /\ resp # None => req # None /\ Sound(req, resp.msg, resp.of)
    /\ phase = "fetching" /\ clean /\ resp # None => resp.of = doc[leaf]

(* A device has the beginning of the image it holds the ETag of, and a     *)
(* proper part of a document that stays.                                   *)
GotInv ==
    /\ phase = "idle" => got = <<>> /\ etag = None
    /\ phase # "idle" /\ leaf = "firmware" =>
          IF etag = None THEN got = <<>>
          ELSE etag \in Version /\ Len(got) \in Nat /\ Prefix(got, etag)
    /\ phase = "fetching" /\ clean /\ got # <<>> =>
          /\ doc[leaf] \in Version /\ Len(got) \in Nat /\ Prefix(got, doc[leaf])
          /\ Len(got) < Length[doc[leaf]]
    /\ DownloadsWhole

DownloadInv == TypeInv /\ ReqInv /\ RespInv /\ GotInv

(* Soundness is about the transport and the answer, not about the rest. *)
LEMMA SoundStays ==
    ASSUME UNCHANGED transport
    PROVE  /\ Sound(req, resp.msg, resp.of)' <=> Sound(req', resp'.msg, resp'.of)
           /\ max_szx' = max_szx
<1>1. max_szx' = max_szx
  BY DEF max_szx, SzxForBytes, size_for, Shift, MaxSzx
<1> HIDE DEF max_szx
<1> QED
  BY <1>1 DEF Sound, BlockOf, WholeOf, Asked

LEMMA InitEstablishes == Init => DownloadInv
<1> SUFFICES ASSUME Init PROVE DownloadInv
  OBVIOUS
<1>1. TypeInv
  BY DEF Init, TypeInv, Leaf
<1>2. ReqInv /\ RespInv
  BY DEF Init, ReqInv, RespInv
<1>3. GotInv
  BY DEF Init, GotInv, DownloadsWhole
<1> QED
  BY <1>1, <1>2, <1>3 DEF DownloadInv

(* Steps of the device, dovecote and the network that take no answer *)
LEMMA HandlePreserves == DownloadInv /\ Handle => DownloadInv'
<1> SUFFICES ASSUME DownloadInv, Handle PROVE DownloadInv'
  OBVIOUS
<1> USE DEF DownloadInv
<1>1. /\ UNCHANGED <<transport, doc, changes, req, phase, leaf, got, etag, clean>>
      /\ req # None /\ req \in Requests
  BY DEF Handle, device, ReqInv
<1>2. PICK a \in device_request(req) :
         resp' = [msg |-> IF req.leaf = "firmware" THEN firmware(req, a)
                          ELSE json_response(req, a),
                  of |-> doc[req.leaf]]
  BY DEF Handle
<1>3. resp'.of = doc[req.leaf] /\ Sound(req, resp'.msg, resp'.of)
  <2>1. transport \in {"udp", "tcp"} /\ doc[req.leaf] \in Version \cup {None}
        /\ doc["shadow"] \in Version
    BY <1>1 DEF TypeInv, Requests
  <2>2. CASE req.leaf = "firmware"
    <3>1. a \in FirmwareAnswers(doc["firmware"], Offset(Asked(req)), RangeEnd(Asked(req)))
      BY <2>2 DEF device_request
    <3>2. resp'.msg = firmware(req, a) /\ resp'.of = doc["firmware"]
      BY <1>2, <2>2
    <3> QED BY <1>1, <2>1, <2>2, <3>1, <3>2, FirmwareSound
  <2>3. CASE req.leaf = "shadow"
    <3>1. a \in ShadowAnswers(doc["shadow"], req.method)
      BY <2>3 DEF device_request
    <3>2. resp'.msg = json_response(req, a) /\ resp'.of = doc["shadow"]
      BY <1>2, <2>3
    <3> QED BY <1>1, <2>1, <2>3, <3>1, <3>2, ShadowSound
  <2> QED BY <1>1, <2>2, <2>3 DEF Requests, Leaf
<1>4. TypeInv'
  BY <1>1 DEF TypeInv
<1>5. ReqInv'
  BY <1>1 DEF ReqInv
<1>6. GotInv'
  BY <1>1 DEF GotInv, Prefix, DownloadsWhole
<1>7. RespInv'
  <2>1. Sound(req, resp.msg, resp.of)'
    BY <1>1, <1>3, SoundStays
  <2>2. phase = "fetching" => req.leaf = leaf
    BY <1>1 DEF ReqInv
  <2> QED BY <1>1, <1>3, <2>1, <2>2 DEF RespInv
<1> QED
  BY <1>4, <1>5, <1>6, <1>7

LEMMA LosePreserves == DownloadInv /\ LoseAnswer => DownloadInv'
<1> SUFFICES ASSUME DownloadInv, LoseAnswer PROVE DownloadInv'
  OBVIOUS
<1>1. /\ UNCHANGED <<transport, doc, changes, req, phase, leaf, got, etag, clean>>
      /\ resp' = None
  BY DEF LoseAnswer, device
<1>2. TypeInv' /\ ReqInv'
  BY <1>1 DEF DownloadInv, TypeInv, ReqInv
<1>3. GotInv'
  BY <1>1 DEF DownloadInv, GotInv, Prefix, DownloadsWhole
<1>4. RespInv'
  BY <1>1 DEF RespInv
<1> QED
  BY <1>2, <1>3, <1>4 DEF DownloadInv

LEMMA ChangePreserves ==
    ASSUME DownloadInv, NEW l \in Leaf, NEW v \in Version \cup {None}, Change(l, v)
    PROVE  DownloadInv'
<1> USE DEF DownloadInv
<1>1. /\ UNCHANGED <<transport, req, resp, phase, leaf, got, etag>>
      /\ doc' = [doc EXCEPT ![l] = v] /\ (l = "shadow" => v # None)
      /\ clean' = (clean /\ (phase = "idle" \/ l # leaf))
  BY DEF Change, device
<1>2. TypeInv'
  <2>1. doc' \in [Leaf -> Version \cup {None}] /\ doc'["shadow"] \in Version
    BY <1>1 DEF TypeInv, Leaf
  <2>2. clean' \in BOOLEAN
    BY <1>1
  <2> QED BY <1>1, <2>1, <2>2 DEF TypeInv
<1>3. phase # "idle" /\ clean' => clean /\ doc'[leaf] = doc[leaf]
  <2>1. phase # "idle" /\ clean' => clean /\ l # leaf
    BY <1>1, Zenon
  <2>2. phase # "idle" => leaf \in Leaf
    BY DEF TypeInv
  <2> QED BY <1>1, <2>1, <2>2 DEF TypeInv
<1>4. ReqInv'
  BY <1>1 DEF ReqInv
<1>5. RespInv'
  <2>1. resp # None => Sound(req, resp.msg, resp.of)'
    BY <1>1, SoundStays DEF RespInv
  <2> QED BY <1>1, <1>3, <2>1 DEF RespInv
<1>6. GotInv'
  <2>1. DownloadsWhole'
    <3>1. phase = "done" /\ leaf = "shadow" /\ clean' => clean /\ doc'["shadow"] = doc["shadow"]
      BY <1>3
    <3> QED BY <1>1, <3>1 DEF GotInv, DownloadsWhole, Bytes
  <2> HIDE DEF DownloadsWhole
  <2>2. phase = "fetching" /\ clean' => clean /\ doc'[leaf] = doc[leaf]
    BY <1>3
  <2> QED BY <1>1, <2>1, <2>2 DEF GotInv, Prefix
<1> QED
  BY <1>2, <1>4, <1>5, <1>6

LEMMA AskPreserves ==
    ASSUME DownloadInv,
           \/ Ask
           \/ \E l \in Leaf, method \in {"get", "post"}, value \in Word \cup {Absent} :
                 Probe(l, method, value)
    PROVE  DownloadInv'
<1> USE DEF DownloadInv
<1>1. /\ UNCHANGED <<transport, doc, changes, resp, phase, leaf, got, etag, clean>>
      /\ req = None
  BY DEF Ask, Probe, device
<1>2. TypeInv' /\ GotInv'
  <2>1. TypeInv'
    BY <1>1 DEF TypeInv
  <2>2. GotInv'
    BY <1>1 DEF GotInv, Prefix, DownloadsWhole
  <2> QED BY <2>1, <2>2
<1>3. RespInv'
  BY <1>1 DEF RespInv
<1>4. ReqInv'
  <2>1. CASE Ask
    <3>1. PICK value \in Continuations \cup (IF got = <<>> THEN {Absent} ELSE {}) :
             phase = "fetching" /\ req' = Request(leaf, "get", value)
      BY <2>1 DEF Ask
    <3>2. leaf \in Leaf
      BY <3>1 DEF TypeInv
    <3>3. \/ value = Absent /\ got = <<>>
          \/ value \in Word /\ Offset(Decode(value)) = Len(got)
      BY <3>1 DEF Continuations
    <3>4. value \in Word \cup {Absent}
      BY <3>3
    <3>5. /\ req' \in Requests /\ req'.leaf = leaf /\ req'.block2 = value
      BY <3>1, <3>2, <3>4 DEF Requests, Request
    <3>6. value \in Word => value # Absent
      BY DEF Word, Absent
    <3> QED BY <1>1, <3>3, <3>5, <3>6 DEF ReqInv
  <2>2. CASE \E l \in Leaf, method \in {"get", "post"}, value \in Word \cup {Absent} :
                Probe(l, method, value)
    <3>1. req' \in Requests /\ phase = "idle"
      BY <2>2 DEF Probe, Request, Requests
    <3> QED BY <1>1, <3>1 DEF ReqInv
  <2> QED BY <2>1, <2>2
<1> QED
  BY <1>2, <1>3, <1>4

LEMMA BeginPreserves ==
    ASSUME DownloadInv, NEW l \in Leaf, Begin(l)
    PROVE  DownloadInv'
<1> USE DEF DownloadInv
<1>1. /\ UNCHANGED <<transport, doc, changes, req, resp, got, etag, clean>>
      /\ phase = "idle" /\ phase' = "fetching" /\ leaf' = l /\ req = None
  BY DEF Begin
<1>2. got = <<>> /\ etag = None /\ resp = None
  BY <1>1 DEF GotInv, RespInv
<1>3. TypeInv'
  BY <1>1 DEF TypeInv
<1>4. ReqInv' /\ RespInv'
  BY <1>1, <1>2 DEF ReqInv, RespInv
<1>5. GotInv'
  BY <1>1, <1>2 DEF GotInv, DownloadsWhole
<1> QED
  BY <1>3, <1>4, <1>5

LEMMA FinishPreserves == DownloadInv /\ Finish => DownloadInv'
<1> SUFFICES ASSUME DownloadInv, Finish PROVE DownloadInv'
  OBVIOUS
<1> USE DEF DownloadInv
<1>1. /\ UNCHANGED <<transport, doc, changes, req, resp>>
      /\ phase' = "idle" /\ got' = <<>> /\ etag' = None /\ clean' = TRUE
  BY DEF Finish, Forget
<1>2. TypeInv'
  BY <1>1 DEF TypeInv
<1>3. ReqInv'
  BY <1>1 DEF ReqInv
<1>4. RespInv'
  <2>1. resp # None => Sound(req, resp.msg, resp.of)'
    BY <1>1, SoundStays DEF RespInv
  <2> QED BY <1>1, <2>1 DEF RespInv
<1>5. GotInv'
  BY <1>1 DEF GotInv, DownloadsWhole
<1> QED
  BY <1>2, <1>3, <1>4, <1>5

LEMMA TakePreserves == DownloadInv /\ Take => DownloadInv'
<1> SUFFICES ASSUME DownloadInv, Take PROVE DownloadInv'
  OBVIOUS
<1> USE DEF DownloadInv
<1> DEFINE m == resp.msg
           v == resp.of
           more == m.block2 # Absent /\ Decode(m.block2).more
<1>1. /\ UNCHANGED <<transport, doc, changes>>
      /\ resp # None /\ req' = None /\ resp' = None
  BY DEF Take
<1>2. ReqInv' /\ RespInv'
  BY <1>1 DEF ReqInv, RespInv
<1>3. CASE ~(phase = "fetching" /\ Follows(m))
  <2>1. Forget
    BY <1>3, Zenon DEF Take
  <2>2. TypeInv'
    BY <1>1, <2>1 DEF Forget, TypeInv
  <2>3. GotInv'
    BY <1>1, <2>1 DEF Forget, GotInv, DownloadsWhole
  <2> QED BY <1>2, <2>2, <2>3
<1>4. CASE phase = "fetching" /\ Follows(m)
  <2>1. /\ got' = got \o m.payload /\ etag' = (IF etag = None THEN m.etag ELSE etag)
        /\ phase' = (IF more THEN "fetching" ELSE "done")
        /\ leaf' = leaf /\ clean' = clean
    BY <1>4, Zenon DEF Take
  <2>2. /\ req \in Requests /\ Sound(req, m, v) /\ req.leaf = leaf /\ leaf \in Leaf
        /\ req.block2 = Absent => got = <<>>
        /\ transport \in {"udp", "tcp"}
    BY <1>1, <1>4 DEF ReqInv, RespInv, TypeInv
  <2>3. v \in Version /\ v # None /\ (leaf = "firmware" => m.etag = v)
    <3>1. m.code \in Success
      BY <1>4 DEF Follows
    <3> QED BY <2>2, <3>1, DownloadAssumption DEF Sound
  <2> HIDE DEF m, v, more
  <2>4. ASSUME Len(got) \in Nat, Prefix(got, v)
        PROVE  /\ Prefix(got', v) /\ Len(got') \in Nat
               /\ more => Len(got') < Length[v]
               /\ ~more => got' = Bytes(v)
    BY <1>4, <2>1, <2>2, <2>3, <2>4, TakeBlock DEF more
  <2>5. ASSUME got = <<>> PROVE Len(got) \in Nat /\ Prefix(got, v)
    BY <2>3, <2>5, NothingIsPrefix, EmptySeq
  <2>6. phase' # "idle" /\ (phase' = "fetching" <=> more) /\ (phase' = "done" <=> ~more)
    BY <2>1
  <2>7. TypeInv'
    BY <1>1, <2>1, <2>2 DEF TypeInv
  <2>8. leaf = "firmware" =>
           /\ etag' = v /\ Len(got) \in Nat /\ Prefix(got, v)
    <3>1. SUFFICES ASSUME leaf = "firmware"
                   PROVE  etag' = v /\ Len(got) \in Nat /\ Prefix(got, v)
      OBVIOUS
    <3>2. CASE etag = None
      <4>1. got = <<>>
        BY <1>4, <3>1, <3>2 DEF GotInv
      <4> QED BY <2>1, <2>3, <2>5, <3>1, <3>2, <4>1
    <3>3. CASE etag # None
      <4>1. etag = v
        BY <1>4, <2>3, <3>1, <3>3 DEF Follows
      <4>2. Len(got) \in Nat /\ Prefix(got, etag)
        BY <1>4, <3>1, <3>3 DEF GotInv
      <4> QED BY <2>1, <3>3, <4>1, <4>2
    <3> QED BY <3>2, <3>3
  <2>9. clean => /\ doc[leaf] = v /\ Len(got) \in Nat /\ Prefix(got, v)
    <3>1. SUFFICES ASSUME clean PROVE doc[leaf] = v /\ Len(got) \in Nat /\ Prefix(got, v)
      OBVIOUS
    <3>2. doc[leaf] = v
      BY <1>1, <1>4, <3>1 DEF RespInv, v
    <3>3. CASE got = <<>>
      BY <2>5, <3>2, <3>3
    <3>4. CASE got # <<>>
      BY <1>4, <3>1, <3>2, <3>4 DEF GotInv
    <3> QED BY <3>3, <3>4
  <2>10. DownloadsWhole'
    <3>1. leaf = "firmware" /\ ~more => got' = Bytes(etag')
      BY <2>4, <2>8
    <3>2. leaf = "shadow" /\ clean /\ ~more => got' = Bytes(doc["shadow"])
      BY <2>4, <2>9
    <3> HIDE DEF DownloadInv
    <3> QED BY <1>1, <2>1, <2>6, <3>1, <3>2 DEF DownloadsWhole, Bytes
  <2>11. leaf = "firmware" => etag' # None /\ etag' \in Version /\ Len(got') \in Nat
                              /\ Prefix(got', etag')
    BY <2>3, <2>4, <2>8
  <2>12. phase' = "fetching" /\ clean =>
            /\ doc[leaf] \in Version /\ Len(got') \in Nat /\ Prefix(got', doc[leaf])
            /\ Len(got') < Length[doc[leaf]]
    BY <2>3, <2>4, <2>6, <2>9
  <2>13. GotInv'
    <3> HIDE DEF DownloadInv, DownloadsWhole
    <3> QED BY <1>1, <2>1, <2>6, <2>10, <2>11, <2>12 DEF GotInv, Prefix
  <2> QED BY <1>2, <2>7, <2>13
<1> QED
  BY <1>3, <1>4

-----------------------------------------------------------------------------
(* The strengthening holds throughout: every answer is that of one version, *)
(* and what a device has is the beginning of one.                          *)
THEOREM DownloadInvariant == Spec => []DownloadInv
<1>1. DownloadInv /\ [Next]_vars => DownloadInv'
  <2> SUFFICES ASSUME DownloadInv, [Next]_vars PROVE DownloadInv'
    OBVIOUS
  <2>1. CASE Handle
    BY <2>1, HandlePreserves
  <2>2. CASE LoseAnswer
    BY <2>2, LosePreserves
  <2>3. CASE Ask \/ \E l \in Leaf, method \in {"get", "post"}, value \in Word \cup {Absent} :
                       Probe(l, method, value)
    BY <2>3, AskPreserves
  <2>4. CASE Take
    BY <2>4, TakePreserves
  <2>5. CASE Finish
    BY <2>5, FinishPreserves
  <2>6. CASE \E l \in Leaf : Begin(l) \/ \E v \in Version \cup {None} : Change(l, v)
    BY <2>6, BeginPreserves, ChangePreserves
  <2>7. CASE UNCHANGED vars
    <3>1. UNCHANGED <<transport, doc, changes, req, resp, phase, leaf, got, etag, clean>>
      BY <2>7 DEF vars, device
    <3>2. TypeInv' /\ ReqInv'
      BY <3>1 DEF DownloadInv, TypeInv, ReqInv
    <3>3. GotInv'
      BY <3>1 DEF DownloadInv, GotInv, Prefix, DownloadsWhole
    <3>4. RespInv'
      BY <3>1, SoundStays DEF DownloadInv, RespInv
    <3> QED BY <3>2, <3>3, <3>4 DEF DownloadInv
  <2> QED BY <2>1, <2>2, <2>3, <2>4, <2>5, <2>6, <2>7 DEF Next
<1> QED
  BY <1>1, InitEstablishes, PTL DEF Spec

(* An answer with data has the bytes at the offset the request asked for,  *)
(* and names that offset, for every block number and size a device can ask *)
(* for, every ceiling and every document within the numbers' reach.        *)
THEOREM OffsetsAnswered == Spec => []AnswersTheOffset
<1>1. DownloadInv => AnswersTheOffset
  <2> SUFFICES ASSUME DownloadInv, Answered, req.block2 # Absent
               PROVE  LET m == resp.msg
                          wanted == Decode(req.block2)
                          served == Decode(m.block2)
                          start == Offset(wanted)
                      IN  IF m.payload = <<>> THEN Length[resp.of] = 0
                          ELSE /\ Offset(served) = start
                               /\ Len(m.payload) <= size_for(wanted.szx)
                               /\ start + Len(m.payload) <= Length[resp.of]
                               /\ m.payload = SubSeq(Bytes(resp.of), start + 1,
                                                     start + Len(m.payload))
    BY DEF AnswersTheOffset
  <2> DEFINE m == resp.msg
             v == resp.of
             b == Asked(req)
             n == Length[v]
             w == Decode(req.block2)
  <2>1. /\ req \in Requests /\ transport \in {"udp", "tcp"}
        /\ Sound(req, m, v) /\ m.code \in Success
    BY DEF DownloadInv, TypeInv, ReqInv, RespInv, Answered
  <2>2. v \in Version /\ BlockOf(b, m, v)
    BY <2>1 DEF Sound, WholeOf
  <2>3. /\ b \in Blk /\ w \in Blk /\ b.szx <= w.szx
        /\ Offset(b) < n => Offset(Decode(m.block2)) = Offset(b) /\ Offset(w) = Offset(b)
    BY <2>1, <2>2, AskedTyped, ServedOffset
  <2>4. n \in Nat /\ Bytes(v) \in Seq(Stuff(v)) /\ Len(Bytes(v)) = n
    BY <2>2, BytesTyped
  <2> HIDE DEF m, v, b, n, w
  <2>5. CASE n = 0 /\ m.payload = <<>>
    BY <2>5 DEF n, m, v
  <2>6. CASE Offset(b) < n /\ m.payload = SubSeq(Bytes(v), Offset(b) + 1, LastOf(b, n))
    <3>1. /\ LastOf(b, n) \in Nat /\ Offset(b) < LastOf(b, n) /\ LastOf(b, n) <= n
          /\ LastOf(b, n) - Offset(b) <= size_for(b.szx) /\ Offset(b) \in Nat
      BY <2>3, <2>4, <2>6, CutFacts, OffsetTyped
    <3>2. Len(m.payload) = LastOf(b, n) - Offset(b)
      BY <2>4, <2>6, <3>1, SubLen
    <3>3. /\ size_for(b.szx) <= size_for(w.szx)
          /\ size_for(b.szx) \in Nat /\ size_for(w.szx) \in Nat
      BY <2>3, Sizes DEF Blk
    <3>4. Len(m.payload) <= size_for(w.szx) /\ Offset(w) + Len(m.payload) = LastOf(b, n)
      BY <2>3, <2>6, <3>1, <3>2, <3>3
    <3>5. Offset(w) + Len(m.payload) <= n
      BY <3>1, <3>4
    <3>6. m.payload = SubSeq(Bytes(v), Offset(w) + 1, Offset(w) + Len(m.payload))
      BY <2>3, <2>6, <3>4
    <3>7. m.payload # <<>>
      <4>1. Len(m.payload) # 0
        BY <3>1, <3>2
      <4> QED BY <4>1, EmptySeq
    <3>8. Offset(Decode(m.block2)) = Offset(w)
      BY <2>3, <2>6
    <3> QED BY <3>4, <3>5, <3>6, <3>7, <3>8 DEF m, v, n, w
  <2> QED BY <2>2, <2>5, <2>6 DEF BlockOf, n
<1> QED
  BY <1>1, DownloadInvariant, PTL

(* No datagram carries more of a document than LOFT_UDP_MAX_BLOCK_BYTES. *)
THEOREM CeilingKept == Spec => []DatagramsFit
<1>1. DownloadInv => DatagramsFit
  <2> SUFFICES ASSUME DownloadInv, Answered, transport = "udp"
               PROVE  Len(resp.msg.payload) <= UdpMaxBlock
    BY DEF DatagramsFit
  <2> DEFINE m == resp.msg
             v == resp.of
             b == Asked(req)
             n == Length[v]
  <2>1. req \in Requests /\ Sound(req, m, v) /\ m.code \in Success
    BY DEF DownloadInv, ReqInv, RespInv, Answered
  <2>2. v \in Version /\ (BlockOf(b, m, v) \/ WholeOf(req, m, v))
    BY <2>1 DEF Sound
  <2>3. /\ max_szx \in Szx /\ size_for(max_szx) = UdpMaxBlock
        /\ b \in Blk /\ b.szx <= max_szx
    BY <2>1, CeilingTyped, AskedTyped
  <2>4. n \in Nat /\ Bytes(v) \in Seq(Stuff(v)) /\ Len(Bytes(v)) = n
    BY <2>2, BytesTyped
  <2> HIDE DEF m, v, b, n
  <2>5. /\ size_for(b.szx) <= UdpMaxBlock /\ size_for(b.szx) \in Nat /\ UdpMaxBlock \in Nat
        /\ Offset(b) \in Nat
    BY <2>3, Sizes, OffsetTyped DEF Blk
  <2>6. CASE WholeOf(req, m, v)
    BY <2>3, <2>4, <2>6 DEF WholeOf, m, n
  <2>7. CASE n = 0 /\ m.payload = <<>>
    BY <2>5, <2>7, EmptySeq DEF m
  <2>8. CASE Offset(b) < n /\ m.payload = SubSeq(Bytes(v), Offset(b) + 1, LastOf(b, n))
    <3>1. /\ LastOf(b, n) \in Nat /\ Offset(b) < LastOf(b, n) /\ LastOf(b, n) <= n
          /\ LastOf(b, n) - Offset(b) <= size_for(b.szx)
      BY <2>3, <2>4, <2>8, CutFacts
    <3>2. Len(m.payload) = LastOf(b, n) - Offset(b)
      BY <2>4, <2>5, <2>8, <3>1, SubLen
    <3> QED BY <2>5, <3>1, <3>2 DEF m
  <2> QED BY <2>2, <2>6, <2>7, <2>8 DEF BlockOf, n
<1> QED
  BY <1>1, DownloadInvariant, PTL

(* The bytes a device with an ETag holds are the beginning of the image    *)
(* that ETag names, however often dovecote replaced it.                    *)
THEOREM OneImage == Spec => []ImagesNeverMixed
<1>1. DownloadInv => ImagesNeverMixed
  BY DEF DownloadInv, GotInv, Prefix, ImagesNeverMixed
<1> QED
  BY <1>1, DownloadInvariant, PTL

(* A download that ended with the last block is all of the document. *)
THEOREM NothingMissing == Spec => []DownloadsWhole
<1>1. DownloadInv => DownloadsWhole
  BY DEF DownloadInv, GotInv
<1> QED
  BY <1>1, DownloadInvariant, PTL

(* While the document stays, no block the more bit announced is refused. *)
THEOREM MoreIsServed == Spec => []NeverStranded
<1>1. DownloadInv => NeverStranded
  <2> SUFFICES ASSUME DownloadInv, phase = "fetching", clean, resp # None,
                      resp.msg.code = 400
               PROVE  resp.of # None /\ Length[resp.of] = 0
    BY DEF NeverStranded
  <2> DEFINE v == resp.of
             b == Asked(req)
             w == Decode(req.block2)
  <2>1. /\ req \in Requests /\ transport \in {"udp", "tcp"} /\ v = doc[leaf]
        /\ Sound(req, resp.msg, v)
        /\ IF req.block2 = Absent THEN got = <<>> ELSE Offset(w) = Len(got)
    BY DEF DownloadInv, TypeInv, ReqInv, RespInv
  <2>2. v \in Version /\ v # None /\ Length[v] <= Offset(b)
    BY <2>1, DownloadAssumption DEF Sound
  <2>3. Length[v] \in Nat /\ Length[v] <= Reach /\ Reach \in Nat \ {0}
    <3>1. Reach \in Nat \ {0}
      <4>1. NumSpace \in Nat \ {0} /\ BaseSize \in Nat \ {0}
        BY BlocksAssumption
      <4>2. 1 * BaseSize <= NumSpace * BaseSize
        BY <4>1, Grows
      <4> QED BY <4>1, <4>2 DEF Reach
    <3> QED BY <2>2, <3>1, BytesTyped
  <2>4. /\ req.block2 = Absent => Offset(b) = 0
        /\ req.block2 # Absent => (Offset(w) < Reach => Offset(b) = Offset(w))
    BY <2>1, AskedTyped
  <2>5. got # <<>> => Len(got) \in Nat /\ Len(got) < Length[v]
    BY <2>1 DEF DownloadInv, GotInv
  <2>6. got = <<>> => Len(got) = 0
    BY EmptySeq
  <2> HIDE DEF v, b, w
  <2>7. CASE req.block2 = Absent
    BY <2>2, <2>3, <2>4, <2>7 DEF v
  <2>8. CASE req.block2 # Absent
    <3>1. Offset(w) = Len(got) /\ Len(got) < Reach /\ Len(got) \in Nat
      BY <2>1, <2>3, <2>5, <2>6, <2>8
    <3>2. Offset(b) = Len(got)
      BY <2>4, <2>8, <3>1
    <3>3. got = <<>>
      BY <2>2, <2>3, <2>5, <3>1, <3>2
    <3> QED BY <2>2, <2>3, <2>6, <3>2, <3>3 DEF v
  <2> QED BY <2>7, <2>8
<1> QED
  BY <1>1, DownloadInvariant, PTL
=============================================================================
