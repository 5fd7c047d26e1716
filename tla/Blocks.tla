------------------------------- MODULE Blocks -------------------------------
(***************************************************************************)
(* The Block option (loft/src/coap/block.rs) and the unsigned integers that *)
(* carry it (loft/src/coap/message.rs).  The layout of the value and the   *)
(* exponents are the code's; how many block numbers a word has room for    *)
(* and the smallest block are parameters, 2^28 and 16 bytes in the code.   *)
(***************************************************************************)
EXTENDS Integers, Sequences

CONSTANTS
    NumSpace,  \* block numbers that fit the u32 an option value is decoded to
    BaseSize   \* bytes of the smallest block

ASSUME BlocksAssumption == NumSpace \in Nat \ {0} /\ BaseSize \in Nat \ {0}

MaxSzx == 6                  \* MAX_SZX
WordSize == 16 * NumSpace    \* 2^32 in the code
Word == 0 .. WordSize - 1
Absent == -1                 \* no option, or one of more than four bytes

Shift(k) == <<1, 2, 4, 8, 16, 32, 64>>[k + 1]    \* 1 << k

size_for(szx) == Shift(szx) * BaseSize

Block(num, more, szx) == [num |-> num, more |-> more, szx |-> szx]
Offset(b) == b.num * size_for(b.szx)

(* num << 4 | m << 3 | szx; BERT's szx of 7 is taken for 6. *)
Decode(value) ==
    Block(value \div 16, (value \div 8) % 2 = 1,
          IF value % 8 > MaxSzx THEN MaxSzx ELSE value % 8)

(* The shift loses what does not fit the word. *)
Encode(b) == ((b.num * 16) % WordSize) + (IF b.more THEN 8 ELSE 0) + b.szx

\* Bug: the rescaled number wraps around.
CappedWrapping(b, max_szx) ==
    IF b.szx <= max_szx THEN b
    ELSE Block((b.num * Shift(b.szx - max_szx)) % WordSize, b.more, max_szx)

(* The same offset in blocks of at most max_szx; the product saturates. *)
Capped(b, max_szx) ==
    IF b.szx <= max_szx THEN b
    ELSE LET n == b.num * Shift(b.szx - max_szx) IN
         Block(IF n \in Word THEN n ELSE WordSize - 1, b.more, max_szx)

(* The last byte of the block: byte_range is Offset(b) .. RangeEnd(b). *)
RangeEnd(b) == Offset(b) + size_for(b.szx) - 1

\* Bug: the block that ends with the document is taken for an inner one.
MoreAfterInclusive(b, total) == Offset(b) + size_for(b.szx) <= total

\* Bug: the last byte of the document is forgotten.
MoreAfterShort(b, total) == Offset(b) + size_for(b.szx) + 1 < total

MoreAfter(b, total) == Offset(b) + size_for(b.szx) < total

(* szx_for_bytes: the exponents whose block has this many bytes *)
SzxForBytes(bytes) == {szx \in 0 .. MaxSzx : size_for(szx) = bytes}
=============================================================================
