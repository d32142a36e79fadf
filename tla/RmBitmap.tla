------------------------------ MODULE RmBitmap ------------------------------
(***************************************************************************)
(* A page of a record file down to its bytes: the sizes create_file        *)
(* computes for the record size of the file, and bitmap.h on the bitmap    *)
(* they leave room for.  Position pos is bit 7 - pos % 8 of byte pos / 8.  *)
(* A byte is a number in 0..255; that char is signed makes no difference   *)
(* to | and &, nor to the comparison with 0.  One operand of | and & is    *)
(* always a single bit or all bits but one.                                *)
(***************************************************************************)
EXTENDS RmPage

CONSTANT
  Sizes           \* the record sizes create_file is called with

ASSUME SizesAssumption == Sizes \subseteq Int

VARIABLES
  record_size,    \* of the file, 0 as long as there is none
  bm,             \* the bytes of the bitmap
  bits            \* what was set and not reset: the set that bm stands for

vars == <<record_size, bm, bits>>

RM_MAX_RECORD_SIZE == 512
BITMAP_HIGHEST_BIT == 128

max_n == NumRecordsPerPage(record_size)
bitmap_size == BitmapSize(max_n)

Init ==
  /\ record_size = 0
  /\ bm = <<>>
  /\ bits = {}

\* RmManager::create_file, and Bitmap::init for the file's first page.  Any
\* other size is an InvalidRecordSizeError, before a file is created.
CreateFile(size) ==
  /\ record_size = 0
  /\ size >= 1 /\ size <= RM_MAX_RECORD_SIZE
  /\ record_size' = size
  /\ bm' = [i \in 0..(BitmapSize(NumRecordsPerPage(size)) - 1) |-> 0]
  /\ UNCHANGED bits

-----------------------------------------------------------------------------
GetBucket(pos) == pos \div BITMAP_WIDTH

\* BITMAP_HIGHEST_BIT shifted to the right.
GetBit(pos) ==
  LET shifted[i \in 0..(BITMAP_WIDTH - 1)] ==
        IF i = 0 THEN BITMAP_HIGHEST_BIT ELSE shifted[i - 1] \div 2
  IN  shifted[pos % BITMAP_WIDTH]

\* byte & bit is not 0, for a power of two.
HasBit(byte, bit) == (byte \div bit) % 2 = 1

IsSet(pos) == HasBit(bm[GetBucket(pos)], GetBit(pos))

\* (mutant) the loop starts at curr
NextBitFromCurr(bit, curr) ==
  LET loop[i \in 0..max_n] ==
        IF i = max_n THEN max_n ELSE IF IsSet(i) = bit THEN i ELSE loop[i + 1]
  IN  loop[IF curr < 0 THEN 0 ELSE curr]

\* next_bit's loop.
NextBitLoop(bit, curr) ==
  LET loop[i \in 0..max_n] ==
        IF i = max_n THEN max_n ELSE IF IsSet(i) = bit THEN i ELSE loop[i + 1]
  IN  loop[curr + 1]

\* byte | bit, and byte & ~bit.
WithBit(byte, bit) == IF HasBit(byte, bit) THEN byte ELSE byte + bit
WithoutBit(byte, bit) == IF HasBit(byte, bit) THEN byte - bit ELSE byte

Set(pos) ==
  /\ bm' = [bm EXCEPT ![GetBucket(pos)] = WithBit(@, GetBit(pos))]
  /\ bits' = bits \cup {pos}
  /\ UNCHANGED record_size

\* (mutant) the whole byte is cleared
ResetByte(pos) ==
  /\ bm' = [bm EXCEPT ![GetBucket(pos)] = 0]
  /\ bits' = bits \ {pos}
  /\ UNCHANGED record_size

Reset(pos) ==
  /\ bm' = [bm EXCEPT ![GetBucket(pos)] = WithoutBit(@, GetBit(pos))]
  /\ bits' = bits \ {pos}
  /\ UNCHANGED record_size

Next ==
  \/ \E size \in Sizes : CreateFile(size)
  \/ record_size # 0 /\ \E pos \in 0..(max_n - 1) : Set(pos) \/ Reset(pos)

Spec == Init /\ [][Next]_vars

-----------------------------------------------------------------------------
\* Over any sequence of set and reset, is_set is true of exactly the positions
\* that were set last, the unused positions of the last byte stay 0, and bytes
\* stay bytes.
BytesAreTheSet ==
  record_size # 0 =>
    /\ bm \in [0..(bitmap_size - 1) -> 0..255]
    /\ {pos \in 0..(BITMAP_WIDTH * bitmap_size - 1) : IsSet(pos)} = bits

\* next_bit's loop over the bytes finds what NextBit says of the set, from every
\* starting point, for 0 and for 1.
LoopFindsNext ==
  record_size # 0 =>
    \A bit \in BOOLEAN, curr \in -1..(max_n - 1) :
      NextBitLoop(bit, curr) = NextBit(bit, bits, max_n, curr)

\* The bitmap has a bit for every slot, and header, bitmap and slots fit into the
\* page: insert_record writes neither past the page nor into the bitmap.
RecordsFitThePage == record_size # 0 => PageFits(record_size)
=============================================================================
