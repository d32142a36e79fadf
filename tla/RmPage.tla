------------------------------- MODULE RmPage -------------------------------
(***************************************************************************)
(* The layout of a record page, as rm_manager.h computes it for a file and *)
(* RmPageHandle finds its way in it: four bytes of lsn, the page header,   *)
(* the bitmap, the slots.                                                  *)
(***************************************************************************)
EXTENDS BitSet

CONSTANT PAGE_SIZE     \* bytes in a page (4096 in the build)

ASSUME PageSizeAssumption == PAGE_SIZE \in Nat /\ PAGE_SIZE > 21

RM_NO_PAGE == -1
RM_FIRST_RECORD_PAGE == 1
BITMAP_WIDTH == 8
OFFSET_PAGE_HDR == 4
SizeofRmPageHdr == 8
SizeofRmFileHdr == 20

\* (mutant) without leaving room for the header and the bitmap's rounding
GreedyNumRecordsPerPage(record_size) ==
  (BITMAP_WIDTH * PAGE_SIZE) \div (1 + record_size * BITMAP_WIDTH)

NumRecordsPerPage(record_size) ==
  (BITMAP_WIDTH * (PAGE_SIZE - 1 - SizeofRmFileHdr) + 1)
    \div (1 + record_size * BITMAP_WIDTH)

BitmapSize(n) == (n + BITMAP_WIDTH - 1) \div BITMAP_WIDTH

\* RmPageHandle: where the bitmap and the slots are in the page.
BitmapOffset == OFFSET_PAGE_HDR + SizeofRmPageHdr
GetSlot(record_size, slot_no) ==
  BitmapOffset + BitmapSize(NumRecordsPerPage(record_size)) + slot_no * record_size

\* What the layout is for: a bit for every slot, the last slot ends in the page,
\* and the comment at rm_manager.h:32 is right.
PageFits(record_size) ==
  LET n == NumRecordsPerPage(record_size)
  IN  /\ n <= BITMAP_WIDTH * BitmapSize(n)
      /\ GetSlot(record_size, n) <= PAGE_SIZE
      /\ SizeofRmFileHdr + (n + 7) \div 8 + n * record_size <= PAGE_SIZE
=============================================================================
