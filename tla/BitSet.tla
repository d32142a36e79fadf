------------------------------- MODULE BitSet -------------------------------
(***************************************************************************)
(* What bitmap.h promises the record manager: a set of positions, and the  *)
(* next position that is in it or not in it.  The module RmBitmap shows    *)
(* that the bytes implement it.                                            *)
(***************************************************************************)
EXTENDS Integers

\* Bitmap::next_bit: the first position after curr and below max_n that holds
\* bit, max_n if there is none.
NextBit(bit, bits, max_n, curr) ==
  LET after == { i \in (curr + 1)..(max_n - 1) : (i \in bits) = bit }
  IN  IF after = {} THEN max_n ELSE CHOOSE i \in after : \A j \in after : i <= j

FirstBit(bit, bits, max_n) == NextBit(bit, bits, max_n, -1)
=============================================================================
