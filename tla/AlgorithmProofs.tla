--------------------------- MODULE AlgorithmProofs ---------------------------
(***************************************************************************)
(* Theorems about the pure algorithms, for every page size, every record   *)
(* size, every database and every query: the layout of a page, bitmap.h on *)
(* its bytes, and the way of a condition into a scan.                      *)
(***************************************************************************)
EXTENDS RmBitmap, QueryPlan, SequenceTheorems, FiniteSetTheorems, WellFoundedInduction, TLAPS

-----------------------------------------------------------------------------
(* Induction and recursion over an interval, with sets and functions where *)
(* the library has operators.                                              *)

LEMMA LeastExists ==
  ASSUME NEW T, T \subseteq Nat, T # {}
  PROVE  \E x \in T : \A y \in T : x <= y
  <1> DEFINE R == {ss \in Nat \X Nat : ss[1] < ss[2]}
  <1>1. IsWellFoundedOn(R, Nat)
    BY NatLessThanWellFounded DEF OpToRel
  <1>2. \E x \in T : \A y \in T : ~(<<y, x>> \in R)
    <2> HIDE DEF R
    <2> QED BY <1>1, WFMin
  <1>3. PICK x \in T : \A y \in T : ~(<<y, x>> \in R)
    BY <1>2
  <1>4. ASSUME NEW y \in T PROVE x <= y
    <2>1. x \in Nat /\ y \in Nat
      BY <1>4
    <2>2. ~(<<y, x>> \in R)
      BY <1>3, <1>4
    <2>3. ~(y < x)
      BY <2>1, <2>2
    <2> QED BY <2>1, <2>3
  <1> QED BY <1>4

LEMMA Induction ==
  ASSUME NEW n \in Nat, NEW P, 0 \in P, \A i \in 1..n : i - 1 \in P => i \in P
  PROVE  0..n \subseteq P
  <1> DEFINE T == (0..n) \ P
  <1> SUFFICES ASSUME T # {} PROVE FALSE
    OBVIOUS
  <1>1. PICK x \in T : \A y \in T : x <= y
    <2>1. T \subseteq Nat
      OBVIOUS
    <2> HIDE DEF T
    <2> QED BY <2>1, LeastExists
  <1>2. x \in 1..n /\ x - 1 \in 0..n /\ x - 1 \notin P
    BY <1>1
  <1> QED BY <1>1, <1>2

\* f is the run of a loop of n rounds from a, the i-th of which takes the state s to
\* g[<<i, s>>].
IsRun(f, n, S, a, g) ==
  f \in [0..n -> S] /\ f[0] = a /\ \A i \in 1..n : f[i] = g[<<i, f[i - 1]>>]

\* Every loop has a run.
LEMMA Recursion ==
  ASSUME NEW n, n \in Nat, NEW S, NEW a, a \in S, NEW g, g \in [(1..n) \X S -> S]
  PROVE  \E f : IsRun(f, n, S, a, g)
  <1> DEFINE Run(f, k) == f[0] = a /\ \A i \in 1..k : f[i] = g[<<i, f[i - 1]>>]
             P == {k \in 0..n : \E f \in [0..k -> S] : Run(f, k)}
  <1>1. 0 \in P
    <2>1. [i \in 0..0 |-> a] \in [0..0 -> S] /\ Run([i \in 0..0 |-> a], 0)
      OBVIOUS
    <2>2. \E f \in [0..0 -> S] : Run(f, 0)
      <3> HIDE DEF Run
      <3> QED BY <2>1
    <2>3. 0 \in 0..n
      OBVIOUS
    <2> HIDE DEF Run
    <2> QED BY <2>2, <2>3
  <1>2. ASSUME NEW k \in 1..n, k - 1 \in P PROVE k \in P
    <2>1. PICK f \in [0..(k - 1) -> S] : Run(f, k - 1)
      BY <1>2
    <2> DEFINE h == [i \in 0..k |-> IF i = k THEN g[<<k, f[k - 1]>>] ELSE f[i]]
    <2>2. f[k - 1] \in S
      BY <2>1
    <2>3. g[<<k, f[k - 1]>>] \in S
      BY <2>2
    <2>4. h \in [0..k -> S]
      BY <2>1, <2>3
    <2>5. h[0] = a
      BY <2>1
    <2>6. ASSUME NEW i \in 1..k PROVE h[i] = g[<<i, h[i - 1]>>]
      <3>1. CASE i = k
        <4>1. k \in 0..k /\ k - 1 \in 0..k /\ k - 1 # k
          OBVIOUS
        <4>2. h[k] = g[<<k, f[k - 1]>>] /\ h[k - 1] = f[k - 1]
          BY <4>1
        <4> HIDE DEF h
        <4> QED BY <3>1, <4>2
      <3>2. CASE i # k
        <4>1. i \in 1..(k - 1) /\ i - 1 \in 0..k /\ i - 1 # k /\ i \in 0..k
          BY <3>2
        <4> QED BY <2>1, <3>2, <4>1
      <3> QED BY <3>1, <3>2
    <2> HIDE DEF h
    <2>7. Run(h, k)
      BY <2>5, <2>6
    <2> QED BY <1>2, <2>4, <2>7
  <1> HIDE DEF P
  <1>3. 0..n \subseteq P
    BY <1>1, <1>2, Induction
  <1>4. n \in P
    BY <1>3
  <1>5. PICK f \in [0..n -> S] : Run(f, n)
    BY <1>4 DEF P
  <1>6. IsRun(f, n, S, a, g)
    BY <1>5 DEF IsRun
  <1> QED BY <1>6

-----------------------------------------------------------------------------
(* The layout of a page.                                                   *)

\* Division, as SMT wants it: the quotient times the divisor does not exceed the
\* dividend.
LEMMA QuotientBound ==
  ASSUME NEW x \in Nat, NEW y \in Nat \ {0}
  PROVE  x \div y \in Nat /\ (x \div y) * y <= x
  OBVIOUS

\* The sizes create_file computes are such that header, bitmap and slots fit the
\* page, whatever the record size (rm_manager.h:32-35).
THEOREM LayoutFits == \A r \in Nat \ {0} : PageFits(r) /\ NumRecordsPerPage(r) \in Nat
  <1> TAKE r \in Nat \ {0}
  <1> DEFINE x == 8 * (PAGE_SIZE - 1 - 20) + 1
             n == x \div (1 + r * 8)
             z == n * r
  <1>1. x \in Nat /\ 1 + r * 8 \in Nat \ {0} /\ x = 8 * PAGE_SIZE - 167
    BY PageSizeAssumption
  <1>2. n \in Nat /\ n * (1 + r * 8) <= x
    BY <1>1, QuotientBound
  <1>3. z \in Nat /\ n * (1 + r * 8) = n + 8 * z
    BY <1>2
  <1>4. n + 8 * z <= 8 * PAGE_SIZE - 167
    BY <1>1, <1>2, <1>3
  <1>5. NumRecordsPerPage(r) = n
    BY DEF NumRecordsPerPage, BITMAP_WIDTH, SizeofRmFileHdr
  <1> HIDE DEF n, x, z
  <1>6. /\ n <= 8 * ((n + 7) \div 8)
        /\ 20 + ((n + 7) \div 8) + z <= PAGE_SIZE
    BY <1>2, <1>3, <1>4, PageSizeAssumption
  <1> QED
    BY <1>2, <1>3, <1>5, <1>6, PageSizeAssumption
    DEF PageFits, z, BitmapSize, GetSlot, BitmapOffset, BITMAP_WIDTH,
        SizeofRmFileHdr, OFFSET_PAGE_HDR, SizeofRmPageHdr

-----------------------------------------------------------------------------
(* Bits and bytes.                                                         *)

PowersOfTwo == {1, 2, 4, 8, 16, 32, 64, 128}

\* BITMAP_HIGHEST_BIT shifted by i.
Shifted ==
  [i \in 0..7 |-> CASE i = 0 -> 128 [] i = 1 -> 64 [] i = 2 -> 32 [] i = 3 -> 16
                    [] i = 4 -> 8 [] i = 5 -> 4 [] i = 6 -> 2 [] i = 7 -> 1]

LEMMA GetBitIs == \A pos \in Nat : GetBit(pos) = Shifted[pos % 8]
  <1> TAKE pos \in Nat
  <1> DEFINE shifted[i \in 0..(BITMAP_WIDTH - 1)] ==
               IF i = 0 THEN BITMAP_HIGHEST_BIT ELSE shifted[i - 1] \div 2
  <1>1. GetBit(pos) = shifted[pos % BITMAP_WIDTH]
    BY DEF GetBit
  <1>2. Shifted = [i \in 0..(BITMAP_WIDTH - 1) |->
                     IF i = 0 THEN BITMAP_HIGHEST_BIT ELSE Shifted[i - 1] \div 2]
    BY DEF Shifted, BITMAP_WIDTH, BITMAP_HIGHEST_BIT
  <1>3. shifted = [i \in 0..(BITMAP_WIDTH - 1) |->
                     IF i = 0 THEN BITMAP_HIGHEST_BIT ELSE shifted[i - 1] \div 2]
    <2> HIDE DEF Shifted
    <2> QED BY <1>2
  <1> HIDE DEF shifted
  <1>4. \A i \in 0..7 : shifted[i] = IF i = 0 THEN 128 ELSE shifted[i - 1] \div 2
    BY <1>3 DEF BITMAP_WIDTH, BITMAP_HIGHEST_BIT
  <1>5. shifted[0] = 128 /\ shifted[1] = 64
    <2>1. shifted[0] = 128 /\ shifted[1] = shifted[0] \div 2
      BY <1>4
    <2> QED BY <2>1
  <1>6. shifted[2] = 32 /\ shifted[3] = 16
    <2>1. shifted[2] = shifted[1] \div 2 /\ shifted[3] = shifted[2] \div 2
      BY <1>4
    <2> QED BY <2>1, <1>5
  <1>7. shifted[4] = 8 /\ shifted[5] = 4
    <2>1. shifted[4] = shifted[3] \div 2 /\ shifted[5] = shifted[4] \div 2
      BY <1>4
    <2> QED BY <2>1, <1>6
  <1>8. shifted[6] = 2 /\ shifted[7] = 1
    <2>1. shifted[6] = shifted[5] \div 2 /\ shifted[7] = shifted[6] \div 2
      BY <1>4
    <2> QED BY <2>1, <1>7
  <1>9. pos % 8 \in 0..7
    OBVIOUS
  <1> QED BY <1>1, <1>5, <1>6, <1>7, <1>8, <1>9 DEF Shifted, BITMAP_WIDTH

\* A position has its own byte and bit.
LEMMA Positions ==
  ASSUME NEW p \in Nat, NEW q \in Nat
  PROVE  /\ GetBit(p) \in PowersOfTwo
         /\ GetBucket(p) = p \div 8 /\ p \div 8 \in Nat
         /\ p # q => GetBucket(p) # GetBucket(q) \/ GetBit(p) # GetBit(q)
  <1>1. p % 8 \in 0..7 /\ q % 8 \in 0..7 /\ p \div 8 \in Nat /\ q \div 8 \in Nat
    OBVIOUS
  <1>2. p = (8 * (p \div 8)) + (p % 8) /\ q = (8 * (q \div 8)) + (q % 8)
    OBVIOUS
  <1>3. GetBit(p) = Shifted[p % 8] /\ GetBit(q) = Shifted[q % 8]
    BY GetBitIs
  <1>4. \A i, j \in 0..7 : Shifted[i] \in PowersOfTwo /\ (Shifted[i] = Shifted[j] => i = j)
    BY DEF Shifted, PowersOfTwo
  <1>5. GetBucket(p) = p \div 8 /\ GetBucket(q) = q \div 8
    BY DEF GetBucket, BITMAP_WIDTH
  <1> QED BY <1>1, <1>2, <1>3, <1>4, <1>5

LEMMA OneBit ==
  ASSUME NEW x \in 0..255, NEW b \in PowersOfTwo, NEW c \in PowersOfTwo
  PROVE  /\ WithBit(x, b) \in 0..255 /\ WithoutBit(x, b) \in 0..255
         /\ HasBit(WithBit(x, b), c) <=> (c = b \/ HasBit(x, c))
         /\ HasBit(WithoutBit(x, b), c) <=> (c # b /\ HasBit(x, c))
         /\ ~HasBit(0, c)
  <1>1. CASE b = 1
    <2>1. CASE c = 1
      BY <1>1, <2>1 DEF WithBit, WithoutBit, HasBit
    <2>2. CASE c = 2
      BY <1>1, <2>2 DEF WithBit, WithoutBit, HasBit
    <2>3. CASE c = 4
      BY <1>1, <2>3 DEF WithBit, WithoutBit, HasBit
    <2>4. CASE c = 8
      BY <1>1, <2>4 DEF WithBit, WithoutBit, HasBit
    <2>5. CASE c = 16
      BY <1>1, <2>5 DEF WithBit, WithoutBit, HasBit
    <2>6. CASE c = 32
      BY <1>1, <2>6 DEF WithBit, WithoutBit, HasBit
    <2>7. CASE c = 64
      BY <1>1, <2>7 DEF WithBit, WithoutBit, HasBit
    <2>8. CASE c = 128
      BY <1>1, <2>8 DEF WithBit, WithoutBit, HasBit
    <2> QED BY <2>1, <2>2, <2>3, <2>4, <2>5, <2>6, <2>7, <2>8 DEF PowersOfTwo
  <1>2. CASE b = 2
    <2>1. CASE c = 1
      BY <1>2, <2>1 DEF WithBit, WithoutBit, HasBit
    <2>2. CASE c = 2
      BY <1>2, <2>2 DEF WithBit, WithoutBit, HasBit
    <2>3. CASE c = 4
      BY <1>2, <2>3 DEF WithBit, WithoutBit, HasBit
    <2>4. CASE c = 8
      BY <1>2, <2>4 DEF WithBit, WithoutBit, HasBit
    <2>5. CASE c = 16
      BY <1>2, <2>5 DEF WithBit, WithoutBit, HasBit
    <2>6. CASE c = 32
      BY <1>2, <2>6 DEF WithBit, WithoutBit, HasBit
    <2>7. CASE c = 64
      BY <1>2, <2>7 DEF WithBit, WithoutBit, HasBit
    <2>8. CASE c = 128
      BY <1>2, <2>8 DEF WithBit, WithoutBit, HasBit
    <2> QED BY <2>1, <2>2, <2>3, <2>4, <2>5, <2>6, <2>7, <2>8 DEF PowersOfTwo
  <1>3. CASE b = 4
    <2>1. CASE c = 1
      BY <1>3, <2>1 DEF WithBit, WithoutBit, HasBit
    <2>2. CASE c = 2
      BY <1>3, <2>2 DEF WithBit, WithoutBit, HasBit
    <2>3. CASE c = 4
      BY <1>3, <2>3 DEF WithBit, WithoutBit, HasBit
    <2>4. CASE c = 8
      BY <1>3, <2>4 DEF WithBit, WithoutBit, HasBit
    <2>5. CASE c = 16
      BY <1>3, <2>5 DEF WithBit, WithoutBit, HasBit
    <2>6. CASE c = 32
      BY <1>3, <2>6 DEF WithBit, WithoutBit, HasBit
    <2>7. CASE c = 64
      BY <1>3, <2>7 DEF WithBit, WithoutBit, HasBit
    <2>8. CASE c = 128
      BY <1>3, <2>8 DEF WithBit, WithoutBit, HasBit
    <2> QED BY <2>1, <2>2, <2>3, <2>4, <2>5, <2>6, <2>7, <2>8 DEF PowersOfTwo
  <1>4. CASE b = 8
    <2>1. CASE c = 1
      BY <1>4, <2>1 DEF WithBit, WithoutBit, HasBit
    <2>2. CASE c = 2
      BY <1>4, <2>2 DEF WithBit, WithoutBit, HasBit
    <2>3. CASE c = 4
      BY <1>4, <2>3 DEF WithBit, WithoutBit, HasBit
    <2>4. CASE c = 8
      BY <1>4, <2>4 DEF WithBit, WithoutBit, HasBit
    <2>5. CASE c = 16
      BY <1>4, <2>5 DEF WithBit, WithoutBit, HasBit
    <2>6. CASE c = 32
      BY <1>4, <2>6 DEF WithBit, WithoutBit, HasBit
    <2>7. CASE c = 64
      BY <1>4, <2>7 DEF WithBit, WithoutBit, HasBit
    <2>8. CASE c = 128
      BY <1>4, <2>8 DEF WithBit, WithoutBit, HasBit
    <2> QED BY <2>1, <2>2, <2>3, <2>4, <2>5, <2>6, <2>7, <2>8 DEF PowersOfTwo
  <1>5. CASE b = 16
    BY <1>5 DEF PowersOfTwo, WithBit, WithoutBit, HasBit
  <1>6. CASE b = 32
    BY <1>6 DEF PowersOfTwo, WithBit, WithoutBit, HasBit
  <1>7. CASE b = 64
    BY <1>7 DEF PowersOfTwo, WithBit, WithoutBit, HasBit
  <1>8. CASE b = 128
    BY <1>8 DEF PowersOfTwo, WithBit, WithoutBit, HasBit
  <1> QED BY <1>1, <1>2, <1>3, <1>4, <1>5, <1>6, <1>7, <1>8 DEF PowersOfTwo

-----------------------------------------------------------------------------
(* The bitmap of a page.                                                   *)

\* A position is set or not, and there is a file or not: the bytes are as long as
\* the layout says and hold the set, whose members are slots.
BytesInv ==
  /\ record_size = 0 => bits = {}
  /\ record_size # 0 =>
       /\ record_size \in Nat \ {0}
       /\ bm \in [0..(bitmap_size - 1) -> 0..255]
       /\ bits \subseteq 0..(max_n - 1)
       /\ \A pos \in 0..(BITMAP_WIDTH * bitmap_size - 1) : IsSet(pos) <=> pos \in bits

\* The bytes have a bit for every slot.
LEMMA Room ==
  \A r \in Nat \ {0} :
    LET n == NumRecordsPerPage(r)
    IN  n \in Nat /\ BitmapSize(n) \in Nat /\ n <= 8 * BitmapSize(n)
  <1> TAKE r \in Nat \ {0}
  <1> DEFINE n == NumRecordsPerPage(r)
  <1>1. n \in Nat /\ PageFits(r)
    BY LayoutFits
  <1>2. n <= 8 * BitmapSize(n)
    BY <1>1 DEF PageFits, BITMAP_WIDTH
  <1> HIDE DEF n
  <1>3. BitmapSize(n) \in Nat
    BY <1>1 DEF BitmapSize, BITMAP_WIDTH
  <1> QED BY <1>1, <1>2, <1>3 DEF n

\* One byte of an array changes to have one bit more or less: this position is
\* set or reset, and no other.
LEMMA ByteStep ==
  \A m \in Nat : \A a \in [0..(m - 1) -> 0..255] : \A p \in 0..(8 * m - 1) :
    LET on == [a EXCEPT ![GetBucket(p)] = WithBit(@, GetBit(p))]
        off == [a EXCEPT ![GetBucket(p)] = WithoutBit(@, GetBit(p))]
    IN  /\ on \in [0..(m - 1) -> 0..255] /\ off \in [0..(m - 1) -> 0..255]
        /\ \A q \in 0..(8 * m - 1) :
             /\ HasBit(on[GetBucket(q)], GetBit(q))
                  <=> (q = p \/ HasBit(a[GetBucket(q)], GetBit(q)))
             /\ HasBit(off[GetBucket(q)], GetBit(q))
                  <=> (q # p /\ HasBit(a[GetBucket(q)], GetBit(q)))
  <1> TAKE m \in Nat
  <1> TAKE a \in [0..(m - 1) -> 0..255]
  <1> TAKE p \in 0..(8 * m - 1)
  <1> DEFINE k == GetBucket(p)
             b == GetBit(p)
             on == [a EXCEPT ![k] = WithBit(@, b)]
             off == [a EXCEPT ![k] = WithoutBit(@, b)]
  <1>0. \A q \in 0..(8 * m - 1) : GetBucket(q) \in 0..(m - 1) /\ GetBit(q) \in PowersOfTwo
    BY Positions
  <1>1. k \in 0..(m - 1) /\ b \in PowersOfTwo /\ a[k] \in 0..255
    BY <1>0
  <1>2. WithBit(a[k], b) \in 0..255 /\ WithoutBit(a[k], b) \in 0..255
    <2> HIDE DEF k, b
    <2> QED BY <1>1, OneBit
  <1>3. on \in [0..(m - 1) -> 0..255] /\ off \in [0..(m - 1) -> 0..255]
    <2> HIDE DEF k, b
    <2> QED BY <1>1, <1>2
  <1>4. ASSUME NEW q \in 0..(8 * m - 1)
        PROVE  /\ HasBit(on[GetBucket(q)], GetBit(q))
                    <=> (q = p \/ HasBit(a[GetBucket(q)], GetBit(q)))
               /\ HasBit(off[GetBucket(q)], GetBit(q))
                    <=> (q # p /\ HasBit(a[GetBucket(q)], GetBit(q)))
    <2> DEFINE l == GetBucket(q)
               c == GetBit(q)
    <2>1. l \in 0..(m - 1) /\ c \in PowersOfTwo
      BY <1>0
    <2>2. p = q => (l = k /\ c = b)
      OBVIOUS
    <2>3. (l = k /\ c = b) => p = q
      BY Positions
    <2> HIDE DEF l, c, k, b
    <2>4. CASE l = k
      <3>1. on[l] = WithBit(a[k], b) /\ off[l] = WithoutBit(a[k], b)
        BY <1>1, <2>4
      <3>2. /\ HasBit(WithBit(a[k], b), c) <=> (c = b \/ HasBit(a[k], c))
            /\ HasBit(WithoutBit(a[k], b), c) <=> (c # b /\ HasBit(a[k], c))
        BY <1>1, <2>1, OneBit
      <3> HIDE DEF on, off
      <3> QED BY <2>2, <2>3, <2>4, <3>1, <3>2 DEF l, c
    <2>5. CASE l # k
      <3>1. on[l] = a[l] /\ off[l] = a[l]
        BY <2>1, <2>5
      <3> HIDE DEF on, off
      <3> QED BY <2>2, <2>5, <3>1 DEF l, c
    <2> QED BY <2>4, <2>5
  <1> HIDE DEF on, off
  <1> QED BY <1>3, <1>4 DEF on, off, k, b

LEMMA BytesStep == BytesInv /\ [Next]_vars => BytesInv'
  <1> SUFFICES ASSUME BytesInv, [Next]_vars PROVE BytesInv'
    OBVIOUS
  <1>1. ASSUME NEW size \in Sizes, CreateFile(size) PROVE BytesInv'
    <2> DEFINE m == BitmapSize(NumRecordsPerPage(size))
    <2>1. /\ record_size = 0 /\ record_size' = size /\ size \in Nat \ {0}
          /\ bits' = {} /\ bm' = [i \in 0..(m - 1) |-> 0]
      BY <1>1, SizesAssumption DEF CreateFile, BytesInv
    <2>2. bitmap_size' = m /\ m \in Nat
      BY <2>1, Room DEF bitmap_size, max_n
    <2> HIDE DEF m
    <2>3. bm' \in [0..(m - 1) -> 0..255]
      BY <2>1
    <2>4. ASSUME NEW pos \in 0..(8 * m - 1) PROVE ~IsSet(pos)'
      <3>1. GetBucket(pos) \in 0..(m - 1) /\ GetBit(pos) \in PowersOfTwo
        BY <2>2, Positions
      <3>2. bm'[GetBucket(pos)] = 0
        BY <2>1, <3>1
      <3>3. ~HasBit(0, GetBit(pos))
        <4>1. 0 \in 0..255
          OBVIOUS
        <4> QED BY <3>1, <4>1, OneBit
      <3> QED BY <3>2, <3>3 DEF IsSet
    <2> QED BY <2>1, <2>2, <2>3, <2>4 DEF BytesInv, BITMAP_WIDTH
  <1>2. ASSUME record_size # 0, NEW pos \in 0..(max_n - 1), Set(pos) \/ Reset(pos)
        PROVE  BytesInv'
    <2> DEFINE m == bitmap_size
    <2>1. /\ record_size \in Nat \ {0} /\ bm \in [0..(m - 1) -> 0..255]
          /\ bits \subseteq 0..(max_n - 1)
          /\ \A q \in 0..(8 * m - 1) : IsSet(q) <=> q \in bits
      BY <1>2 DEF BytesInv, BITMAP_WIDTH
    <2>2. m \in Nat /\ max_n \in Nat /\ pos \in 0..(8 * m - 1)
      BY <2>1, Room DEF bitmap_size, max_n
    <2>3. record_size' = record_size /\ m' = m /\ max_n' = max_n
      BY <1>2 DEF Set, Reset, bitmap_size, max_n
    <2> HIDE DEF m
    <2>4. CASE Set(pos)
      <3>1. bm' = [bm EXCEPT ![GetBucket(pos)] = WithBit(@, GetBit(pos))]
            /\ bits' = bits \cup {pos}
        BY <2>4 DEF Set
      <3> DEFINE new == [bm EXCEPT ![GetBucket(pos)] = WithBit(@, GetBit(pos))]
      <3>2. /\ bm' \in [0..(m - 1) -> 0..255]
            /\ \A q \in 0..(8 * m - 1) : HasBit(bm'[GetBucket(q)], GetBit(q))
                 <=> (q = pos \/ HasBit(bm[GetBucket(q)], GetBit(q)))
        <4>1. /\ new \in [0..(m - 1) -> 0..255]
              /\ \A q \in 0..(8 * m - 1) : HasBit(new[GetBucket(q)], GetBit(q))
                   <=> (q = pos \/ HasBit(bm[GetBucket(q)], GetBit(q)))
          BY <2>1, <2>2, ByteStep, Zenon
        <4> QED BY <3>1, <4>1
      <3>3. \A q \in 0..(8 * m - 1) : IsSet(q)' <=> q \in bits'
        BY <2>1, <3>1, <3>2 DEF IsSet
      <3> QED BY <2>1, <2>3, <3>1, <3>2, <3>3 DEF BytesInv, BITMAP_WIDTH, m
    <2>5. CASE Reset(pos)
      <3>1. bm' = [bm EXCEPT ![GetBucket(pos)] = WithoutBit(@, GetBit(pos))]
            /\ bits' = bits \ {pos}
        BY <2>5 DEF Reset
      <3> DEFINE new == [bm EXCEPT ![GetBucket(pos)] = WithoutBit(@, GetBit(pos))]
      <3>2. /\ bm' \in [0..(m - 1) -> 0..255]
            /\ \A q \in 0..(8 * m - 1) : HasBit(bm'[GetBucket(q)], GetBit(q))
                 <=> (q # pos /\ HasBit(bm[GetBucket(q)], GetBit(q)))
        <4>1. /\ new \in [0..(m - 1) -> 0..255]
              /\ \A q \in 0..(8 * m - 1) : HasBit(new[GetBucket(q)], GetBit(q))
                   <=> (q # pos /\ HasBit(bm[GetBucket(q)], GetBit(q)))
          BY <2>1, <2>2, ByteStep, Zenon
        <4> QED BY <3>1, <4>1
      <3>3. \A q \in 0..(8 * m - 1) : IsSet(q)' <=> q \in bits'
        BY <2>1, <3>1, <3>2 DEF IsSet
      <3> QED BY <2>1, <2>3, <3>1, <3>2, <3>3 DEF BytesInv, BITMAP_WIDTH, m
    <2> QED BY <1>2, <2>4, <2>5
  <1>3. ASSUME UNCHANGED vars PROVE BytesInv'
    BY <1>3 DEF vars, BytesInv, bitmap_size, max_n, IsSet
  <1> QED BY <1>1, <1>2, <1>3 DEF Next

LEMMA BytesInvariant == Spec => []BytesInv
  <1>1. Init => BytesInv
    BY DEF Init, BytesInv
  <1> QED BY <1>1, BytesStep, PTL DEF Spec

\* Over any sequence of Bitmap::set and reset, on a page for any record size,
\* is_set tells exactly the positions that were set last.
THEOREM BytesSafe == Spec => []BytesAreTheSet
  <1>1. BytesInv => BytesAreTheSet
    <2> SUFFICES ASSUME BytesInv, record_size # 0
                 PROVE  /\ bm \in [0..(bitmap_size - 1) -> 0..255]
                        /\ {pos \in 0..(BITMAP_WIDTH * bitmap_size - 1) : IsSet(pos)} = bits
      BY DEF BytesAreTheSet
    <2>1. /\ record_size \in Nat \ {0}
          /\ bm \in [0..(bitmap_size - 1) -> 0..255]
          /\ bits \subseteq 0..(max_n - 1)
          /\ \A pos \in 0..(BITMAP_WIDTH * bitmap_size - 1) : IsSet(pos) <=> pos \in bits
      BY DEF BytesInv
    <2>2. max_n \in Nat /\ bitmap_size \in Nat /\ max_n <= BITMAP_WIDTH * bitmap_size
      BY <2>1, Room DEF bitmap_size, max_n, BITMAP_WIDTH
    <2>3. bits \subseteq 0..(BITMAP_WIDTH * bitmap_size - 1)
      BY <2>1, <2>2 DEF BITMAP_WIDTH
    <2> QED BY <2>1, <2>3
  <1> QED BY <1>1, BytesInvariant, PTL

\* RmManager::create_file lays a page out so that nothing overlaps.
THEOREM RecordsFit == Spec => []RecordsFitThePage
  <1>1. BytesInv => RecordsFitThePage
    BY LayoutFits DEF BytesInv, RecordsFitThePage
  <1> QED BY <1>1, BytesInvariant, PTL

\* What NextBit says from i on follows from what it says from i + 1 on.
LEMMA NextBitStep ==
  ASSUME NEW n \in Nat, NEW B, NEW bit \in BOOLEAN, NEW i \in 0..n
  PROVE  NextBit(bit, B, n, i - 1) =
           IF i = n THEN n
           ELSE IF (i \in B) = bit THEN i ELSE NextBit(bit, B, n, (i + 1) - 1)
  <1> DEFINE After(k) == {j \in ((k - 1) + 1)..(n - 1) : (j \in B) = bit}
  <1>1. \A k \in 0..n : NextBit(bit, B, n, k - 1) =
          IF After(k) = {} THEN n ELSE CHOOSE j \in After(k) : \A l \in After(k) : j <= l
    BY DEF NextBit
  <1>2. CASE i = n
    <2>1. After(i) = {}
      BY <1>2
    <2> HIDE DEF After
    <2> QED BY <1>1, <1>2, <2>1
  <1>3. CASE i # n /\ (i \in B) = bit
    <2>1. i \in After(i) /\ \A l \in After(i) : i <= l
      BY <1>3
    <2>2. After(i) \subseteq Int
      OBVIOUS
    <2> HIDE DEF After
    <2>3. \A j \in After(i) : (\A l \in After(i) : j <= l) => j = i
      BY <2>1, <2>2
    <2>4. (CHOOSE j \in After(i) : \A l \in After(i) : j <= l) = i
      BY <2>1, <2>3
    <2> QED BY <1>1, <1>3, <2>1, <2>4
  <1>4. CASE i # n /\ ~((i \in B) = bit)
    <2>1. i + 1 \in 0..n
      BY <1>4
    <2>2. After(i) = After(i + 1)
      <3>1. \A j \in Int : (j \in ((i - 1) + 1)..(n - 1) /\ j # i) <=> j \in (((i + 1) - 1) + 1)..(n - 1)
        BY <1>4
      <3> QED BY <1>4, <3>1
    <2> HIDE DEF After
    <2> QED BY <1>1, <1>4, <2>1, <2>2
  <1> QED BY <1>2, <1>3, <1>4

\* f is a run of next_bit's loop over the bits s, downwards from n.
IsLoop(f, n, s, bit) ==
  f = [i \in 0..n |-> IF i = n THEN n ELSE IF s[i] = bit THEN i ELSE f[i + 1]]

\* The loop has a value for every i: what NextBit says ...
LEMMA LoopRuns ==
  ASSUME NEW n \in Nat, NEW s \in [0..(n - 1) -> BOOLEAN], NEW bit \in BOOLEAN
  PROVE  IsLoop([i \in 0..n |-> NextBit(bit, {p \in 0..(n - 1) : s[p]}, n, i - 1)], n, s, bit)
  <1> DEFINE B == {p \in 0..(n - 1) : s[p]}
             F == [i \in 0..n |-> NextBit(bit, B, n, i - 1)]
             Round(f) == [i \in 0..n |-> IF i = n THEN n ELSE IF s[i] = bit THEN i ELSE f[i + 1]]
  <1>1. ASSUME NEW i \in 0..n
        PROVE  F[i] = IF i = n THEN n ELSE IF s[i] = bit THEN i ELSE F[i + 1]
    <2>1. i # n => (s[i] = (i \in B) /\ i + 1 \in 0..n /\ i \in 0..(n - 1))
      OBVIOUS
    <2>2. F[i] = NextBit(bit, B, n, i - 1)
          /\ (i # n => F[i + 1] = NextBit(bit, B, n, (i + 1) - 1))
      BY <2>1
    <2> HIDE DEF F, B
    <2> QED BY <2>1, <2>2, NextBitStep
  <1>2. F = Round(F)
    BY <1>1
  <1> HIDE DEF F
  <1> QED BY <1>2 DEF F, IsLoop

\* ... and no other.
LEMMA LoopValue ==
  ASSUME NEW n \in Nat, NEW s \in [0..(n - 1) -> BOOLEAN], NEW bit \in BOOLEAN,
         NEW f, IsLoop(f, n, s, bit)
  PROVE  \A i \in 0..n : f[i] = NextBit(bit, {p \in 0..(n - 1) : s[p]}, n, i - 1)
  <1> DEFINE B == {p \in 0..(n - 1) : s[p]}
             F == [i \in 0..n |-> NextBit(bit, B, n, i - 1)]
  <1>1. \A i \in 0..n : F[i] = IF i = n THEN n ELSE IF s[i] = bit THEN i ELSE F[i + 1]
    <2>1. IsLoop(F, n, s, bit)
      BY LoopRuns
    <2> HIDE DEF F
    <2> QED BY <2>1 DEF IsLoop
  <1>3. ASSUME NEW i \in 0..n PROVE f[i] = F[i]
    <2> DEFINE P == {k \in 0..n : f[n - k] = F[n - k]}
    <2>0. \A k \in 0..n : /\ f[k] = IF k = n THEN n ELSE IF s[k] = bit THEN k ELSE f[k + 1]
                          /\ F[k] = IF k = n THEN n ELSE IF s[k] = bit THEN k ELSE F[k + 1]
      <3>1. \A k \in 0..n : f[k] = IF k = n THEN n ELSE IF s[k] = bit THEN k ELSE f[k + 1]
        BY DEF IsLoop
      <3> HIDE DEF F
      <3> QED BY <1>1, <3>1
    <2> HIDE DEF F
    <2>1. 0 \in P
      BY <2>0
    <2>2. ASSUME NEW k \in 1..n, k - 1 \in P PROVE k \in P
      <3>1. n - k \in 0..n /\ n - k # n /\ (n - k) + 1 = n - (k - 1) /\ k \in 0..n
        OBVIOUS
      <3>2. f[(n - k) + 1] = F[(n - k) + 1]
        BY <2>2, <3>1
      <3>3. f[n - k] = F[n - k]
        BY <2>0, <3>1, <3>2
      <3> QED BY <3>1, <3>3
    <2> HIDE DEF P
    <2>3. 0..n \subseteq P
      BY <2>1, <2>2, Induction
    <2>4. n - i \in 0..n /\ n - (n - i) = i
      OBVIOUS
    <2> QED BY <2>3, <2>4 DEF P
  <1> QED BY <1>3

\* Bitmap::next_bit's loop finds the next position, from every starting point, on
\* a page for any record size.
THEOREM LoopSafe == Spec => []LoopFindsNext
  <1>1. BytesInv => LoopFindsNext
    <2> SUFFICES ASSUME BytesInv, record_size # 0,
                        NEW bit \in BOOLEAN, NEW curr \in -1..(max_n - 1)
                 PROVE  NextBitLoop(bit, curr) = NextBit(bit, bits, max_n, curr)
      BY DEF LoopFindsNext
    <2>1. /\ record_size \in Nat \ {0}
          /\ bits \subseteq 0..(max_n - 1)
          /\ \A pos \in 0..(BITMAP_WIDTH * bitmap_size - 1) : IsSet(pos) <=> pos \in bits
      BY DEF BytesInv
    <2>2. max_n \in Nat /\ bitmap_size \in Nat /\ max_n <= BITMAP_WIDTH * bitmap_size
      BY <2>1, Room DEF bitmap_size, max_n, BITMAP_WIDTH
    <2>3. PICK n \in Nat : n = max_n
      BY <2>2
    <2>4. PICK s : s = [p \in 0..(n - 1) |-> IsSet(p)]
      OBVIOUS
    <2>5. PICK B : B = bits
      OBVIOUS
    <2>6. s \in [0..(n - 1) -> BOOLEAN]
      BY <2>4 DEF IsSet, HasBit
    <2>7. \A p \in 0..(n - 1) : p \in 0..(BITMAP_WIDTH * bitmap_size - 1)
      BY <2>2, <2>3 DEF BITMAP_WIDTH
    <2>8. B = {p \in 0..(n - 1) : s[p]}
      BY <2>1, <2>3, <2>4, <2>5, <2>7
    <2> DEFINE loop[i \in 0..max_n] ==
                 IF i = max_n THEN max_n ELSE IF IsSet(i) = bit THEN i ELSE loop[i + 1]
               Body(f) == [i \in 0..max_n |->
                     IF i = max_n THEN max_n ELSE IF IsSet(i) = bit THEN i ELSE f[i + 1]]
               F == [i \in 0..n |-> NextBit(bit, {p \in 0..(n - 1) : s[p]}, n, i - 1)]
    <2>9. NextBitLoop(bit, curr) = loop[curr + 1]
      BY DEF NextBitLoop
    <2>10. \A f : IsLoop(f, n, s, bit) <=> f = Body(f)
      <3> SUFFICES ASSUME NEW f
                   PROVE  [i \in 0..n |-> IF i = n THEN n ELSE IF s[i] = bit THEN i ELSE f[i + 1]]
                          = Body(f)
        BY DEF IsLoop
      <3>1. \A i \in 0..n : i # n => s[i] = IsSet(i)
        BY <2>4
      <3> QED BY <2>3, <3>1
    <2>11. IsLoop(F, n, s, bit)
      BY <2>6, LoopRuns
    <2>12. IsLoop(loop, n, s, bit)
      <3> HIDE DEF F
      <3>1. \E f : f = Body(f)
        BY <2>10, <2>11
      <3>2. loop = Body(loop)
        BY <3>1
      <3> QED BY <2>10, <3>2
    <2>13. curr + 1 \in 0..n /\ (curr + 1) - 1 = curr
      BY <2>3
    <2> HIDE DEF loop, Body, F
    <2>14. loop[curr + 1] = NextBit(bit, {p \in 0..(n - 1) : s[p]}, n, (curr + 1) - 1)
      <3>1. PICK f : f = loop
        OBVIOUS
      <3>2. IsLoop(f, n, s, bit)
        BY <2>12, <3>1
      <3>3. \A i \in 0..n : f[i] = NextBit(bit, {p \in 0..(n - 1) : s[p]}, n, i - 1)
        BY <2>6, <3>2, LoopValue
      <3> QED BY <2>13, <3>1, <3>3
    <2> QED BY <2>3, <2>5, <2>8, <2>9, <2>13, <2>14
  <1> QED BY <1>1, BytesInvariant, PTL

-----------------------------------------------------------------------------
(* The way of a condition into a scan.                                     *)

\* A FROM clause of n tables, and the conditions of a WHERE clause.
IsQuery(n, tabs, conds) ==
  n \in Nat /\ Len(tabs) = n /\ tabs \in [1..n -> Tables] /\ conds \subseteq Conditions

QueryInv == \E n, tabs, conds : /\ IsQuery(n, tabs, conds)
                                /\ query.tabs = tabs /\ query.conds = conds

\* What select_from is called with is one.
LEMMA QueryInvariant == QuerySpec => []QueryInv
  <1>1. QueryInit => QueryInv
    <2>1. IsQuery(0, <<>>, {})
      BY DEF IsQuery
    <2> QED BY <2>1 DEF QueryInit, NoQuery, QueryInv
  <1>2. ASSUME Ask PROVE QueryInv'
    <2>1. PICK tabs \in FromClauses, n \in 0..MaxConds :
            \E conds \in [1..n -> Conditions] :
              query' = [tabs |-> tabs, conds |-> {conds[k] : k \in 1..n}]
      BY <1>2 DEF Ask
    <2>2. PICK conds \in [1..n -> Conditions] :
              query' = [tabs |-> tabs, conds |-> {conds[k] : k \in 1..n}]
      BY <2>1
    <2>3. PICK m \in 1..MaxTabs : tabs \in [1..m -> Tables]
      BY DEF FromClauses
    <2>4. m \in Nat
      <3>1. MaxTabs \in Nat
        BY QueryAssumption
      <3> QED BY <3>1
    <2>5. Len(tabs) = m
      BY <2>3, <2>4
    <2>7. {conds[k] : k \in 1..n} \subseteq Conditions
      OBVIOUS
    <2>8. IsQuery(m, tabs, {conds[k] : k \in 1..n})
      BY <2>3, <2>4, <2>5, <2>7 DEF IsQuery
    <2> QED BY <2>2, <2>8 DEF QueryInv
  <1>3. QueryInv /\ [Ask]_query => QueryInv'
    BY <1>2 DEF QueryInv
  <1> QED BY <1>1, <1>3, PTL DEF QuerySpec

\* The parts of a condition.
LEMMA CondIs ==
  ASSUME NEW c \in Conditions
  PROVE  /\ c = Cond(c.lhs_col, c.op, c.is_rhs_val, c.rhs)
         /\ c.lhs_col \in Columns /\ c.op \in CompOps
         /\ c.is_rhs_val \in BOOLEAN
         /\ c.is_rhs_val => c.rhs \in Values
         /\ ~c.is_rhs_val => c.rhs \in Columns
  BY DEF Conditions, Cond

\* The first place of a table of the FROM clause: from there on it is in the prefix.
LEMMA FirstIs ==
  ASSUME NEW n, NEW tabs, NEW conds, IsQuery(n, tabs, conds), NEW t \in Prefix(tabs, n)
  PROVE  /\ First(tabs, t) \in 1..n /\ tabs[First(tabs, t)] = t
         /\ \A j \in 0..n : t \in Prefix(tabs, j) <=> First(tabs, t) <= j
  <1> DEFINE T == {i \in 1..n : tabs[i] = t}
             Is(i) == i \in 1..n /\ tabs[i] = t /\ \A j \in 1..(i - 1) : tabs[j] # t
  <1>0. n \in Nat /\ Len(tabs) = n
    BY DEF IsQuery
  <1>1. T # {} /\ T \subseteq Nat
    BY DEF Prefix
  <1>2. PICK k \in T : \A y \in T : k <= y
    <2> HIDE DEF T
    <2> QED BY <1>1, LeastExists
  <1>3. Is(k)
    <2>1. \A j \in 1..(k - 1) : j \in 1..n /\ ~(k <= j)
      BY <1>0, <1>2
    <2> QED BY <1>2, <2>1
  <1>4. Is(First(tabs, t))
    <2>1. First(tabs, t) = CHOOSE i \in 1..n : tabs[i] = t /\ \A j \in 1..(i - 1) : tabs[j] # t
      BY <1>0 DEF First
    <2> QED BY <1>3, <2>1
  <1> HIDE DEF T
  <1>5. PICK f : f = First(tabs, t)
    OBVIOUS
  <1>6. f \in 1..n /\ tabs[f] = t /\ \A j \in 1..(f - 1) : tabs[j] # t
    BY <1>4, <1>5
  <1>7. ASSUME NEW j \in 0..n PROVE t \in Prefix(tabs, j) <=> f <= j
    <2>1. f <= j => f \in 1..j
      BY <1>0, <1>6
    <2>2. ~(f <= j) => \A l \in 1..j : l \in 1..(f - 1)
      BY <1>0, <1>6
    <2> QED BY <1>6, <2>1, <2>2 DEF Prefix
  <1> QED BY <1>5, <1>6, <1>7

\* Each condition on tables of the FROM clause is settled from one place on, which
\* is the first of its table, and a column of this table is in it; any other
\* condition is never settled.
LEMMA SettledFrom ==
  ASSUME NEW n, NEW tabs, NEW conds, IsQuery(n, tabs, conds), NEW c \in conds
  PROVE  /\ Named(c) \subseteq Prefix(tabs, n) => \E m \in 1..n :
              /\ \A j \in 0..n : Settled(c, Prefix(tabs, j)) <=> m <= j
              /\ \/ Tab(c.lhs_col) = tabs[m]
                 \/ ~c.is_rhs_val /\ Tab(c.rhs) = tabs[m]
              /\ First(tabs, tabs[m]) = m
         /\ ~(Named(c) \subseteq Prefix(tabs, n)) => \A j \in 0..n : ~Settled(c, Prefix(tabs, j))
  <1>0. n \in Nat /\ Len(tabs) = n /\ c \in Conditions
    BY DEF IsQuery
  <1>1. c.is_rhs_val \in BOOLEAN
    BY <1>0, CondIs
  <1>2. \A t \in Prefix(tabs, n) :
           /\ First(tabs, t) \in 1..n /\ tabs[First(tabs, t)] = t
           /\ \A j \in 0..n : t \in Prefix(tabs, j) <=> First(tabs, t) <= j
    BY FirstIs
  <1>3. ASSUME ~(Named(c) \subseteq Prefix(tabs, n)), NEW j \in 0..n
        PROVE  ~Settled(c, Prefix(tabs, j))
    <2>1. Prefix(tabs, j) \subseteq Prefix(tabs, n)
      <3>1. \A l \in 1..j : l \in 1..n
        BY <1>0
      <3> QED BY <3>1 DEF Prefix
    <2> QED BY <1>1, <1>3, <2>1 DEF Named, Settled
  <1>4. ASSUME Named(c) \subseteq Prefix(tabs, n)
        PROVE  \E m \in 1..n :
                 /\ \A j \in 0..n : Settled(c, Prefix(tabs, j)) <=> m <= j
                 /\ \/ Tab(c.lhs_col) = tabs[m]
                    \/ ~c.is_rhs_val /\ Tab(c.rhs) = tabs[m]
                 /\ First(tabs, tabs[m]) = m
    <2>1. Tab(c.lhs_col) \in Prefix(tabs, n)
      BY <1>4 DEF Named
    <2>2. PICK a \in 1..n : /\ a = First(tabs, Tab(c.lhs_col)) /\ Tab(c.lhs_col) = tabs[a]
                            /\ \A j \in 0..n : Tab(c.lhs_col) \in Prefix(tabs, j) <=> a <= j
      BY <1>2, <2>1
    <2>3. CASE c.is_rhs_val
      BY <2>2, <2>3 DEF Settled
    <2>4. CASE ~c.is_rhs_val
      <3>1. Tab(c.rhs) \in Prefix(tabs, n)
        BY <1>4, <2>4 DEF Named
      <3>2. PICK b \in 1..n : /\ b = First(tabs, Tab(c.rhs)) /\ Tab(c.rhs) = tabs[b]
                              /\ \A j \in 0..n : Tab(c.rhs) \in Prefix(tabs, j) <=> b <= j
        BY <1>2, <3>1
      <3>3. \A j \in 0..n : Settled(c, Prefix(tabs, j)) <=> (a <= j /\ b <= j)
        BY <2>2, <2>4, <3>2 DEF Settled
      <3>4. CASE a <= b
        <4>1. \A j \in 0..n : Settled(c, Prefix(tabs, j)) <=> b <= j
          BY <1>0, <3>3, <3>4
        <4> QED BY <2>4, <3>2, <4>1
      <3>5. CASE ~(a <= b)
        <4>1. \A j \in 0..n : Settled(c, Prefix(tabs, j)) <=> a <= j
          BY <1>0, <3>3, <3>5
        <4> QED BY <2>2, <4>1
      <3> QED BY <3>4, <3>5
    <2> QED BY <1>1, <2>3, <2>4
  <1> QED BY <1>3, <1>4

\* What is left for the scans from i on is what no earlier table settles.
LEMMA LeftIs ==
  ASSUME NEW n, NEW tabs, NEW conds, IsQuery(n, tabs, conds), NEW i \in 1..(n + 1)
  PROVE  Left(tabs, conds, i) = {c \in conds : \A j \in 1..(i - 1) : ~Settled(c, Prefix(tabs, j))}
  <1> DEFINE left[j \in 0..Len(tabs)] ==
               IF j = 0 THEN conds ELSE remaining(left[j - 1], Prefix(tabs, j))
             Body(f) == [j \in 0..Len(tabs) |->
               IF j = 0 THEN conds ELSE remaining(f[j - 1], Prefix(tabs, j))]
             L(k) == {c \in conds : \A j \in 1..k : ~Settled(c, Prefix(tabs, j))}
             F == [j \in 0..Len(tabs) |-> L(j)]
  <1>0. n \in Nat /\ Len(tabs) = n
    BY DEF IsQuery
  <1>1. Left(tabs, conds, i) = left[i - 1]
    BY DEF Left
  <1>2. L(0) = conds
    OBVIOUS
  <1>3. ASSUME NEW k \in 1..n PROVE L(k) = remaining(L(k - 1), Prefix(tabs, k))
    <2>1. \A j : j \in 1..k <=> (j \in 1..(k - 1) \/ j = k)
      BY <1>0
    <2> QED BY <2>1 DEF remaining
  <1> HIDE DEF L
  <1>4. F = Body(F)
    <2>1. ASSUME NEW k \in 0..n
          PROVE  F[k] = IF k = 0 THEN conds ELSE remaining(F[k - 1], Prefix(tabs, k))
      <3>1. F[k] = L(k) /\ (k # 0 => k \in 1..n /\ F[k - 1] = L(k - 1))
        BY <1>0
      <3> QED BY <1>2, <1>3, <3>1
    <2> QED BY <1>0, <2>1
  <1>5. left = Body(left)
    <2> HIDE DEF F
    <2> QED BY <1>4
  <1> HIDE DEF left
  <1>6. \A k \in 0..n : left[k] = IF k = 0 THEN conds ELSE remaining(left[k - 1], Prefix(tabs, k))
    BY <1>0, <1>5
  <1> DEFINE P == {k \in 0..n : left[k] = L(k)}
  <1>7. 0 \in P
    BY <1>0, <1>2, <1>6
  <1>8. ASSUME NEW k \in 1..n, k - 1 \in P PROVE k \in P
    BY <1>0, <1>3, <1>6, <1>8
  <1> HIDE DEF P
  <1>9. 0..n \subseteq P
    BY <1>0, <1>7, <1>8, Induction
  <1> QED BY <1>0, <1>1, <1>9 DEF P, L

\* A condition on tables of the FROM clause goes to one scan, the one whose table
\* settles it; any other is left over.
LEMMA CurrIs ==
  ASSUME NEW n, NEW tabs, NEW conds, IsQuery(n, tabs, conds), NEW c \in conds
  PROVE  /\ Named(c) \subseteq Prefix(tabs, n) => \E m \in 1..n :
              /\ \A i \in 1..n : c \in curr_conds(tabs, conds, i) <=> i = m
              /\ c \notin Left(tabs, conds, n + 1)
              /\ \/ Tab(c.lhs_col) = tabs[m]
                 \/ ~c.is_rhs_val /\ Tab(c.rhs) = tabs[m]
              /\ Tab(c.lhs_col) \in Prefix(tabs, m)
              /\ c.is_rhs_val \/ Tab(c.rhs) \in Prefix(tabs, m)
              /\ First(tabs, tabs[m]) = m
         /\ ~(Named(c) \subseteq Prefix(tabs, n)) =>
              /\ \A i \in 1..n : c \notin curr_conds(tabs, conds, i)
              /\ c \in Left(tabs, conds, n + 1)
  <1>0. n \in Nat
    BY DEF IsQuery
  <1>a. ASSUME NEW i \in 1..(n + 1)
        PROVE  c \in Left(tabs, conds, i) <=> \A j \in 1..(i - 1) : ~Settled(c, Prefix(tabs, j))
    BY LeftIs
  <1>b. ASSUME Named(c) \subseteq Prefix(tabs, n)
        PROVE  \E m \in 1..n :
              /\ \A i \in 1..n : c \in curr_conds(tabs, conds, i) <=> i = m
              /\ c \notin Left(tabs, conds, n + 1)
              /\ \/ Tab(c.lhs_col) = tabs[m]
                 \/ ~c.is_rhs_val /\ Tab(c.rhs) = tabs[m]
              /\ Tab(c.lhs_col) \in Prefix(tabs, m)
              /\ c.is_rhs_val \/ Tab(c.rhs) \in Prefix(tabs, m)
              /\ First(tabs, tabs[m]) = m
    <2>1. PICK m \in 1..n :
             /\ \A j \in 0..n : Settled(c, Prefix(tabs, j)) <=> m <= j
             /\ \/ Tab(c.lhs_col) = tabs[m]
                \/ ~c.is_rhs_val /\ Tab(c.rhs) = tabs[m]
             /\ First(tabs, tabs[m]) = m
      BY <1>b, SettledFrom
    <2>2. \A i \in 1..(n + 1) : c \in Left(tabs, conds, i) <=> i <= m
      <3> TAKE i \in 1..(n + 1)
      <3>2. \A j \in 1..(i - 1) : j \in 0..n
        BY <1>0
      <3>3. ~(i <= m) => m \in 1..(i - 1)
        BY <1>0
      <3>4. \A j \in 1..(i - 1) : i <= m => ~(m <= j)
        BY <1>0
      <3> QED BY <1>a, <2>1, <3>2, <3>3, <3>4
    <2>3. \A i \in 1..n : c \in curr_conds(tabs, conds, i) <=> i = m
      <3> TAKE i \in 1..n
      <3>1. i \in 0..n /\ i \in 1..(n + 1) /\ (i <= m /\ m <= i <=> i = m)
        BY <1>0
      <3> QED BY <2>1, <2>2, <3>1 DEF curr_conds, pop_conds
    <2>4. c \notin Left(tabs, conds, n + 1)
      BY <1>0, <2>2
    <2>5. Settled(c, Prefix(tabs, m))
      BY <1>0, <2>1
    <2> QED BY <2>1, <2>3, <2>4, <2>5 DEF Settled
  <1>c. ASSUME ~(Named(c) \subseteq Prefix(tabs, n))
        PROVE  /\ \A i \in 1..n : c \notin curr_conds(tabs, conds, i)
               /\ c \in Left(tabs, conds, n + 1)
    <2>1. \A j \in 0..n : ~Settled(c, Prefix(tabs, j))
      BY <1>c, SettledFrom
    <2>2. /\ \A i \in 1..n : i \in 0..n
          /\ n + 1 \in 1..(n + 1) /\ \A j \in 1..((n + 1) - 1) : j \in 0..n
      BY <1>0
    <2> QED BY <1>a, <2>1, <2>2 DEF curr_conds, pop_conds
  <1> QED BY <1>b, <1>c

\* A scan gets conditions of the query only.
LEMMA CurrInConds ==
  ASSUME NEW n, NEW tabs, NEW conds, IsQuery(n, tabs, conds), NEW i \in 1..n
  PROVE  curr_conds(tabs, conds, i) \subseteq conds
  <1>1. n \in Nat /\ i \in 1..(n + 1)
    BY DEF IsQuery
  <1> QED BY <1>1, LeftIs DEF curr_conds, pop_conds

\* What scan i makes of a condition it got: one on its own record.
LEMMA FedIsLocal ==
  ASSUME NEW n, NEW tabs, NEW conds, IsQuery(n, tabs, conds), NEW i \in 1..n,
         NEW c \in curr_conds(tabs, conds, i), NEW dict
  PROVE  /\ CanOrient(c, tabs[i])
         /\ c.is_rhs_val => Tab(c.lhs_col) = tabs[i]
         /\ Local(Fed(Oriented(c, tabs[i]), tabs[i], dict), tabs[i])
  <1>1. c \in conds /\ c \in Conditions
    BY CurrInConds DEF IsQuery
  <1>2. \/ Tab(c.lhs_col) = tabs[i]
        \/ ~c.is_rhs_val /\ Tab(c.rhs) = tabs[i]
    BY <1>1, CurrIs
  <1>3. c.is_rhs_val \in BOOLEAN
    BY <1>1, CondIs
  <1>4. CanOrient(c, tabs[i]) /\ (c.is_rhs_val => Tab(c.lhs_col) = tabs[i])
    BY <1>2 DEF CanOrient
  <1> DEFINE o == Oriented(c, tabs[i])
  <1>5. Tab(o.lhs_col) = tabs[i] /\ o.is_rhs_val \in BOOLEAN
    BY <1>2, <1>3 DEF Oriented, Cond
  <1> HIDE DEF o
  <1>8. Local(Fed(o, tabs[i], dict), tabs[i])
    <2>1. CASE ~o.is_rhs_val /\ Tab(o.rhs) # tabs[i]
      BY <1>5, <2>1 DEF Fed, Local, Cond
    <2>2. CASE o.is_rhs_val \/ Tab(o.rhs) = tabs[i]
      BY <1>5, <2>2 DEF Fed, Local
    <2> QED BY <2>1, <2>2
  <1> QED BY <1>4, <1>8 DEF o

\* The assertions on the way of a condition, whatever the query: what is left over
\* at the end are the conditions that name a table outside the FROM clause, and no
\* other assertion fails.
THEOREM PlanSafe == QuerySpec => []PlanAssertionsHold
  <1>1. ASSUME NEW n, NEW tabs, NEW conds, IsQuery(n, tabs, conds),
               query.tabs = tabs, query.conds = conds
        PROVE  PlanAssertionsHold
    <2>0. n \in Nat /\ Len(tabs) = n
      BY <1>1 DEF IsQuery
    <2>1. Left(tabs, conds, n + 1) = {c \in conds : ~(Named(c) \subseteq From)}
      <3>1. n + 1 \in 1..(n + 1)
        BY <2>0
      <3>2. Left(tabs, conds, n + 1) \subseteq conds
        BY <1>1, <3>1, LeftIs
      <3>3. \A c \in conds : c \in Left(tabs, conds, n + 1) <=> ~(Named(c) \subseteq Prefix(tabs, n))
        BY <1>1, CurrIs
      <3>4. From = Prefix(tabs, n)
        BY <1>1, <2>0 DEF From, Prefix
      <3> QED BY <3>2, <3>3, <3>4
    <2>2. ASSUME NEW i \in 1..n, NEW c \in curr_conds(tabs, conds, i)
          PROVE  /\ CanOrient(c, tabs[i])
                 /\ c.is_rhs_val => Tab(c.lhs_col) = tabs[i]
                 /\ \A dict : Local(Fed(Oriented(c, tabs[i]), tabs[i], dict), tabs[i])
      BY <1>1, <2>2, FedIsLocal
    <2>3. ASSUME NEW i \in 1..n, NEW row, NEW c \in ScanConds(tabs, conds, i, row)
          PROVE  Local(c, tabs[i])
      BY <2>2 DEF ScanConds
    <2> QED BY <1>1, <2>0, <2>1, <2>2, <2>3 DEF PlanAssertionsHold, Indexable
  <1>2. QueryInv => PlanAssertionsHold
    BY <1>1 DEF QueryInv
  <1> QED BY <1>2, QueryInvariant, PTL

\* swap_op is right: a comparison read from the other side.
LEMMA SwapOp ==
  \A op \in CompOps, x, y \in Int : Compare(swap_op[op], x, y) <=> Compare(op, y, x)
  <1>1. /\ swap_op["EQ"] = "EQ" /\ swap_op["NE"] = "NE" /\ swap_op["LT"] = "GT"
        /\ swap_op["GT"] = "LT" /\ swap_op["LE"] = "GE" /\ swap_op["GE"] = "LE"
    BY DEF swap_op
  <1> HIDE DEF swap_op
  <1> TAKE op \in CompOps, x, y \in Int
  <1>2. CASE op = "EQ"
    BY <1>1, <1>2 DEF Compare
  <1>3. CASE op = "NE"
    BY <1>1, <1>3 DEF Compare
  <1>4. CASE op = "LT"
    BY <1>1, <1>4 DEF Compare
  <1>5. CASE op = "GT"
    BY <1>1, <1>5 DEF Compare
  <1>6. CASE op = "LE"
    BY <1>1, <1>6 DEF Compare
  <1>7. CASE op = "GE"
    BY <1>1, <1>7 DEF Compare
  <1> QED BY <1>2, <1>3, <1>4, <1>5, <1>6, <1>7 DEF CompOps

\* What scan i evaluates on its own record is what the condition says of the values
\* of the row.
LEMMA FedSaysTheSame ==
  ASSUME NEW n, NEW tabs, NEW conds, IsQuery(n, tabs, conds), NEW i \in 1..n,
         NEW c \in curr_conds(tabs, conds, i), NEW recs \in [1..n -> [ColNames -> Values]]
  PROVE  eval_cond(Fed(Oriented(c, tabs[i]), tabs[i], Dict(tabs, recs, i - 1)), Rec(tabs, recs, i))
           <=> eval_cond(c, Dict(tabs, recs, n))
  <1> DEFINE tab == tabs[i]
             dict == Dict(tabs, recs, i - 1)
             rec == Rec(tabs, recs, i)
             row == Dict(tabs, recs, n)
  <1>0. n \in Nat /\ Values \subseteq Int
    BY QueryAssumption DEF IsQuery
  <1>1. c \in conds /\ c \in Conditions
    BY CurrInConds DEF IsQuery
  <1>2. /\ \/ Tab(c.lhs_col) = tab
           \/ ~c.is_rhs_val /\ Tab(c.rhs) = tab
        /\ Tab(c.lhs_col) \in Prefix(tabs, i)
        /\ c.is_rhs_val \/ Tab(c.rhs) \in Prefix(tabs, i)
        /\ First(tabs, tab) = i
    BY <1>1, CurrIs
  <1>p. Prefix(tabs, i - 1) \subseteq Prefix(tabs, n) /\ Prefix(tabs, i) \subseteq Prefix(tabs, n)
    <2>1. \A j : (j \in 1..(i - 1) \/ j \in 1..i) => j \in 1..n
      BY <1>0
    <2> QED BY <2>1 DEF Prefix
  <1> DEFINE Cols == Prefix(tabs, n) \X ColNames
  <1>3. /\ c.lhs_col \in Cols /\ c.op \in CompOps
        /\ c.is_rhs_val \in BOOLEAN
        /\ c.is_rhs_val => c.rhs \in Values
        /\ ~c.is_rhs_val => c.rhs \in Cols
    <2>1. /\ c.lhs_col \in Columns /\ c.op \in CompOps
          /\ c.is_rhs_val \in BOOLEAN
          /\ c.is_rhs_val => c.rhs \in Values
          /\ ~c.is_rhs_val => c.rhs \in Columns
      BY <1>1, CondIs
    <2>2. \A d \in Columns : Tab(d) \in Prefix(tabs, n) => d \in Cols
      BY DEF Columns, Tab
    <2> QED BY <1>2, <1>p, <2>1, <2>2
  <1>4. \A t \in Prefix(tabs, i) : t # tab => t \in Prefix(tabs, i - 1)
    <2>1. \A j \in 1..i : j # i => j \in 1..(i - 1)
      BY <1>0
    <2> QED BY <2>1 DEF Prefix
  <1>5. ASSUME NEW d \in Cols
        PROVE  /\ Tab(d) = tab => rec[d] = row[d]
               /\ Tab(d) \in Prefix(tabs, i - 1) => dict[d] = row[d]
               /\ row[d] \in Values
    <2>1. Tab(d) \in Prefix(tabs, n) /\ d[2] \in ColNames /\ d = <<Tab(d), d[2]>>
      BY DEF Tab
    <2>2. row[d] = recs[First(tabs, Tab(d))][d[2]]
      BY DEF Dict
    <2>3. First(tabs, Tab(d)) \in 1..n
      BY <2>1, FirstIs
    <2>4. row[d] \in Values
      BY <2>1, <2>2, <2>3
    <2>5. Tab(d) = tab => rec[d] = row[d]
      <3>1. ASSUME Tab(d) = tab PROVE d \in {tabs[i]} \X ColNames
        BY <2>1, <3>1
      <3>2. ASSUME Tab(d) = tab PROVE rec[d] = recs[i][d[2]]
        BY <3>1, <3>2 DEF Rec
      <3> QED BY <1>2, <2>2, <3>2
    <2>6. Tab(d) \in Prefix(tabs, i - 1) => dict[d] = row[d]
      <3>1. ASSUME Tab(d) \in Prefix(tabs, i - 1) PROVE d \in Prefix(tabs, i - 1) \X ColNames
        BY <2>1, <3>1
      <3> QED BY <2>2, <3>1 DEF Dict
    <2> QED BY <2>4, <2>5, <2>6
  <1> HIDE DEF tab, dict, rec, row, Cols
  <1>6. CASE Tab(c.lhs_col) = tab
    <2>1. Oriented(c, tab) = c
      BY <1>6 DEF Oriented
    <2>2. CASE c.is_rhs_val \/ Tab(c.rhs) = tab
      <3>1. Fed(c, tab, dict) = c
        BY <2>2 DEF Fed
      <3>2. rec[c.lhs_col] = row[c.lhs_col] /\ (~c.is_rhs_val => rec[c.rhs] = row[c.rhs])
        BY <1>3, <1>5, <1>6, <2>2
      <3>3. eval_cond(c, rec) <=> eval_cond(c, row)
        BY <1>3, <3>2 DEF eval_cond
      <3> QED BY <2>1, <3>1, <3>3 DEF tab, dict, rec, row
    <2>3. CASE ~c.is_rhs_val /\ Tab(c.rhs) # tab
      <3>1. Fed(c, tab, dict) = Cond(c.lhs_col, c.op, TRUE, dict[c.rhs])
        BY <2>3 DEF Fed
      <3>2. dict[c.rhs] = row[c.rhs] /\ rec[c.lhs_col] = row[c.lhs_col]
        BY <1>2, <1>3, <1>4, <1>5, <1>6, <2>3
      <3>3. eval_cond(Cond(c.lhs_col, c.op, TRUE, dict[c.rhs]), rec)
              <=> Compare(c.op, rec[c.lhs_col], dict[c.rhs])
        BY DEF eval_cond, Cond
      <3>4. eval_cond(c, row) <=> Compare(c.op, row[c.lhs_col], row[c.rhs])
        BY <2>3 DEF eval_cond
      <3> QED BY <2>1, <3>1, <3>2, <3>3, <3>4 DEF tab, dict, rec, row
    <2> QED BY <2>2, <2>3
  <1>7. CASE Tab(c.lhs_col) # tab
    <2> DEFINE o == Cond(c.rhs, swap_op[c.op], FALSE, c.lhs_col)
    <2>1. Oriented(c, tab) = o
      BY <1>7 DEF Oriented
    <2>2. Fed(o, tab, dict) = Cond(c.rhs, swap_op[c.op], TRUE, dict[c.lhs_col])
      BY <1>7 DEF Fed, Cond
    <2>3. dict[c.lhs_col] = row[c.lhs_col] /\ rec[c.rhs] = row[c.rhs]
      BY <1>2, <1>3, <1>4, <1>5, <1>7
    <2>4. eval_cond(Cond(c.rhs, swap_op[c.op], TRUE, dict[c.lhs_col]), rec)
            <=> Compare(swap_op[c.op], rec[c.rhs], dict[c.lhs_col])
      BY DEF eval_cond, Cond
    <2>5. eval_cond(c, row) <=> Compare(c.op, row[c.lhs_col], row[c.rhs])
      BY <1>2, <1>7 DEF eval_cond
    <2>6. row[c.lhs_col] \in Int /\ row[c.rhs] \in Int
      BY <1>0, <1>2, <1>3, <1>5, <1>7
    <2>7. Compare(swap_op[c.op], row[c.rhs], row[c.lhs_col])
            <=> Compare(c.op, row[c.lhs_col], row[c.rhs])
      BY <1>3, <2>6, SwapOp
    <2> HIDE DEF o
    <2> QED BY <2>1, <2>2, <2>3, <2>4, <2>5, <2>7 DEF tab, dict, rec, row
  <1> QED BY <1>6, <1>7

\* QlManager's distribution of the conditions over the scans, the scans' turning
\* them round and the joins' feeding of values mean what the WHERE clause says of the
\* tables of the FROM clause, for every database, every order of the tables, also one
\* that has a table twice, and every set of conditions.
THEOREM ScansSafe == QuerySpec => []ScansAreTheWhereClause
  <1>1. ASSUME NEW n, NEW tabs, NEW conds, IsQuery(n, tabs, conds),
               NEW row \in [1..n -> [ColNames -> Values]]
        PROVE  Passes(tabs, conds, row) <=>
                 Satisfies({c \in conds : Named(c) \subseteq Prefix(tabs, n)}, Dict(tabs, row, n))
    <2>0. n \in Nat /\ Len(tabs) = n
      BY <1>1 DEF IsQuery
    <2> DEFINE Fd(c, i) == Fed(Oriented(c, tabs[i]), tabs[i], Dict(tabs, row, i - 1))
    <2>1. Passes(tabs, conds, row) <=>
            \A i \in 1..n : \A c \in curr_conds(tabs, conds, i) :
              eval_cond(Fd(c, i), Rec(tabs, row, i))
      BY <2>0 DEF Passes, ScanConds
    <2>2. \A i \in 1..n : \A c \in curr_conds(tabs, conds, i) :
            eval_cond(Fd(c, i), Rec(tabs, row, i)) <=> eval_cond(c, Dict(tabs, row, n))
      BY <1>1, FedSaysTheSame
    <2>3. \A i \in 1..n : curr_conds(tabs, conds, i) \subseteq conds
      BY <1>1, CurrInConds
    <2>4. \A c \in conds : Named(c) \subseteq Prefix(tabs, n) <=>
                             \E i \in 1..n : c \in curr_conds(tabs, conds, i)
      BY <1>1, CurrIs
    <2> HIDE DEF Fd
    <2>5. Passes(tabs, conds, row) <=>
            \A i \in 1..n : \A c \in curr_conds(tabs, conds, i) : eval_cond(c, Dict(tabs, row, n))
      BY <2>1, <2>2
    <2> QED BY <2>3, <2>4, <2>5 DEF Satisfies
  <1>2. ASSUME NEW n, NEW tabs, NEW conds, IsQuery(n, tabs, conds),
               query.tabs = tabs, query.conds = conds
        PROVE  ScansAreTheWhereClause
    <2>1. Len(tabs) = n /\ From = Prefix(tabs, n)
      BY <1>2 DEF IsQuery, From, Prefix
    <2> QED BY <1>1, <1>2, <2>1 DEF ScansAreTheWhereClause, Rows
  <1>3. QueryInv => ScansAreTheWhereClause
    BY <1>2 DEF QueryInv
  <1> QED BY <1>3, QueryInvariant, PTL

-----------------------------------------------------------------------------
(* Names of columns.                                                       *)

\* get_all_cols' loop has a run, and it lists columns.
LEMMA AllColumns ==
  ASSUME NEW n, NEW tabs, NEW conds, IsQuery(n, tabs, conds),
         NEW ts, {tabs[i] : i \in 1..n} \subseteq ts, NEW cols \in [ts -> ColLists]
  PROVE  get_all_cols(cols, tabs) \in Seq(Tables \X STRING)
  <1> DEFINE S == Seq(Tables \X STRING)
             List(i) == [j \in 1..Len(cols[tabs[i]]) |-> <<tabs[i], cols[tabs[i]][j]>>]
             from[i \in 0..Len(tabs)] ==
               IF i = 0 THEN <<>>
               ELSE from[i - 1] \o [j \in 1..Len(cols[tabs[i]]) |-> <<tabs[i], cols[tabs[i]][j]>>]
             Body(f) == [i \in 0..Len(tabs) |-> IF i = 0 THEN <<>> ELSE f[i - 1] \o List(i)]
             g == [p \in (1..n) \X S |-> p[2] \o List(p[1])]
  <1>0. n \in Nat /\ Len(tabs) = n /\ tabs \in [1..n -> Tables]
    BY DEF IsQuery
  <1>1. get_all_cols(cols, tabs) = from[Len(tabs)]
    BY DEF get_all_cols
  <1>2. ASSUME NEW i \in 1..n PROVE List(i) \in S
    <2>1. cols[tabs[i]] \in Seq(STRING) /\ tabs[i] \in Tables
      BY <1>0, QueryAssumption
    <2> QED BY <2>1
  <1> HIDE DEF List
  <1>3. g \in [(1..n) \X S -> S]
    <2>1. ASSUME NEW p \in (1..n) \X S PROVE p[2] \o List(p[1]) \in S
      BY <1>2, ConcatProperties
    <2> QED BY <2>1
  <1>4. <<>> \in S
    OBVIOUS
  <1> HIDE DEF S
  <1>5. PICK f : IsRun(f, n, S, <<>>, g)
    <2> HIDE DEF g
    <2> QED BY <1>0, <1>3, <1>4, Recursion
  <1>6. f = Body(f)
    <2>0. /\ f \in [0..n -> S] /\ f[0] = <<>>
          /\ \A i \in 1..n : f[i] = g[<<i, f[i - 1]>>]
      <3> HIDE DEF g
      <3> QED BY <1>5 DEF IsRun
    <2>1. ASSUME NEW i \in 0..n PROVE f[i] = IF i = 0 THEN <<>> ELSE f[i - 1] \o List(i)
      <3>1. CASE i = 0
        BY <2>0, <3>1
      <3>2. CASE i # 0
        <4>1. i \in 1..n /\ f[i - 1] \in S
          BY <1>0, <2>0, <3>2
        <4>2. <<i, f[i - 1]>> \in (1..n) \X S
          BY <4>1
        <4>3. g[<<i, f[i - 1]>>] = f[i - 1] \o List(i)
          BY <4>2
        <4> HIDE DEF g
        <4> QED BY <2>0, <3>2, <4>1, <4>3
      <3> QED BY <3>1, <3>2
    <2> QED BY <1>0, <2>0, <2>1
  <1>7. from = Body(from)
    BY <1>6 DEF List
  <1> HIDE DEF from
  <1>8. \A i \in 0..n : from[i] = IF i = 0 THEN <<>> ELSE from[i - 1] \o List(i)
    BY <1>0, <1>7
  <1> DEFINE P == {k \in 0..n : from[k] \in S}
  <1>9. 0 \in P
    <2>1. from[0] = <<>> /\ 0 \in 0..n
      BY <1>0, <1>8
    <2> QED BY <1>4, <2>1
  <1>10. ASSUME NEW k \in 1..n, k - 1 \in P PROVE k \in P
    <2>1. k \in 0..n /\ k # 0 /\ from[k - 1] \in S
      BY <1>0, <1>10
    <2>2. from[k] = from[k - 1] \o List(k)
      BY <1>8, <2>1
    <2>3. from[k - 1] \o List(k) \in S
      BY <1>2, <2>1, ConcatProperties DEF S
    <2> QED BY <2>1, <2>2, <2>3
  <1> HIDE DEF P
  <1>11. 0..n \subseteq P
    BY <1>0, <1>9, <1>10, Induction
  <1> QED BY <1>0, <1>1, <1>11 DEF P, S

\* A search through n columns, of which those in M match and column i has the
\* table t[i].
IsSearch(scan, n, M, t) ==
  /\ scan[0] = "not found"
  /\ \A i \in 1..n : scan[i] =
       IF scan[i - 1] = "ambiguous" \/ i \notin M THEN scan[i - 1]
       ELSE IF scan[i - 1] = "not found" THEN t[i] ELSE "ambiguous"

\* What the result r says of the matches.
Tells(r, M, t) ==
  /\ M = {} <=> r = "not found"
  /\ (\E i, j \in M : i # j) <=> r = "ambiguous"
  /\ \A i \in M : M = {i} => r = t[i]

\* It knows of the matches so far whether there is none, one, or more.
LEMMA SearchKnows ==
  ASSUME NEW n \in Nat, NEW M, \A i \in M : i \in Int /\ 1 <= i /\ i <= n,
         NEW t, \A i \in 1..n : t[i] \in Tables, NEW scan, IsSearch(scan, n, M, t)
  PROVE  Tells(scan[n], M, t)
  <1> DEFINE K(k) == {i \in M : i <= k}
             Known(k) ==
               /\ K(k) = {} <=> scan[k] = "not found"
               /\ (\E i, j \in K(k) : i # j) <=> scan[k] = "ambiguous"
               /\ \A i \in K(k) : K(k) = {i} => scan[k] = t[i]
             P == {k \in 0..n : Known(k)}
  <1>1. 0 \in P
    <2>1. K(0) = {}
      OBVIOUS
    <2>2. 0 \in 0..n
      OBVIOUS
    <2> HIDE DEF K
    <2>3. scan[0] = "not found"
      BY DEF IsSearch
    <2>4. Known(0)
      BY <2>1, <2>3
    <2> QED BY <2>2, <2>4
  <1>2. ASSUME NEW k \in 1..n, k - 1 \in P PROVE k \in P
    <2>0. k \in 0..n /\ Known(k - 1)
      <3> HIDE DEF Known
      <3> QED BY <1>2
    <2>1. CASE k \notin M
      <3>1. K(k) = K(k - 1)
        BY <2>1
      <3>2. scan[k] = scan[k - 1]
        BY <2>1 DEF IsSearch
      <3> HIDE DEF K
      <3>3. Known(k)
        BY <2>0, <3>1, <3>2
      <3> QED BY <2>0, <3>3
    <2>2. CASE k \in M
      <3>0. \A i \in M : i <= k <=> (i <= k - 1 \/ i = k)
        OBVIOUS
      <3>1. K(k) = K(k - 1) \cup {k} /\ k \notin K(k - 1)
        <4>1. ~(k <= k - 1)
          OBVIOUS
        <4>2. k \notin K(k - 1)
          BY <4>1
        <4>3. \A i : i \in K(k) <=> (i \in K(k - 1) \/ i = k)
          BY <3>0, <2>2
        <4> HIDE DEF K
        <4> QED BY <4>2, <4>3
      <3> HIDE DEF K
      <3>2. CASE scan[k - 1] = "not found"
        <4>1. scan[k] = t[k]
          BY <2>2, <3>2 DEF IsSearch
        <4>2. K(k) = {k}
          BY <2>0, <3>1, <3>2
        <4>3. scan[k] # "not found" /\ scan[k] # "ambiguous"
          BY <4>1, QueryAssumption
        <4>4. Known(k)
          BY <4>1, <4>2, <4>3
        <4> QED BY <2>0, <4>4
      <3>3. CASE scan[k - 1] # "not found"
        <4>1. scan[k] = "ambiguous"
          BY <2>2, <3>3 DEF IsSearch
        <4>2. PICK i \in K(k - 1) : TRUE
          BY <2>0, <3>3
        <4>3. i \in K(k) /\ k \in K(k) /\ i # k
          BY <3>1, <4>2
        <4>4. K(k) # {} /\ (\E j, l \in K(k) : j # l) /\ \A l \in K(k) : K(k) # {l}
          BY <4>3
        <4>5. Known(k)
          BY <4>1, <4>4
        <4> QED BY <2>0, <4>5
      <3> QED BY <3>2, <3>3
    <2> QED BY <2>1, <2>2
  <1>3. K(n) = M
    OBVIOUS
  <1> HIDE DEF P, K
  <1>4. 0..n \subseteq P
    BY <1>1, <1>2, Induction
  <1>5. Known(n)
    <2>1. n \in 0..n
      OBVIOUS
    <2> HIDE DEF Known
    <2> QED BY <1>4, <2>1 DEF P
  <1> QED BY <1>3, <1>5 DEF Tells

\* infer_table's loop is such a search.
LEMMA InferTable ==
  ASSUME NEW all, NEW n \in Nat, Len(all) = n, \A i \in 1..n : Tab(all[i]) \in Tables, NEW name
  PROVE  LET matches == {i \in 1..Len(all) : all[i][2] = name}
             r == infer_table(all, name)
         IN  /\ matches = {} <=> r = "not found"
             /\ (\E i, j \in matches : i # j) <=> r = "ambiguous"
             /\ \A i \in matches : matches = {i} => r = Tab(all[i])
  <1> DEFINE M == {i \in 1..Len(all) : all[i][2] = name}
             S == Tables \cup {"ambiguous", "not found"}
             scan[i \in 0..Len(all)] ==
               IF i = 0 THEN "not found"
               ELSE IF scan[i - 1] = "ambiguous" \/ all[i][2] # name THEN scan[i - 1]
               ELSE IF scan[i - 1] = "not found" THEN Tab(all[i]) ELSE "ambiguous"
             Body(f) == [i \in 0..Len(all) |->
               IF i = 0 THEN "not found"
               ELSE IF f[i - 1] = "ambiguous" \/ all[i][2] # name THEN f[i - 1]
               ELSE IF f[i - 1] = "not found" THEN Tab(all[i]) ELSE "ambiguous"]
             Round(i, r) == IF r = "ambiguous" \/ i \notin M THEN r
                            ELSE IF r = "not found" THEN Tab(all[i]) ELSE "ambiguous"
             g == [p \in (1..n) \X S |-> Round(p[1], p[2])]
  <1>0. \A i \in M : i \in Int /\ 1 <= i /\ i <= n
    OBVIOUS
  <1>1. infer_table(all, name) = scan[Len(all)]
    BY DEF infer_table
  <1>3. \A f : Body(f) = [i \in 0..n |-> IF i = 0 THEN "not found" ELSE Round(i, f[i - 1])]
    <2> SUFFICES ASSUME NEW f, NEW i \in 0..n, i # 0
                 PROVE  (IF f[i - 1] = "ambiguous" \/ all[i][2] # name THEN f[i - 1]
                         ELSE IF f[i - 1] = "not found" THEN Tab(all[i]) ELSE "ambiguous")
                        = Round(i, f[i - 1])
      <3> HIDE DEF Round
      <3> QED OBVIOUS
    <2>1. i \in M <=> all[i][2] = name
      <3>1. i \in 1..n
        BY <1>0
      <3> QED BY <3>1
    <2> HIDE DEF M
    <2> QED BY <2>1
  <1> HIDE DEF M, Body
  <1>4. \A i \in 1..n, r \in S : Round(i, r) \in S
    OBVIOUS
  <1>5. g \in [(1..n) \X S -> S] /\ "not found" \in S
    <2> HIDE DEF Round
    <2> QED BY <1>4
  <1>7. \E f : f = Body(f)
    <2> HIDE DEF Round, S
    <2>0. PICK f : IsRun(f, n, S, "not found", g)
      <3> HIDE DEF g
      <3> QED BY <1>0, <1>5, Recursion
    <2>1. f \in [0..n -> S] /\ f[0] = "not found" /\ \A i \in 1..n : f[i] = g[<<i, f[i - 1]>>]
      <3> HIDE DEF g
      <3> QED BY <2>0 DEF IsRun
    <2>2. ASSUME NEW i \in 0..n PROVE f[i] = IF i = 0 THEN "not found" ELSE Round(i, f[i - 1])
      <3>1. CASE i = 0
        <4> HIDE DEF g
        <4> QED BY <2>1, <3>1
      <3>2. CASE i # 0
        <4>0. i \in 1..n /\ i - 1 \in 0..n
          BY <3>2
        <4>1. i \in 1..n /\ f[i - 1] \in S
          BY <2>1, <4>0
        <4>2. <<i, f[i - 1]>> \in (1..n) \X S
          BY <4>1
        <4>3. g[<<i, f[i - 1]>>] = Round(i, f[i - 1])
          BY <4>2
        <4> HIDE DEF g
        <4> QED BY <2>1, <3>2, <4>1, <4>3
      <3> QED BY <3>1, <3>2
    <2>3. f = [i \in 0..n |-> IF i = 0 THEN "not found" ELSE Round(i, f[i - 1])]
      BY <2>1, <2>2
    <2> QED BY <1>3, <2>3
  <1>8. scan = Body(scan)
    BY <1>7 DEF Body
  <1> HIDE DEF scan
  <1>9. /\ scan[0] = "not found"
        /\ \A i \in 1..n : scan[i] = Round(i, scan[i - 1])
    <2> HIDE DEF Round
    <2>1. scan = [i \in 0..n |-> IF i = 0 THEN "not found" ELSE Round(i, scan[i - 1])]
      BY <1>3, <1>8
    <2>2. \A i \in 0..n : scan[i] = IF i = 0 THEN "not found" ELSE Round(i, scan[i - 1])
      BY <2>1
    <2>3. 0 \in 0..n /\ \A i \in 1..n : i \in 0..n /\ i # 0
      OBVIOUS
    <2> QED BY <2>2, <2>3
  <1> HIDE DEF g
  <1>10. PICK t : t = [i \in 1..n |-> Tab(all[i])]
    OBVIOUS
  <1>11. \A i \in 1..n : t[i] \in Tables
    BY <1>10
  <1>12. IsSearch(scan, n, M, t)
    BY <1>9, <1>10 DEF IsSearch
  <1>13. Tells(scan[n], M, t)
    <2> HIDE DEF Round
    <2> QED BY <1>0, <1>11, <1>12, SearchKnows
  <1>14. \A i \in M : t[i] = Tab(all[i])
    BY <1>0, <1>10
  <1> QED BY <1>1, <1>13, <1>14 DEF M, Tells

\* QlManager resolves a column name to a table exactly when one column has it, and
\* accepts a qualified name exactly when the database has the column.
THEOREM NamesSafe == QuerySpec => []NamesResolved
  <1>1. ASSUME NEW n, NEW tabs, NEW conds, IsQuery(n, tabs, conds), query.tabs = tabs
        PROVE  NamesResolved
    <2> SUFFICES ASSUME NEW db \in Databases, NEW name \in ColNames
                 PROVE  LET all == get_all_cols(db, query.tabs)
                            matches == {i \in 1..Len(all) : all[i][2] = name}
                            r == check_column(db, all, <<"", name>>)
                        IN  /\ matches = {} <=> r = "not found"
                            /\ Cardinality(matches) > 1 <=> r = "ambiguous"
                            /\ Cardinality(matches) = 1 => \A i \in matches : r = Tab(all[i])
                            /\ \A tab \in Tables :
                                 LET q == check_column(db, all, <<tab, name>>)
                                 IN  /\ q \in {tab, "not found"}
                                     /\ q = tab <=> /\ tab \in DOMAIN db
                                                    /\ \E j \in 1..Len(db[tab]) : db[tab][j] = name
      BY Zenon DEF NamesResolved
    <2>0. PICK ts \in SUBSET Tables : From \subseteq ts /\ db \in [ts -> ColLists]
      BY DEF Databases
    <2> DEFINE all == get_all_cols(db, tabs)
               matches == {i \in 1..Len(all) : all[i][2] = name}
               r == check_column(db, all, <<"", name>>)
    <2>1. all \in Seq(Tables \X STRING)
      <3>1. Len(tabs) = n /\ From = {tabs[i] : i \in 1..n}
        BY <1>1 DEF IsQuery, From
      <3> QED BY <1>1, <2>0, <3>1, AllColumns
    <2> HIDE DEF all
    <2>q. ASSUME NEW tab \in Tables
          PROVE  LET q == check_column(db, all, <<tab, name>>)
                 IN  /\ q \in {tab, "not found"}
                     /\ q = tab <=> /\ tab \in DOMAIN db
                                    /\ \E j \in 1..Len(db[tab]) : db[tab][j] = name
      <3>1. tab # "" /\ tab # "not found"
        BY QueryAssumption
      <3>2. <<tab, name>>[1] = tab /\ <<tab, name>>[2] = name
        OBVIOUS
      <3> QED BY <3>1, <3>2 DEF check_column, is_table, is_col, Tab
    <2>r. r = infer_table(all, name)
      <3>1. <<"", name>>[1] = "" /\ <<"", name>>[2] = name
        OBVIOUS
      <3> QED BY <3>1 DEF check_column, Tab
    <2>2. /\ matches = {} <=> r = "not found"
          /\ (\E i, j \in matches : i # j) <=> r = "ambiguous"
          /\ \A i \in matches : matches = {i} => r = Tab(all[i])
      <3>1. \A i \in 1..Len(all) : all[i] \in Tables \X STRING
        BY <2>1, ElementOfSeq
      <3>2. Len(all) \in Nat /\ \A i \in 1..Len(all) : Tab(all[i]) \in Tables
        BY <2>1, <3>1, LenProperties DEF Tab
      <3>3. LET rr == infer_table(all, name)
            IN  /\ matches = {} <=> rr = "not found"
                /\ (\E i, j \in matches : i # j) <=> rr = "ambiguous"
                /\ \A i \in matches : matches = {i} => rr = Tab(all[i])
        BY <3>2, InferTable
      <3> HIDE DEF r, matches
      <3> QED BY <2>r, <3>3
    <2>3. IsFiniteSet(matches)
      <3>1. IsFiniteSet(1..Len(all))
        BY <2>1, LenProperties, FS_Interval
      <3> QED BY <3>1, FS_Subset
    <2> HIDE DEF matches, r
    <2>4. Cardinality(matches) \in Nat
      BY <2>3, FS_CardinalityType
    <2>5. Cardinality(matches) = 0 <=> matches = {}
      BY <2>3, FS_EmptySet
    <2>6. Cardinality(matches) = 1 <=> \E i : matches = {i}
      BY <2>3, FS_Singleton
    <2>7. Cardinality(matches) > 1 <=> \E i, j \in matches : i # j
      <3>1. (\E i, j \in matches : i # j) => (matches # {} /\ ~\E i : matches = {i})
        OBVIOUS
      <3>2. ASSUME matches # {}, ~\E i : matches = {i} PROVE \E i, j \in matches : i # j
        <4>1. PICK i \in matches : TRUE
          BY <3>2
        <4>2. PICK j \in matches : j # i
          BY <3>2, <4>1
        <4> QED BY <4>1, <4>2
      <3>3. Cardinality(matches) > 1 <=> (Cardinality(matches) # 0 /\ Cardinality(matches) # 1)
        BY <2>4
      <3>4. (\E i, j \in matches : i # j) <=> (matches # {} /\ ~\E i : matches = {i})
        BY <3>1, <3>2
      <3> QED BY <2>5, <2>6, <3>3, <3>4
    <2>8. Cardinality(matches) = 1 => \A i \in matches : matches = {i}
      BY <2>6
    <2> QED BY <1>1, <2>2, <2>7, <2>8, <2>q DEF all, matches, r
  <1>2. QueryInv => NamesResolved
    BY <1>1 DEF QueryInv, NamesResolved
  <1> QED BY <1>2, QueryInvariant, PTL

=============================================================================
