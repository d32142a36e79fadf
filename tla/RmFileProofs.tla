---------------------------- MODULE RmFileProofs ----------------------------
(***************************************************************************)
(* Theorems about record files and scans, for every page size, record      *)
(* size, number of pages and pool: a file keeps its records, its counts    *)
(* and its free list, and a scan misses no record.                         *)
(***************************************************************************)
EXTENDS RmScan, FiniteSetTheorems, WellFoundedInduction, TLAPS

-----------------------------------------------------------------------------
(* The layout of a page.                                                   *)

\* Division, as SMT wants it: the quotient times the divisor does not exceed the
\* dividend.
LEMMA QuotientBound ==
  ASSUME NEW x \in Nat, NEW y \in Nat \ {0}
  PROVE  x \div y \in Nat /\ (x \div y) * y <= x
  OBVIOUS

-----------------------------------------------------------------------------
(* Slots.                                                                  *)

LEMMA LeastExists ==
  ASSUME NEW T, T \subseteq Nat, T # {}
  PROVE  \E x \in T : \A y \in T : x <= y
  <1> DEFINE R == {ss \in Nat \X Nat : ss[1] < ss[2]}
  <1>1. IsWellFoundedOn(R, Nat)
    BY NatLessThanWellFounded DEF OpToRel
  <1>2. \E x \in T : \A y \in T : ~(<<y, x>> \in R)
    <2> HIDE DEF R
    <2> QED BY <1>1, WFMin
  <1>3. PICK x \in T : \A y \in T : ~(<<y, x>> \in R)
    BY <1>2
  <1>4. ASSUME NEW y \in T PROVE x <= y
    <2>1. x \in Nat /\ y \in Nat
      BY <1>4
    <2>2. ~(<<y, x>> \in R)
      BY <1>3, <1>4
    <2>3. ~(y < x)
      BY <2>1, <2>2
    <2> QED BY <2>1, <2>3
  <1> QED BY <1>4

LEMMA SlotCount == N \in Nat /\ N >= 1 /\ Slots = 0..(N - 1)
  <1>1. 8 * (PAGE_SIZE - 1 - 20) + 1 \in Nat /\ 1 + record_size * 8 \in Nat \ {0}
    BY PageSizeAssumption, RecordAssumption
  <1>2. N \in Nat
    BY <1>1, QuotientBound DEF N, NumRecordsPerPage, BITMAP_WIDTH, SizeofRmFileHdr
  <1> QED BY <1>2, RecordAssumption DEF N, Slots

\* first_bit finds a slot that is not taken, or N.
LEMMA FirstFree ==
  ASSUME NEW bits \in SUBSET Slots
  PROVE  LET s == FirstBit(FALSE, bits, N)
         IN  s < N => s \in Slots \ bits
  <1> DEFINE after == {i \in (-1 + 1)..(N - 1) : (i \in bits) = FALSE}
             s == FirstBit(FALSE, bits, N)
  <1> SUFFICES s < N => s \in Slots \ bits
    OBVIOUS
  <1>1. s = IF after = {} THEN N ELSE CHOOSE i \in after : \A j \in after : i <= j
    BY DEF FirstBit, NextBit
  <1>2. after \subseteq Nat /\ after \subseteq Slots \ bits
    BY SlotCount
  <1> HIDE DEF after, s
  <1>3. CASE after = {}
    BY <1>1, <1>3, SlotCount
  <1>4. CASE after # {}
    <2>1. \E i \in after : \A j \in after : i <= j
      BY <1>2, <1>4, LeastExists
    <2> QED BY <1>1, <1>2, <1>4, <2>1
  <1> QED BY <1>3, <1>4

-----------------------------------------------------------------------------
(* The inductive invariant of the refinement.                              *)

\* Page numbers go on where the header ends.
Numbered == open => fd2pageno_ = file_hdr_.num_pages

\* The free list stays within the pages of the file.
LinksAllocated ==
  /\ Hdr.first_free_page_no \in DataPages \cup {RM_NO_PAGE}
  /\ \A p \in DataPages : pages[p].next_free_page_no \in DataPages \cup {RM_NO_PAGE}

\* A slot whose bit is set holds a record.
BitsMeanRecords ==
  \A p \in PageNos : \A s \in pages[p].bitmap : pages[p].slots[s] \in Records

FileInv == TypeOK /\ Numbered /\ LinksAllocated /\ BitsMeanRecords

\* Types of what one page of the file becomes.
LEMMA InsertedPage ==
  ASSUME NEW page \in Pages, NEW rec \in Records, NEW s \in Slots
  PROVE  LET after == PageAfterInsert(page, s, rec)
         IN  /\ after \in Pages
             /\ after.next_free_page_no = page.next_free_page_no
             /\ after.bitmap = page.bitmap \cup {s}
             /\ after.slots = [page.slots EXCEPT ![s] = rec]
  BY DEF Pages, PageAfterInsert, PageOf

LEMMA DeletedPage ==
  ASSUME NEW page \in Pages, NEW s \in Slots, NEW next \in PageNos \cup {RM_NO_PAGE}
  PROVE  LET after == PageOf(next, page.num_records - 1, page.bitmap \ {s}, page.slots)
         IN  /\ after \in Pages
             /\ after.next_free_page_no = next
             /\ after.bitmap = page.bitmap \ {s}
             /\ after.slots = page.slots
  BY DEF Pages, PageOf

LEMMA UpdatedPage ==
  ASSUME NEW page \in Pages, NEW rec \in Records, NEW s \in Slots
  PROVE  LET after == PageOf(page.next_free_page_no, page.num_records, page.bitmap,
                             [page.slots EXCEPT ![s] = rec])
         IN  /\ after \in Pages
             /\ after.next_free_page_no = page.next_free_page_no
             /\ after.bitmap = page.bitmap
             /\ after.slots = [page.slots EXCEPT ![s] = rec]
  BY DEF Pages, PageOf

\* A step that changes what is at one record id changes the function there.
LEMMA OneRecordChanges ==
  ASSUME NEW p \in PageNos, NEW s \in Slots, NEW v,
         \A q \in PageNos, t \in Slots :
           RecordAt(q, t)' = IF q = p /\ t = s THEN v ELSE RecordAt(q, t)
  PROVE  RecordsOf' = [RecordsOf EXCEPT ![<<p, s>>] = v]
  <1>1. ASSUME NEW r \in Rids
        PROVE  RecordsOf'[r] = IF r = <<p, s>> THEN v ELSE RecordsOf[r]
    <2>1. PICK q \in PageNos, t \in Slots : r = <<q, t>>
      BY <1>1 DEF Rids
    <2>2. RecordsOf'[r] = RecordAt(q, t)' /\ RecordsOf[r] = RecordAt(q, t)
      BY <1>1, <2>1 DEF RecordsOf
    <2>3. RecordAt(q, t)' = IF q = p /\ t = s THEN v ELSE RecordAt(q, t)
      OBVIOUS
    <2> QED BY <2>1, <2>2, <2>3
  <1> QED BY <1>1 DEF RecordsOf

LEMMA NoRecordChanges ==
  ASSUME \A q \in PageNos, t \in Slots : RecordAt(q, t)' = RecordAt(q, t)
  PROVE  RecordsOf' = RecordsOf
  <1>1. ASSUME NEW r \in Rids
        PROVE  RecordsOf'[r] = RecordsOf[r]
    <2>1. PICK q \in PageNos, t \in Slots : r = <<q, t>>
      BY <1>1 DEF Rids
    <2>2. RecordsOf'[r] = RecordAt(q, t)' /\ RecordsOf[r] = RecordAt(q, t)
      BY <1>1, <2>1 DEF RecordsOf
    <2> QED BY <2>2
  <1> QED BY <1>1 DEF RecordsOf

-----------------------------------------------------------------------------
(* Every step keeps the invariant, and is a step of RecordStore or leaves  *)
(* the records alone.                                                      *)

RecordStep == RS!Next \/ UNCHANGED RecordsOf

LEMMA OpenFacts ==
  ASSUME FileInv, Running
  PROVE  /\ open = TRUE /\ broken = "ok"
         /\ Hdr = file_hdr_
         /\ DataPages = 1..(file_hdr_.num_pages - 1)
         /\ DataPages \subseteq PageNos
         /\ Allocated = DataPages
         /\ fd2pageno_ = file_hdr_.num_pages
         /\ file_hdr_.num_pages \in 1..(MaxPages + 1)
  BY RecordAssumption
  DEF FileInv, TypeOK, Numbered, Running, Hdr, Hdrs, DataPages, Allocated, PageNos,
      RM_FIRST_RECORD_PAGE

\* The records of an open file whose header has n pages.
LEMMA RecordAtNext ==
  ASSUME NEW n \in Nat, open' = TRUE, file_hdr_'.num_pages = n
  PROVE  /\ Hdr' = file_hdr_'
         /\ DataPages' = 1..(n - 1)
         /\ \A q, t : RecordAt(q, t)' = IF q \in 1..(n - 1) /\ t \in pages'[q].bitmap
                                        THEN pages'[q].slots[t] ELSE NoRecord
  BY DEF RecordAt, DataPages, Hdr, RM_FIRST_RECORD_PAGE

LEMMA RecordAtNow ==
  ASSUME FileInv, Running
  PROVE  \A q, t : RecordAt(q, t) =
           IF q \in 1..(file_hdr_.num_pages - 1) /\ t \in pages[q].bitmap
           THEN pages[q].slots[t] ELSE NoRecord
  BY OpenFacts DEF RecordAt

\* What the page that becomes full leaves behind in the header.
LEMMA HeaderAfterInsert ==
  ASSUME NEW n, NEW p, NEW after
  PROVE  LET h == HdrAfterInsert([num_pages |-> n, first_free_page_no |-> p], after)
         IN  \E f \in {p, after.next_free_page_no} :
               h = [num_pages |-> n, first_free_page_no |-> f]
  BY DEF HdrAfterInsert

\* insert_record on page p, once it is a page of the file and the first of the
\* free list.
LEMMA InsertIntoKeeps ==
  ASSUME FileInv, Running,
         NEW n \in 1..(MaxPages + 1), NEW p \in 1..(n - 1), NEW page \in Pages,
         NEW rec \in Records,
         InsertInto([num_pages |-> n, first_free_page_no |-> p], p, page, rec),
         \A t \in page.bitmap : page.slots[t] \in Records,
         page.next_free_page_no \in 1..(n - 1) \cup {RM_NO_PAGE},
         file_hdr_.num_pages <= n,
         \A q \in 1..(n - 1) : q = p \/ q < file_hdr_.num_pages,
         \A t \in Slots : RecordAt(p, t) = IF t \in page.bitmap THEN page.slots[t]
                                           ELSE NoRecord,
         fd2pageno_' = n, UNCHANGED <<disk_hdr, leaked, open, broken, stale>>
  PROVE  FileInv' /\ RecordStep
  <1> DEFINE s == FirstBit(FALSE, page.bitmap, N)
             after == PageAfterInsert(page, s, rec)
  <1>1. /\ s < N
        /\ pages' = [pages EXCEPT ![p] = after]
        /\ file_hdr_' = HdrAfterInsert([num_pages |-> n, first_free_page_no |-> p], after)
    BY DEF InsertInto
  <1>2. s \in Slots /\ s \notin page.bitmap
    <2>1. page.bitmap \in SUBSET Slots
      BY DEF Pages
    <2> QED BY <1>1, <2>1, FirstFree
  <1> HIDE DEF s
  <1>3. /\ after \in Pages
        /\ after.next_free_page_no = page.next_free_page_no
        /\ after.bitmap = page.bitmap \cup {s}
        /\ after.slots = [page.slots EXCEPT ![s] = rec]
    BY <1>2, InsertedPage
  <1> HIDE DEF after
  <1>4. PICK f \in {p, after.next_free_page_no} :
          file_hdr_' = [num_pages |-> n, first_free_page_no |-> f]
    BY <1>1, HeaderAfterInsert
  <1>5. f \in 1..(n - 1) \cup {RM_NO_PAGE}
    BY <1>3, <1>4
  <1>6. /\ n \in Nat /\ file_hdr_'.num_pages = n /\ open' = TRUE
        /\ 1..(n - 1) \subseteq PageNos /\ p \in PageNos
    BY <1>4, OpenFacts, RecordAssumption DEF PageNos, RM_FIRST_RECORD_PAGE
  <1>7. /\ Hdr' = file_hdr_'
        /\ DataPages' = 1..(n - 1)
        /\ \A q, t : RecordAt(q, t)' = IF q \in 1..(n - 1) /\ t \in pages'[q].bitmap
                                       THEN pages'[q].slots[t] ELSE NoRecord
    BY <1>6, RecordAtNext
  <1>8. /\ pages \in [PageNos -> Pages]
        /\ pages'[p] = after
        /\ \A q \in PageNos : q # p => pages'[q] = pages[q]
        /\ pages' \in [PageNos -> Pages]
    BY <1>1, <1>3, <1>6 DEF FileInv, TypeOK
  <1>9. TypeOK'
    <2>1. file_hdr_' \in Hdrs
      BY <1>4, <1>5, <1>6 DEF Hdrs
    <2> QED BY <1>8, <2>1 DEF FileInv, TypeOK
  <1>10. Numbered'
    BY <1>6 DEF Numbered
  <1>11. LinksAllocated'
    <2>1. Hdr'.first_free_page_no \in 1..(n - 1) \cup {RM_NO_PAGE}
      BY <1>4, <1>5, <1>7
    <2>2. ASSUME NEW q \in 1..(n - 1)
          PROVE  pages'[q].next_free_page_no \in 1..(n - 1) \cup {RM_NO_PAGE}
      <3>1. CASE q = p
        BY <1>3, <1>8, <3>1
      <3>2. CASE q # p
        <4>1. q \in DataPages /\ q \in PageNos
          BY <1>6, <3>2, OpenFacts
        <4>2. pages[q].next_free_page_no \in DataPages \cup {RM_NO_PAGE}
          BY <4>1 DEF FileInv, LinksAllocated
        <4>3. DataPages \subseteq 1..(n - 1)
          BY <1>6, OpenFacts
        <4> QED BY <1>8, <3>2, <4>1, <4>2, <4>3
      <3> QED BY <3>1, <3>2
    <2> QED BY <1>7, <2>1, <2>2 DEF LinksAllocated
  <1>12. BitsMeanRecords'
    <2> SUFFICES ASSUME NEW q \in PageNos, NEW t \in pages'[q].bitmap
                 PROVE  pages'[q].slots[t] \in Records
      BY DEF BitsMeanRecords
    <2>1. CASE q = p
      <3>1. page.slots \in [Slots -> Records \cup {NoRecord}] /\ page.bitmap \subseteq Slots
        BY DEF Pages
      <3> QED BY <1>2, <1>3, <1>8, <2>1, <3>1
    <2>2. CASE q # p
      BY <1>8, <2>2 DEF FileInv, BitsMeanRecords
    <2> QED BY <2>1, <2>2
  <1>13. RecordsOf' = [RecordsOf EXCEPT ![<<p, s>>] = rec]
    <2>1. ASSUME NEW q \in PageNos, NEW t \in Slots
          PROVE  RecordAt(q, t)' = IF q = p /\ t = s THEN rec ELSE RecordAt(q, t)
      <3>1. CASE q = p
        <4>1. page.slots \in [Slots -> Records \cup {NoRecord}]
          BY DEF Pages
        <4>2. RecordAt(p, t) = IF t \in page.bitmap THEN page.slots[t] ELSE NoRecord
          BY <2>1
        <4>3. RecordAt(p, t)' = IF t \in after.bitmap THEN after.slots[t] ELSE NoRecord
          BY <1>7, <1>8
        <4> QED BY <1>3, <3>1, <4>1, <4>2, <4>3
      <3>2. CASE q # p
        <4>1. q \in 1..(n - 1) <=> q \in 1..(file_hdr_.num_pages - 1)
          BY <1>6, <2>1, <3>2, OpenFacts
        <4>2. pages'[q] = pages[q]
          BY <1>8, <2>1, <3>2
        <4>3. RecordAt(q, t) =
                IF q \in 1..(file_hdr_.num_pages - 1) /\ t \in pages[q].bitmap
                THEN pages[q].slots[t] ELSE NoRecord
          BY RecordAtNow
        <4>4. RecordAt(q, t)' = IF q \in 1..(n - 1) /\ t \in pages'[q].bitmap
                                THEN pages'[q].slots[t] ELSE NoRecord
          BY <1>7
        <4> QED BY <3>2, <4>1, <4>2, <4>3, <4>4
      <3> QED BY <3>1, <3>2
    <2> QED BY <1>2, <1>6, <2>1, OneRecordChanges
  <1>14. RecordsOf[<<p, s>>] = NoRecord
    <2>1. RecordsOf[<<p, s>>] = RecordAt(p, s)
      BY <1>2, <1>6 DEF RecordsOf, Rids
    <2> QED BY <1>2, <2>1
  <1>15. RS!Next
    <2>1. <<p, s>> \in Rids
      BY <1>2, <1>6 DEF Rids
    <2>2. RS!Insert(<<p, s>>, rec)
      BY <1>13, <1>14 DEF RS!Insert
    <2> QED BY <2>1, <2>2 DEF RS!Next
  <1> QED BY <1>9, <1>10, <1>11, <1>12, <1>15 DEF FileInv, RecordStep

LEMMA InsertFreePageKeeps ==
  ASSUME FileInv, NEW rec \in Records, InsertFreePage(rec)
  PROVE  FileInv' /\ RecordStep
  <1>1. PICK n, p, page : n = file_hdr_.num_pages /\ p = file_hdr_.first_free_page_no
                          /\ page = pages[p]
    OBVIOUS
  <1>2. /\ Running /\ p # RM_NO_PAGE
        /\ InsertInto(file_hdr_, p, page, rec)
        /\ fd2pageno_' = fd2pageno_ /\ UNCHANGED <<disk_hdr, leaked, open, broken, stale>>
    BY <1>1 DEF InsertFreePage
  <1>3. p \in DataPages /\ p \in 1..(n - 1) /\ n \in 1..(MaxPages + 1) /\ p \in PageNos
    BY <1>1, <1>2, OpenFacts DEF FileInv, LinksAllocated
  <1>4. file_hdr_ = [num_pages |-> n, first_free_page_no |-> p]
    BY <1>1 DEF FileInv, TypeOK, Hdrs
  <1>5. InsertInto([num_pages |-> n, first_free_page_no |-> p], p, page, rec)
    BY <1>2, <1>4
  <1>6. /\ page \in Pages
        /\ \A t \in page.bitmap : page.slots[t] \in Records
    BY <1>1, <1>3 DEF FileInv, TypeOK, BitsMeanRecords
  <1>7. page.next_free_page_no \in 1..(n - 1) \cup {RM_NO_PAGE}
    BY <1>1, <1>2, <1>3, OpenFacts DEF FileInv, LinksAllocated
  <1>8. \A t \in Slots : RecordAt(p, t) = IF t \in page.bitmap THEN page.slots[t]
                                          ELSE NoRecord
    BY <1>1, <1>2, <1>3, RecordAtNow
  <1>9. file_hdr_.num_pages <= n /\ \A q \in 1..(n - 1) : q < file_hdr_.num_pages
    BY <1>1, <1>3
  <1>10. fd2pageno_' = n
    BY <1>1, <1>2, OpenFacts
  <1> QED
    BY <1>2, <1>3, <1>5, <1>6, <1>7, <1>8, <1>9, <1>10, InsertIntoKeeps

LEMMA BlankPageType ==
  BlankPage \in Pages /\ BlankPage.bitmap = {} /\ BlankPage.next_free_page_no = RM_NO_PAGE
  BY DEF BlankPage, Pages, PageOf

\* The page create_new_page_handle takes is none of the file's.
LEMMA InsertNewPageKeeps ==
  ASSUME FileInv, NEW rec \in Records, InsertNewPage(rec)
  PROVE  FileInv' /\ RecordStep
  <1>1. PICK n, p : n = file_hdr_.num_pages + 1 /\ p = fd2pageno_
    OBVIOUS
  <1>2. /\ Running /\ p <= MaxPages
        /\ InsertInto([num_pages |-> n, first_free_page_no |-> p], p, BlankPage, rec)
        /\ fd2pageno_' = p + 1 /\ UNCHANGED <<disk_hdr, leaked, open, broken, stale>>
    BY <1>1 DEF InsertNewPage
  <1>3. /\ p = file_hdr_.num_pages /\ n = p + 1 /\ p \in 1..(n - 1)
        /\ n \in 1..(MaxPages + 1) /\ p \notin 1..(file_hdr_.num_pages - 1)
    BY <1>1, <1>2, OpenFacts, RecordAssumption
  <1>4. \A t \in Slots : RecordAt(p, t) = NoRecord
    BY <1>2, <1>3, RecordAtNow
  <1>5. \A t \in Slots : RecordAt(p, t) =
          IF t \in BlankPage.bitmap THEN BlankPage.slots[t] ELSE NoRecord
    BY <1>4, BlankPageType
  <1>6. file_hdr_.num_pages <= n /\ \A q \in 1..(n - 1) : q = p \/ q < file_hdr_.num_pages
    BY <1>3
  <1>7. fd2pageno_' = n
    BY <1>2, <1>3
  <1>8. /\ BlankPage \in Pages
        /\ \A t \in BlankPage.bitmap : BlankPage.slots[t] \in Records
        /\ BlankPage.next_free_page_no \in 1..(n - 1) \cup {RM_NO_PAGE}
    BY BlankPageType
  <1> QED
    BY <1>2, <1>3, <1>5, <1>6, <1>7, <1>8, InsertIntoKeeps

\* Steps that change neither the pages nor the header that counts.
LEMMA QuietStep ==
  ASSUME FileInv, UNCHANGED <<pages, Hdr>>, TypeOK', Numbered'
  PROVE  FileInv' /\ RecordStep
  <1>1. DataPages' = DataPages
    BY DEF DataPages
  <1>2. LinksAllocated'
    BY <1>1 DEF FileInv, LinksAllocated
  <1>3. BitsMeanRecords'
    BY DEF FileInv, BitsMeanRecords
  <1>4. \A q \in PageNos, t \in Slots : RecordAt(q, t)' = RecordAt(q, t)
    BY <1>1 DEF RecordAt
  <1>5. RecordsOf' = RecordsOf
    BY <1>4, NoRecordChanges
  <1> QED BY <1>2, <1>3, <1>5 DEF FileInv, RecordStep

LEMMA BrokenKeeps ==
  ASSUME FileInv, InsertNullPage \/ InsertOverflow
  PROVE  FileInv' /\ RecordStep
  <1>1. /\ UNCHANGED <<file_hdr_, disk_hdr, pages, fd2pageno_, leaked, open, stale>>
        /\ broken' \in {"ok", "null", "overflow"}
    BY DEF InsertNullPage, InsertOverflow
  <1>2. UNCHANGED <<pages, Hdr>>
    BY <1>1 DEF Hdr
  <1>3. TypeOK' /\ Numbered'
    BY <1>1 DEF FileInv, TypeOK, Numbered
  <1> QED BY <1>2, <1>3, QuietStep

LEMMA IsRecordKeeps ==
  ASSUME FileInv, NEW p \in PageNos, IsRecord(p)
  PROVE  FileInv' /\ RecordStep
  <1>1. /\ UNCHANGED <<pages, Hdr>>
        /\ TypeOK'
        /\ Numbered'
    BY DEF FileInv, IsRecord, TypeOK, Numbered, Hdr
  <1> QED BY <1>1, QuietStep

LEMMA CloseFileKeeps ==
  ASSUME FileInv, CloseFile
  PROVE  FileInv' /\ RecordStep
  <1>1. /\ UNCHANGED <<pages, Hdr>>
        /\ TypeOK'
        /\ Numbered'
    BY DEF FileInv, CloseFile, Running, TypeOK, Numbered, Hdr
  <1> QED BY <1>1, QuietStep

LEMMA OpenFileKeeps ==
  ASSUME FileInv, OpenFile
  PROVE  FileInv' /\ RecordStep
  <1>1. /\ UNCHANGED <<pages, Hdr>>
        /\ TypeOK'
        /\ Numbered'
    BY DEF FileInv, OpenFile, TypeOK, Numbered, Hdr, Hdrs
  <1> QED BY <1>1, QuietStep

\* A deletion takes the record of one slot, if there was one; the page may become
\* the first of the free list.
LEMMA DeleteRecordKeeps ==
  ASSUME FileInv, NEW p \in PageNos, NEW s \in Slots, DeleteRecord(p, s)
  PROVE  FileInv' /\ RecordStep
  <1>1. PICK n, f, page : n = file_hdr_.num_pages /\ f = file_hdr_.first_free_page_no
                          /\ page = pages[p]
    OBVIOUS
  <1>2. Running
    BY DEF DeleteRecord
  <1>3. /\ n \in 1..(MaxPages + 1) /\ n \in Nat /\ DataPages = 1..(n - 1)
        /\ p \in 1..(n - 1) /\ 1..(n - 1) \subseteq PageNos
        /\ f \in 1..(n - 1) \cup {RM_NO_PAGE}
        /\ page \in Pages
        /\ page.next_free_page_no \in 1..(n - 1) \cup {RM_NO_PAGE}
    <2>1. p \in Allocated
      BY DEF DeleteRecord
    <2>2. page \in Pages
      BY <1>1 DEF FileInv, TypeOK
    <2>3. /\ n \in 1..(MaxPages + 1) /\ DataPages = 1..(n - 1) /\ Hdr = file_hdr_
          /\ p \in DataPages /\ DataPages \subseteq PageNos
      BY <1>1, <1>2, <2>1, OpenFacts
    <2>4. f \in DataPages \cup {RM_NO_PAGE}
          /\ page.next_free_page_no \in DataPages \cup {RM_NO_PAGE}
      BY <1>1, <2>3 DEF FileInv, LinksAllocated
    <2> QED BY <2>2, <2>3, <2>4, RecordAssumption
  <1>4. file_hdr_ = [num_pages |-> n, first_free_page_no |-> f]
    BY <1>1 DEF FileInv, TypeOK, Hdrs
  <1>5. PICK next \in {f, page.next_free_page_no} :
          pages' = [pages EXCEPT ![p] =
                      PageOf(next, page.num_records - 1, page.bitmap \ {s}, page.slots)]
    BY <1>1 DEF DeleteRecord
  <1>6. \E g \in {f, p} : file_hdr_' = [num_pages |-> n, first_free_page_no |-> g]
    BY <1>4 DEF DeleteRecord, HdrAfterRelease
  <1>7. PICK g \in {f, p} : file_hdr_' = [num_pages |-> n, first_free_page_no |-> g]
    BY <1>6
  <1>8. UNCHANGED <<disk_hdr, fd2pageno_, leaked, open, broken>> /\ stale' \in BOOLEAN
    BY DEF DeleteRecord
  <1> DEFINE after == PageOf(next, page.num_records - 1, page.bitmap \ {s}, page.slots)
  <1>9. /\ after \in Pages
        /\ after.next_free_page_no = next
        /\ after.bitmap = page.bitmap \ {s}
        /\ after.slots = page.slots
    <2>1. next \in PageNos \cup {RM_NO_PAGE}
      BY <1>3, <1>5
    <2> QED BY <1>3, <2>1, DeletedPage
  <1>10. pages' = [pages EXCEPT ![p] = after]
    BY <1>5
  <1> HIDE DEF after
  <1>11. open' = TRUE /\ file_hdr_'.num_pages = n /\ file_hdr_'.first_free_page_no = g
    BY <1>2, <1>7, <1>8, OpenFacts
  <1>12. /\ Hdr' = file_hdr_'
         /\ DataPages' = 1..(n - 1)
         /\ \A q, t : RecordAt(q, t)' = IF q \in 1..(n - 1) /\ t \in pages'[q].bitmap
                                        THEN pages'[q].slots[t] ELSE NoRecord
    BY <1>3, <1>11, RecordAtNext
  <1>13. /\ pages'[p] = after
         /\ \A q \in PageNos : q # p => pages'[q] = pages[q]
         /\ pages' \in [PageNos -> Pages]
    BY <1>9, <1>10 DEF FileInv, TypeOK
  <1>14. TypeOK'
    <2>1. file_hdr_' \in Hdrs
      BY <1>3, <1>7 DEF Hdrs
    <2> QED BY <1>8, <1>13, <2>1 DEF FileInv, TypeOK
  <1>15. Numbered'
    BY <1>1, <1>2, <1>8, <1>11, OpenFacts DEF Numbered
  <1>16. LinksAllocated'
    <2>1. ASSUME NEW q \in 1..(n - 1)
          PROVE  pages'[q].next_free_page_no \in 1..(n - 1) \cup {RM_NO_PAGE}
      <3>1. CASE q = p
        BY <1>3, <1>5, <1>9, <1>13, <3>1
      <3>2. CASE q # p
        BY <1>3, <1>13, <3>2 DEF FileInv, LinksAllocated
      <3> QED BY <3>1, <3>2
    <2>2. g \in 1..(n - 1) \cup {RM_NO_PAGE}
      BY <1>3, <1>7
    <2> QED BY <1>11, <1>12, <2>1, <2>2 DEF LinksAllocated
  <1>17. BitsMeanRecords'
    <2> SUFFICES ASSUME NEW q \in PageNos, NEW t \in pages'[q].bitmap
                 PROVE  pages'[q].slots[t] \in Records
      BY DEF BitsMeanRecords
    <2>1. CASE q = p
      BY <1>1, <1>9, <1>13, <2>1 DEF FileInv, BitsMeanRecords
    <2>2. CASE q # p
      BY <1>13, <2>2 DEF FileInv, BitsMeanRecords
    <2> QED BY <2>1, <2>2
  <1>18. ASSUME NEW q \in PageNos, NEW t \in Slots
         PROVE  RecordAt(q, t)' = IF q = p /\ t = s THEN NoRecord ELSE RecordAt(q, t)
    <2>1. RecordAt(q, t) = IF q \in 1..(n - 1) /\ t \in pages[q].bitmap
                           THEN pages[q].slots[t] ELSE NoRecord
      BY <1>1, <1>2, RecordAtNow
    <2>2. RecordAt(q, t)' = IF q \in 1..(n - 1) /\ t \in pages'[q].bitmap
                            THEN pages'[q].slots[t] ELSE NoRecord
      BY <1>12
    <2>3. CASE q = p
      BY <1>1, <1>9, <1>13, <2>1, <2>2, <2>3
    <2>4. CASE q # p
      BY <1>13, <1>18, <2>1, <2>2, <2>4
    <2> QED BY <2>3, <2>4
  <1>19. RecordsOf' = [RecordsOf EXCEPT ![<<p, s>>] = NoRecord]
    BY <1>18, OneRecordChanges
  <1>20. RecordStep
    <2>1. <<p, s>> \in Rids
      BY DEF Rids
    <2>2. CASE RecordsOf[<<p, s>>] = NoRecord
      <3>1. RecordsOf' = RecordsOf
        BY <1>19, <2>1, <2>2 DEF RecordsOf
      <3> QED BY <3>1 DEF RecordStep
    <2>3. CASE RecordsOf[<<p, s>>] # NoRecord
      <3>1. RS!Delete(<<p, s>>)
        BY <1>19, <2>3 DEF RS!Delete
      <3> QED BY <2>1, <3>1 DEF RecordStep, RS!Next
    <2> QED BY <2>2, <2>3
  <1> QED BY <1>14, <1>15, <1>16, <1>17, <1>20 DEF FileInv

LEMMA UpdateRecordKeeps ==
  ASSUME FileInv, NEW p \in PageNos, NEW s \in Slots, NEW rec \in Records,
         UpdateRecord(p, s, rec)
  PROVE  FileInv' /\ RecordStep
  <1>1. PICK n, page : n = file_hdr_.num_pages /\ page = pages[p]
    OBVIOUS
  <1> DEFINE after == PageOf(page.next_free_page_no, page.num_records, page.bitmap,
                             [page.slots EXCEPT ![s] = rec])
  <1>2. /\ Running
        /\ p \in Allocated
        /\ pages' = [pages EXCEPT ![p] = after]
        /\ UNCHANGED <<file_hdr_, disk_hdr, fd2pageno_, leaked, open, broken, stale>>
    BY <1>1 DEF UpdateRecord
  <1>3. /\ n \in Nat /\ DataPages = 1..(n - 1) /\ p \in 1..(n - 1)
        /\ 1..(n - 1) \subseteq PageNos
        /\ page \in Pages /\ open' = TRUE /\ file_hdr_'.num_pages = n
    <2>1. page \in Pages
      BY <1>1 DEF FileInv, TypeOK
    <2> QED BY <1>1, <1>2, <2>1, OpenFacts, RecordAssumption
  <1>4. /\ after \in Pages
        /\ after.next_free_page_no = page.next_free_page_no
        /\ after.bitmap = page.bitmap
        /\ after.slots = [page.slots EXCEPT ![s] = rec]
    BY <1>3, UpdatedPage
  <1> HIDE DEF after
  <1>5. /\ DataPages' = DataPages /\ Hdr' = Hdr
        /\ \A q, t : RecordAt(q, t)' = IF q \in 1..(n - 1) /\ t \in pages'[q].bitmap
                                       THEN pages'[q].slots[t] ELSE NoRecord
    BY <1>2, <1>3, RecordAtNext, OpenFacts
  <1>6. /\ pages'[p] = after
        /\ \A q \in PageNos : q # p => pages'[q] = pages[q]
        /\ pages' \in [PageNos -> Pages]
    BY <1>2, <1>4 DEF FileInv, TypeOK
  <1>7. TypeOK' /\ Numbered'
    BY <1>2, <1>6 DEF FileInv, TypeOK, Numbered
  <1>8. LinksAllocated'
    <2>1. \A q \in PageNos : pages'[q].next_free_page_no = pages[q].next_free_page_no
      BY <1>1, <1>4, <1>6
    <2> QED BY <1>3, <1>5, <2>1 DEF FileInv, LinksAllocated
  <1>9. page.slots \in [Slots -> Records \cup {NoRecord}]
    BY <1>3 DEF Pages
  <1>10. BitsMeanRecords'
    <2> SUFFICES ASSUME NEW q \in PageNos, NEW t \in pages'[q].bitmap
                 PROVE  pages'[q].slots[t] \in Records
      BY DEF BitsMeanRecords
    <2>1. CASE q = p
      <3>1. t \in page.bitmap /\ pages'[q].slots = [page.slots EXCEPT ![s] = rec]
        BY <1>4, <1>6, <2>1
      <3>2. page.slots[t] \in Records
        BY <1>1, <3>1 DEF FileInv, BitsMeanRecords
      <3>3. t \in Slots
        BY <1>3, <3>1 DEF Pages
      <3> QED BY <1>9, <3>1, <3>2, <3>3
    <2>2. CASE q # p
      BY <1>6, <2>2 DEF FileInv, BitsMeanRecords
    <2> QED BY <2>1, <2>2
  <1>11. ASSUME NEW q \in PageNos, NEW t \in Slots
         PROVE  RecordAt(q, t)' = IF q = p /\ t = s /\ s \in page.bitmap THEN rec ELSE RecordAt(q, t)
    <2>1. RecordAt(q, t) = IF q \in 1..(n - 1) /\ t \in pages[q].bitmap
                           THEN pages[q].slots[t] ELSE NoRecord
      BY <1>1, <1>2, RecordAtNow
    <2>2. RecordAt(q, t)' = IF q \in 1..(n - 1) /\ t \in pages'[q].bitmap
                            THEN pages'[q].slots[t] ELSE NoRecord
      BY <1>5
    <2>3. CASE q = p
      BY <1>1, <1>2, <1>3, <1>4, <1>6, <1>9, <2>1, <2>2, <2>3
    <2>4. CASE q # p
      BY <1>6, <1>11, <2>1, <2>2, <2>4
    <2> QED BY <2>3, <2>4
  <1>12. CASE s \in page.bitmap
    <2>1. RecordsOf' = [RecordsOf EXCEPT ![<<p, s>>] = rec]
      BY <1>11, <1>12, OneRecordChanges
    <2>2. <<p, s>> \in Rids /\ RecordsOf[<<p, s>>] # NoRecord
      <3>1. RecordAt(p, s) = page.slots[s]
        BY <1>1, <1>2, <1>3, <1>12, RecordAtNow
      <3>2. page.slots[s] \in Records
        BY <1>1, <1>12 DEF FileInv, BitsMeanRecords
      <3>3. RecordsOf[<<p, s>>] = RecordAt(p, s)
        BY DEF RecordsOf, Rids
      <3> QED BY <3>1, <3>2, <3>3, RecordAssumption DEF Rids
    <2>3. RS!Update(<<p, s>>, rec)
      BY <2>1, <2>2 DEF RS!Update
    <2>4. RecordStep
      BY <2>2, <2>3 DEF RecordStep, RS!Next
    <2> QED BY <1>7, <1>8, <1>10, <2>4 DEF FileInv
  <1>13. CASE s \notin page.bitmap
    <2>1. \A q \in PageNos, t \in Slots : RecordAt(q, t)' = RecordAt(q, t)
      BY <1>11, <1>13
    <2>2. UNCHANGED RecordsOf
      BY <2>1 DEF RecordsOf, Rids
    <2>3. RecordStep
      BY <2>2 DEF RecordStep
    <2> QED BY <1>7, <1>8, <1>10, <2>3 DEF FileInv
  <1> QED BY <1>12, <1>13

-----------------------------------------------------------------------------
LEMMA InitKeeps == Init => FileInv /\ RS!Init
  <1> SUFFICES ASSUME Init PROVE FileInv /\ RS!Init
    OBVIOUS
  <1>1. TypeOK /\ Numbered
    <2>1. disk_hdr \in Hdrs /\ file_hdr_ \in Hdrs /\ fd2pageno_ \in 1..(MaxPages + 1)
      BY RecordAssumption DEF Init, Hdrs
    <2>2. pages \in [PageNos -> Pages]
      BY BlankPageType DEF Init
    <2> QED BY <2>1, <2>2 DEF Init, TypeOK, Numbered
  <1>2. DataPages = {} /\ Hdr.first_free_page_no = RM_NO_PAGE
    BY DEF Init, DataPages, Hdr, RM_FIRST_RECORD_PAGE
  <1>3. LinksAllocated
    BY <1>2 DEF LinksAllocated
  <1>4. BitsMeanRecords
    BY BlankPageType DEF Init, BitsMeanRecords
  <1>5. \A q, t : RecordAt(q, t) = NoRecord
    BY <1>2 DEF RecordAt
  <1>6. RecordsOf = [r \in Rids |-> NoRecord]
    BY <1>5 DEF RecordsOf
  <1> QED BY <1>1, <1>3, <1>4, <1>6 DEF FileInv, RS!Init

LEMMA StepKeeps == FileInv /\ [Next]_vars => FileInv' /\ RecordStep
  <1> SUFFICES ASSUME FileInv, [Next]_vars PROVE FileInv' /\ RecordStep
    OBVIOUS
  <1>1. ASSUME NEW rec \in Records, InsertFreePage(rec) PROVE FileInv' /\ RecordStep
    BY <1>1, InsertFreePageKeeps
  <1>2. ASSUME NEW rec \in Records, InsertNewPage(rec) PROVE FileInv' /\ RecordStep
    BY <1>2, InsertNewPageKeeps
  <1>3. ASSUME NEW p \in PageNos, NEW s \in Slots, DeleteRecord(p, s)
        PROVE  FileInv' /\ RecordStep
    BY <1>3, DeleteRecordKeeps
  <1>4. ASSUME NEW p \in PageNos, NEW s \in Slots, NEW rec \in Records,
               UpdateRecord(p, s, rec)
        PROVE  FileInv' /\ RecordStep
    BY <1>4, UpdateRecordKeeps
  <1>5. ASSUME NEW p \in PageNos, IsRecord(p) PROVE FileInv' /\ RecordStep
    BY <1>5, IsRecordKeeps
  <1>6. CASE InsertNullPage \/ InsertOverflow
    BY <1>6, BrokenKeeps
  <1>7. CASE CloseFile
    BY <1>7, CloseFileKeeps
  <1>8. CASE OpenFile
    BY <1>8, OpenFileKeeps
  <1>9. CASE UNCHANGED vars
    <2>1. /\ UNCHANGED <<pages, Hdr>>
          /\ TypeOK'
          /\ Numbered'
      BY <1>9 DEF vars, FileInv, TypeOK, Numbered, Hdr
    <2> QED BY <2>1, QuietStep
  <1> QED BY <1>1, <1>2, <1>3, <1>4, <1>5, <1>6, <1>7, <1>8, <1>9 DEF Next

\* The free list stays within the file's pages, page numbers go on where the
\* header ends, a slot whose bit is set holds a record, and the handle's and the
\* pages' fields stay in range (rm_file_handle.cpp, rm_manager.h).
THEOREM FileSafe == Spec => []FileInv
  <1>1. Init => FileInv
    BY InitKeeps
  <1>2. FileInv /\ [Next]_vars => FileInv'
    BY StepKeeps
  <1> QED BY <1>1, <1>2, PTL DEF Spec

\* The record manager implements RecordStore: insert_record overwrites no record,
\* delete_record and update_record touch the one slot they are given, and closing
\* and opening the file changes no record, whatever stale deletions happened
\* before.
THEOREM RecordRefinement == Spec => ImplementsRecords
  <1>1. Init => FileInv /\ RS!Init
    BY InitKeeps
  <1>2. FileInv /\ [Next]_vars => FileInv' /\ [RS!Next]_RecordsOf
    BY StepKeeps DEF RecordStep
  <1> QED BY <1>1, <1>2, PTL DEF Spec, ImplementsRecords, RS!Spec

-----------------------------------------------------------------------------
(* The record counts, while callers delete only what is there.             *)

Counted == \A p \in PageNos : pages[p].num_records = Cardinality(pages[p].bitmap)

LEMMA BitmapSizes ==
  ASSUME NEW bits \in SUBSET Slots, NEW s \in Slots
  PROVE  /\ Cardinality(bits) \in Nat
         /\ s \notin bits => Cardinality(bits \cup {s}) = Cardinality(bits) + 1
         /\ s \in bits => Cardinality(bits \ {s}) = Cardinality(bits) - 1
  <1>1. 0 \in Int /\ N - 1 \in Int
    BY SlotCount
  <1>2. IsFiniteSet(Slots)
    BY <1>1, SlotCount, FS_Interval
  <1>3. IsFiniteSet(bits)
    BY <1>2, FS_Subset
  <1> QED BY <1>3, FS_CardinalityType, FS_AddElement, FS_RemoveElement

LEMMA InsertIntoCounts ==
  ASSUME FileInv, Counted, NEW p \in PageNos, NEW page \in Pages, NEW rec \in Records,
         NEW hdr, page.num_records = Cardinality(page.bitmap),
         InsertInto(hdr, p, page, rec)
  PROVE  Counted'
  <1> DEFINE s == FirstBit(FALSE, page.bitmap, N)
             after == PageAfterInsert(page, s, rec)
  <1>1. s < N /\ pages' = [pages EXCEPT ![p] = after] /\ page.bitmap \in SUBSET Slots
    BY DEF InsertInto, Pages
  <1>2. s \in Slots /\ s \notin page.bitmap
    BY <1>1, FirstFree
  <1>3. after.num_records = page.num_records + 1 /\ after.bitmap = page.bitmap \cup {s}
    BY DEF PageAfterInsert, PageOf
  <1> HIDE DEF s, after
  <1>4. after.num_records = Cardinality(after.bitmap)
    BY <1>1, <1>2, <1>3, BitmapSizes
  <1> QED BY <1>1, <1>4 DEF FileInv, TypeOK, Counted

LEMMA StepCounts ==
  ASSUME FileInv, Counted, ~stale', [Next]_vars
  PROVE  Counted'
  <1>1. ASSUME NEW rec \in Records, InsertFreePage(rec) PROVE Counted'
    <2>1. PICK hdr, p, page : hdr = file_hdr_ /\ p = file_hdr_.first_free_page_no
                              /\ page = pages[p]
      OBVIOUS
    <2>2. Running /\ p # RM_NO_PAGE /\ InsertInto(hdr, p, page, rec)
      BY <1>1, <2>1 DEF InsertFreePage
    <2>3. p \in PageNos
      BY <2>1, <2>2 DEF FileInv, TypeOK, Hdrs
    <2>4. page \in Pages /\ page.num_records = Cardinality(page.bitmap)
      BY <2>1, <2>3 DEF FileInv, TypeOK, Counted
    <2> QED BY <1>1, <2>2, <2>3, <2>4, InsertIntoCounts
  <1>2. ASSUME NEW rec \in Records, InsertNewPage(rec) PROVE Counted'
    <2>1. PICK hdr, p : hdr = [num_pages |-> file_hdr_.num_pages + 1,
                               first_free_page_no |-> fd2pageno_] /\ p = fd2pageno_
      OBVIOUS
    <2>2. p <= MaxPages /\ InsertInto(hdr, p, BlankPage, rec)
      BY <1>2, <2>1 DEF InsertNewPage
    <2>3. p \in PageNos
      BY <2>1, <2>2, RecordAssumption DEF FileInv, TypeOK, PageNos, RM_FIRST_RECORD_PAGE
    <2>4. BlankPage \in Pages /\ BlankPage.num_records = Cardinality(BlankPage.bitmap)
      BY BlankPageType, FS_EmptySet DEF BlankPage, PageOf
    <2> QED BY <1>2, <2>2, <2>3, <2>4, InsertIntoCounts
  <1>3. ASSUME NEW p \in PageNos, NEW s \in Slots, DeleteRecord(p, s) PROVE Counted'
    <2>1. PICK next, page : page = pages[p] /\
            pages' = [pages EXCEPT ![p] =
                        PageOf(next, page.num_records - 1, page.bitmap \ {s}, page.slots)]
      BY <1>3 DEF DeleteRecord
    <2>2. s \in page.bitmap
      BY <1>3, <2>1 DEF DeleteRecord, Occupied
    <2>3. page \in Pages /\ page.num_records = Cardinality(page.bitmap)
      BY <1>3, <2>1 DEF FileInv, TypeOK, Counted
    <2>4. page.bitmap \in SUBSET Slots
      BY <2>3 DEF Pages
    <2>5. page.num_records - 1 = Cardinality(page.bitmap \ {s})
      BY <1>3, <2>2, <2>3, <2>4, BitmapSizes
    <2>6. pages'[p].num_records = Cardinality(pages'[p].bitmap)
      BY <1>3, <2>1, <2>5 DEF FileInv, TypeOK, PageOf
    <2> QED BY <1>3, <2>1, <2>6 DEF FileInv, TypeOK, Counted
  <1>4. ASSUME NEW p \in PageNos, NEW s \in Slots, NEW rec \in Records,
               UpdateRecord(p, s, rec)
        PROVE  Counted'
    BY <1>4 DEF UpdateRecord, PageOf, FileInv, TypeOK, Counted
  <1>5. ASSUME NEW p \in PageNos, IsRecord(p) PROVE Counted'
    BY <1>5 DEF IsRecord, Counted
  <1>6. CASE InsertNullPage \/ InsertOverflow \/ CloseFile \/ OpenFile \/ UNCHANGED vars
    BY <1>6 DEF InsertNullPage, InsertOverflow, CloseFile, OpenFile, vars, Counted
  <1> QED BY <1>1, <1>2, <1>3, <1>4, <1>5, <1>6 DEF Next

\* The history does not forget.
LEMMA StaleStays ==
  ASSUME FileInv, ~stale', [Next]_vars
  PROVE  ~stale
  <1>1. ASSUME NEW p \in PageNos, NEW s \in Slots, DeleteRecord(p, s) PROVE ~stale
    BY <1>1 DEF DeleteRecord
  <1>2. CASE UNCHANGED stale
    BY <1>2
  <1> QED
    BY <1>1, <1>2 DEF Next, vars, InsertFreePage, InsertNewPage, InsertNullPage,
       InsertOverflow, UpdateRecord, IsRecord, CloseFile, OpenFile

\* RmPageHdr::num_records is the number of records of the page as long as callers
\* have deleted only records that were there (delete_record decrements it unasked,
\* rm_file_handle.cpp:60): with it, insert_record and delete_record see a page
\* become full, and stop being full, exactly when it does.
THEOREM CountsSafe == Spec => []CountsMatchBitmap
  <1> DEFINE Inv == FileInv /\ (~stale => Counted)
  <1>1. Init => Inv
    <2>1. Init => FileInv
      BY InitKeeps
    <2>2. BlankPage.num_records = Cardinality(BlankPage.bitmap)
      BY FS_EmptySet DEF BlankPage, PageOf
    <2>3. Init => Counted
      BY <2>2 DEF Init, Counted
    <2> QED BY <2>1, <2>3
  <1>2. Inv /\ [Next]_vars => Inv'
    BY StepKeeps, StepCounts, StaleStays
  <1>3. Inv => CountsMatchBitmap
    <2> SUFFICES ASSUME FileInv, Counted PROVE CountsMatchBitmap
      BY DEF CountsMatchBitmap
    <2>1. Hdr.num_pages \in 1..(MaxPages + 1)
      BY DEF FileInv, TypeOK, Hdr, Hdrs
    <2>2. DataPages \subseteq PageNos
      BY <2>1, RecordAssumption DEF DataPages, PageNos, RM_FIRST_RECORD_PAGE
    <2> QED BY <2>2 DEF Counted, CountsMatchBitmap
  <1> QED BY <1>1, <1>2, <1>3, PTL DEF Spec

-----------------------------------------------------------------------------
(* The free list, while callers delete only what is there.  Linked is what *)
(* FreeListSound says of the header, the links and the pages with a free   *)
(* slot.                                                                   *)

Chain(first, next, space, n, list) ==
  /\ list \in [1..n -> PageNos]
  /\ first = IF n = 0 THEN RM_NO_PAGE ELSE list[1]
  /\ \A i \in 1..n : next[list[i]] = IF i = n THEN RM_NO_PAGE ELSE list[i + 1]
  /\ \A i, j \in 1..n : list[i] = list[j] => i = j
  /\ {list[i] : i \in 1..n} = space

Linked(first, next, space) ==
  \E n \in 0..MaxPages : \E list \in [1..n -> PageNos] : Chain(first, next, space, n, list)

LEMMA NoPageNo == RM_NO_PAGE \notin PageNos /\ MaxPages \in Nat /\ PageNos = 1..MaxPages
  BY RecordAssumption DEF RM_NO_PAGE, PageNos, RM_FIRST_RECORD_PAGE

LEMMA LinkedEmpty ==
  ASSUME NEW next, NEW space
  PROVE  Linked(RM_NO_PAGE, next, space) <=> space = {}
  <1>1. ASSUME Linked(RM_NO_PAGE, next, space) PROVE space = {}
    <2>0. PICK n \in 0..MaxPages : \E list \in [1..n -> PageNos] :
           Chain(RM_NO_PAGE, next, space, n, list)
      BY <1>1 DEF Linked
    <2>1. PICK list \in [1..n -> PageNos] :
            /\ RM_NO_PAGE = IF n = 0 THEN RM_NO_PAGE ELSE list[1]
            /\ {list[i] : i \in 1..n} = space
      BY <2>0 DEF Chain
    <2>2. n = 0
      BY <2>1, NoPageNo
    <2> QED BY <2>1, <2>2
  <1>2. ASSUME space = {} PROVE Linked(RM_NO_PAGE, next, space)
    <2>1. PICK list : list = [i \in 1..0 |-> 1]
      OBVIOUS
    <2>2. list \in [1..0 -> PageNos] /\ 0 \in 0..MaxPages
      BY <2>1, NoPageNo
    <2>3. \A i \in 1..0 : FALSE
      OBVIOUS
    <2>4. Chain(RM_NO_PAGE, next, space, 0, list)
      BY <1>2, <2>2, <2>3 DEF Chain
    <2> QED BY <2>2, <2>4 DEF Linked
  <1> QED BY <1>1, <1>2

LEMMA LinkedElsewhere ==
  ASSUME NEW first, NEW next, NEW space, NEW after, Linked(first, next, space),
         \A p \in space : after[p] = next[p]
  PROVE  Linked(first, after, space)
  <1>0. PICK n \in 0..MaxPages : \E list \in [1..n -> PageNos] :
         Chain(first, next, space, n, list)
    BY DEF Linked
  <1>1. PICK list \in [1..n -> PageNos] :
          /\ first = IF n = 0 THEN RM_NO_PAGE ELSE list[1]
          /\ \A i \in 1..n : next[list[i]] = IF i = n THEN RM_NO_PAGE ELSE list[i + 1]
          /\ \A i, j \in 1..n : list[i] = list[j] => i = j
          /\ {list[i] : i \in 1..n} = space
    BY <1>0 DEF Chain
  <1>2. \A i \in 1..n : after[list[i]] = next[list[i]]
    BY <1>1
  <1> QED BY <1>1, <1>2 DEF Linked, Chain

\* A page leaves the front of the list.
LEMMA LinkedDrop ==
  ASSUME NEW p \in PageNos, NEW next, NEW space, Linked(p, next, space)
  PROVE  p \in space /\ Linked(next[p], next, space \ {p})
  <1>0. PICK n \in 0..MaxPages : \E list \in [1..n -> PageNos] :
         Chain(p, next, space, n, list)
    BY DEF Linked
  <1>1. PICK list \in [1..n -> PageNos] :
          /\ p = IF n = 0 THEN RM_NO_PAGE ELSE list[1]
          /\ \A i \in 1..n : next[list[i]] = IF i = n THEN RM_NO_PAGE ELSE list[i + 1]
          /\ \A i, j \in 1..n : list[i] = list[j] => i = j
          /\ {list[i] : i \in 1..n} = space
    BY <1>0 DEF Chain
  <1>2. n \in Nat /\ n >= 1 /\ p = list[1] /\ n - 1 \in 0..MaxPages
    BY <1>1, NoPageNo
  <1>3. PICK tail : tail = [i \in 1..(n - 1) |-> list[i + 1]]
    OBVIOUS
  <1>4. tail \in [1..(n - 1) -> PageNos] /\ \A i \in 1..(n - 1) : tail[i] = list[i + 1]
    BY <1>2, <1>3
  <1>5. next[p] = IF n - 1 = 0 THEN RM_NO_PAGE ELSE tail[1]
    BY <1>1, <1>2, <1>4
  <1>6. \A i \in 1..(n - 1) :
          next[tail[i]] = IF i = n - 1 THEN RM_NO_PAGE ELSE tail[i + 1]
    <2> TAKE i \in 1..(n - 1)
    <2>1. i + 1 \in 1..n /\ next[list[i + 1]] = IF i + 1 = n THEN RM_NO_PAGE ELSE list[i + 2]
      BY <1>1, <1>2
    <2> QED BY <1>2, <1>4, <2>1
  <1>7. \A i, j \in 1..(n - 1) : tail[i] = tail[j] => i = j
    <2> TAKE i, j \in 1..(n - 1)
    <2>1. i + 1 \in 1..n /\ j + 1 \in 1..n
      BY <1>2
    <2> QED BY <1>1, <1>4, <2>1
  <1>8. {tail[i] : i \in 1..(n - 1)} = space \ {p}
    <2>1. ASSUME NEW i \in 1..(n - 1) PROVE tail[i] \in space \ {p}
      <3>1. i + 1 \in 1..n /\ 1 \in 1..n /\ i + 1 # 1
        BY <1>2
      <3> QED BY <1>1, <1>2, <1>4, <3>1
    <2>2. ASSUME NEW q \in space \ {p} PROVE \E i \in 1..(n - 1) : tail[i] = q
      <3>1. PICK j \in 1..n : list[j] = q
        BY <1>1
      <3>2. j - 1 \in 1..(n - 1) /\ j = (j - 1) + 1
        BY <1>2, <3>1
      <3> QED BY <1>4, <3>1, <3>2
    <2> QED BY <2>1, <2>2
  <1>9. p \in space
    BY <1>1, <1>2
  <1>10. Chain(next[p], next, space \ {p}, n - 1, tail)
    BY <1>4, <1>5, <1>6, <1>7, <1>8 DEF Chain
  <1> QED BY <1>2, <1>4, <1>9, <1>10 DEF Linked

\* A page that is not on the list goes to its front; there is room for it.
LEMMA LinkedPush ==
  ASSUME NEW p \in PageNos, NEW first, NEW next, NEW space, NEW after,
         Linked(first, next, space), p \notin space, after[p] = first,
         \A q \in space : after[q] = next[q]
  PROVE  Linked(p, after, space \cup {p})
  <1>0. PICK n \in 0..MaxPages : \E list \in [1..n -> PageNos] :
         Chain(first, next, space, n, list)
    BY DEF Linked
  <1>1. PICK list \in [1..n -> PageNos] :
          /\ first = IF n = 0 THEN RM_NO_PAGE ELSE list[1]
          /\ \A i \in 1..n : next[list[i]] = IF i = n THEN RM_NO_PAGE ELSE list[i + 1]
          /\ \A i, j \in 1..n : list[i] = list[j] => i = j
          /\ {list[i] : i \in 1..n} = space
    BY <1>0 DEF Chain
  <1>2. n \in Nat /\ n + 1 \in 0..MaxPages
    <2>1. IsFiniteSet(PageNos) /\ Cardinality(PageNos) = MaxPages
      BY NoPageNo, FS_Interval
    <2>2. IsFiniteSet(PageNos \ {p}) /\ Cardinality(PageNos \ {p}) = MaxPages - 1
      BY <2>1, FS_RemoveElement
    <2>3. list \in [1..n -> PageNos \ {p}]
      BY <1>1
    <2>4. n \in Nat /\ IsFiniteSet(1..n) /\ Cardinality(1..n) = n
      BY FS_Interval, NoPageNo
    <2>5. ~(MaxPages - 1 < n)
      BY <1>1, <2>2, <2>3, <2>4, FS_PigeonHole
    <2> QED BY <2>4, <2>5, NoPageNo
  <1>3. PICK more : more = [i \in 1..(n + 1) |-> IF i = 1 THEN p ELSE list[i - 1]]
    OBVIOUS
  <1>4. /\ \A i \in 1..n : i + 1 \in 1..(n + 1) /\ more[i + 1] = list[i]
        /\ more[1] = p
        /\ \A i \in 1..(n + 1) : i = 1 \/ (i - 1 \in 1..n /\ more[i] = list[i - 1])
    BY <1>2, <1>3
  <1>5. more \in [1..(n + 1) -> PageNos]
    <2>1. \A i \in 1..(n + 1) : (IF i = 1 THEN p ELSE list[i - 1]) \in PageNos
      BY <1>2
    <2> QED BY <1>3, <2>1
  <1>6. \A i \in 1..(n + 1) :
          after[more[i]] = IF i = n + 1 THEN RM_NO_PAGE ELSE more[i + 1]
    <2> TAKE i \in 1..(n + 1)
    <2>1. CASE i = 1
      <3>1. CASE n = 0
        BY <1>1, <1>4, <2>1, <3>1
      <3>2. CASE n # 0
        <4>1. 1 \in 1..n /\ more[2] = list[1]
          BY <1>2, <1>4, <3>2
        <4> QED BY <1>1, <1>2, <1>4, <2>1, <3>2, <4>1
      <3> QED BY <3>1, <3>2
    <2>2. CASE i # 1
      <3>1. i - 1 \in 1..n /\ more[i] = list[i - 1]
        BY <1>4, <2>2
      <3>2. after[list[i - 1]] = next[list[i - 1]]
        BY <1>1, <3>1
      <3>3. next[list[i - 1]] = IF i - 1 = n THEN RM_NO_PAGE ELSE list[i]
        BY <1>1, <3>1
      <3>4. i # n + 1 => i \in 1..n /\ more[i + 1] = list[i]
        BY <1>2, <1>4
      <3> QED BY <1>2, <3>1, <3>2, <3>3, <3>4
    <2> QED BY <2>1, <2>2
  <1>7. \A i, j \in 1..(n + 1) : more[i] = more[j] => i = j
    <2>1. \A i \in 1..n : list[i] # p
      BY <1>1
    <2> TAKE i, j \in 1..(n + 1)
    <2>2. CASE i = 1 \/ j = 1
      BY <1>4, <2>1, <2>2
    <2>3. CASE i # 1 /\ j # 1
      <3>1. i - 1 \in 1..n /\ j - 1 \in 1..n /\ more[i] = list[i - 1] /\ more[j] = list[j - 1]
        BY <1>4, <2>3
      <3>2. list[i - 1] = list[j - 1] => i - 1 = j - 1
        BY <1>1, <3>1
      <3> QED BY <1>2, <3>1, <3>2
    <2> QED BY <2>2, <2>3
  <1>8. {more[i] : i \in 1..(n + 1)} = space \cup {p}
    <2>1. ASSUME NEW i \in 1..(n + 1) PROVE more[i] \in space \cup {p}
      BY <1>1, <1>4
    <2>2. ASSUME NEW q \in space \cup {p} PROVE \E i \in 1..(n + 1) : more[i] = q
      <3>1. 1 \in 1..(n + 1)
        BY <1>2
      <3>2. CASE q = p
        BY <1>4, <3>1, <3>2
      <3>3. CASE q # p
        <4>1. PICK i \in 1..n : list[i] = q
          BY <1>1, <3>3
        <4> QED BY <1>4, <4>1
      <3> QED BY <3>2, <3>3
    <2> QED BY <2>1, <2>2
  <1>9. p = IF n + 1 = 0 THEN RM_NO_PAGE ELSE more[1]
    BY <1>2, <1>4
  <1>10. Chain(p, after, space \cup {p}, n + 1, more)
    BY <1>5, <1>6, <1>7, <1>8, <1>9 DEF Chain
  <1> QED BY <1>2, <1>5, <1>10 DEF Linked

Nexts == [p \in PageNos |-> pages[p].next_free_page_no]

WithSpace == {p \in DataPages : pages[p].bitmap # Slots}

ListInv == Linked(Hdr.first_free_page_no, Nexts, WithSpace)

LEMMA DataPagesExist ==
  ASSUME FileInv PROVE DataPages \subseteq PageNos /\ Hdr.num_pages \in 1..(MaxPages + 1)
  <1>1. Hdr.num_pages \in 1..(MaxPages + 1)
    BY DEF FileInv, TypeOK, Hdr, Hdrs
  <1> QED BY <1>1, RecordAssumption DEF DataPages, PageNos, RM_FIRST_RECORD_PAGE

\* The counts say whether a page is full.
LEMMA FullPage ==
  ASSUME NEW bits \in SUBSET Slots
  PROVE  Cardinality(bits) = N <=> bits = Slots
  <1>1. IsFiniteSet(Slots) /\ Cardinality(Slots) = N
    <2>1. 0 \in Int /\ N - 1 \in Int /\ ~(0 > N - 1)
      BY SlotCount
    <2> QED BY <2>1, SlotCount, FS_Interval
  <1> QED BY <1>1, FS_Subset

\* Steps that leave the links and the pages with a free slot alone.
LEMMA ListUntouched ==
  ASSUME FileInv, ListInv, UNCHANGED Hdr,
         \A q \in PageNos : pages'[q].next_free_page_no = pages[q].next_free_page_no,
         \A q \in PageNos : pages'[q].bitmap = Slots <=> pages[q].bitmap = Slots
  PROVE  ListInv'
  <1>1. Nexts' = Nexts
    BY DEF Nexts
  <1>2. WithSpace' = WithSpace
    BY DataPagesExist DEF WithSpace, DataPages
  <1> QED BY <1>1, <1>2 DEF ListInv

LEMMA InsertFreePageLists ==
  ASSUME FileInv, Counted, ListInv, NEW rec \in Records, InsertFreePage(rec)
  PROVE  ListInv'
  <1>1. PICK hdr, p, page, s : /\ hdr = file_hdr_ /\ p = hdr.first_free_page_no
                               /\ page = pages[p] /\ s = FirstBit(FALSE, page.bitmap, N)
    OBVIOUS
  <1>2. PICK after : after = PageAfterInsert(page, s, rec)
    OBVIOUS
  <1>3. /\ Running /\ p # RM_NO_PAGE /\ s < N /\ UNCHANGED open
        /\ pages' = [pages EXCEPT ![p] = after]
        /\ file_hdr_' = HdrAfterInsert(hdr, after)
    BY <1>1, <1>2 DEF InsertFreePage, InsertInto
  <1>4. Hdr = hdr /\ Hdr' = file_hdr_'
    BY <1>1, <1>3, OpenFacts DEF Hdr
  <1>5. p \in PageNos /\ hdr \in Hdrs
    BY <1>1, <1>3 DEF FileInv, TypeOK, Hdrs
  <1>6. page \in Pages /\ page.bitmap \in SUBSET Slots
        /\ page.num_records = Cardinality(page.bitmap)
    BY <1>1, <1>5 DEF FileInv, TypeOK, Pages, Counted
  <1>7. s \in Slots /\ s \notin page.bitmap
    BY <1>1, <1>3, <1>6, FirstFree
  <1>8. /\ after.next_free_page_no = page.next_free_page_no
        /\ after.bitmap = page.bitmap \cup {s}
        /\ after.num_records = Cardinality(after.bitmap)
    <2>1. /\ after.next_free_page_no = page.next_free_page_no
          /\ after.bitmap = page.bitmap \cup {s}
          /\ after.num_records = page.num_records + 1
      BY <1>2 DEF PageAfterInsert, PageOf
    <2> QED BY <1>6, <1>7, <2>1, BitmapSizes
  <1>9. after.num_records = N <=> after.bitmap = Slots
    BY <1>6, <1>7, <1>8, FullPage
  <1>10. pages'[p] = after /\ \A q \in PageNos : q # p => pages'[q] = pages[q]
    BY <1>3, <1>5 DEF FileInv, TypeOK
  <1>11. PICK next, space : next = Nexts /\ space = WithSpace
    OBVIOUS
  <1>12. Linked(p, next, space)
    BY <1>1, <1>4, <1>11 DEF ListInv
  <1>13. p \in space /\ Linked(next[p], next, space \ {p})
    BY <1>5, <1>12, LinkedDrop
  <1>14. next[p] = page.next_free_page_no /\ Nexts' = next
    BY <1>1, <1>5, <1>8, <1>10, <1>11 DEF Nexts
  <1>15. file_hdr_'.num_pages = hdr.num_pages /\ DataPages' = DataPages
    <2>1. file_hdr_'.num_pages = hdr.num_pages
      BY <1>3, <1>5 DEF HdrAfterInsert, Hdrs
    <2> QED BY <1>4, <2>1 DEF DataPages
  <1>16. CASE after.bitmap = Slots
    <2>1. Hdr'.first_free_page_no = next[p]
      BY <1>3, <1>4, <1>5, <1>8, <1>9, <1>14, <1>16 DEF HdrAfterInsert, Hdrs
    <2>2. WithSpace' = space \ {p}
      BY <1>10, <1>11, <1>15, <1>16, DataPagesExist DEF WithSpace
    <2> QED BY <1>13, <1>14, <2>1, <2>2 DEF ListInv
  <1>17. CASE after.bitmap # Slots
    <2>1. Hdr'.first_free_page_no = p
      BY <1>1, <1>3, <1>4, <1>9, <1>17 DEF HdrAfterInsert
    <2>2. WithSpace' = space
      BY <1>10, <1>11, <1>13, <1>15, <1>17, DataPagesExist DEF WithSpace
    <2> QED BY <1>12, <1>14, <2>1, <2>2 DEF ListInv
  <1> QED BY <1>16, <1>17

\* Before a page is created there is no page with a free slot.
LEMMA InsertNewPageLists ==
  ASSUME FileInv, Counted, ListInv, NEW rec \in Records, InsertNewPage(rec)
  PROVE  ListInv'
  <1>1. PICK n, p, s : n = file_hdr_.num_pages /\ p = fd2pageno_
                       /\ s = FirstBit(FALSE, BlankPage.bitmap, N)
    OBVIOUS
  <1>2. PICK after : after = PageAfterInsert(BlankPage, s, rec)
    OBVIOUS
  <1>3. /\ Running /\ file_hdr_.first_free_page_no = RM_NO_PAGE /\ s < N /\ UNCHANGED open
        /\ p <= MaxPages
        /\ pages' = [pages EXCEPT ![p] = after]
        /\ file_hdr_' = HdrAfterInsert([num_pages |-> n + 1, first_free_page_no |-> p], after)
    BY <1>1, <1>2 DEF InsertNewPage, InsertInto
  <1>4. /\ Hdr = file_hdr_ /\ Hdr' = file_hdr_' /\ p = n /\ n \in 1..(MaxPages + 1)
        /\ DataPages = 1..(n - 1)
    BY <1>1, <1>3, OpenFacts DEF Hdr
  <1>5. p \in PageNos /\ n \in Nat
    BY <1>3, <1>4, NoPageNo
  <1>6. BlankPage.bitmap \in SUBSET Slots /\ BlankPage.next_free_page_no = RM_NO_PAGE
        /\ BlankPage.num_records = Cardinality(BlankPage.bitmap)
    BY FS_EmptySet DEF BlankPage, PageOf
  <1>7. s \in Slots /\ s \notin BlankPage.bitmap
    BY <1>1, <1>3, <1>6, FirstFree
  <1>8. /\ after.next_free_page_no = RM_NO_PAGE
        /\ after.bitmap \in SUBSET Slots
        /\ after.num_records = Cardinality(after.bitmap)
    <2>1. /\ after.next_free_page_no = RM_NO_PAGE
          /\ after.bitmap = BlankPage.bitmap \cup {s}
          /\ after.num_records = BlankPage.num_records + 1
      BY <1>2, <1>6 DEF PageAfterInsert, PageOf
    <2> QED BY <1>6, <1>7, <2>1, BitmapSizes
  <1>9. after.num_records = N <=> after.bitmap = Slots
    BY <1>8, FullPage
  <1>10. pages'[p] = after /\ \A q \in PageNos : q # p => pages'[q] = pages[q]
    BY <1>3, <1>5 DEF FileInv, TypeOK
  <1>11. \A q \in DataPages : pages[q].bitmap = Slots
    <2>1. PICK next, space : next = Nexts /\ space = WithSpace
      OBVIOUS
    <2>2. Linked(RM_NO_PAGE, next, space)
      BY <1>3, <1>4, <2>1 DEF ListInv
    <2>3. WithSpace = {}
      BY <2>1, <2>2, LinkedEmpty
    <2> QED BY <2>3 DEF WithSpace
  <1>12. file_hdr_'.num_pages = n + 1
    BY <1>3 DEF HdrAfterInsert
  <1>13. DataPages' = DataPages \cup {p} /\ DataPages \subseteq PageNos /\ p \notin DataPages
    <2>1. DataPages' = 1..n
      BY <1>4, <1>5, <1>12 DEF DataPages, RM_FIRST_RECORD_PAGE
    <2> QED BY <1>4, <1>5, <2>1, DataPagesExist
  <1>14. \A q \in DataPages : pages'[q].bitmap = Slots
    BY <1>10, <1>11, <1>13
  <1>15. PICK next : next = Nexts'
    OBVIOUS
  <1>16. next[p] = RM_NO_PAGE
    BY <1>5, <1>8, <1>10, <1>15 DEF Nexts
  <1>17. Linked(RM_NO_PAGE, next, {})
    BY LinkedEmpty
  <1>18. CASE after.bitmap = Slots
    <2>1. Hdr'.first_free_page_no = RM_NO_PAGE
      BY <1>3, <1>4, <1>8, <1>9, <1>18 DEF HdrAfterInsert
    <2>2. WithSpace' = {}
      BY <1>10, <1>13, <1>14, <1>18 DEF WithSpace
    <2> QED BY <1>15, <1>17, <2>1, <2>2 DEF ListInv
  <1>19. CASE after.bitmap # Slots
    <2>1. Hdr'.first_free_page_no = p
      BY <1>3, <1>4, <1>9, <1>19 DEF HdrAfterInsert
    <2>2. WithSpace' = {} \cup {p}
      BY <1>10, <1>13, <1>14, <1>19 DEF WithSpace
    <2>3. Linked(p, next, {} \cup {p})
      BY <1>5, <1>16, <1>17, LinkedPush
    <2> QED BY <1>15, <2>1, <2>2, <2>3 DEF ListInv
  <1> QED BY <1>18, <1>19

\* A page that was full goes to the front of the list; any other is on it.
LEMMA DeleteRecordLists ==
  ASSUME FileInv, Counted, ListInv, ~stale',
         NEW p \in PageNos, NEW s \in Slots, DeleteRecord(p, s)
  PROVE  ListInv'
  <1>1. PICK page, first : page = pages[p] /\ first = file_hdr_.first_free_page_no
    OBVIOUS
  <1>2. PICK release \in BOOLEAN : release = (page.num_records - 1 = N - 1)
    OBVIOUS
  <1>3. PICK link : link = IF release THEN first ELSE page.next_free_page_no
    OBVIOUS
  <1>4. PICK after : after = PageOf(link, page.num_records - 1, page.bitmap \ {s}, page.slots)
    OBVIOUS
  <1>5. /\ Running /\ p \in Allocated /\ s \in page.bitmap /\ UNCHANGED open
        /\ pages' = [pages EXCEPT ![p] = after]
        /\ file_hdr_' = IF release THEN HdrAfterRelease(p) ELSE file_hdr_
    BY <1>1, <1>2, <1>3, <1>4 DEF DeleteRecord, Occupied
  <1>6. Hdr = file_hdr_ /\ Hdr' = file_hdr_' /\ p \in DataPages
    BY <1>5, OpenFacts DEF Hdr
  <1>7. page.bitmap \in SUBSET Slots /\ page.num_records = Cardinality(page.bitmap)
    BY <1>1 DEF FileInv, TypeOK, Pages, Counted
  <1>8. release <=> page.bitmap = Slots
    <2>1. page.num_records \in Nat
      BY <1>7, BitmapSizes
    <2>2. page.num_records - 1 = N - 1 <=> page.num_records = N
      BY <2>1, SlotCount
    <2>3. page.num_records = N <=> page.bitmap = Slots
      BY <1>7, FullPage
    <2> QED BY <1>2, <2>2, <2>3
  <1>9. after.next_free_page_no = link /\ after.bitmap # Slots
    BY <1>4 DEF PageOf
  <1>10. pages'[p] = after /\ \A q \in PageNos : q # p => pages'[q] = pages[q]
    BY <1>5 DEF FileInv, TypeOK
  <1>11. PICK next, space, nexts : next = Nexts /\ space = WithSpace /\ nexts = Nexts'
    OBVIOUS
  <1>12. Linked(first, next, space)
    BY <1>1, <1>6, <1>11 DEF ListInv
  <1>13. DataPages' = DataPages
    BY <1>5, <1>6 DEF DataPages, HdrAfterRelease, FileInv, TypeOK, Hdrs
  <1>14. WithSpace' = space \cup {p}
    BY <1>6, <1>9, <1>10, <1>11, <1>13, DataPagesExist DEF WithSpace
  <1>15. \A q \in PageNos : q # p => nexts[q] = next[q]
    BY <1>10, <1>11 DEF Nexts
  <1>16. space \subseteq PageNos /\ nexts[p] = link
    BY <1>9, <1>10, <1>11, DataPagesExist DEF WithSpace, Nexts
  <1>17. CASE release
    <2>1. p \notin space
      BY <1>1, <1>8, <1>11, <1>17 DEF WithSpace
    <2>2. Linked(p, nexts, space \cup {p})
      BY <1>3, <1>12, <1>15, <1>16, <1>17, <2>1, LinkedPush
    <2>3. Hdr'.first_free_page_no = p
      BY <1>5, <1>6, <1>17 DEF HdrAfterRelease, FileInv, TypeOK, Hdrs
    <2> QED BY <1>11, <1>14, <2>2, <2>3 DEF ListInv
  <1>18. CASE ~release
    <2>1. p \in space
      BY <1>1, <1>6, <1>8, <1>11, <1>18 DEF WithSpace
    <2>2. nexts = next
      BY <1>1, <1>3, <1>9, <1>10, <1>11, <1>18 DEF Nexts
    <2>3. Hdr'.first_free_page_no = first
      BY <1>1, <1>5, <1>6, <1>18
    <2>4. WithSpace' = space
      BY <1>14, <2>1
    <2> QED BY <1>11, <1>12, <2>2, <2>3, <2>4 DEF ListInv
  <1> QED BY <1>17, <1>18

LEMMA StepLists ==
  ASSUME FileInv, Counted, ListInv, ~stale', [Next]_vars
  PROVE  ListInv'
  <1>1. ASSUME UNCHANGED <<pages, Hdr>> PROVE ListInv'
    BY <1>1, ListUntouched
  <1>2. ASSUME NEW rec \in Records, InsertFreePage(rec) \/ InsertNewPage(rec) PROVE ListInv'
    BY <1>2, InsertFreePageLists, InsertNewPageLists
  <1>3. ASSUME NEW p \in PageNos, NEW s \in Slots, DeleteRecord(p, s) PROVE ListInv'
    BY <1>3, DeleteRecordLists
  <1>4. ASSUME NEW p \in PageNos, NEW s \in Slots, NEW rec \in Records, UpdateRecord(p, s, rec)
        PROVE  ListInv'
    <2>1. UNCHANGED Hdr
      BY <1>4 DEF UpdateRecord, Hdr
    <2>2. \A q \in PageNos : /\ pages'[q].next_free_page_no = pages[q].next_free_page_no
                             /\ pages'[q].bitmap = pages[q].bitmap
      BY <1>4 DEF UpdateRecord, PageOf, FileInv, TypeOK
    <2> QED BY <2>1, <2>2, ListUntouched
  <1>5. CASE \/ \E p \in PageNos : IsRecord(p)
             \/ InsertNullPage \/ InsertOverflow \/ UNCHANGED vars
    <2>1. UNCHANGED <<pages, open, file_hdr_, disk_hdr>>
      BY <1>5 DEF IsRecord, InsertNullPage, InsertOverflow, vars
    <2> QED BY <1>1, <2>1 DEF Hdr
  <1>6. CASE CloseFile
    <2>1. open = TRUE /\ open' = FALSE /\ disk_hdr' = file_hdr_ /\ UNCHANGED pages
      BY <1>6, OpenFacts DEF CloseFile
    <2> QED BY <1>1, <2>1 DEF Hdr
  <1>7. CASE OpenFile
    <2>1. open = FALSE /\ open' = TRUE /\ file_hdr_' = disk_hdr /\ UNCHANGED pages
      BY <1>7 DEF OpenFile, FileInv, TypeOK
    <2> QED BY <1>1, <2>1 DEF Hdr
  <1> QED BY <1>2, <1>3, <1>4, <1>5, <1>6, <1>7 DEF Next

\* As long as callers have deleted only records that were there, the free list passes
\* exactly once through every page with a free slot and through no other, for any
\* number of pages and any order of insertions, deletions, closes and opens
\* (create_page_handle, release_page_handle).
THEOREM FreeListSafe == Spec => []FreeListSound
  <1> DEFINE Inv == FileInv /\ (~stale => Counted /\ ListInv)
  <1>1. Init => Inv
    <2> SUFFICES ASSUME Init PROVE FileInv /\ Counted /\ ListInv
      OBVIOUS
    <2>1. FileInv
      BY InitKeeps
    <2>2. BlankPage.num_records = Cardinality(BlankPage.bitmap)
      BY FS_EmptySet DEF BlankPage, PageOf
    <2>3. Counted
      BY <2>2 DEF Init, Counted
    <2>4. Hdr.first_free_page_no = RM_NO_PAGE /\ WithSpace = {}
      BY DEF Init, Hdr, WithSpace, DataPages, RM_FIRST_RECORD_PAGE
    <2>5. PICK next : next = Nexts
      OBVIOUS
    <2>6. Linked(RM_NO_PAGE, next, {})
      BY LinkedEmpty
    <2> QED BY <2>1, <2>3, <2>4, <2>5, <2>6 DEF ListInv
  <1>2. Inv /\ [Next]_vars => Inv'
    BY StepKeeps, StepCounts, StepLists, StaleStays
  <1>3. Inv => FreeListSound
    <2> SUFFICES ASSUME FileInv, ListInv PROVE FreeListSound
      BY DEF FreeListSound
    <2>1. PICK n \in 0..MaxPages : \E list \in [1..n -> PageNos] :
            Chain(Hdr.first_free_page_no, Nexts, WithSpace, n, list)
      BY DEF ListInv, Linked
    <2>2. PICK list \in [1..n -> PageNos] :
            Chain(Hdr.first_free_page_no, Nexts, WithSpace, n, list)
      BY <2>1
    <2>3. IsFreeList(list, n)
      BY <2>2 DEF Chain, IsFreeList, Nexts
    <2>4. {list[i] : i \in 1..n} = {p \in DataPages : pages[p].bitmap # Slots}
      BY <2>2 DEF Chain, WithSpace
    <2> QED BY <2>3, <2>4 DEF FreeListSound
  <1> QED BY <1>1, <1>2, <1>3, PTL DEF Spec

-----------------------------------------------------------------------------
(* Scans.  The cursor divides the record ids: what was there all the time  *)
(* and is not after the cursor has been seen, and nothing else has.        *)

After(r, c) == r[1] > c[1] \/ (r[1] = c[1] /\ r[2] > c[2])

Cursors == PageNos \X (-1..(N - 1))

ScanInv ==
  /\ rid_ \in Cursors \cup {NoRid}
  /\ seen \subseteq Rids /\ stable \subseteq LiveRids
  /\ ~scanning => seen = {} /\ stable = {} /\ rid_ = NoRid
  /\ rid_ = NoRid => stable \subseteq seen
  /\ rid_ # NoRid => /\ \A r \in stable : After(r, rid_) \/ r \in seen
                     /\ \A r \in seen : ~After(r, rid_)

LEMMA CursorFacts ==
  /\ NoRid \notin Cursors /\ NoRid \notin Rids /\ Rids \subseteq Cursors
  /\ \A c \in Cursors : /\ c[1] \in PageNos /\ c[1] \in Nat /\ c[2] \in Int
                        /\ c[2] >= -1 /\ c[2] < N /\ c = <<c[1], c[2]>>
  /\ \A c \in Cursors : c[2] # -1 => c \in Rids
  BY NoPageNo, SlotCount DEF Cursors, NoRid, Rids, RM_NO_PAGE

\* next_bit: no set bit lies between the cursor and what it finds.
LEMMA NextSet ==
  ASSUME NEW bits \in SUBSET Slots, NEW cur \in Int, cur >= -1, cur < N
  PROVE  LET s == NextBit(TRUE, bits, N, cur)
         IN  /\ s \in Nat /\ s <= N /\ s > cur
             /\ \A t \in bits : t > cur => s <= t
  <1> DEFINE after == {i \in (cur + 1)..(N - 1) : (i \in bits) = TRUE}
             s == NextBit(TRUE, bits, N, cur)
  <1> SUFFICES s \in Nat /\ s <= N /\ s > cur /\ \A t \in bits : t > cur => s <= t
    OBVIOUS
  <1>1. s = IF after = {} THEN N ELSE CHOOSE i \in after : \A j \in after : i <= j
    BY DEF NextBit
  <1>2. after \subseteq Nat /\ after \subseteq bits /\ (\A i \in after : i > cur /\ i < N)
        /\ \A t \in bits : t > cur => t \in after
    BY SlotCount
  <1> HIDE DEF after, s
  <1>3. CASE after = {}
    BY <1>1, <1>2, <1>3, SlotCount
  <1>4. CASE after # {}
    <2>1. \E i \in after : \A j \in after : i <= j
      BY <1>2, <1>4, LeastExists
    <2>2. s \in after /\ \A j \in after : s <= j
      BY <1>1, <1>4, <2>1
    <2> QED BY <1>2, <2>2, SlotCount
  <1> QED BY <1>3, <1>4

\* A call of next() moves the cursor over no record but the one it stops at.
LEMMA NextRidFacts ==
  ASSUME FileInv, Running, NEW from \in Cursors, NEW to, to = NextRid(from)
  PROVE  /\ to \in Cursors \cup {NoRid}
         /\ to = NoRid => \A r \in LiveRids : ~After(r, from)
         /\ to # NoRid => /\ to = from \/ After(to, from)
                          /\ \A r \in LiveRids : After(r, from) => After(r, to) \/ r = to
  <1> DEFINE n == file_hdr_.num_pages
             stops == {p \in from[1]..(n - 1) : ~Fetchable(p) \/ Found(from, p) < N}
             least == CHOOSE q \in stops : \A o \in stops : q <= o
  <1>0. to = IF stops = {} THEN NoRid
             ELSE <<least, IF Fetchable(least) THEN Found(from, least) ELSE Cursor(from, least)>>
    BY DEF NextRid
  <1>1. /\ DataPages = 1..(n - 1) /\ DataPages \subseteq PageNos /\ n \in Nat
        /\ Hdr = file_hdr_
    BY OpenFacts, NoPageNo
  <1>2. from[1] \in Nat /\ from[1] >= 1 /\ from[2] \in Int /\ from[2] >= -1 /\ from[2] < N
        /\ from = <<from[1], from[2]>> /\ from[1] \in PageNos
    BY CursorFacts, NoPageNo
  <1>3. stops \subseteq Nat /\ stops \subseteq DataPages
    BY <1>1, <1>2
  <1>4. ASSUME NEW r \in LiveRids
        PROVE  /\ r[1] \in DataPages /\ r[1] \in Nat /\ r[2] \in pages[r[1]].bitmap
               /\ r[2] \in Slots /\ r[2] \in Nat /\ r[2] < N /\ r = <<r[1], r[2]>>
    <2>1. r \in Rids /\ RecordsOf[r] # NoRecord
      BY DEF LiveRids
    <2>2. RecordsOf[r] = RecordAt(r[1], r[2])
      BY <2>1 DEF RecordsOf
    <2>3. r[1] \in DataPages /\ r[2] \in pages[r[1]].bitmap
      BY <2>1, <2>2 DEF RecordAt
    <2>4. r[2] \in Slots /\ r = <<r[1], r[2]>>
      BY <2>1 DEF Rids
    <2> QED BY <1>1, <2>3, <2>4, SlotCount
  <1>5. ASSUME NEW p \in DataPages, p >= from[1]
        PROVE  /\ Cursor(from, p) \in Int /\ Cursor(from, p) >= -1 /\ Cursor(from, p) < N
               /\ Found(from, p) \in Nat /\ Found(from, p) <= N
               /\ Found(from, p) > Cursor(from, p)
               /\ \A t \in pages[p].bitmap : t > Cursor(from, p) => Found(from, p) <= t
    <2>1. PICK cur : cur = Cursor(from, p)
      OBVIOUS
    <2>2. cur \in Int /\ cur >= -1 /\ cur < N
      BY <1>2, <2>1, SlotCount DEF Cursor
    <2>3. PICK bits : bits = pages[p].bitmap
      OBVIOUS
    <2>4. bits \in SUBSET Slots
      BY <1>1, <2>3 DEF FileInv, TypeOK, Pages
    <2>5. PICK s : s = NextBit(TRUE, bits, N, cur)
      OBVIOUS
    <2>6. s \in Nat /\ s <= N /\ s > cur /\ \A t \in bits : t > cur => s <= t
      BY <2>2, <2>4, <2>5, NextSet
    <2>7. Found(from, p) = s
      BY <2>1, <2>3, <2>5 DEF Found
    <2> QED BY <2>1, <2>2, <2>3, <2>6, <2>7
  \* The page of a record after the cursor is one to stop at.
  <1>6. ASSUME NEW r \in LiveRids, After(r, from)
        PROVE  r[1] \in stops /\ r[2] > Cursor(from, r[1]) /\ r[1] >= from[1]
               /\ Found(from, r[1]) <= r[2]
    <2>1. r[1] >= from[1] /\ r[1] \in from[1]..(n - 1)
      BY <1>1, <1>2, <1>4, <1>6 DEF After
    <2>2. r[2] > Cursor(from, r[1])
      BY <1>2, <1>4, <1>6 DEF After, Cursor
    <2>3. Found(from, r[1]) <= r[2] /\ Found(from, r[1]) \in Nat
      BY <1>4, <1>5, <2>1, <2>2
    <2>4. Found(from, r[1]) < N
      BY <1>4, <2>3, SlotCount
    <2> QED BY <2>1, <2>2, <2>3, <2>4
  <1>7. CASE stops = {}
    <2>1. to = NoRid
      BY <1>0, <1>7
    <2> QED BY <1>6, <1>7, <2>1
  <1>8. CASE stops # {}
    <2>1. PICK p : p = least
      OBVIOUS
    <2>2. p \in stops /\ \A o \in stops : p <= o
      <3>1. \E q \in stops : \A o \in stops : q <= o
        BY <1>3, <1>8, LeastExists
      <3> QED BY <2>1, <3>1
    <2>3. p \in DataPages /\ p \in Nat /\ p >= from[1] /\ p \in PageNos
      BY <1>1, <1>2, <1>3, <2>2
    <2>4. PICK found, cur : found = Found(from, p) /\ cur = Cursor(from, p)
      OBVIOUS
    <2>5. /\ cur \in Int /\ cur >= -1 /\ cur < N /\ found \in Nat /\ found <= N /\ found > cur
          /\ cur = IF p = from[1] THEN from[2] ELSE -1
      BY <1>5, <2>3, <2>4 DEF Cursor
    <2>6. to = <<p, IF Fetchable(p) THEN found ELSE cur>>
      <3> HIDE DEF least, stops
      <3> QED BY <1>0, <1>8, <2>1, <2>4
    <2>7. Fetchable(p) => found < N
      BY <2>2, <2>4
    <2>8. to \in Cursors /\ to # NoRid
      BY <2>3, <2>5, <2>6, <2>7, SlotCount, CursorFacts DEF Cursors
    <2>9. to[1] = p /\ to[2] = IF Fetchable(p) THEN found ELSE cur
      BY <2>6
    <2>10. to = from \/ After(to, from)
      <3>1. CASE p # from[1]
        BY <1>2, <2>3, <2>9, <3>1 DEF After
      <3>2. CASE p = from[1] /\ Fetchable(p)
        BY <1>2, <2>5, <2>9, <3>2 DEF After
      <3>3. CASE p = from[1] /\ ~Fetchable(p)
        BY <1>2, <2>5, <2>6, <3>3
      <3> QED BY <3>1, <3>2, <3>3
    <2>11. ASSUME NEW r \in LiveRids, After(r, from) PROVE After(r, to) \/ r = to
      <3>1. /\ r[1] \in stops /\ r[2] > Cursor(from, r[1])
            /\ Found(from, r[1]) <= r[2]
        BY <1>6, <2>11
      <3>2. p <= r[1] /\ r[1] \in Nat /\ r[2] \in Nat /\ r = <<r[1], r[2]>>
        BY <1>4, <2>2, <3>1
      <3>3. CASE r[1] # p
        BY <2>3, <2>9, <3>2, <3>3 DEF After
      <3>4. CASE r[1] = p
        <4>1. r[2] > cur /\ found <= r[2]
          BY <2>4, <3>1, <3>4
        <4>2. r[2] = to[2] \/ r[2] > to[2]
          BY <2>5, <2>9, <3>2, <4>1
        <4> QED BY <2>6, <2>9, <3>2, <3>4, <4>2 DEF After
      <3> QED BY <3>3, <3>4
    <2> QED BY <2>8, <2>10, <2>11
  <1> QED BY <1>7, <1>8

LEMMA SameLiveRids == ASSUME UNCHANGED vars PROVE LiveRids' = LiveRids
  BY DEF vars, LiveRids, RecordsOf, RecordAt, DataPages, Hdr

LEMMA ScanBeginKeeps == ASSUME FileInv, ScanInv, ScanBegin PROVE ScanInv'
  <1>1. PICK from, to : from = <<RM_FIRST_RECORD_PAGE, -1>> /\ to = NextRid(from)
    OBVIOUS
  <1>2. /\ Running /\ to \in Rids \cup {NoRid} /\ rid_' = to /\ scanning' = TRUE
        /\ seen' = {to} \cap Rids /\ stable' = LiveRids /\ UNCHANGED vars
    BY <1>1 DEF ScanBegin
  <1>3. \A r \in LiveRids : After(r, from) /\ r \in Rids
    <2> SUFFICES ASSUME NEW r \in LiveRids PROVE After(r, from) /\ r \in Rids
      OBVIOUS
    <2>1. r \in Rids
      BY DEF LiveRids
    <2>2. r[1] \in Nat /\ r[1] >= 1 /\ r[2] \in Nat
      BY <2>1, NoPageNo, SlotCount DEF Rids
    <2> QED BY <1>1, <2>1, <2>2 DEF After, RM_FIRST_RECORD_PAGE
  <1>4. CASE to = NoRid
    <2>1. LiveRids = {}
      <3> SUFFICES ASSUME NEW r \in LiveRids PROVE FALSE
        OBVIOUS
      <3>1. r[1] \in PageNos
        BY DEF LiveRids, Rids
      <3>2. from \in Cursors
        BY <1>1, <3>1, NoPageNo, SlotCount DEF Cursors, RM_FIRST_RECORD_PAGE
      <3> QED BY <1>1, <1>2, <1>3, <1>4, <3>2, NextRidFacts
    <2> QED BY <1>2, <1>4, <2>1, SameLiveRids, CursorFacts DEF ScanInv
  <1>5. CASE to # NoRid
    <2>1. to \in Rids /\ to \in Cursors
      BY <1>2, <1>5, CursorFacts
    <2>2. from \in Cursors
      <3>1. to[1] \in PageNos
        BY <2>1 DEF Rids
      <3> QED BY <1>1, <3>1, NoPageNo, SlotCount DEF Cursors, RM_FIRST_RECORD_PAGE
    <2>3. \A r \in LiveRids : After(r, to) \/ r = to
      BY <1>1, <1>2, <1>3, <1>5, <2>2, NextRidFacts
    <2>4. ~After(to, to)
      BY <2>1, CursorFacts DEF After
    <2>5. seen' = {to}
      BY <1>2, <2>1
    <2> QED BY <1>2, <1>5, <2>1, <2>3, <2>4, <2>5, SameLiveRids DEF ScanInv
  <1> QED BY <1>4, <1>5

LEMMA ScanNextKeeps ==
  ASSUME FileInv, ScanInv, ScanNext
  PROVE  ScanInv' /\ (rid_' \in Rids /\ rid_' # rid_ => rid_' \notin seen)
  <1>1. PICK from, to : from = rid_ /\ to = NextRid(from)
    OBVIOUS
  <1>2. /\ Running /\ scanning /\ from # NoRid /\ rid_' = to
        /\ seen' = seen \cup ({to} \cap Rids) /\ UNCHANGED <<vars, scanning, stable>>
    BY <1>1 DEF ScanNext
  <1>3. from \in Cursors
    BY <1>1, <1>2 DEF ScanInv
  <1>4. /\ to \in Cursors \cup {NoRid}
        /\ to = NoRid => \A r \in LiveRids : ~After(r, from)
        /\ to # NoRid => /\ to = from \/ After(to, from)
                         /\ \A r \in LiveRids : After(r, from) => After(r, to) \/ r = to
    BY <1>1, <1>2, <1>3, NextRidFacts
  <1>5. /\ stable \subseteq LiveRids /\ seen \subseteq Rids /\ LiveRids \subseteq Rids
        /\ \A r \in stable : After(r, from) \/ r \in seen
        /\ \A r \in seen : ~After(r, from)
    BY <1>1, <1>2 DEF ScanInv, LiveRids
  <1>6. CASE to = NoRid
    <2>1. seen' = seen
      BY <1>2, <1>6, CursorFacts
    <2> QED BY <1>2, <1>4, <1>5, <1>6, <2>1, SameLiveRids, CursorFacts DEF ScanInv
  <1>7. CASE to # NoRid
    <2>1. to \in Cursors
      BY <1>4, <1>7
    <2>2. \A r \in stable : After(r, to) \/ r \in seen'
      BY <1>2, <1>4, <1>5, <1>7
    <2>3. \A r \in Rids : After(r, to) => After(r, from)
      <3> TAKE r \in Rids
      <3>1. /\ r[1] \in Nat /\ r[2] \in Int /\ to[1] \in Nat /\ to[2] \in Int
            /\ from[1] \in Nat /\ from[2] \in Int
        BY <1>3, <2>1, CursorFacts
      <3> QED BY <1>4, <1>7, <3>1 DEF After
    <2>4. ~After(to, to)
      BY <2>1, CursorFacts DEF After
    <2>5. \A r \in seen' : ~After(r, to)
      BY <1>2, <1>5, <2>3, <2>4
    <2>6. to # from => to \notin seen
      BY <1>4, <1>5, <1>7
    <2>7. ScanInv'
      BY <1>2, <1>5, <1>7, <2>1, <2>2, <2>5, SameLiveRids DEF ScanInv
    <2> QED BY <1>1, <1>2, <2>6, <2>7
  <1> QED BY <1>6, <1>7

LEMMA FileStepKeeps == ASSUME ScanInv, FileStep PROVE ScanInv'
  <1>1. stable' \subseteq stable /\ stable' \subseteq LiveRids'
        /\ UNCHANGED <<rid_, scanning, seen>>
    BY DEF FileStep
  <1> QED BY <1>1 DEF ScanInv

\* The invariant of a scan and of the file below it, and what one step of the scan
\* may not do.
LEMMA ScanStep ==
  FileInv /\ ScanInv /\ [ScanBegin \/ ScanNext \/ ScanEnd \/ FileStep]_<<vars, scan_vars>> =>
    /\ FileInv' /\ ScanInv'
    /\ [rid_' \in Rids /\ rid_' # rid_ => rid_' \notin seen]_<<vars, scan_vars>>
  <1> SUFFICES ASSUME FileInv, ScanInv,
                      [ScanBegin \/ ScanNext \/ ScanEnd \/ FileStep]_<<vars, scan_vars>>
               PROVE  /\ FileInv' /\ ScanInv'
                      /\ rid_' \in Rids /\ rid_' # rid_ => rid_' \notin seen
    OBVIOUS
  <1>1. FileInv'
    <2>1. [Next]_vars
      BY DEF ScanBegin, ScanNext, ScanEnd, FileStep
    <2> QED BY <2>1, StepKeeps
  <1>2. CASE ScanBegin
    BY <1>1, <1>2, ScanBeginKeeps DEF ScanBegin, ScanInv
  <1>3. CASE ScanNext
    BY <1>1, <1>3, ScanNextKeeps
  <1>4. CASE ScanEnd
    BY <1>1, <1>4, CursorFacts DEF ScanEnd, ScanInv
  <1>5. CASE FileStep
    BY <1>1, <1>5, FileStepKeeps DEF FileStep
  <1>6. CASE UNCHANGED <<vars, scan_vars>>
    BY <1>1, <1>6, SameLiveRids DEF scan_vars, ScanInv
  <1> QED BY <1>2, <1>3, <1>4, <1>5, <1>6

LEMMA InitScan == ScanInit => FileInv /\ ScanInv
  BY InitKeeps DEF ScanInit, ScanInv

\* A scan that has come to its end has stood on every record that was there from
\* its beginning to its end, for files of any size and whatever is inserted,
\* deleted and updated between two calls of next() (rm_scan.cpp).
THEOREM ScanSafe == ScanSpec => []ScanComplete
  <1>1. FileInv /\ ScanInv => ScanComplete
    BY DEF ScanInv, ScanComplete
  <1> QED BY <1>1, InitScan, ScanStep, PTL DEF ScanSpec

\* next() never comes back to a record id it has stood on.
THEOREM ScanNeverTwice == ScanSpec => NeverTwice
  BY InitScan, ScanStep, PTL DEF ScanSpec, NeverTwice
==============================================================================
