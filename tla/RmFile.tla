------------------------------- MODULE RmFile -------------------------------
(***************************************************************************)
(* The record manager on one file: rm_file_handle.cpp, rm_file_handle.h    *)
(* and the open and close of rm_manager.h.  A file is a header and data    *)
(* pages; the pages that are not full form a list through                  *)
(* next_free_page_no that starts in the header.                            *)
(*                                                                         *)
(* Pages are seen through what the buffer pool promises (PageStore): a     *)
(* page keeps its contents wherever it is.  What is left of the pool here  *)
(* is its size and the pins that are never returned.  A call runs to its   *)
(* end before the next one starts: RmFileHandle takes no lock, so its      *)
(* users must call it one at a time.  A call that throws                   *)
(* PageNotExistError changes nothing, and is a stuttering step.            *)
(***************************************************************************)
EXTENDS RmPage, FiniteSets

CONSTANTS
  record_size,    \* of this file, fixed by create_file
  Records,        \* the contents a record may have
  NoRecord,       \* no record
  pool_size,      \* frames in the buffer pool
  MaxPages,       \* bound: data pages in the file
  MaxBelow        \* bound: how far below 0 deletions take num_records

ASSUME RecordAssumption ==
  /\ record_size \in 1..512
  /\ NumRecordsPerPage(record_size) >= 1
  /\ NoRecord \notin Records
  /\ pool_size \in Nat /\ pool_size > 0
  /\ MaxPages \in Nat
  /\ MaxBelow \in Nat

VARIABLES
  file_hdr_,      \* the handle's copy of the file header
  disk_hdr,       \* page 0 of the file on disk
  pages,          \* page number -> its header, bitmap and slots
  fd2pageno_,     \* DiskManager: the page number AllocatePage hands out next
  leaked,         \* pages with a pin that nobody will return
  open,           \* the file is open
  broken,         \* "ok", or the undefined behaviour the program has run into
  stale           \* history: a record that was not there has been deleted

vars == <<file_hdr_, disk_hdr, pages, fd2pageno_, leaked, open, broken, stale>>

\* file_hdr_.num_records_per_page
N == NumRecordsPerPage(record_size)

Slots == 0..(N - 1)
PageNos == RM_FIRST_RECORD_PAGE..MaxPages
Rids == PageNos \X Slots

Hdrs == [num_pages : 1..(MaxPages + 1), first_free_page_no : PageNos \cup {RM_NO_PAGE}]
Pages == [next_free_page_no : PageNos \cup {RM_NO_PAGE}, num_records : Int,
          bitmap : SUBSET Slots, slots : [Slots -> Records \cup {NoRecord}]]

PageOf(next, count, bits, slots) ==
  [next_free_page_no |-> next, num_records |-> count, bitmap |-> bits, slots |-> slots]

BlankPage == PageOf(RM_NO_PAGE, 0, {}, [s \in Slots |-> NoRecord])

\* RmManager::create_file wrote the header; the file has not been opened yet.
Init ==
  /\ disk_hdr = [num_pages |-> 1, first_free_page_no |-> RM_NO_PAGE]
  /\ file_hdr_ = disk_hdr
  /\ pages = [p \in PageNos |-> BlankPage]
  /\ fd2pageno_ = 1
  /\ leaked = {}
  /\ open = FALSE
  /\ broken = "ok"
  /\ stale = FALSE

Running == open /\ broken = "ok"

\* FetchPage and NewPage find a frame unless every frame is pinned for good;
\* the pins of the calls before this one have been returned.
FrameAvailable == Cardinality(leaked) < pool_size
Fetchable(p) == p \in leaked \/ FrameAvailable

-----------------------------------------------------------------------------
\* (mutant) a page that has become full stays at the front of the list
HdrKeepingFullPage(hdr, page) == hdr

\* insert_record: a page that is full leaves the front of the free list.
HdrAfterInsert(hdr, page) ==
  IF page.num_records = N
  THEN [hdr EXCEPT !.first_free_page_no = page.next_free_page_no]
  ELSE hdr

\* (mutant) num_records is not incremented
PageUncounted(page, s, rec) ==
  PageOf(page.next_free_page_no, page.num_records,
         page.bitmap \cup {s}, [page.slots EXCEPT ![s] = rec])

PageAfterInsert(page, s, rec) ==
  PageOf(page.next_free_page_no, page.num_records + 1,
         page.bitmap \cup {s}, [page.slots EXCEPT ![s] = rec])

\* insert_record once create_page_handle has returned page p of header hdr.
InsertInto(hdr, p, page, rec) ==
  LET s     == FirstBit(FALSE, page.bitmap, N)
      after == PageAfterInsert(page, s, rec)
  IN  /\ s < N
      /\ pages' = [pages EXCEPT ![p] = after]
      /\ file_hdr_' = HdrAfterInsert(hdr, after)

\* create_page_handle finds a page on the free list.
InsertFreePage(rec) ==
  LET p == file_hdr_.first_free_page_no
  IN  /\ Running
      /\ p # RM_NO_PAGE
      /\ Fetchable(p)
      /\ InsertInto(file_hdr_, p, pages[p], rec)
      /\ UNCHANGED <<disk_hdr, fd2pageno_, leaked, open, broken, stale>>

\* create_new_page_handle: NewPage, a blank page that is the whole free list.
InsertNewPage(rec) ==
  LET p == fd2pageno_
  IN  /\ Running
      /\ file_hdr_.first_free_page_no = RM_NO_PAGE
      /\ FrameAvailable
      /\ p <= MaxPages
      /\ fd2pageno_' = p + 1
      /\ InsertInto([num_pages |-> file_hdr_.num_pages + 1, first_free_page_no |-> p],
                    p, BlankPage, rec)
      /\ UNCHANGED <<disk_hdr, leaked, open, broken, stale>>

\* create_new_page_handle when NewPage returns nullptr, which it does not look
\* at: the page header is written through a null pointer.
InsertNullPage ==
  /\ Running
  /\ file_hdr_.first_free_page_no = RM_NO_PAGE
  /\ ~FrameAvailable
  /\ broken' = "null"
  /\ UNCHANGED <<file_hdr_, disk_hdr, pages, fd2pageno_, leaked, open, stale>>

\* insert_record on a page whose bitmap has no 0: first_bit returns the number
\* of slots, and the record is copied past the last one.
InsertOverflow ==
  LET p == file_hdr_.first_free_page_no
  IN  /\ Running
      /\ p # RM_NO_PAGE
      /\ Fetchable(p)
      /\ FirstBit(FALSE, pages[p].bitmap, N) = N
      /\ broken' = "overflow"
      /\ UNCHANGED <<file_hdr_, disk_hdr, pages, fd2pageno_, leaked, open, stale>>

\* The record ids a caller has: insert_record or a scan returned them, now or
\* at some time before.
Allocated == RM_FIRST_RECORD_PAGE..(file_hdr_.num_pages - 1)
Occupied(p, s) == p \in Allocated /\ s \in pages[p].bitmap

\* release_page_handle: page p goes to the front of the free list.
HdrAfterRelease(p) == [file_hdr_ EXCEPT !.first_free_page_no = p]

\* delete_record; the page is released when it was full and is not any more.
\* It does not look at the bit it resets: the caller's record id may be stale,
\* and num_records fall below 0.
DeleteRecord(p, s) ==
  LET page    == pages[p]
      count   == page.num_records - 1
      release == count = N - 1
      next    == IF release THEN file_hdr_.first_free_page_no ELSE page.next_free_page_no
  IN  /\ Running
      /\ p \in Allocated
      /\ page.num_records > -MaxBelow
      /\ Fetchable(p)
      /\ pages' = [pages EXCEPT ![p] = PageOf(next, count, page.bitmap \ {s}, page.slots)]
      /\ file_hdr_' = IF release THEN HdrAfterRelease(p) ELSE file_hdr_
      /\ stale' = (stale \/ ~Occupied(p, s))
      /\ UNCHANGED <<disk_hdr, fd2pageno_, leaked, open, broken>>

\* update_record does not look at the bit either: with a stale id it changes the
\* bytes of a slot that is free.
UpdateRecord(p, s, rec) ==
  /\ Running
  /\ p \in Allocated
  /\ Fetchable(p)
  /\ pages' = [pages EXCEPT ![p] =
       PageOf(pages[p].next_free_page_no, pages[p].num_records, pages[p].bitmap,
              [pages[p].slots EXCEPT ![s] = rec])]
  /\ UNCHANGED <<file_hdr_, disk_hdr, fd2pageno_, leaked, open, broken, stale>>

\* is_record fetches the page and does not unpin it.
IsRecord(p) ==
  /\ Running
  /\ p \in Allocated
  /\ Fetchable(p)
  /\ leaked' = leaked \cup {p}
  /\ UNCHANGED <<file_hdr_, disk_hdr, pages, fd2pageno_, open, broken, stale>>

\* (mutant) the header is not written back
CloseFileHeaderUnwritten ==
  /\ Running
  /\ open' = FALSE
  /\ UNCHANGED <<file_hdr_, disk_hdr, pages, fd2pageno_, leaked, broken, stale>>

\* RmManager::close_file: the header is written, the pages are flushed.
CloseFile ==
  /\ Running
  /\ disk_hdr' = file_hdr_
  /\ open' = FALSE
  /\ UNCHANGED <<file_hdr_, pages, fd2pageno_, leaked, broken, stale>>

\* RmManager::open_file: the header is read, and page numbers go on from it.
OpenFile ==
  /\ ~open
  /\ broken = "ok"
  /\ file_hdr_' = disk_hdr
  /\ fd2pageno_' = disk_hdr.num_pages
  /\ open' = TRUE
  /\ UNCHANGED <<disk_hdr, pages, leaked, broken, stale>>

Next ==
  \/ \E rec \in Records : InsertFreePage(rec) \/ InsertNewPage(rec)
  \/ InsertNullPage
  \/ InsertOverflow
  \/ \E p \in PageNos, s \in Slots : DeleteRecord(p, s)
  \/ \E p \in PageNos, s \in Slots, rec \in Records : UpdateRecord(p, s, rec)
  \/ \E p \in PageNos : IsRecord(p)
  \/ CloseFile
  \/ OpenFile

Spec == Init /\ [][Next]_vars

-----------------------------------------------------------------------------
\* Type invariant: the header, the page headers and the bitmaps stay in the ranges
\* of a file of at most MaxPages data pages.
TypeOK ==
  /\ file_hdr_ \in Hdrs
  /\ disk_hdr \in Hdrs
  /\ pages \in [PageNos -> Pages]
  /\ fd2pageno_ \in 1..(MaxPages + 1)
  /\ leaked \subseteq PageNos
  /\ open \in BOOLEAN
  /\ broken \in {"ok", "null", "overflow"}
  /\ stale \in BOOLEAN

\* The header that counts: the handle's while the file is open, the one on
\* disk while it is closed.
Hdr == IF open THEN file_hdr_ ELSE disk_hdr

DataPages == RM_FIRST_RECORD_PAGE..(Hdr.num_pages - 1)

\* RmPageHdr::num_records is the number of records in the page, on which
\* insert_record and delete_record decide that a page becomes full or stops
\* being full, as long as callers have deleted only records that were there.
CountsMatchBitmap ==
  ~stale => \A p \in DataPages : pages[p].num_records = Cardinality(pages[p].bitmap)

\* list is the free list: it starts in the header, follows next_free_page_no,
\* ends in RM_NO_PAGE, and passes through no page twice.
IsFreeList(list, n) ==
  /\ Hdr.first_free_page_no = IF n = 0 THEN RM_NO_PAGE ELSE list[1]
  /\ \A i \in 1..n : pages[list[i]].next_free_page_no =
                       IF i = n THEN RM_NO_PAGE ELSE list[i + 1]
  /\ \A i, j \in 1..n : list[i] = list[j] => i = j

\* The free list passes exactly once through every page that has a free slot
\* and through no other: insert_record never meets a full page, delete_record
\* and insert_record never tie the list into a loop, and no space is lost, as
\* long as callers have deleted only records that were there.
FreeListSound ==
  ~stale => \E n \in 0..MaxPages : \E list \in [1..n -> PageNos] :
    /\ IsFreeList(list, n)
    /\ {list[i] : i \in 1..n} = {p \in DataPages : pages[p].bitmap # Slots}

\* The records of the file.
RecordAt(p, s) ==
  IF p \in DataPages /\ s \in pages[p].bitmap THEN pages[p].slots[s] ELSE NoRecord
RecordsOf == [r \in Rids |-> RecordAt(r[1], r[2])]

RS == INSTANCE RecordStore WITH records <- RecordsOf

\* insert_record, delete_record, update_record, close_file and open_file do
\* to the set of records what RecordStore says, and nothing else: an insertion
\* overwrites no record, a page created anew takes no page that is in use, and
\* a file that is closed and opened again has the records it had.
ImplementsRecords == RS!Spec
=============================================================================
