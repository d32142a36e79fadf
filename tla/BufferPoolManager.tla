-------------------------- MODULE BufferPoolManager --------------------------
(***************************************************************************)
(* The buffer pool (src/src/storage/buffer_pool_manager.cpp), the LRU      *)
(* replacer it owns, the disk pages below it (disk_manager.cpp) and the    *)
(* threads that use it.                                                    *)
(*                                                                         *)
(* Every public method holds latch_ from its first line to its last, so    *)
(* each call is one step, and so is each of its early returns and of the   *)
(* exceptions that leave it half way.  What happens between the calls is   *)
(* what the pool has to survive: threads keep the Page* they were given    *)
(* and write through it, outside latch_, until they unpin the page.        *)
(***************************************************************************)
EXTENDS LRUList

CONSTANTS
  Threads,          \* users of the pool
  Fds,              \* open files
  MaxPages,         \* how many pages a file may have (a bound)
  INVALID_PAGE_ID,  \* the page number of no page
  Data,             \* what a client may write into a page
  Zero,             \* the contents of a page after ResetMemory, or of a hole
  EOF,              \* not a content: the page lies beyond the end of the file
  OldPages,         \* how many pages a file has when it is opened
  IOErrors          \* which system calls may fail: see IOFailures

\* The places where read(2) or write(2) may fail and throw UnixError.
IOFailures == {"read", "evict", "flush", "delete"}

PageNos == 0..(MaxPages - 1)
PageIds == [fd : Fds, page_no : PageNos \cup {INVALID_PAGE_ID}]
Contents == Data \cup {Zero}

ASSUME PoolAssumption == Frames = 0..(max_size_ - 1) /\ max_size_ > 0
ASSUME PageAssumption ==
  /\ Fds # {}
  /\ MaxPages \in Nat
  /\ INVALID_PAGE_ID = -1
  /\ OldPages \in 0..MaxPages
ASSUME DataAssumption == Zero \notin Data /\ EOF \notin Data \cup {Zero} /\ Data # {}
ASSUME ThreadAssumption == IsFiniteSet(Threads)
ASSUME EnvironmentAssumption == IOErrors \subseteq IOFailures

VARIABLES
  pages_,       \* frame -> Page
  page_table_,  \* page id -> frame, INVALID_FRAME_ID where the map has no entry
  free_list_,   \* frames that hold no page
  lru,          \* replacer_
  disk,         \* page id -> contents of the page in its file, or EOF
  fd2pageno_,   \* fd -> the page number AllocatePage hands out next
  handle,       \* thread -> page id -> the frame its Page* points to
  wrote         \* thread -> pages it changed and has not yet reported dirty

poolVars == <<pages_, page_table_, free_list_, lru>>
diskVars == <<disk, fd2pageno_>>
clientVars == <<handle, wrote>>
vars == <<poolVars, diskVars, clientVars>>

NoFrame == INVALID_FRAME_ID
Valid(p) == p.page_no # INVALID_PAGE_ID
PageId(fd, no) == [fd |-> fd, page_no |-> no]
Page(p, d, dirty, pins) ==
  [id_ |-> p, data_ |-> d, is_dirty_ |-> dirty, pin_count_ |-> pins]

-----------------------------------------------------------------------------
(* DiskManager: pages of open files.                                       *)

\* write_page seeks to the page and writes it.  Beyond the end of the file
\* this extends it, and the pages skipped over become holes that read as zero.
WritePage(dk, p, d) ==
  [q \in PageIds |->
     IF q = p THEN d
     ELSE IF q.fd = p.fd /\ Valid(q) /\ q.page_no < p.page_no /\ dk[q] = EOF
          THEN Zero
          ELSE dk[q]]

\* read_page throws when the page is not in the file, and when read(2) fails.
ReadFails(dk, p) == dk[p] = EOF \/ "read" \in IOErrors
ReadSucceeds(dk, p) == dk[p] # EOF

-----------------------------------------------------------------------------
(* Private methods.                                                        *)

\* FindVictimPage: the front of the free list, or else the replacer's victim;
\* INVALID_FRAME_ID when there is neither.
VictimFrame ==
  IF free_list_ # <<>> THEN Head(free_list_) ELSE VictimOf(lru)

\* (mutant) the replacer is asked but its frame is left evictable
TakeVictimKeepingItListed ==
  /\ free_list_' = IF free_list_ # <<>> THEN Tail(free_list_) ELSE free_list_
  /\ lru' = lru

\* ... which takes the frame out of where it was found.  FetchPage and NewPage
\* also call replacer_->Pin on it at their end.
TakeVictim ==
  IF free_list_ # <<>>
  THEN free_list_' = Tail(free_list_) /\ lru' = AfterPin(lru, VictimFrame)
  ELSE lru' = AfterPin(AfterVictim(lru), VictimFrame) /\ UNCHANGED free_list_

\* ... and when an exception ends the call before that Pin.
TakeVictimOnly ==
  IF free_list_ # <<>>
  THEN free_list_' = Tail(free_list_) /\ UNCHANGED lru
  ELSE lru' = AfterVictim(lru) /\ UNCHANGED free_list_

\* (mutant) a dirty victim is dropped without being written
DiskUnwritten(f) == disk

\* UpdatePage, step 1: a dirty victim is written back.
DiskAfterEviction(f) ==
  LET page == pages_[f] IN
    IF Valid(page.id_) /\ page.is_dirty_
    THEN WritePage(disk, page.id_, page.data_)
    ELSE disk

\* (mutant) the victim's old entry stays in the page table
TableKeepingOldEntry(f, p) == [page_table_ EXCEPT ![p] = f]

\* UpdatePage, steps 2 and 3: the victim's entry goes, the new page's comes.
TableAfterEviction(f, p) ==
  LET old == pages_[f].id_ IN
    [q \in PageIds |-> IF q = p THEN f
                       ELSE IF Valid(old) /\ q = old THEN NoFrame
                       ELSE page_table_[q]]

\* The write in UpdatePage may throw: the victim has then left the free list or
\* the replacer, and nothing else has happened.
EvictionWriteFails ==
  LET page == pages_[VictimFrame] IN
    /\ VictimFrame # NoFrame
    /\ "evict" \in IOErrors
    /\ Valid(page.id_) /\ page.is_dirty_
    /\ TakeVictimOnly
    /\ UNCHANGED <<pages_, page_table_>>

-----------------------------------------------------------------------------
(* Clients.  A thread asks for pages that its file has, once each: what it *)
(* gets is a pointer to a frame.                                           *)

Requestable(p) == Valid(p) /\ p.page_no < fd2pageno_[p.fd]

Holds(t, p) == handle[t][p] # NoFrame

GiveHandle(t, p, f) ==
  /\ handle' = [handle EXCEPT ![t][p] = f]
  /\ UNCHANGED wrote

\* A thread writes through its pointer, outside latch_.
Modify(t, p, d) ==
  /\ Holds(t, p)
  /\ pages_' = [pages_ EXCEPT ![handle[t][p]].data_ = d]
  /\ wrote' = [wrote EXCEPT ![t] = @ \cup {p}]
  /\ UNCHANGED <<page_table_, free_list_, lru, diskVars, handle>>

-----------------------------------------------------------------------------
(* FetchPage.                                                              *)

\* (mutant) a page that is fetched again stays evictable
FetchHitUnpinned(t, p) ==
  LET f == page_table_[p] IN
    /\ Requestable(p) /\ ~Holds(t, p)
    /\ f # NoFrame
    /\ pages_' = [pages_ EXCEPT ![f].pin_count_ = @ + 1]
    /\ GiveHandle(t, p, f)
    /\ UNCHANGED <<page_table_, free_list_, lru, diskVars>>

\* (mutant) a page that is fetched again is pinned once
FetchHitPinnedOnce(t, p) ==
  LET f == page_table_[p] IN
    /\ Requestable(p) /\ ~Holds(t, p)
    /\ f # NoFrame
    /\ pages_' = [pages_ EXCEPT ![f].pin_count_ = 1]
    /\ lru' = AfterPin(lru, f)
    /\ GiveHandle(t, p, f)
    /\ UNCHANGED <<page_table_, free_list_, diskVars>>

\* The page is in the pool.
FetchHit(t, p) ==
  LET f == page_table_[p] IN
    /\ Requestable(p) /\ ~Holds(t, p)
    /\ f # NoFrame
    /\ pages_' = [pages_ EXCEPT ![f].pin_count_ = @ + 1]
    /\ lru' = AfterPin(lru, f)
    /\ GiveHandle(t, p, f)
    /\ UNCHANGED <<page_table_, free_list_, diskVars>>

\* It is not, and no frame can be had: nullptr.
FetchNull(t, p) ==
  /\ Requestable(p) /\ ~Holds(t, p)
  /\ page_table_[p] = NoFrame
  /\ VictimFrame = NoFrame
  /\ UNCHANGED vars

\* It is not: a frame is emptied and the page is read into it.
FetchMiss(t, p) ==
  LET f == VictimFrame IN
    /\ Requestable(p) /\ ~Holds(t, p)
    /\ page_table_[p] = NoFrame
    /\ f # NoFrame
    /\ disk' = DiskAfterEviction(f)
    /\ ReadSucceeds(disk', p)
    /\ TakeVictim
    /\ page_table_' = TableAfterEviction(f, p)
    /\ pages_' = [pages_ EXCEPT ![f] = Page(p, disk'[p], FALSE, 1)]
    /\ GiveHandle(t, p, f)
    /\ UNCHANGED fd2pageno_

\* read_page throws: the page table already names the frame, which holds zeros,
\* is not pinned, and is in neither the free list nor the replacer.
FetchReadFails(t, p) ==
  LET f == VictimFrame IN
    /\ Requestable(p) /\ ~Holds(t, p)
    /\ page_table_[p] = NoFrame
    /\ f # NoFrame
    /\ disk' = DiskAfterEviction(f)
    /\ ReadFails(disk', p)
    /\ TakeVictimOnly
    /\ page_table_' = TableAfterEviction(f, p)
    /\ pages_' = [pages_ EXCEPT ![f] = Page(p, Zero, FALSE, 0)]
    /\ UNCHANGED <<fd2pageno_, clientVars>>

FetchWriteFails(t, p) ==
  /\ Requestable(p) /\ ~Holds(t, p)
  /\ page_table_[p] = NoFrame
  /\ EvictionWriteFails
  /\ UNCHANGED <<diskVars, clientVars>>

FetchPage(t, p) ==
  \/ FetchHit(t, p)
  \/ FetchNull(t, p)
  \/ FetchMiss(t, p)
  \/ FetchReadFails(t, p)
  \/ FetchWriteFails(t, p)

-----------------------------------------------------------------------------
(* NewPage.  The page exists in the pool only: it reaches the disk when it *)
(* is flushed, or evicted dirty.                                           *)

NewNull(t, fd) ==
  /\ VictimFrame = NoFrame
  /\ UNCHANGED vars

NewPage(t, fd) ==
  LET f == VictimFrame
      p == PageId(fd, fd2pageno_[fd])
  IN /\ fd2pageno_[fd] < MaxPages
     /\ f # NoFrame
     /\ fd2pageno_' = [fd2pageno_ EXCEPT ![fd] = @ + 1]
     /\ disk' = DiskAfterEviction(f)
     /\ TakeVictim
     /\ page_table_' = TableAfterEviction(f, p)
     /\ pages_' = [pages_ EXCEPT ![f] = Page(p, Zero, FALSE, 1)]
     /\ GiveHandle(t, p, f)

\* The page number is spent even though no page comes of it.
NewWriteFails(t, fd) ==
  /\ fd2pageno_[fd] < MaxPages
  /\ fd2pageno_' = [fd2pageno_ EXCEPT ![fd] = @ + 1]
  /\ EvictionWriteFails
  /\ UNCHANGED <<disk, clientVars>>

-----------------------------------------------------------------------------
(* UnpinPage.                                                              *)

\* (mutant) the last report wins: a clean unpin clears the dirty flag
UnpinOverwritingDirty(t, p, is_dirty) ==
  LET f == page_table_[p] IN
    /\ Holds(t, p)
    /\ p \in wrote[t] => is_dirty
    /\ f # NoFrame /\ pages_[f].pin_count_ > 0
    /\ pages_' = [pages_ EXCEPT ![f].pin_count_ = @ - 1,
                                ![f].is_dirty_ = is_dirty]
    /\ lru' = IF pages_[f].pin_count_ = 1 THEN AfterUnpin(lru, f) ELSE lru
    /\ handle' = [handle EXCEPT ![t][p] = NoFrame]
    /\ wrote' = [wrote EXCEPT ![t] = @ \ {p}]
    /\ UNCHANGED <<page_table_, free_list_, diskVars>>

\* (mutant) the frame becomes evictable at the first unpin
UnpinTooEarly(t, p, is_dirty) ==
  LET f == page_table_[p] IN
    /\ Holds(t, p)
    /\ p \in wrote[t] => is_dirty
    /\ f # NoFrame /\ pages_[f].pin_count_ > 0
    /\ pages_' = [pages_ EXCEPT ![f].pin_count_ = @ - 1,
                                ![f].is_dirty_ = @ \/ is_dirty]
    /\ lru' = AfterUnpin(lru, f)
    /\ handle' = [handle EXCEPT ![t][p] = NoFrame]
    /\ wrote' = [wrote EXCEPT ![t] = @ \ {p}]
    /\ UNCHANGED <<page_table_, free_list_, diskVars>>

\* A thread gives its page back; it reports dirty if it wrote, and may also
\* when it did not.
UnpinPage(t, p, is_dirty) ==
  LET f == page_table_[p] IN
    /\ Holds(t, p)
    /\ p \in wrote[t] => is_dirty
    /\ f # NoFrame /\ pages_[f].pin_count_ > 0
    /\ pages_' = [pages_ EXCEPT ![f].pin_count_ = @ - 1,
                                ![f].is_dirty_ = @ \/ is_dirty]
    /\ lru' = IF pages_[f].pin_count_ = 1 THEN AfterUnpin(lru, f) ELSE lru
    /\ handle' = [handle EXCEPT ![t][p] = NoFrame]
    /\ wrote' = [wrote EXCEPT ![t] = @ \ {p}]
    /\ UNCHANGED <<page_table_, free_list_, diskVars>>

\* It returns false, changing nothing, for a page that is not in the pool or is
\* not pinned.
UnpinRefused(p) ==
  /\ page_table_[p] # NoFrame => pages_[page_table_[p]].pin_count_ <= 0
  /\ UNCHANGED vars

-----------------------------------------------------------------------------
(* FlushPage and FlushAllPages write pages pinned or not, dirty or not.    *)

FlushPage(p) ==
  LET f == page_table_[p] IN
    /\ f # NoFrame
    /\ disk' = WritePage(disk, pages_[f].id_, pages_[f].data_)
    /\ pages_' = [pages_ EXCEPT ![f].is_dirty_ = FALSE]
    /\ UNCHANGED <<page_table_, free_list_, lru, fd2pageno_, clientVars>>

\* FlushPage returns false for a page that is not in the pool; its write may throw.
FlushRefused(p) ==
  /\ page_table_[p] # NoFrame => "flush" \in IOErrors
  /\ UNCHANGED vars

\* Those of the first n frames that hold pages of file fd.
FileFrames(fd, n) ==
  {f \in Frames : f < n /\ pages_[f].id_.fd = fd /\ Valid(pages_[f].id_)}

\* The frame of F, the last one, that holds page q.
FrameOf(F, q) ==
  CHOOSE f \in F : pages_[f].id_ = q /\ \A g \in F : pages_[g].id_ = q => g <= f

\* write_page for each frame of F in turn.
WriteFrames(F) ==
  [q \in PageIds |->
     IF \E f \in F : pages_[f].id_ = q THEN pages_[FrameOf(F, q)].data_
     ELSE IF disk[q] = EOF /\ Valid(q) /\ \E f \in F : /\ q.fd = pages_[f].id_.fd
                                          /\ q.page_no < pages_[f].id_.page_no
          THEN Zero
          ELSE disk[q]]

\* The loop over the first n frames.
FlushFrames(fd, n) ==
  LET F == FileFrames(fd, n) IN
    /\ disk' = WriteFrames(F)
    /\ pages_' = [f \in Frames |->
                    IF f \in F THEN [pages_[f] EXCEPT !.is_dirty_ = FALSE]
                               ELSE pages_[f]]
    /\ UNCHANGED <<page_table_, free_list_, lru, fd2pageno_, clientVars>>

FlushAllPages(fd) == FlushFrames(fd, max_size_)

\* A write fails in frame n: the frames before it are flushed.
FlushAllFails(fd) ==
  /\ "flush" \in IOErrors
  /\ \E n \in FileFrames(fd, max_size_) : FlushFrames(fd, n)

-----------------------------------------------------------------------------
(* DeletePage.                                                             *)

DeletePage(p) ==
  LET f == page_table_[p]
      page == pages_[f]
  IN /\ f # NoFrame
     /\ page.pin_count_ <= 0
     /\ disk' = IF page.is_dirty_ THEN WritePage(disk, page.id_, page.data_) ELSE disk
     /\ page_table_' = [page_table_ EXCEPT ![p] = NoFrame]
     /\ pages_' = [pages_ EXCEPT
                     ![f] = Page(PageId(page.id_.fd, INVALID_PAGE_ID), Zero, FALSE, 0)]
     /\ free_list_' = Append(free_list_, f)
     /\ lru' = AfterPin(lru, f)
     /\ UNCHANGED <<fd2pageno_, clientVars>>

\* The write throws: the page has left the page table, and that is all.
DeleteWriteFails(p) ==
  LET f == page_table_[p] IN
    /\ "delete" \in IOErrors
    /\ f # NoFrame
    /\ pages_[f].pin_count_ <= 0 /\ pages_[f].is_dirty_
    /\ page_table_' = [page_table_ EXCEPT ![p] = NoFrame]
    /\ UNCHANGED <<pages_, free_list_, lru, diskVars, clientVars>>

\* Nothing to do, or the page is in use.
DeleteRefused(p) ==
  /\ page_table_[p] # NoFrame => pages_[page_table_[p]].pin_count_ > 0
  /\ UNCHANGED vars

-----------------------------------------------------------------------------

\* A pool before its first use, over files of OldPages pages.  The fd of a page
\* that was never loaded is not initialised, and never looked at.
Init ==
  /\ \E fd \in Fds :
       pages_ = [f \in Frames |-> Page(PageId(fd, INVALID_PAGE_ID), Zero, FALSE, 0)]
  /\ page_table_ = [p \in PageIds |-> NoFrame]
  /\ free_list_ = [i \in 1..max_size_ |-> i - 1]
  /\ lru = EmptyReplacer
  /\ fd2pageno_ = [fd \in Fds |-> OldPages]
  /\ \E d \in Data :
       disk = [p \in PageIds |-> IF Valid(p) /\ p.page_no < OldPages THEN d ELSE EOF]
  /\ handle = [t \in Threads |-> [p \in PageIds |-> NoFrame]]
  /\ wrote = [t \in Threads |-> {}]

Next ==
  \/ \E t \in Threads, p \in PageIds :
       \/ FetchPage(t, p)
       \/ \E is_dirty \in BOOLEAN : UnpinPage(t, p, is_dirty)
       \/ \E d \in Data : Modify(t, p, d)
  \/ \E t \in Threads, fd \in Fds :
       NewPage(t, fd) \/ NewNull(t, fd) \/ NewWriteFails(t, fd)
  \/ \E p \in PageIds :
       \/ UnpinRefused(p)
       \/ FlushPage(p) \/ FlushRefused(p)
       \/ DeletePage(p) \/ DeleteWriteFails(p) \/ DeleteRefused(p)
  \/ \E fd \in Fds : FlushAllPages(fd) \/ FlushAllFails(fd)

Spec == Init /\ [][Next]_vars

-----------------------------------------------------------------------------
(* Properties.                                                             *)

Listed == {free_list_[i] : i \in 1..Len(free_list_)}
Evictable == lru.LRUhash_
Holders(p) == {t \in Threads : Holds(t, p)}

\* Type invariant: the fields of the pool, of its frames and of the disk manager
\* hold values of their C++ types, and the replacer's hash table indexes its list.
TypeOK ==
  /\ pages_ \in [Frames -> [id_ : PageIds, data_ : Contents,
                            is_dirty_ : BOOLEAN, pin_count_ : Nat]]
  /\ page_table_ \in [PageIds -> Frames \cup {NoFrame}]
  /\ free_list_ \in Seq(Frames)
  /\ ReplacerOK(lru)
  /\ disk \in [PageIds -> Contents \cup {EOF}]
  /\ fd2pageno_ \in [Fds -> 0..MaxPages]
  /\ handle \in [Threads -> [PageIds -> Frames \cup {NoFrame}]]
  /\ wrote \in [Threads -> SUBSET PageIds]

\* The page table and the ids stored in the frames describe the same partial
\* bijection: a page is in at most one frame and is found there, and UpdatePage
\* erases the entry of the frame it empties and no other
\* (buffer_pool_manager.cpp:32-37, 193, 204).
PageTableConsistent ==
  /\ \A p \in PageIds :
       page_table_[p] # NoFrame => pages_[page_table_[p]].id_ = p
  /\ \A f \in Frames :
       Valid(pages_[f].id_) => page_table_[pages_[f].id_] = f

\* A frame is free, evictable or pinned, never two of these: FindVictimPage
\* cannot hand out a frame with a pin count (buffer_pool_manager.cpp:8-17).
FramesApart ==
  /\ \A i, j \in 1..Len(free_list_) : free_list_[i] = free_list_[j] => i = j
  /\ \A f \in Listed : ~Valid(pages_[f].id_) /\ pages_[f].pin_count_ = 0
  /\ \A f \in Evictable : Valid(pages_[f].id_) /\ pages_[f].pin_count_ = 0
  /\ Listed \cap Evictable = {}

\* pin_count_ is the number of threads that hold the page: no FetchPage, NewPage
\* or UnpinPage of several threads on one page miscounts
\* (buffer_pool_manager.cpp:60, 80, 106, 163).
PinsCounted ==
  \A f \in Frames :
    pages_[f].pin_count_ =
      IF Valid(pages_[f].id_) THEN Cardinality(Holders(pages_[f].id_)) ELSE 0

\* As long as a thread holds a page, its Page* points to that page and not to
\* whatever another thread's miss would like to put in the frame.
PointersStay ==
  \A t \in Threads, p \in PageIds :
    Holds(t, p) => pages_[handle[t][p]].id_ = p

\* A frame that is not dirty and that no thread has changed behind the pool's
\* back can be dropped: the disk has its contents, or it is blank and the file
\* never grew to it.  FlushPage and FlushAllPages clear the flag while threads
\* write (buffer_pool_manager.cpp:133-134, 229-230).
CleanMeansOnDisk ==
  \A f \in Frames :
    LET page == pages_[f] IN
      (/\ Valid(page.id_)
       /\ ~page.is_dirty_
       /\ \A t \in Threads : page.id_ \notin wrote[t])
      => \/ disk[page.id_] = page.data_
         \/ disk[page.id_] = EOF /\ page.data_ = Zero

\* A page that a thread changed is one it still holds.
WritersHold == \A t \in Threads : \A p \in wrote[t] : Holds(t, p)

\* Memory, disk and threads have only pages that AllocatePage has handed out, so
\* the page of a NewPage is nowhere yet (disk_manager.cpp:45-47).
AllocatedOnly ==
  \A p \in PageIds :
    (page_table_[p] # NoFrame \/ disk[p] # EOF \/ Holders(p) # {})
      => Valid(p) /\ p.page_no < fd2pageno_[p.fd]

\* What the theorems ask of the pool's surroundings: read(2) does not fail on a
\* page the file has, nor write(2) in DeletePage.  A write that fails during an
\* eviction or a flush does no harm.
WellBehaved == IOErrors \subseteq {"evict", "flush"}

\* The inductive invariant: none of its parts is inductive alone.
IInv ==
  /\ TypeOK
  /\ PageTableConsistent /\ FramesApart /\ PinsCounted
  /\ PointersStay /\ WritersHold /\ CleanMeansOnDisk /\ AllocatedOnly

\* What is left of it when reads, and the write in DeletePage, fail as well.  A page
\* may then be in two frames, pinned in one that the page table does not name; but
\* every page that the table does name is in its frame.
TableNames ==
  \A p \in PageIds :
    page_table_[p] # NoFrame => Valid(p) /\ pages_[page_table_[p]].id_ = p

FaultInv == TypeOK /\ FramesApart /\ TableNames

-----------------------------------------------------------------------------
(* The pool implements a store of pages.                                   *)

store ==
  [p \in PageIds |-> IF page_table_[p] # NoFrame
                     THEN pages_[page_table_[p]].data_ ELSE disk[p]]
pinned == [p \in PageIds |-> Holders(p)]

Store == INSTANCE PageStore

\* No eviction, flush, deletion, pin or failed call of any thread changes what a
\* page holds; a thread that has a page pinned sees exactly what was last written
\* to it, by whichever thread, through memory and disk.
ImplementsPageStore == Store!Spec
==============================================================================
