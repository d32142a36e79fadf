# Rucbase: storage engine, index, query plans and server, specified, checked and proved

Rucbase is a teaching database: a server, a SQL front end, a system and query
layer, and below them a storage engine. This directory holds TLA+ modules of the
parts that have code, the TLC runs that check them on small instances, and TLAPS
proofs of what matters most for every size. Paths below are relative to the
repository (`src/src/...`).

## 1. Inventory

| Part | State | Operations | Who calls it | What is hard |
|---|---|---|---|---|
| `replacer/lru_replacer` | list of evictable frames, hash table into the list, capacity | Victim, Pin, Unpin, Size | buffer pool, under its latch | two structures that must change in pairs; the capacity |
| `storage/disk_manager` | table of open files, next page number per descriptor | write_page, read_page, AllocatePage, open/close/create/destroy_file | pool, record and index managers | I/O errors as exceptions; page numbers; descriptors used again |
| `storage/buffer_pool_manager` | frames, page table, free list, replacer | FetchPage, NewPage, UnpinPage, FlushPage, FlushAllPages, DeletePage | record and index managers, from many threads | threads write through `Page*` outside the latch; exceptions half way; pins |
| `common/rwlatch` (in every `Page`) | reader count, writer flag, two condition variables | RLock, RUnlock, WLock, WUnlock | users of a page | lost and spurious wakeups, starvation |
| `record/bitmap.h`, `rm_defs.h`, `rm_manager.h` | layout of a record page, bitmap bytes | create_file, set, reset, is_set, next_bit | record files | sizes at the boundary, byte arithmetic |
| `record/rm_file_handle`, `rm_manager.h` | file header, page headers, list of pages with room | insert/delete/update/get_record, is_record, create, open, close, destroy | executors, system manager, scans | the free list over long sequences; the header that only a close writes; stale record ids |
| `record/rm_scan` | a cursor | constructor, next, is_end, rid | seq-scan executor | the file changes between two calls of next |
| `index/ix_node_handle`, `ix_index_handle` | nodes in pages, leaf list, root, one latch | insert_entry, delete_entry, GetValue | executors | split, merge and redistribution over several pages; separators; pins |
| `index/ix_scan`, `ix_manager.h` | a cursor; index files | lower_bound, upper_bound, next; create, open, close, destroy | executors, system manager | ends of leaves; half-made files |
| `execution/execution_manager`, `executor_*` | plans | name resolution, distribution and evaluation of conditions | interpreter | conditions that are lost, doubled or turned round wrongly |
| `rucbase.cpp`, `interp.h`, `rucbase_client` | listening socket, one thread per client, global scanner and parse tree | start_server, client_handler, interp_sql | clients | sockets, scanner and parser shared by threads without a lock |
| `system/sm_manager` | catalogue in memory | create_table, create_index, open_db | interpreter | functions without a body in this commit |
| `transaction/*`, `recovery/*`, `clock_replacer` | - | stubs | - | - |
| `parser/*` | tables of flex and bison | yylex, yyparse | server | the state that calls share |

How they interact: a client's statement is read by its thread, scanned and parsed
through global state, and interpreted; a query becomes a tree of executors, which
call the record and the index managers; those fetch a page from the pool (pinning
it), work on its bytes, and unpin it, saying whether they wrote. The pool evicts
unpinned pages in LRU order and writes dirty ones back through the disk manager.
Pool and replacer take a mutex in each method; an index holds `root_latch_`
through each call; pages are used outside the pool's mutex; record manager,
scanner and parser take no lock at all. The pool knows a page by file descriptor
and page number; page numbers come from the disk manager, per descriptor.

What makes the parts correct: the pool never loses or mixes up the contents of a
page and never moves a page somebody holds; the replacer returns the frame that
has been evictable longest; the latch excludes and forgets nobody; a record stays
at its id until it is deleted; a scan misses nothing that was there throughout;
an index keeps the pairs it is given; the conditions of a query decide exactly what they say; a
client gets the reply to its own statement. The points in the code where this
could go wrong are the "hazards" of `PROJECT.json`, each with its line and the
properties that would notice.

## 2. Modules

| Module | Models |
|---|---|
| `ReplacerOrder` | abstract: which frames are evictable and which became so earlier |
| `LRUList`, `LRUReplacer` | `lru_replacer.cpp`: list and hash table as a record, one operator per method; `LRUReplacer` makes them actions |
| `PageStore` | abstract: pages with contents, written by threads that have them pinned |
| `BufferPoolManager` | `buffer_pool_manager.cpp` with `LRUList` as replacer, the disk pages, and the threads holding pages |
| `RwLatch` | `rwlatch.cpp` |
| `BitSet`, `RmPage` | what `bitmap.h` promises; the layout of a record page |
| `RmBitmap` | `bitmap.h` on bytes, for the sizes `create_file` computes |
| `RecordStore` | abstract: records at record ids |
| `RmFile` | `rm_file_handle.cpp`, open and close of `rm_manager.h` |
| `RmScan` | `rm_scan.cpp`, composed with `RmFile` |
| `IxNode`, `BPlusTree` | `ix_node_handle.cpp` as operators on one node; `ix_index_handle.cpp` as actions |
| `IndexBag` | abstract: a bag of pairs of keys and record ids |
| `IxScan` | `lower_bound`, `upper_bound`, `ix_scan.cpp`, on a `BPlusTree` |
| `Storage` | composition: table of open files, page counters, record and index files, and their pages in one pool, over several processes |
| `QueryPlan` | names and conditions in `execution_manager.cpp`, `executor_seq_scan.h`, `executor_nestedloop_join.h` |
| `Server` | `rucbase.cpp`, the state that scanner and parser share, what `interp.h` does before a statement runs, the clients |
| `BufferPoolManagerProofs` (with the replacer), `RwLatchProofs`, `AlgorithmProofs`, `RmFileProofs`, `BPlusTreeProofs`, `IxScanProofs`, `StorageProofs`, `ServerProofs` | theorems |
| `MC*` | instances for TLC |

Definitions marked "mutant" are wrong variants of a definition that follows
them: each property of each passing run is violated when one of them takes the
place of the right one (`PROJECT.json`, "mutants").

### Buffer pool

State: `pages_` (frames, with id, contents, dirty flag and pin count),
`page_table_`, `free_list_`, `lru`, the disk contents and `fd2pageno_`, all under
the names of the code. `handle` is the `Page*` each thread has for each page,
`wrote` the pages a thread has changed and not yet reported dirty. Every public
method holds `latch_` throughout, so a call is a step; its early returns and its
exceptions are steps of their own (`FetchNull`, `FetchReadFails`,
`FetchWriteFails`, `NewNull`, `NewWriteFails`, `UnpinRefused`, `FlushRefused`,
`FlushAllFails`, `DeleteWriteFails`, `DeleteRefused`). Between calls threads
write through their pointers (`Modify`). Contents are symbols; `Zero` is a page
of zeros and `EOF` means that the file ends before the page, so that a page that
was created and never written may be impossible to read, as in the code.
`IOErrors` says which system calls may fail. A failed `write_page` is taken to
leave the file unchanged. Clients keep the contract of the interface: they ask
for page numbers that were allocated, hold a page once per thread, write only
while they hold it, and report dirty if they wrote.

### Page latch

A step runs from taking `mutex_` to sleeping or returning. A thread sleeps in
`reader_` (waiting to enter) or in `writer_` (waiting for the readers to leave);
`notify_one`, `notify_all` and spurious wakeups move it to a "woken" state, from
which it tests its condition again. `MAX_READERS` is `UINT_MAX`; the assumption
that there are not more threads than that is what makes the notification at
`rwlatch.cpp:48` sufficient.

### Record files and scans

`RmFile` is one file. Its pages are seen through what the pool is proved to
promise: a page keeps its contents. Of the pool only its size and the pins that
are never returned (`leaked`, from `is_record`) remain, because they decide
whether `FetchPage` and `NewPage` succeed. A call that throws
`PageNotExistError` changes nothing. Two things the code runs into without
noticing end a behaviour and are recorded in `broken`: the null page in
`create_new_page_handle`, and a record inserted past the last slot. Calls are
atomic: `RmFileHandle` has no lock, so its users have to call it one at a time.
Callers may hold stale record ids: `update_record` then writes the bytes of a
free slot, and `delete_record` counts a record down that is not there (`stale`
records that one has, and `MaxBelow` bounds how far below zero the count goes).

`RmScan` adds the cursor `rid_`; `seen` and `stable` only record which ids the
scan stood on and which have held a record since it began. The file handle
outlives its scans, so the file is not closed while one exists.

`RmBitmap` goes down to the bytes, and justifies that `RmFile` treats a bitmap
as a set.

### Index

`IxNode` has the pure operations of `IxNodeHandle` on a node (a record of keys,
values, parent and neighbours, and of what the slots past `num_key` still hold).
`BPlusTree` has the three calls of `IxIndexHandle`. A call holds `root_latch_`,
so one runs at a time, but it is not one step: the leaf operation, each `Split`,
each level of `InsertIntoParent`, `CoalesceOrRedistribute` and `maintain_parent`
is an action, with the recursion in `op` and the handles that it has still to
release in its stack, so that pins are checked along every path. `health` records
what follows when the code fetches page -1 (`RootMissing`, after the last key was
deleted) or a page that is no node (`Undefined`).

`InternalLookup` takes the child one to the right of the right one (see
"Findings"), so most searches in a tree of two levels end in the wrong leaf, or
at a page that is none. Every run and every theorem is about this descent. An
index is therefore no map: a key can be inserted a second time, in another leaf,
and a deletion can miss its key. What it still is, `IndexBag` says: a call adds
one pair, takes one out or leaves all as they are, at its first step, and
nothing that a split, a move or a merge does afterwards loses, doubles or alters
a pair (`ImplementsBag`); and the pair is one of the call's own key
(`CallsKeepToTheirKey`). The tree is well-formed all the same, a full scan
visits each entry once, and for a key that `GetValue` finds the range from
`lower_bound` to `upper_bound` begins with it and can be read
(`RangesReadable`), although the keys of a leaf are not always sorted.

### Files

`Storage` composes what the other modules treat alone: `DiskManager`'s two maps
of open files and its page counters, the record and index managers' create, open,
close and destroy, the frames and the page table of the pool, and processes that
end at any step (`Restart`), within a close after any of its writes
(`DiesClosing`) or within a creation (`DiesCreating`). A page's contents are
abstracted to the file it was written for. A call unpins what it fetched before
another page is needed; which of the unpinned frames goes is left open.

Closing a file leaves its pages in the pool (`rm_manager.h:51-57`), and the
kernel hands descriptors out again: that is how pages of one file get into
another, and `ForeignPagesNeedReuse` says it is the only way. `NewPage` does not
look its number up in the page table. When a frame has that name already, a
second one gets it; when the first is evicted, the entry of the second is erased
(`buffer_pool_manager.cpp:33`), and the new page can no longer be found, nor is
it on disk. `UpdatePage` has this step, and `RecordPagesKept` says what it takes:
the file was opened under a descriptor with pages left in the pool (`tainted`), a
close of it was cut short (`torn`), or it was asked for a page that it does not
count, which leaves a frame of zeros of that name (`strayed`). For any other
record file a page is in one frame that the table finds, or in none and on disk.
Between processes nothing is promised for pages that no close has counted: a
process that dies leaves them on disk, and the next one hands their numbers out
again. An index goes on from the counter of its descriptor and not from its
header; only record files are claimed to keep their pages. Nothing reads the
`num_pages` of an index header, so `Storage` leaves it as `create_index` wrote it;
`BPlusTree` counts it.

### Query plans

`QueryPlan` is about where the conditions of a `WHERE` clause go:
`check_column`, `pop_conds`, the turning round in the scan's constructor, `feed`,
`feed_right`, `eval_cond`. The loops that would use them (the scan's and the
join's `nextTuple`, the construction of the executor tree) are marked TODO in the
code, and so is `TabMeta::is_col`, which the model takes as its comment describes
it. A FROM clause may name a table twice, and a qualified column may be of any
table of the database: `check_column` does not ask the FROM clause. So a clause
like `FROM r WHERE s.a = 1` leaves a condition over, and `assert(conds.empty())`
(`execution_manager.cpp:209`) fails; `PlanAssertionsHold` says that the
conditions left over are exactly those on tables outside FROM, and that the other
assertions never fail. The claims are further that a row passes all conditions
handed to the scans of a join exactly when it satisfies the conditions on tables
of the FROM clause, and that a name is resolved exactly if one column of the FROM
clause has it, or, when it is qualified, if the database has the column. A column
of a table that comes twice means the first record of that table, which is what
`feed_right` puts in the dictionary.

### Server

The accept loop hands each new thread the address of its one variable `sockfd`,
and goes on to accept the next connection into it. Threads then share flex's
current buffer and start state and `ast::parse_tree`. An action is one access to
what is shared: assigning `sockfd`, reading it (`Start`), reading a statement,
`yy_scan_string`, `yyparse`, `interp_sql`, `yy_delete_buffer`, `write`, `close`.
Data races have the outcomes of any order of these, or a crash (`Race`);
`NullTransaction`, `BrokenPipe` and `Interrupt` are the other ends of the
process. Statements are abstracted to five kinds that the shared state can tell
apart: help, sql, text that opens a comment, text that closes one, and exit.
`overtaken` and `calm` are history: `sockfd` was assigned before a thread had
read it, and no other thread scanned or parsed while this one did.

## 3. Runs

| Run | Instance | Shows |
|---|---|---|
| `lru` | 4 frames, capacity 3 | list and hash table in step; `ImplementsOrder`: the victim is the oldest |
| `pool` | 2 frames, 2 threads, 1 file of up to 3 pages, failing evictions and flushes | the invariants of the pool and `ImplementsPageStore` |
| `pool_faults` | every system call may fail | no frame is both available and pinned, even then |
| `latch` | 4 threads, fair | exclusion, no lost wakeup, a writer that has entered gets to write, nobody is forgotten |
| `algorithms` | 33-byte page, all record sizes; 3 tables, up to 3 places in FROM, 2 conditions | bytes implement the set, the loop finds the next bit, everything fits the page; conditions and names |
| `record_file` | 3 data pages of 2 slots, 2 frames, stale deletes | record counts and free list |
| `record_scan` | 2 data pages, 1 frame, stale deletes | scans are complete and do not repeat; `ImplementsRecords` |
| `index_tree` | order 3, 4 keys with 2 record ids | tree, leaf list in tree order, fill, pins, full scans, ranges; `ImplementsBag`; a call touches only pairs of its key |
| `storage` | a record file and an index file on 1 descriptor, 2 frames, 2 page numbers, 2 files ever | a record file keeps its pages; headers |
| `storage_fds` | two record files (symmetric) on 2 descriptors, 2 frames, 1 page number, 2 files ever | tables of open files; mix-ups |
| `server` | 2 clients, 2 descriptors, fair | sockets, replies, everyone is answered |
| `index_lookup` (violation) | order 3, 5 keys with 1 record id | see "Findings" |

Bounds. Two frames and three pages make every miss evict, and let one thread
hold a page while the other evicts, flushes or deletes around it. Four frames
with a capacity of three reach the replacer's refusal. Three data pages of two
slots let the free list grow, shrink at the front and be re-entered in an order
different from page order. Two pages and one leaked pin let a scan meet a page
that cannot be fetched. Order 3 is the smallest that `create_index` accepts; nine
pages and four keys, which the coded descent lets in several times, make a tree
of three levels, so that splits and merges reach an inner node
and a new root, and `Appended` keeps the number of trees in reach by inserting
those keys in ascending order only, while deletions take any. An insertion
begins only while more than three page numbers are free, and `Split` and a new
root need one (`HasPage`), so that the bound on page numbers never ends a call
half way in the runs; the proofs need no such margin. One
descriptor lets a record file and an index file take over each other's pages, and
two frames let a page be in both of them and be evicted from either; two
descriptors let a descriptor pass from one record file to another while the other is
in use. `MaxBelow` = 1 lets a count go below zero. Two clients are enough for one thread to stand between any two steps of
another, and connect after the other has left. The proofs lift the
safety properties of all parts to every size.
Deadlock is not checked where the program may stop: record files (`broken`), the
pure algorithms, and the server, whose clients may all have left.

Fairness. Of the latch: a thread that has it releases it, and a woken thread
eventually gets the mutex; nobody has to call, and no spurious wakeup has to
happen. `NobodyForgotten` is conditional on the others staying away, since
`RLock` and `WLock` make no promise among contending threads. Of the server: the
kernel runs every thread that can run, `accept` takes a queued connection and
`pthread_create` returns; clients need do nothing. `EveryoneAnswered` excepts
executions with an overtaken accept, in which a connection may be left that no
thread reads.

Findings. `index_lookup`: `InternalLookup` (`ix_node_handle.cpp:65-68`) returns
the child at `upper_bound`, and the comment above it promises the child in whose
subtree the key lies. Once the tree has two levels, a key that was inserted is
not found.

Defects that no document contradicts are hazards of `PROJECT.json` and part of
the models: a read that throws leaves a frame in the page table with zeros
(`FetchReadFails`, which is why the theorems assume `WellBehaved`); `is_record`
and index scans never unpin; `delete_record` counts down for an empty slot
(which is why `CountsMatchBitmap` and `FreeListSound` end with the first stale
deletion); the first SQL statement dereferences a null transaction.

## 4. Proofs

All are checked by TLAPS from the named assumptions on the constants, for every
value of them.

* `BufferPoolManagerProofs`, the replacer: `ReplacerSafe` (list and hash table in
  step, within the capacity) and `Refinement` (the list implements
  `ReplacerOrder`). They rest on lemmas about what removing from and adding to
  the list does to the list, the hash keys and the order, which the pool's
  proofs use too. The pool: `PoolSafe`, the inductive invariant `IInv`, and its
  parts that the run checks (`PageTableSafe`, `PinsSafe`, `PointersSafe`,
  `CleanSafe`). No part of `IInv` is inductive alone: that a
  pinned frame is not evicted (`PointersStay`) needs frames to be free, evictable
  or pinned (`FramesApart`), which needs pin counts to be the number of holders
  (`PinsCounted`), which needs every page to have one frame
  (`PageTableConsistent`); that a clean frame can be dropped
  (`CleanMeansOnDisk`) needs writers to hold what they wrote (`WritersHold`),
  and a new page to be nowhere yet (`AllocatedOnly`). The assumption
  `WellBehaved` excludes exactly the two failures that do harm: a failing read
  of a page that exists, and a failing write in `DeletePage`. `FramesSafe` does
  without it: whatever fails, no frame is both available and pinned. `FaultInv`
  is what remains of the invariant then: a page may be in two frames, but the
  page table still names a frame that has the page (`TableNames`). A pin count is
  no longer the number of holders, so this is about counts, not about holders.
  `PoolRefinement`: every step of the pool is a step or a stutter of
  `PageStore`, from `IInv`.
* `RwLatchProofs`: `LatchSafe` (the inductive invariant), `LatchExcludes`,
  `LatchWakes`.
* `AlgorithmProofs`: `LayoutFits` and `RecordsFit`, header, bitmap and slots fit
  the page for every page and record size. `BytesSafe`: over any sequence of
  `set` and `reset` the bytes are the set of positions; the invariant says it
  byte by byte, and one lemma about a byte and a power of two (`OneBit`) says
  what or-ing a bit in and masking it out do to the other seven. `LoopSafe`:
  `next_bit`'s loop returns the next position that has the wanted value, or the
  size. `PlanSafe`, `ScansSafe`, `NamesSafe`: for every database, every FROM
  clause and every set of conditions on tables of the database, exactly the
  conditions on tables outside FROM are left over and no other assertion can
  fail, the scans decide what the conditions on FROM tables say, and
  `check_column` resolves a name as it should, with a table or without. Each condition goes to the first scan
  at which all its tables are there (`LeftIs`, `CurrIs`); what that scan makes of it, turned
  round or fed with a value, says the same of the row (`FedSaysTheSame`).
* `RmFileProofs`: `RecordRefinement`, the record manager implements
  `RecordStore`, stale deletions or not. Its inductive invariant `FileInv`
  (`FileSafe`) has three parts beside the types: page numbers go on where the
  header ends (so that a new page is no page in use), the free list stays
  within the file's pages (so that an inserted record can be found), a slot
  whose bit is set holds a record. `CountsSafe` and `FreeListSafe` add,
  until a caller first deletes what is not there, that `num_records` is the number of
  records and that the list holds exactly the pages with room. The second
  needs the first: only with right counts is a page dropped from the list when
  it becomes full and put back when it stops being full. The list is treated
  through four lemmas (nothing, something elsewhere, drop the head, push a
  head); that a pushed page finds room within `MaxPages` is the pigeonhole
  principle. `ScanSafe` and `ScanNeverTwice`: the cursor divides the record ids;
  of those that have held a record since the scan began, the ones not after the
  cursor have been seen, and nothing after the cursor has.
* `BPlusTreeProofs`: for every order above 2, every number of pages, every set of
  keys and values, with the descent of the code. `TreeInvariant` is the inductive invariant
  `IInv`. The properties of the run speak of the index between two calls; the
  invariant has to say what a call has made of it so far. With a function `h`
  that gives every node its level, the nodes are one tree below the root, or
  two after a `Split` and before `InsertIntoParent`, when the new half hangs
  from nothing (`Tops`); children are one level below their parent, listed once,
  and name it; only the node at work is overfull or short of a pair
  (`SizesInv`); the frames of the recursion climb one level each (`OpInv`); a
  slot past `num_key` names a node of a lower level or a page that is none, so
  that a descent that reads one ends at a leaf or is lost (`StaleDown`); and
  a page is pinned once exactly while it is in a handle (`PinsInv`). Each action has a
  lemma for what it does to every node, one for the tree, one for the rest.
  `PinsReleasedHolds`, `NodesFilledHolds` and `TreeLinkedHolds` follow.
  `LeavesListedHolds` adds `LInv`: functions `fl` and `ll` give every node its
  first and its last leaf, and below each internal node the last leaf of a
  child is followed by the first leaf of the next one (`Spans`). A split, a move or a
  merge changes `fl` and `ll` at the nodes it touches, or moves a last leaf from
  one page to another; within a split the new half goes with the old one for
  everyone above (`Own`), and `last_leaf` is what `insert_entry` will set when
  it returns (`LastLeafNow`). A merge needs that the leaf that goes is nobody's
  first leaf: a first leaf of an inner node is a first child (`FirstIsFirst`).
* `IxScanProofs`: what a caller of an index sees, with the descent of the code. To
  `IInv` and `LInv` it adds `ChainInv`: a function gives every leaf
  its distance from the list header, `next` takes it down by one, page 2 is
  farthest, and no two leaves are at one distance; without a root, page 2 is the
  only leaf and empty. Each step after a call's first leaves the leaves alone,
  cuts one in two, deals the pairs of two neighbours again or joins two
  (`LeafStep`), and the chain survives each of the four. A scan then reads the
  slots of the leaves, one after the other and each once (`Visits`):
  `ScanVisitsAllHolds`. `RangesHold`: the two binary searches of one leaf fit each
  other whatever the order of its keys (`SearchesFit`), so that the range of a key that is
  found begins at it and ends behind it, in the same leaf or at the end of the
  list, which the chain reaches. `BagRefinement` counts slots: the first step of
  `insert_entry` puts a pair in one slot of a leaf and shifts the others
  (`PutCounts`), `delete_entry` is the reverse, and a `LeafStep` is a one-to-one map of
  slots that keeps what they hold (`LeafStepAsMany`); `BagInv` says that the
  counts are finite and the values of `Vals`. `CallsKeep` is the same argument,
  with the slot that the search of the leaf found.
* `StorageProofs`: `TablesSafe`, `PagesSafe`, `HeadersSafe`, `MixupsNeedReuse`,
  from one inductive invariant (`StorageSafe`). To the four properties it adds:
  ids of files differ, so that a page tells whose it is; a dirty page belongs to
  a descriptor that has a handle (`DirtyHeld`); what the table finds has the name
  it was looked for (`TableRight`); the counter of a record file is its handle's
  `num_pages` (`NumbersGoOn`); a page below it that the disk does not have is in
  a dirty frame (`PagesThere`), so that an eviction or a close writes it before
  it goes; and of a file that none of the three exceptions concerns, every frame
  is a page that the file counts and the table finds (`FramesRight`), so that no
  two frames have one name and no eviction erases the entry of another.
* `ServerProofs`: `SocketsOwned`. The invariant follows a descriptor from
  `accept` to `close`: connections are one-to-one, and as long as no accept is
  overtaken the number of a client is in `sockfd` until its thread has read it,
  and in that thread from then on, so that a close and the reuse of the number
  concern no one else. `CalmRepliesAreRight` follows a statement from `read` to
  `write`: undisturbed, the current buffer is its own until it is parsed, the
  parse tree is its own until it is run, and what was run is what it asked.

Recursion. What a recursive function or loop returns is proved by induction, but
not with the library's induction theorems, whose operator parameter the provers
cannot instantiate: a set of counterexamples of natural numbers has a least
member (`LeastExists`), and from it follow induction and the existence of
recursive functions with sets and functions for parameters (`Induction`,
`Recursion`, `RankInduction`, `TailRange`). A recursive function of the state
(`Height`, `FirstLeaf`, `LastLeaf`) is a `CHOOSE` of a solution of its equation:
the proof gives a solution, and shows that there is no other.

Only model-checked: the liveness of the latch (`DrainEnds`, `NobodyForgotten`)
and of the server (`EveryoneAnswered`), since fairness is out of the prover's
reach.

## 5. Not modelled, and why

* The parser: `lex.yy.*` and `yacc.tab.*` (about half of the lines of the
  repository) are tables and drivers generated by flex and bison. What matters
  to the rest, the state that one call leaves to the next, is in `Server`; the
  grammar is data.
* Functions without a body or marked TODO in this commit: transactions, locks,
  log and recovery, the clock replacer (`BufferPoolManager` always builds an
  `LRUReplacer`), `create_db`, `close_db`, `drop_table`, `nextTuple` of the
  scans and the join, the construction of plans. A model would have to invent
  them.
* `create_index` and `drop_index` of `SmManager` and all lookups through
  `TabMeta::get_col`: it returns an iterator that was never initialised
  (`sm_meta.h:52`), so nothing definite can be said of what follows. The effect
  on files is that of `IxManager`, in `Storage`.
* `insert_record` for recovery (`rm_file_handle.cpp:164`): no caller.
* `RmFileHandle` below the level of calls: it takes no lock, and in this commit
  no statement of a client reaches it (`NullTransaction` of `Server`), so there
  are no two threads in it.
* The pins an index scan leaves behind are not counted in `IxScan`; `BPlusTree`
  assumes that the pool has a frame for every node a call holds.
* Formatting and output: the record printer, `operator<<` of the syntax tree,
  error messages; the unit tests.
