------------------------------ MODULE Storage -------------------------------
(***************************************************************************)
(* Files: DiskManager's table of open files and its page counters,         *)
(* creating, opening, closing and destroying record files (RmManager) and  *)
(* index files (IxManager), and the frames and the page table of the       *)
(* buffer pool, over any number of processes on one directory.             *)
(*                                                                         *)
(* The pool knows a page by descriptor and number.  What a page holds is   *)
(* abstracted to the file it was written for: every file ever created has  *)
(* an id of its own, also when a path is used again.  Two frames may hold  *)
(* a page of one name; the table finds one of them.                        *)
(*                                                                         *)
(* An index's header has num_pages too, which nothing ever reads: it is    *)
(* left as create_index wrote it, and BPlusTree counts it.                 *)
(*                                                                         *)
(* Callers unpin what they fetch before another page is needed, so that    *)
(* any frame can be the next victim: which, BufferPoolManager says.  A     *)
(* call that throws before it changed anything is not a step.              *)
(***************************************************************************)
EXTENDS Integers, FiniteSets

CONSTANTS
  RecordFiles,  \* paths of record files
  IndexFiles,   \* paths of index files
  MaxFd,        \* bound: the process has descriptors 1..MaxFd for files
  MaxPage,      \* bound: page numbers that are handed out or asked for
  MaxFiles,     \* bound: files ever created
  PoolSize      \* frames of the pool

ASSUME PathsAssumption == RecordFiles \cap IndexFiles = {}

ASSUME BoundsAssumption == MaxFd \in Nat /\ MaxPage \in Nat /\ MaxFiles \in Nat /\ PoolSize \in Nat

Paths == RecordFiles \cup IndexFiles

Fds == 1..MaxFd

Frames == 1..PoolSize

VARIABLES
  file,         \* path -> id, num_pages of the header on disk (0: none), page: number -> id
  created,      \* how many files were ever created
  path2fd,      \* path2fd_
  fd2path,      \* fd2path_
  handle,       \* descriptor -> file_hdr_.num_pages and id, of a handle's file
  fd2pageno,    \* fd2pageno_
  frame,        \* pages_: what each frame of the pool holds
  table,        \* page_table_: <<descriptor, number>> -> frame
  tainted,      \* history: ids of files that got a descriptor with pages in the pool
                \*   that do not belong there
  torn,         \* history: ids of record files with a close cut short by the end of the process
  strayed       \* history: ids of record files that were asked for a page they do not count

tables == <<path2fd, fd2path>>
pool == <<frame, table>>
memory == <<tables, handle, fd2pageno, pool>>
history == <<tainted, torn, strayed>>
vars == <<file, created, memory, history>>

Open == DOMAIN fd2path

\* Entering a key in a map, or giving it another value; removing keys.
Put(f, key, value) == [k \in DOMAIN f \cup {key} |-> IF k = key THEN value ELSE f[k]]
Erase(f, keys) == [k \in DOMAIN f \ keys |-> f[k]]

\* A page that was never written, where a file was extended past it or a read
\* failed, is zeros: no file has this id.
Zeros == 0

\* A frame with a page.  lost: a read into it failed, and it is in neither the free
\* list nor the replacer.
Page(fd, p, id, dirty, lost) == [fd |-> fd, p |-> p, id |-> id, dirty |-> dirty, lost |-> lost]

\* A frame of the free list.
Free == Page(0, 0, Zeros, FALSE, FALSE)

Init ==
  /\ file = <<>> /\ created = 0
  /\ path2fd = <<>> /\ fd2path = <<>> /\ handle = <<>>
  /\ fd2pageno = [fd \in Fds |-> 0]
  /\ frame = [f \in Frames |-> Free] /\ table = <<>>
  /\ tainted = {} /\ torn = {} /\ strayed = {}

\* open(2) returns the lowest descriptor that is not in use.
LowestFd(fd) == fd \in Fds \ Open /\ \A g \in Fds \ Open : fd <= g

\* DiskManager::open_file: two maps, one entry each.
OpenFile(path, fd) ==
  /\ path \in DOMAIN file
  /\ path \notin DOMAIN path2fd
  /\ LowestFd(fd)
  /\ path2fd' = Put(path2fd, path, fd)
  /\ fd2path' = Put(fd2path, fd, path)

\* DiskManager::create_file.
CreateFile(path, num_pages, page) ==
  /\ path \notin DOMAIN file
  /\ created < MaxFiles
  /\ created' = created + 1
  /\ file' = Put(file, path, [id |-> created + 1, num_pages |-> num_pages, page |-> page])

\* RmManager::create_file: the file is opened, gets its header, and is closed.
RmCreate(path) ==
  /\ path \in RecordFiles
  /\ \E fd \in Fds : LowestFd(fd)
  /\ CreateFile(path, 1, <<>>)
  /\ UNCHANGED <<memory, history>>

\* IxManager::create_index: the header, the leaf list's header and the root go
\* straight to disk, and the counter of the descriptor is set to 2.
IxCreate(path) ==
  /\ path \in IndexFiles
  /\ CreateFile(path, 3, [p \in 1..2 |-> created + 1])
  /\ \E fd \in Fds : LowestFd(fd) /\ fd2pageno' = [fd2pageno EXCEPT ![fd] = 2]
  /\ UNCHANGED <<tables, handle, pool, history>>

\* create_index of a column that is too long throws when the file has been
\* created and opened: it stays open, and empty.
IxCreateTooLong(path) ==
  /\ path \in IndexFiles
  /\ CreateFile(path, 0, <<>>)
  /\ \E fd \in Fds :
       /\ LowestFd(fd)
       /\ path2fd' = Put(path2fd, path, fd)
       /\ fd2path' = Put(fd2path, fd, path)
  /\ UNCHANGED <<handle, fd2pageno, pool, history>>

\* destroy_file and destroy_index.
Destroy(path) ==
  /\ path \in DOMAIN file
  /\ path \notin DOMAIN path2fd
  /\ file' = Erase(file, {path})
  /\ tainted' = tainted \ {file[path].id}
  /\ torn' = torn \ {file[path].id}
  /\ strayed' = strayed \ {file[path].id}
  /\ UNCHANGED <<created, memory>>

\* The table finds the page of the frame in it.
Found(f) ==
  <<frame[f].fd, frame[f].p>> \in DOMAIN table /\ table[<<frame[f].fd, frame[f].p>>] = f

\* A frame under the descriptor that is not as the file would have left it: a page
\* of another file or one that the file does not count, or a page that the table
\* does not find there.
Reuses(path, fd) ==
  \E f \in Frames :
    /\ frame[f].fd = fd
    /\ ~ /\ frame[f].id = file[path].id /\ Found(f)
         /\ path \in RecordFiles => frame[f].p < file[path].num_pages

NewHandle(path, fd) ==
  /\ handle' = Put(handle, fd, [id |-> file[path].id, num_pages |-> file[path].num_pages])
  /\ tainted' = IF Reuses(path, fd) THEN tainted \cup {file[path].id} ELSE tainted
  /\ UNCHANGED <<file, created, pool, torn, strayed>>

\* Mutant: the counter of the descriptor goes on from where it was.
RmOpenCountingOn(path) ==
  /\ path \in RecordFiles
  /\ \E fd \in Fds :
       /\ OpenFile(path, fd)
       /\ file[path].num_pages > 0
       /\ NewHandle(path, fd)
       /\ fd2pageno' = [fd2pageno EXCEPT ![fd] = @ + 1]

\* RmManager::open_file and RmFileHandle's constructor.
RmOpen(path) ==
  /\ path \in RecordFiles
  /\ \E fd \in Fds :
       /\ OpenFile(path, fd)
       /\ file[path].num_pages > 0
       /\ NewHandle(path, fd)
       /\ fd2pageno' = [fd2pageno EXCEPT ![fd] = file[path].num_pages]

\* IxManager::open_index and IxIndexHandle's constructor: one more than the
\* counter of the descriptor, whatever file the descriptor had before.
IxOpen(path) ==
  /\ path \in IndexFiles
  /\ \E fd \in Fds :
       /\ OpenFile(path, fd)
       /\ file[path].num_pages > 0
       /\ fd2pageno[fd] <= MaxPage
       /\ NewHandle(path, fd)
       /\ fd2pageno' = [fd2pageno EXCEPT ![fd] = @ + 1]

\* Opening a file without a header: read_page throws, the file stays open.
OpenFails(path) ==
  /\ \E fd \in Fds : OpenFile(path, fd)
  /\ file[path].num_pages = 0
  /\ UNCHANGED <<file, created, handle, fd2pageno, pool, history>>

-----------------------------------------------------------------------------
\* Among the frames fs, the last with page number p: FlushAllPages writes in the
\* order of the frames.
LastOf(fs, p) == CHOOSE f \in fs : frame[f].p = p /\ \A g \in fs : frame[g].p = p => g <= f

\* The pages of a file when the frames fs have been written to it.  write_page
\* beyond the end leaves zeros where there was nothing.
Extended(page, fs) ==
  LET nos == {frame[f].p : f \in fs}
  IN  [p \in DOMAIN page \cup UNION {1..n : n \in nos} |->
         IF p \in nos THEN frame[LastOf(fs, p)].id
         ELSE IF p \in DOMAIN page THEN page[p] ELSE Zeros]

\* The files, when the frames fs have been written to the one that has the descriptor.
Written(fd, fs) == [file EXCEPT ![fd2path[fd]].page = Extended(@, fs)]

\* FindVictimPage: a free frame if there is one, else one of the replacer.
Victim(f) ==
  /\ f \in Frames
  /\ frame[f] = Free \/ (~frame[f].lost /\ \A g \in Frames : frame[g] # Free)

\* UpdatePage, first half: a dirty victim is written to its descriptor, which has a
\* handle: a close leaves no page dirty.
Evicted(f) == IF frame[f].dirty THEN Written(frame[f].fd, {f}) ELSE file

\* UpdatePage, second half: the name that the frame had goes out of the table,
\* whichever frame the table had for it, and the new name comes in.
UpdatePage(f, page) ==
  /\ file' = Evicted(f)
  /\ frame' = [frame EXCEPT ![f] = page]
  /\ table' = Put(Erase(table, {<<frame[f].fd, frame[f].p>>}), <<page.fd, page.p>>, f)

\* NewPage through a handle: create_new_page_handle and CreateNode.  The caller
\* unpins it dirty.
NewPage(fd) ==
  /\ fd \in DOMAIN handle
  /\ fd2pageno[fd] <= MaxPage
  /\ \E f \in Frames :
       /\ Victim(f)
       /\ UpdatePage(f, Page(fd, fd2pageno[fd], handle[fd].id, TRUE, FALSE))
  /\ fd2pageno' = [fd2pageno EXCEPT ![fd] = @ + 1]
  /\ handle' = IF fd2path[fd] \in RecordFiles THEN [handle EXCEPT ![fd].num_pages = @ + 1]
               ELSE handle
  /\ UNCHANGED <<created, tables, history>>

\* FetchPage, a miss.  No caller checks the number: a rid may name any page.  When
\* the file has no such page the read throws, and the frame is left with its new
\* name, zeros and lost.
Fetch(fd, p) ==
  /\ fd \in DOMAIN handle
  /\ <<fd, p>> \notin DOMAIN table
  /\ \E f \in Frames :
       /\ Victim(f)
       /\ LET page == Evicted(f)[fd2path[fd]].page
          IN  UpdatePage(f, IF p \in DOMAIN page THEN Page(fd, p, page[p], FALSE, FALSE)
                            ELSE Page(fd, p, Zeros, FALSE, TRUE))
  /\ strayed' = IF fd2path[fd] \in RecordFiles /\ p >= handle[fd].num_pages
                THEN strayed \cup {handle[fd].id} ELSE strayed
  /\ UNCHANGED <<created, tables, handle, fd2pageno, tainted, torn>>

\* FetchPage, a hit, and UnpinPage: the frame is in the replacer, and dirty if the
\* caller changed the page.
Use(fd, p, is_dirty) ==
  /\ fd \in DOMAIN handle
  /\ <<fd, p>> \in DOMAIN table
  /\ frame' = [frame EXCEPT ![table[<<fd, p>>]] =
                 Page(@.fd, @.p, @.id, @.dirty \/ is_dirty, FALSE)]
  /\ UNCHANGED <<file, created, tables, handle, fd2pageno, table, history>>

\* Coalesce gives a node of an index back: the page, dirty now, is written by
\* DeletePage, and its frame is free.  Which pages are nodes, BPlusTree says.
DeleteNode(fd, p) ==
  /\ fd \in DOMAIN handle /\ fd2path[fd] \in IndexFiles
  /\ <<fd, p>> \in DOMAIN table
  /\ file' = Written(fd, {table[<<fd, p>>]})
  /\ frame' = [frame EXCEPT ![table[<<fd, p>>]] = Free]
  /\ table' = Erase(table, {<<fd, p>>})
  /\ UNCHANGED <<created, tables, handle, fd2pageno, history>>

\* Mutant: FlushAllPages takes the pages of every file.
PagesOfAll(fd) == {f \in Frames : frame[f] # Free}

\* FlushAllPages goes by the descriptor, not by the table, and takes clean pages too.
PagesOf(fd) == {f \in Frames : frame[f].fd = fd}

\* The frames after FlushAllPages.
Cleaned(fd) ==
  [f \in Frames |->
     IF f \in PagesOf(fd) THEN Page(frame[f].fd, frame[f].p, frame[f].id, FALSE, frame[f].lost)
     ELSE frame[f]]

\* The files with num_pages in the header of fd's file and the frames fs written.
Saved(fd, fs) == [Written(fd, fs) EXCEPT ![fd2path[fd]].num_pages = handle[fd].num_pages]

\* Mutant: the pages are left for later evictions to write.
CloseUnflushed(fd) ==
  /\ fd \in DOMAIN handle
  /\ file' = Saved(fd, {})
  /\ path2fd' = Erase(path2fd, {fd2path[fd]})
  /\ fd2path' = Erase(fd2path, {fd})
  /\ handle' = Erase(handle, {fd})
  /\ UNCHANGED <<created, fd2pageno, pool, history>>

\* Mutant: the path stays in path2fd_.
CloseKeepingPath(fd) ==
  /\ fd \in DOMAIN handle
  /\ file' = Saved(fd, PagesOf(fd))
  /\ frame' = Cleaned(fd)
  /\ fd2path' = Erase(fd2path, {fd})
  /\ handle' = Erase(handle, {fd})
  /\ UNCHANGED <<created, path2fd, fd2pageno, table, history>>

\* RmManager::close_file and IxManager::close_index: header, pages, tables, in
\* this order.  The pages stay in the pool.
Close(fd) ==
  /\ fd \in DOMAIN handle
  /\ file' = Saved(fd, PagesOf(fd))
  /\ frame' = Cleaned(fd)
  /\ path2fd' = Erase(path2fd, {fd2path[fd]})
  /\ fd2path' = Erase(fd2path, {fd})
  /\ handle' = Erase(handle, {fd})
  /\ UNCHANGED <<created, fd2pageno, table, history>>

-----------------------------------------------------------------------------
\* The process ends, in whatever state, and another one starts.
Dies ==
  /\ path2fd' = <<>> /\ fd2path' = <<>> /\ handle' = <<>>
  /\ fd2pageno' = [fd \in Fds |-> 0]
  /\ frame' = [f \in Frames |-> Free] /\ table' = <<>>
  /\ UNCHANGED <<tainted, strayed>>

Restart == Dies /\ UNCHANGED <<file, created, torn>>

\* It ends in RmManager::create_file, before the header.  (An index file with no
\* header is what IxCreateTooLong leaves.)
DiesCreating(path) ==
  /\ path \in RecordFiles
  /\ \E fd \in Fds : LowestFd(fd)
  /\ CreateFile(path, 0, <<>>)
  /\ Dies
  /\ UNCHANGED torn

\* It ends in a close, after the header and the pages of the first k frames.
DiesClosing(fd) ==
  /\ fd \in DOMAIN handle
  /\ \E k \in 0..PoolSize : file' = Saved(fd, {f \in PagesOf(fd) : f <= k})
  /\ Dies
  /\ torn' = IF fd2path[fd] \in RecordFiles THEN torn \cup {handle[fd].id} ELSE torn
  /\ UNCHANGED created

Next ==
  \/ \E path \in Paths :
       \/ RmCreate(path) \/ RmOpen(path)
       \/ IxCreate(path) \/ IxCreateTooLong(path) \/ IxOpen(path)
       \/ OpenFails(path) \/ Destroy(path) \/ DiesCreating(path)
  \/ \E fd \in Fds : NewPage(fd) \/ Close(fd) \/ DiesClosing(fd)
  \/ \E fd \in Fds, p \in 1..MaxPage :
       \/ Fetch(fd, p) \/ DeleteNode(fd, p)
       \/ \E is_dirty \in BOOLEAN : Use(fd, p, is_dirty)
  \/ Restart

Spec == Init /\ [][Next]_vars

-----------------------------------------------------------------------------
\* The two maps of open files are inverse to each other, and every open path is
\* a file: what close_file erases is what open_file entered, so no file is
\* refused as open that is not, and none is destroyed under a handle.
TablesAgree ==
  /\ DOMAIN path2fd \subseteq DOMAIN file
  /\ \A path \in DOMAIN path2fd : path2fd[path] \in Open /\ fd2path[path2fd[path]] = path
  /\ \A fd \in Open : fd2path[fd] \in DOMAIN path2fd /\ path2fd[fd2path[fd]] = fd
  /\ \A fd \in DOMAIN handle : fd \in Open /\ handle[fd].id = file[fd2path[fd]].id

\* What may go wrong for a file's pages did not happen to this one.
Unharmed(id) == id \notin tainted \cup torn \cup strayed

\* The frames with page p of the descriptor.
Holders(fd, p) == {f \in Frames : frame[f].fd = fd /\ frame[f].p = p}

(***************************************************************************)
(* An open record file loses no page and has none twice, through all       *)
(* evictions: the next number is the handle's num_pages, which no frame    *)
(* has; a page below it is in one frame, which the table finds, or in none *)
(* and then on disk.  Excepted are files that were opened under a          *)
(* descriptor with a page in the pool that does not belong there, files    *)
(* with a close cut short, and files that were asked for a page they do    *)
(* not count: for them NewPage can make a second frame of one name, and    *)
(* the eviction of the first takes the name out of the table.              *)
(***************************************************************************)
RecordPagesKept ==
  \A fd \in DOMAIN handle : fd2path[fd] \in RecordFiles =>
    /\ fd2pageno[fd] = handle[fd].num_pages
    /\ Unharmed(handle[fd].id) =>
         /\ \A f \in PagesOf(fd) : frame[f].p < handle[fd].num_pages
         /\ \A p \in 1..(handle[fd].num_pages - 1) :
              \/ \E f \in Frames :
                   Holders(fd, p) = {f} /\ frame[f].id = handle[fd].id /\ Found(f)
              \/ /\ Holders(fd, p) = {}
                 /\ p \in DOMAIN file[fd2path[fd]].page
                 /\ file[fd2path[fd]].page[p] = handle[fd].id

(***************************************************************************)
(* The header on disk runs ahead of the pages only if the process died     *)
(* within a close, which writes the header first: it may die at any other  *)
(* moment, and every page that the header of a record file counts is on    *)
(* disk, also when frames have pages twice; and it is a page of the file,  *)
(* not zeros, if the file was not harmed.                                  *)
(***************************************************************************)
HeaderCovered ==
  \A path \in DOMAIN file \cap RecordFiles :
    \A p \in 1..(file[path].num_pages - 1) :
      /\ file[path].id \notin torn => p \in DOMAIN file[path].page
      /\ Unharmed(file[path].id) => file[path].page[p] = file[path].id

(***************************************************************************)
(* A page of one file turns up in another, in the pool or on disk, only in *)
(* a file that was opened under a descriptor with a page in the pool that  *)
(* does not belong there: close_file leaves the pages there, and nothing   *)
(* else mixes files up.                                                    *)
(***************************************************************************)
ForeignPagesNeedReuse ==
  /\ \A f \in Frames : frame[f].fd \in DOMAIN handle =>
       LET id == handle[frame[f].fd].id
       IN  frame[f].id \notin {id, Zeros} => id \in tainted
  /\ \A path \in DOMAIN file : \A p \in DOMAIN file[path].page :
       file[path].page[p] \notin {file[path].id, Zeros} => file[path].id \in tainted
=============================================================================
