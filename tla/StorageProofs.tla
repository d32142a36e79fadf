---------------------------- MODULE StorageProofs ----------------------------
(***************************************************************************)
(* The four properties of Storage, for every set of paths and every bound. *)
(* They are one inductive argument: that a record file loses no page needs *)
(* a dirty page to be written to the file it belongs to, which needs the   *)
(* tables of open files, and a header that is covered when the file is     *)
(* opened; that pages stay within their file needs dirty pages to have a   *)
(* handle, and files to have different ids; and that no frame of a record  *)
(* file is taken for another needs the table to find every one of them.    *)
(***************************************************************************)
EXTENDS Storage, TLAPS, WellFoundedInduction, NaturalsInduction

FileShapes ==
  /\ created \in Nat
  /\ \A path \in DOMAIN file :
       /\ file[path] = [id |-> file[path].id, num_pages |-> file[path].num_pages,
                        page |-> file[path].page]
       /\ file[path].id \in 1..created
       /\ file[path].num_pages \in Nat

Shapes ==
  /\ fd2pageno \in [Fds -> Nat]
  /\ DOMAIN fd2path \subseteq Fds
  /\ \A fd \in DOMAIN handle :
       /\ handle[fd] = [id |-> handle[fd].id, num_pages |-> handle[fd].num_pages]
       /\ handle[fd].num_pages \in Nat
  /\ DOMAIN frame = Frames
  /\ \A f \in Frames : frame[f].p \in Nat /\ frame[f].dirty \in BOOLEAN

\* create_file gives every file an id of its own.
IdsDiffer == \A p, q \in DOMAIN file : file[p].id = file[q].id => p = q

\* The two halves of ForeignPagesNeedReuse.
FramesOwn ==
  \A f \in Frames : frame[f].fd \in DOMAIN handle /\ frame[f].id \notin {handle[frame[f].fd].id, Zeros}
                      => handle[frame[f].fd].id \in tainted

FilesOwn ==
  \A path \in DOMAIN file : \A p \in DOMAIN file[path].page :
    file[path].page[p] \notin {file[path].id, Zeros} => file[path].id \in tainted

\* Only files with a handle have dirty pages.
DirtyHeld == \A f \in Frames : frame[f].dirty => frame[f].fd \in DOMAIN handle

\* What the table finds has the name it was looked for.
TableRight ==
  \A x \in DOMAIN table : table[x] \in Frames /\ x = <<frame[table[x]].fd, frame[table[x]].p>>

NumbersGoOn ==
  \A fd \in DOMAIN handle : fd2path[fd] \in RecordFiles => fd2pageno[fd] = handle[fd].num_pages

\* The descriptor has an unharmed record file.
Sound(fd) == fd \in DOMAIN handle /\ fd2path[fd] \in RecordFiles /\ Unharmed(handle[fd].id)

\* The frames of unharmed record files hold pages of the file, which it counts and
\* the table finds: so no two of them have the same name.
FramesRight ==
  \A f \in Frames : Sound(frame[f].fd) =>
    /\ frame[f].id = handle[frame[f].fd].id
    /\ frame[f].p < handle[frame[f].fd].num_pages
    /\ Found(f)

\* Page p of the descriptor's file is among the files g.
OnDisk(g, fd, p) ==
  /\ p \in DOMAIN g[fd2path[fd]].page
  /\ Unharmed(handle[fd].id) => g[fd2path[fd]].page[p] = handle[fd].id

InDirtyFrame(fd, p) == \E f \in Frames : frame[f].fd = fd /\ frame[f].p = p /\ frame[f].dirty

\* The pages that are not on disk are dirty: those are the ones an eviction writes.
PagesThere ==
  \A fd \in DOMAIN handle : fd2path[fd] \in RecordFiles /\ handle[fd].id \notin torn =>
    \A p \in 1..(handle[fd].num_pages - 1) : OnDisk(file, fd, p) \/ InDirtyFrame(fd, p)

FileInv == FileShapes /\ IdsDiffer /\ HeaderCovered /\ FilesOwn

IInv ==
  /\ FileInv /\ Shapes /\ TablesAgree /\ FramesOwn /\ DirtyHeld /\ TableRight /\ NumbersGoOn
  /\ FramesRight /\ PagesThere

USE PathsAssumption, BoundsAssumption

LEMMA InitIInv == Init => IInv
  <1> SUFFICES ASSUME Init PROVE IInv
    OBVIOUS
  <1>1. DOMAIN file = {} /\ DOMAIN path2fd = {} /\ DOMAIN fd2path = {} /\ DOMAIN handle = {}
        /\ DOMAIN table = {}
    BY DEF Init
  <1>2. fd2pageno \in [Fds -> Nat] /\ created \in Nat
    BY DEF Init
  <1>3. /\ DOMAIN frame = Frames
        /\ \A f \in Frames : frame[f].p \in Nat /\ frame[f].dirty \in BOOLEAN /\ ~frame[f].dirty
    BY DEF Init, Free, Page
  <1>4. FileInv
    BY <1>1, <1>2 DEF FileInv, FileShapes, IdsDiffer, HeaderCovered, FilesOwn
  <1>5. Shapes
    BY <1>1, <1>2, <1>3 DEF Shapes
  <1> QED
    BY <1>1, <1>3, <1>4, <1>5 DEF IInv, TablesAgree, DirtyHeld, TableRight, NumbersGoOn, PagesThere,
                        FramesOwn, FramesRight, Sound, Open

\* The process that ends leaves the files.
LEMMA DeathKeeps == ASSUME Dies, FileInv' PROVE IInv'
  <1>1. DOMAIN path2fd' = {} /\ DOMAIN fd2path' = {} /\ DOMAIN handle' = {} /\ DOMAIN table' = {}
    BY DEF Dies
  <1>2. fd2pageno' \in [Fds -> Nat]
    BY DEF Dies
  <1>3. /\ DOMAIN frame' = Frames
        /\ \A f \in Frames : frame'[f].p \in Nat /\ frame'[f].dirty \in BOOLEAN /\ ~frame'[f].dirty
    BY DEF Dies, Free, Page
  <1>4. Shapes'
    BY <1>1, <1>2, <1>3 DEF Shapes
  <1> QED
    BY <1>1, <1>3, <1>4 DEF IInv, TablesAgree, DirtyHeld, TableRight, NumbersGoOn, PagesThere,
                        FramesOwn, FramesRight, Sound, Open

-----------------------------------------------------------------------------
\* DiskManager::create_file: the new file has an id that no file has.
LEMMA NewFile ==
  ASSUME IInv, NEW path, NEW n \in Nat, NEW page, CreateFile(path, n, page),
         path \in RecordFiles => n \in 0..1,
         \A p \in DOMAIN page : page[p] = created + 1,
         UNCHANGED history
  PROVE  /\ path \notin DOMAIN file
         /\ DOMAIN file' = DOMAIN file \cup {path}
         /\ \A other \in DOMAIN file : file'[other] = file[other] /\ other # path
         /\ FileInv'
  <1>1. /\ created' = created + 1 /\ created \in Nat
        /\ path \notin DOMAIN file
        /\ DOMAIN file' = DOMAIN file \cup {path}
        /\ file'[path] = [id |-> created + 1, num_pages |-> n, page |-> page]
        /\ \A other \in DOMAIN file : file'[other] = file[other] /\ other # path
        /\ \A other \in DOMAIN file : file[other].id \in 1..created
    BY DEF CreateFile, Put, IInv, FileInv, FileShapes
  <1>2. file'[path].id = created + 1 /\ file'[path].num_pages = n /\ file'[path].page = page
    BY <1>1
  <1>3. \A other \in DOMAIN file : file'[other].id # file'[path].id
    BY <1>1, <1>2
  <1>H. tainted' = tainted /\ torn' = torn /\ strayed' = strayed
    BY DEF history
  <1>4. IdsDiffer'
    BY <1>1, <1>3 DEF IInv, FileInv, IdsDiffer
  <1>5. FileShapes'
    <2> SUFFICES ASSUME NEW q \in DOMAIN file'
                 PROVE  /\ file'[q] = [id |-> file'[q].id, num_pages |-> file'[q].num_pages,
                                       page |-> file'[q].page]
                        /\ file'[q].id \in 1..created'
                        /\ file'[q].num_pages \in Nat
      BY <1>1 DEF FileShapes
    <2>1. CASE q = path
      BY <2>1, <1>1, <1>2
    <2>2. CASE q \in DOMAIN file
      <3>1. file[q] = [id |-> file[q].id, num_pages |-> file[q].num_pages, page |-> file[q].page]
            /\ file[q].num_pages \in Nat
        BY <2>2 DEF IInv, FileInv, FileShapes
      <3> QED BY <2>2, <3>1, <1>1
    <2> QED BY <2>1, <2>2, <1>1
  <1>6. FilesOwn'
    <2> SUFFICES ASSUME NEW q \in DOMAIN file', NEW p \in DOMAIN file'[q].page,
                        file'[q].page[p] \notin {file'[q].id, Zeros}
                 PROVE  file'[q].id \in tainted'
      BY DEF FilesOwn
    <2>1. CASE q = path
      BY <2>1, <1>2
    <2>2. CASE q \in DOMAIN file
      BY <2>2, <1>1, <1>H DEF IInv, FileInv, FilesOwn
    <2> QED BY <2>1, <2>2, <1>1
  <1>7. HeaderCovered'
    <2> SUFFICES ASSUME NEW q \in DOMAIN file' \cap RecordFiles, NEW p \in 1..(file'[q].num_pages - 1)
                 PROVE  /\ file'[q].id \notin torn' => p \in DOMAIN file'[q].page
                        /\ Unharmed(file[q].id)' => file'[q].page[p] = file'[q].id
      BY DEF HeaderCovered
    <2>1. CASE q = path
      BY <2>1, <1>2
    <2>2. CASE q \in DOMAIN file
      BY <2>2, <1>1, <1>H DEF IInv, FileInv, HeaderCovered, Unharmed
    <2> QED BY <2>1, <2>2, <1>1
  <1> QED BY <1>1, <1>4, <1>5, <1>6, <1>7 DEF FileInv

\* The rest of the invariant when the files that are open stay as they are, and so
\* do the handles, the pool and the counters of descriptors with a handle.
LEMMA MemoryKeeps ==
  ASSUME IInv, FileInv', TablesAgree', DOMAIN fd2path' \subseteq Fds,
         \A fd \in DOMAIN handle :
           /\ fd2path'[fd] = fd2path[fd] /\ file'[fd2path[fd]] = file[fd2path[fd]]
           /\ fd2pageno'[fd] = fd2pageno[fd]
           /\ handle[fd].id \in torn' <=> handle[fd].id \in torn
           /\ handle[fd].id \in tainted' <=> handle[fd].id \in tainted
           /\ handle[fd].id \in strayed' <=> handle[fd].id \in strayed,
         UNCHANGED <<handle, pool>>, fd2pageno' \in [Fds -> Nat]
  PROVE  IInv'
  <1>0. UNCHANGED <<handle, frame, table>>
    BY DEF pool
  <1>1. Shapes'
    BY <1>0 DEF IInv, Shapes
  <1>2. DirtyHeld' /\ NumbersGoOn' /\ TableRight'
    BY <1>0 DEF IInv, DirtyHeld, NumbersGoOn, TableRight
  <1>3. FramesOwn'
    BY <1>0 DEF IInv, FramesOwn
  <1>4. \A fd \in DOMAIN handle : Unharmed(handle[fd].id)' <=> Unharmed(handle[fd].id)
    BY <1>0 DEF Unharmed
  <1>5. FramesRight'
    BY <1>0, <1>4 DEF IInv, FramesRight, Sound, Found
  <1>6. PagesThere'
    BY <1>0, <1>4 DEF IInv, PagesThere, OnDisk, InDirtyFrame
  <1> QED BY <1>1, <1>2, <1>3, <1>5, <1>6 DEF IInv

\* The same when nothing but a file is created, and the tables stay.
LEMMA NewFileKeepsMemory ==
  ASSUME IInv, NEW path, NEW n \in Nat, NEW page, CreateFile(path, n, page),
         path \in RecordFiles => n \in 0..1,
         \A p \in DOMAIN page : page[p] = created + 1,
         UNCHANGED <<tables, handle, pool, history>>,
         fd2pageno' \in [Fds -> Nat],
         \A fd \in DOMAIN handle : fd2pageno'[fd] = fd2pageno[fd]
  PROVE  IInv'
  <1>0. UNCHANGED <<path2fd, fd2path, handle, pool, tainted, torn, strayed, history>>
    BY DEF tables, history
  <1>1. /\ DOMAIN file' = DOMAIN file \cup {path}
        /\ \A other \in DOMAIN file : file'[other] = file[other] /\ other # path
        /\ FileInv'
    BY <1>0, NewFile
  <1>2. \A fd \in DOMAIN handle : fd2path[fd] \in DOMAIN file
    BY DEF IInv, TablesAgree
  <1>3. TablesAgree'
    BY <1>0, <1>1, <1>2 DEF IInv, TablesAgree, Open
  <1>4. DOMAIN fd2path' \subseteq Fds
    BY <1>0 DEF IInv, Shapes
  <1> QED BY <1>0, <1>1, <1>2, <1>3, <1>4, MemoryKeeps

LEMMA RmCreateKeeps == ASSUME IInv, NEW path, RmCreate(path) PROVE IInv'
  <1>1. CreateFile(path, 1, <<>>) /\ path \in RecordFiles
        /\ UNCHANGED <<tables, handle, fd2pageno, pool, history>>
    BY DEF RmCreate, memory
  <1>2. fd2pageno \in [Fds -> Nat]
    BY DEF IInv, Shapes
  <1>3. \A p \in DOMAIN <<>> : <<>>[p] = created + 1
    OBVIOUS
  <1> QED BY <1>1, <1>2, <1>3, NewFileKeepsMemory

LEMMA IxCreateKeeps == ASSUME IInv, NEW path, IxCreate(path) PROVE IInv'
  <1> PICK page : page = [p \in 1..2 |-> created + 1]
    OBVIOUS
  <1>1. CreateFile(path, 3, page) /\ path \in IndexFiles
        /\ UNCHANGED <<tables, handle, pool, history>>
    BY DEF IxCreate
  <1>2. PICK fd \in Fds : LowestFd(fd) /\ fd2pageno' = [fd2pageno EXCEPT ![fd] = 2]
    BY DEF IxCreate
  <1>3. fd2pageno' \in [Fds -> Nat]
    BY <1>2 DEF IInv, Shapes
  <1>4. fd \notin DOMAIN handle
    BY <1>2 DEF IInv, TablesAgree, LowestFd
  <1>5. \A g \in DOMAIN handle : fd2pageno'[g] = fd2pageno[g]
    BY <1>2, <1>4 DEF IInv, Shapes, TablesAgree, Open
  <1>6. \A p \in DOMAIN page : page[p] = created + 1
    OBVIOUS
  <1>7. path \notin RecordFiles
    BY <1>1
  <1> QED BY <1>1, <1>3, <1>5, <1>6, <1>7, NewFileKeepsMemory

\* DiskManager::open_file enters a descriptor that no handle has.
LEMMA Opened ==
  ASSUME IInv, NEW path, NEW fd, LowestFd(fd), path \notin DOMAIN path2fd,
         path2fd' = Put(path2fd, path, fd), fd2path' = Put(fd2path, fd, path)
  PROVE  /\ fd \in Fds /\ fd \notin Open /\ fd \notin DOMAIN handle
         /\ DOMAIN path2fd' = DOMAIN path2fd \cup {path} /\ path2fd'[path] = fd
         /\ \A q \in DOMAIN path2fd : path2fd'[q] = path2fd[q] /\ q # path
         /\ Open' = Open \cup {fd} /\ fd2path'[fd] = path
         /\ \A g \in Open : fd2path'[g] = fd2path[g] /\ g # fd
         /\ DOMAIN handle \subseteq Open
         /\ \A q \in DOMAIN path2fd' : path2fd'[q] \in Open' /\ fd2path'[path2fd'[q]] = q
         /\ \A g \in Open' : fd2path'[g] \in DOMAIN path2fd' /\ path2fd'[fd2path'[g]] = g
  <1>1. fd \in Fds /\ fd \notin Open /\ DOMAIN handle \subseteq Open
    BY DEF LowestFd, IInv, TablesAgree
  <1>2. /\ DOMAIN path2fd' = DOMAIN path2fd \cup {path} /\ path2fd'[path] = fd
        /\ \A q \in DOMAIN path2fd : path2fd'[q] = path2fd[q] /\ q # path
    BY DEF Put
  <1>3. /\ Open' = Open \cup {fd} /\ fd2path'[fd] = path
        /\ \A g \in Open : fd2path'[g] = fd2path[g] /\ g # fd
    BY <1>1 DEF Put, Open
  <1>4. /\ \A q \in DOMAIN path2fd : path2fd[q] \in Open /\ fd2path[path2fd[q]] = q
        /\ \A g \in Open : fd2path[g] \in DOMAIN path2fd /\ path2fd[fd2path[g]] = g
    BY DEF IInv, TablesAgree
  <1>5. \A q \in DOMAIN path2fd' : path2fd'[q] \in Open' /\ fd2path'[path2fd'[q]] = q
    BY <1>2, <1>3, <1>4
  <1>6. \A g \in Open' : fd2path'[g] \in DOMAIN path2fd' /\ path2fd'[fd2path'[g]] = g
    BY <1>2, <1>3, <1>4
  <1> QED BY <1>1, <1>2, <1>3, <1>5, <1>6

\* The facts of Opened, for a step that opens path under a descriptor.
OpenedAs(path, fd) ==
  /\ fd \in Fds /\ fd \notin Open /\ fd \notin DOMAIN handle
  /\ DOMAIN path2fd' = DOMAIN path2fd \cup {path}
  /\ Open' = Open \cup {fd} /\ fd2path'[fd] = path
  /\ \A g \in Open : fd2path'[g] = fd2path[g] /\ g # fd
  /\ DOMAIN handle \subseteq Open
  /\ \A q \in DOMAIN path2fd' : path2fd'[q] \in Open' /\ fd2path'[path2fd'[q]] = q
  /\ \A g \in Open' : fd2path'[g] \in DOMAIN path2fd' /\ path2fd'[fd2path'[g]] = g

LEMMA IxCreateTooLongKeeps == ASSUME IInv, NEW path, IxCreateTooLong(path) PROVE IInv'
  <1>1. CreateFile(path, 0, <<>>) /\ path \in IndexFiles /\ UNCHANGED <<handle, fd2pageno, pool, history>>
    BY DEF IxCreateTooLong
  <1>2. PICK fd \in Fds : /\ LowestFd(fd)
                          /\ path2fd' = Put(path2fd, path, fd)
                          /\ fd2path' = Put(fd2path, fd, path)
    BY DEF IxCreateTooLong
  <1>3. \A p \in DOMAIN <<>> : <<>>[p] = created + 1
    OBVIOUS
  <1>4. /\ path \notin DOMAIN file
        /\ DOMAIN file' = DOMAIN file \cup {path}
        /\ \A other \in DOMAIN file : file'[other] = file[other] /\ other # path
        /\ FileInv'
    BY <1>1, <1>3, NewFile, 0 \in Nat, 0 \in 0..1
  <1>5. path \notin DOMAIN path2fd
    BY <1>4 DEF IInv, TablesAgree
  <1>6. OpenedAs(path, fd)
    BY <1>2, <1>5, Opened DEF OpenedAs
  <1>7. UNCHANGED <<handle, fd2pageno, pool, tainted, torn, strayed>>
    BY <1>1 DEF history
  <1>8. \A g \in DOMAIN handle : fd2path[g] \in DOMAIN file
    BY DEF IInv, TablesAgree
  <1>9. TablesAgree'
    BY <1>4, <1>6, <1>7, <1>8 DEF IInv, TablesAgree, OpenedAs
  <1>10. DOMAIN fd2path' \subseteq Fds /\ fd2pageno' \in [Fds -> Nat]
    BY <1>6, <1>7 DEF IInv, Shapes, OpenedAs, Open
  <1> QED BY <1>4, <1>6, <1>7, <1>8, <1>9, <1>10, MemoryKeeps DEF OpenedAs

LEMMA OpenFailsKeeps == ASSUME IInv, NEW path, OpenFails(path) PROVE IInv'
  <1>1. PICK fd \in Fds : OpenFile(path, fd)
    BY DEF OpenFails
  <1>2. OpenedAs(path, fd)
    BY <1>1, Opened DEF OpenFile, OpenedAs
  <1>3. UNCHANGED <<file, created, handle, fd2pageno, pool, tainted, torn, strayed>>
    BY DEF OpenFails, history
  <1>4. FileInv'
    BY <1>3 DEF IInv, FileInv, FileShapes, IdsDiffer, FilesOwn, HeaderCovered, Unharmed
  <1>5. TablesAgree'
    BY <1>1, <1>2, <1>3 DEF IInv, TablesAgree, OpenedAs, OpenFile
  <1>6. DOMAIN fd2path' \subseteq Fds /\ fd2pageno' \in [Fds -> Nat]
    BY <1>2, <1>3 DEF IInv, Shapes, OpenedAs, Open
  <1> QED BY <1>2, <1>3, <1>4, <1>5, <1>6, MemoryKeeps DEF OpenedAs

\* Only files that are not open are destroyed, and no other file has the id that
\* leaves the histories.
LEMMA DestroyKeeps == ASSUME IInv, NEW path, Destroy(path) PROVE IInv'
  <1>1. /\ path \in DOMAIN file /\ path \notin DOMAIN path2fd
        /\ DOMAIN file' = DOMAIN file \ {path}
        /\ \A q \in DOMAIN file' : file'[q] = file[q] /\ q \in DOMAIN file /\ q # path
        /\ tainted' = tainted \ {file[path].id} /\ torn' = torn \ {file[path].id}
        /\ strayed' = strayed \ {file[path].id}
        /\ UNCHANGED <<created, path2fd, fd2path, handle, fd2pageno, pool>>
    BY DEF Destroy, Erase, memory, tables
  <1>2. \A q \in DOMAIN file' : file[q].id # file[path].id
    BY <1>1 DEF IInv, FileInv, IdsDiffer
  <1>3. \A fd \in DOMAIN handle : /\ fd \in Open /\ fd2path[fd] \in DOMAIN file'
                                  /\ handle[fd].id = file[fd2path[fd]].id
                                  /\ handle[fd].id # file[path].id
    BY <1>1, <1>2 DEF IInv, TablesAgree
  <1>4. TablesAgree'
    BY <1>1, <1>3 DEF IInv, TablesAgree, Open
  <1>5. \A q \in DOMAIN file' : Unharmed(file[q].id)' => Unharmed(file[q].id)
    BY <1>1, <1>2 DEF Unharmed
  <1>6. HeaderCovered'
    BY <1>1, <1>2, <1>5 DEF IInv, FileInv, HeaderCovered
  <1>7. FileShapes' /\ IdsDiffer' /\ FilesOwn'
    BY <1>1, <1>2 DEF IInv, FileInv, FileShapes, IdsDiffer, FilesOwn
  <1>8. DOMAIN fd2path' \subseteq Fds /\ fd2pageno' \in [Fds -> Nat]
    BY <1>1 DEF IInv, Shapes
  <1> QED BY <1>1, <1>3, <1>4, <1>6, <1>7, <1>8, MemoryKeeps DEF FileInv

\* A handle for a file that has a header: its pages on disk are all there, and it
\* is tainted if the descriptor's frames are not as the file would have left them.
LEMMA OpenKeeps ==
  ASSUME IInv, NEW path, NEW fd \in Fds, OpenFile(path, fd), NewHandle(path, fd),
         NEW next \in Nat, fd2pageno' = [fd2pageno EXCEPT ![fd] = next],
         path \in RecordFiles => next = file[path].num_pages
  PROVE  IInv'
  <1>1. OpenedAs(path, fd) /\ path \in DOMAIN file
    BY Opened DEF OpenFile, OpenedAs
  <1>2. UNCHANGED <<file, created, frame, table, torn, strayed>>
    BY DEF NewHandle, pool
  <1>3. /\ DOMAIN handle' = DOMAIN handle \cup {fd}
        /\ handle'[fd] = [id |-> file[path].id, num_pages |-> file[path].num_pages]
        /\ \A g \in DOMAIN handle : handle'[g] = handle[g] /\ g # fd
    BY <1>1 DEF NewHandle, Put, OpenedAs
  <1>4. /\ fd2pageno' \in [Fds -> Nat] /\ fd2pageno'[fd] = next
        /\ \A g \in DOMAIN handle : fd2pageno'[g] = fd2pageno[g]
    BY <1>1 DEF IInv, Shapes, OpenedAs, Open
  <1>5. handle'[fd].id = file[path].id /\ handle'[fd].num_pages = file[path].num_pages
        /\ file[path].num_pages \in Nat
    BY <1>1, <1>3 DEF IInv, FileInv, FileShapes
  <1>6. tainted \subseteq tainted'
    BY DEF NewHandle
  <1>7. \A f \in Frames : frame[f].fd = fd /\ file[path].id \notin tainted' =>
          /\ frame[f].id = file[path].id /\ Found(f)
          /\ path \in RecordFiles => frame[f].p < file[path].num_pages
    BY DEF NewHandle, Reuses
  <1>8. \A id : Unharmed(id)' => Unharmed(id)
    BY <1>2, <1>6 DEF Unharmed
  <1>9. \A g \in DOMAIN handle : g \in Open /\ fd2path'[g] = fd2path[g] /\ g # fd
    BY <1>1 DEF OpenedAs
  <1>10. FileInv'
    <2>1. HeaderCovered'
      BY <1>2, <1>8 DEF IInv, FileInv, HeaderCovered
    <2> QED BY <2>1, <1>2, <1>6 DEF IInv, FileInv, FileShapes, IdsDiffer, FilesOwn
  <1>11. Shapes'
    BY <1>1, <1>2, <1>3, <1>4, <1>5 DEF IInv, Shapes, OpenedAs, Open
  <1>12. TablesAgree'
    <2>1. DOMAIN path2fd' \subseteq DOMAIN file'
      BY <1>1, <1>2 DEF IInv, TablesAgree, OpenedAs
    <2>2. \A g \in DOMAIN handle' : g \in Open' /\ handle'[g].id = file'[fd2path'[g]].id
      BY <1>1, <1>2, <1>3, <1>5 DEF IInv, TablesAgree, OpenedAs
    <2> QED BY <2>1, <2>2, <1>1 DEF TablesAgree, OpenedAs
  <1>13. DirtyHeld' /\ TableRight'
    BY <1>2, <1>3 DEF IInv, DirtyHeld, TableRight
  <1>14. NumbersGoOn'
    BY <1>1, <1>3, <1>4, <1>5 DEF IInv, NumbersGoOn, OpenedAs
  <1>15. FramesOwn'
    BY <1>2, <1>3, <1>5, <1>6, <1>7 DEF IInv, FramesOwn
  <1>16. FramesRight'
    <2> SUFFICES ASSUME NEW f \in Frames, Sound(frame[f].fd)'
                 PROVE  /\ frame[f].id = handle'[frame[f].fd].id
                        /\ frame[f].p < handle'[frame[f].fd].num_pages
                        /\ Found(f)
      BY <1>2 DEF FramesRight, Found
    <2>1. CASE frame[f].fd = fd
      <3>1. file[path].id \notin tainted' /\ path \in RecordFiles
        BY <2>1, <1>1, <1>2, <1>5 DEF Sound, Unharmed, OpenedAs
      <3> QED BY <2>1, <3>1, <1>5, <1>7
    <2>2. CASE frame[f].fd # fd
      <3>1. Sound(frame[f].fd) /\ frame[f].fd \in DOMAIN handle
        BY <2>2, <1>2, <1>3, <1>8, <1>9 DEF Sound
      <3> QED BY <3>1, <1>3 DEF IInv, FramesRight
    <2> QED BY <2>1, <2>2
  <1>17. PagesThere'
    <2> SUFFICES ASSUME NEW g \in DOMAIN handle', fd2path'[g] \in RecordFiles, handle'[g].id \notin torn',
                        NEW p \in 1..(handle'[g].num_pages - 1)
                 PROVE  OnDisk(file, g, p)' \/ InDirtyFrame(g, p)
      BY <1>2 DEF PagesThere, InDirtyFrame
    <2>1. CASE g = fd
      <3>1. path \in DOMAIN file \cap RecordFiles /\ file[path].id \notin torn
            /\ p \in 1..(file[path].num_pages - 1)
        BY <2>1, <1>1, <1>2, <1>5 DEF OpenedAs
      <3>2. /\ p \in DOMAIN file[path].page
            /\ Unharmed(file[path].id) => file[path].page[p] = file[path].id
        BY <3>1 DEF IInv, FileInv, HeaderCovered
      <3> QED BY <2>1, <3>2, <1>1, <1>2, <1>5, <1>8 DEF OnDisk, OpenedAs
    <2>2. CASE g \in DOMAIN handle
      <3>1. OnDisk(file, g, p) \/ InDirtyFrame(g, p)
        BY <2>2, <1>2, <1>3, <1>9 DEF IInv, PagesThere
      <3> QED BY <2>2, <3>1, <1>2, <1>3, <1>8, <1>9 DEF OnDisk
    <2> QED BY <2>1, <2>2, <1>3
  <1> QED BY <1>10, <1>11, <1>12, <1>13, <1>14, <1>15, <1>16, <1>17 DEF IInv

LEMMA RmOpenKeeps == ASSUME IInv, NEW path, RmOpen(path) PROVE IInv'
  <1>1. PICK fd \in Fds : /\ OpenFile(path, fd) /\ NewHandle(path, fd)
                          /\ fd2pageno' = [fd2pageno EXCEPT ![fd] = file[path].num_pages]
    BY DEF RmOpen
  <1>2. PICK next : next = file[path].num_pages
    OBVIOUS
  <1>3. next \in Nat
    BY <1>1, <1>2 DEF IInv, FileInv, FileShapes, OpenFile
  <1> QED BY <1>1, <1>2, <1>3, OpenKeeps

LEMMA IxOpenKeeps == ASSUME IInv, NEW path, IxOpen(path) PROVE IInv'
  <1>1. PICK fd \in Fds : /\ OpenFile(path, fd) /\ NewHandle(path, fd)
                          /\ fd2pageno' = [fd2pageno EXCEPT ![fd] = @ + 1]
    BY DEF IxOpen
  <1>2. PICK next : next = fd2pageno[fd] + 1
    OBVIOUS
  <1>3. next \in Nat
    BY <1>1, <1>2 DEF IInv, Shapes
  <1>4. path \notin RecordFiles
    BY DEF IxOpen
  <1> QED BY <1>1, <1>2, <1>3, <1>4, OpenKeeps

-----------------------------------------------------------------------------
\* The files g are the files with pages written: what was on disk is, only tainted
\* files get pages of others, and the pages of unharmed record files stay theirs.
Grown(g) ==
  /\ DOMAIN g = DOMAIN file
  /\ \A q \in DOMAIN file :
       /\ g[q] = [id |-> file[q].id, num_pages |-> g[q].num_pages, page |-> g[q].page]
       /\ DOMAIN file[q].page \subseteq DOMAIN g[q].page
       /\ \A p \in DOMAIN g[q].page :
            g[q].page[p] \notin {file[q].id, Zeros} => file[q].id \in tainted
       /\ \A p \in DOMAIN file[q].page :
            q \in RecordFiles /\ Unharmed(file[q].id) /\ file[q].page[p] = file[q].id
              => g[q].page[p] = file[q].id

\* Only the page counts of the file at path can differ in g.
Counts(g, path, n) ==
  /\ path \in DOMAIN file => g[path].num_pages = n
  /\ \A q \in DOMAIN file : q # path => g[q].num_pages = file[q].num_pages

\* Some number of a set of numbers up to n is the greatest.
LEMMA GreatestExists ==
  ASSUME NEW n \in Nat, NEW T, T \subseteq 1..n, T # {}
  PROVE  \E x \in T : \A y \in T : y <= x
  <1> DEFINE R == {ss \in Nat \X Nat : ss[1] < ss[2]}
             U == {n - x : x \in T}
  <1>1. IsWellFoundedOn(R, Nat)
    BY NatLessThanWellFounded DEF OpToRel
  <1>2. U \subseteq Nat /\ U # {}
    <2>1. \A x \in T : x \in Int /\ x <= n /\ n - x \in Nat
      OBVIOUS
    <2>2. PICK x \in T : TRUE
      OBVIOUS
    <2>3. n - x \in U
      OBVIOUS
    <2> QED BY <2>1, <2>3
  <1>3. PICK u \in U : \A v \in U : ~(<<v, u>> \in R)
    <2> HIDE DEF R, U
    <2> QED BY <1>1, <1>2, WFMin
  <1>4. PICK x \in T : u = n - x
    OBVIOUS
  <1>5. ASSUME NEW y \in T PROVE y <= x
    <2>1. x \in Nat /\ y \in Nat /\ n - x \in Nat /\ n - y \in Nat /\ n - y \in U
      OBVIOUS
    <2>2. ~(<<n - y, n - x>> \in R)
      BY <1>3, <1>4, <2>1
    <2>3. ~(n - y < n - x)
      BY <2>1, <2>2
    <2> QED BY <2>1, <2>3
  <1> QED BY <1>5

LEMMA LastIs ==
  ASSUME NEW fs \in SUBSET Frames, NEW p, \E f \in fs : frame[f].p = p
  PROVE  LastOf(fs, p) \in fs /\ frame[LastOf(fs, p)].p = p
  <1> PICK T : T = {f \in fs : frame[f].p = p}
    OBVIOUS
  <1>1. T \subseteq 1..PoolSize /\ T # {}
    BY DEF Frames
  <1>2. PICK x \in T : \A y \in T : y <= x
    BY <1>1, GreatestExists
  <1>3. x \in fs /\ frame[x].p = p /\ \A g \in fs : frame[g].p = p => g <= x
    BY <1>2
  <1> QED BY <1>3 DEF LastOf

\* What is written to a file's descriptor is what the frames have under it.
LEMMA ExtendedPage ==
  ASSUME IInv, NEW fd \in DOMAIN handle, NEW fs \in SUBSET PagesOf(fd), NEW page,
         page = Extended(file[fd2path[fd]].page, fs)
  PROVE  /\ DOMAIN file[fd2path[fd]].page \subseteq DOMAIN page
         /\ \A p \in DOMAIN page : page[p] \notin {handle[fd].id, Zeros} => handle[fd].id \in tainted
         /\ \A p \in DOMAIN file[fd2path[fd]].page :
              Sound(fd) /\ file[fd2path[fd]].page[p] = handle[fd].id => page[p] = handle[fd].id
         /\ \A f \in fs : frame[f].p >= 1 =>
              /\ frame[f].p \in DOMAIN page
              /\ Sound(fd) => page[frame[f].p] = handle[fd].id
  <1> PICK old, id : old = file[fd2path[fd]].page /\ id = handle[fd].id
    OBVIOUS
  <1> DEFINE nos == {frame[f].p : f \in fs}
             ranges == UNION {1..n : n \in nos}
  <1>1. page = [p \in DOMAIN old \cup ranges |->
                  IF p \in nos THEN frame[LastOf(fs, p)].id
                  ELSE IF p \in DOMAIN old THEN old[p] ELSE Zeros]
    BY DEF Extended
  <1>2. DOMAIN page = DOMAIN old \cup ranges
    BY <1>1
  <1>3. fs \in SUBSET Frames /\ \A f \in fs : frame[f].fd = fd
    BY DEF PagesOf
  <1>4. ASSUME NEW p \in DOMAIN page, p \in nos
        PROVE  /\ page[p] \notin {id, Zeros} => id \in tainted
               /\ Sound(fd) => page[p] = id
    <2>1. \E f \in fs : frame[f].p = p
      BY <1>4
    <2>2. PICK f : f = LastOf(fs, p)
      OBVIOUS
    <2>3. f \in fs
      BY <2>1, <2>2, <1>3, LastIs
    <2>4. page[p] = frame[f].id
      BY <1>1, <1>2, <1>4, <2>2
    <2>5. f \in Frames /\ frame[f].fd = fd
      BY <2>3, <1>3
    <2>6. frame[f].id \notin {id, Zeros} => id \in tainted
      BY <2>5 DEF IInv, FramesOwn
    <2>7. Sound(fd) => frame[f].id = id
      BY <2>5 DEF IInv, FramesRight
    <2> QED BY <2>4, <2>6, <2>7
  <1>5. ASSUME NEW p \in DOMAIN page, p \notin nos
        PROVE  page[p] = IF p \in DOMAIN old THEN old[p] ELSE Zeros
    BY <1>1, <1>2, <1>5
  <1>6. fd2path[fd] \in DOMAIN file /\ file[fd2path[fd]].id = id
    BY DEF IInv, TablesAgree
  <1>7. \A p \in DOMAIN old : old[p] \notin {id, Zeros} => id \in tainted
    BY <1>6 DEF IInv, FileInv, FilesOwn
  <1>8. \A f \in fs : frame[f].p >= 1 => frame[f].p \in nos /\ frame[f].p \in DOMAIN page
    <2> TAKE f \in fs
    <2> HAVE frame[f].p >= 1
    <2>1. frame[f].p \in nos /\ frame[f].p \in Nat
      BY <1>3 DEF IInv, Shapes
    <2>2. frame[f].p \in 1..frame[f].p
      BY <2>1
    <2>3. 1..frame[f].p \in {1..n : n \in nos}
      BY <2>1
    <2>4. frame[f].p \in ranges
      BY <2>2, <2>3
    <2> QED BY <2>1, <2>4, <1>2
  <1> HIDE DEF nos, ranges
  <1>9. \A p \in DOMAIN page : page[p] \notin {id, Zeros} => id \in tainted
    BY <1>4, <1>5, <1>7
  <1>10. \A p \in DOMAIN old : Sound(fd) /\ old[p] = id => page[p] = id
    BY <1>2, <1>4, <1>5
  <1>11. \A f \in fs : frame[f].p >= 1 =>
           frame[f].p \in DOMAIN page /\ (Sound(fd) => page[frame[f].p] = id)
    BY <1>4, <1>8
  <1> QED BY <1>2, <1>9, <1>10, <1>11

LEMMA WrittenFile ==
  ASSUME IInv, NEW fd \in DOMAIN handle, NEW fs \in SUBSET PagesOf(fd), NEW g, g = Written(fd, fs)
  PROVE  /\ Grown(g) /\ Counts(g, fd2path[fd], file[fd2path[fd]].num_pages)
         /\ \A f \in fs : frame[f].p >= 1 =>
              /\ frame[f].p \in DOMAIN g[fd2path[fd]].page
              /\ Sound(fd) => g[fd2path[fd]].page[frame[f].p] = handle[fd].id
  <1> PICK path, id, n : path = fd2path[fd] /\ id = handle[fd].id /\ n = file[path].num_pages
    OBVIOUS
  <1> PICK page : page = Extended(file[path].page, fs)
    OBVIOUS
  <1>1. path \in DOMAIN file /\ file[path].id = id
    BY DEF IInv, TablesAgree
  <1>2. [file[path] EXCEPT !.page = page] = [id |-> id, num_pages |-> n, page |-> page]
    <2>1. file[path] = [id |-> file[path].id, num_pages |-> file[path].num_pages,
                        page |-> file[path].page]
      BY <1>1 DEF IInv, FileInv, FileShapes
    <2> QED BY <2>1, <1>1
  <1>3. g = [file EXCEPT ![path] = [id |-> id, num_pages |-> n, page |-> page]]
    BY <1>2 DEF Written
  <1>4. /\ DOMAIN g = DOMAIN file
        /\ \A q \in DOMAIN file : q # path => g[q] = file[q]
        /\ g[path] = [id |-> id, num_pages |-> n, page |-> page]
    BY <1>1, <1>3
  <1>5. g[path].page = page /\ g[path].id = id /\ g[path].num_pages = n
    BY <1>4
  <1>6. /\ DOMAIN file[path].page \subseteq DOMAIN page
        /\ \A p \in DOMAIN page : page[p] \notin {id, Zeros} => id \in tainted
        /\ \A p \in DOMAIN file[path].page :
              Sound(fd) /\ file[path].page[p] = id => page[p] = id
        /\ \A f \in fs : frame[f].p >= 1 =>
              /\ frame[f].p \in DOMAIN page
              /\ Sound(fd) => page[frame[f].p] = id
    BY ExtendedPage
  <1>7. Counts(g, path, n)
    BY <1>4, <1>5 DEF Counts
  <1>8. Grown(g)
    <2> SUFFICES ASSUME NEW q \in DOMAIN file
                 PROVE  /\ g[q] = [id |-> file[q].id, num_pages |-> g[q].num_pages, page |-> g[q].page]
                        /\ DOMAIN file[q].page \subseteq DOMAIN g[q].page
                        /\ \A p \in DOMAIN g[q].page :
                             g[q].page[p] \notin {file[q].id, Zeros} => file[q].id \in tainted
                        /\ \A p \in DOMAIN file[q].page :
                             q \in RecordFiles /\ Unharmed(file[q].id) /\ file[q].page[p] = file[q].id
                               => g[q].page[p] = file[q].id
      BY <1>4 DEF Grown
    <2>1. CASE q = path
      <3>1. path \in RecordFiles /\ Unharmed(id) => Sound(fd)
        BY DEF Sound
      <3>2. g[q] = [id |-> file[q].id, num_pages |-> g[q].num_pages, page |-> g[q].page]
        BY <2>1, <1>1, <1>4, <1>5
      <3> QED BY <2>1, <3>1, <3>2, <1>1, <1>5, <1>6
    <2>2. CASE q # path
      <3>1. g[q] = file[q]
        BY <2>2, <1>4
      <3> QED BY <3>1 DEF IInv, FileInv, FileShapes, FilesOwn
    <2> QED BY <2>1, <2>2
  <1> QED BY <1>5, <1>6, <1>7, <1>8

\* A close, or what of it was done: the header, too, is written.
LEMMA SavedFile ==
  ASSUME IInv, NEW fd \in DOMAIN handle, NEW fs \in SUBSET PagesOf(fd), NEW g, g = Saved(fd, fs)
  PROVE  /\ Grown(g) /\ Counts(g, fd2path[fd], handle[fd].num_pages)
         /\ \A f \in fs : frame[f].p >= 1 =>
              /\ frame[f].p \in DOMAIN g[fd2path[fd]].page
              /\ Sound(fd) => g[fd2path[fd]].page[frame[f].p] = handle[fd].id
  <1> PICK path, id, n, w : /\ path = fd2path[fd] /\ id = handle[fd].id /\ n = handle[fd].num_pages
                            /\ w = Written(fd, fs)
    OBVIOUS
  <1>1. path \in DOMAIN file /\ file[path].id = id
    BY DEF IInv, TablesAgree
  <1>2. /\ Grown(w) /\ Counts(w, path, file[path].num_pages)
        /\ \A f \in fs : frame[f].p >= 1 =>
              /\ frame[f].p \in DOMAIN w[path].page
              /\ Sound(fd) => w[path].page[frame[f].p] = id
    BY WrittenFile
  <1>3. DOMAIN w = DOMAIN file
        /\ w[path] = [id |-> id, num_pages |-> w[path].num_pages, page |-> w[path].page]
    BY <1>1, <1>2 DEF Grown
  <1>4. [w[path] EXCEPT !.num_pages = n] = [id |-> id, num_pages |-> n, page |-> w[path].page]
    BY <1>3
  <1>5. g = [w EXCEPT ![path] = [id |-> id, num_pages |-> n, page |-> w[path].page]]
    BY <1>4 DEF Saved
  <1>6. /\ DOMAIN g = DOMAIN file
        /\ \A q \in DOMAIN file : q # path => g[q] = w[q]
        /\ g[path] = [id |-> id, num_pages |-> n, page |-> w[path].page]
    BY <1>1, <1>3, <1>5
  <1>7. g[path].page = w[path].page /\ g[path].id = id /\ g[path].num_pages = n
    BY <1>6
  <1>8. \A q \in DOMAIN file : g[q].page = w[q].page
    BY <1>6, <1>7
  <1>9. Counts(g, path, n)
    BY <1>2, <1>6, <1>7 DEF Counts
  <1>10. \A q \in DOMAIN file :
           g[q] = [id |-> file[q].id, num_pages |-> g[q].num_pages, page |-> g[q].page]
    <2> TAKE q \in DOMAIN file
    <2>1. CASE q = path
      BY <2>1, <1>1, <1>6, <1>7
    <2>2. CASE q # path
      BY <2>2, <1>2, <1>6 DEF Grown
    <2> QED BY <2>1, <2>2
  <1>11. Grown(g)
    BY <1>2, <1>6, <1>8, <1>10 DEF Grown
  <1> QED BY <1>2, <1>8, <1>9, <1>11, <1>1

\* What of the invariant is about files, when pages have been written: the header
\* that is written, too, must be covered.
LEMMA FilesGrow ==
  ASSUME IInv, Grown(file'), UNCHANGED <<created, tainted>>,
         torn \subseteq torn', strayed \subseteq strayed',
         NEW path, NEW n \in Nat, Counts(file', path, n),
         path \in DOMAIN file \cap RecordFiles => \A p \in 1..(n - 1) :
           /\ file[path].id \notin torn' => p \in DOMAIN file'[path].page
           /\ Unharmed(file[path].id)' => file'[path].page[p] = file[path].id
  PROVE  /\ FileInv'
         /\ \A q \in DOMAIN file : file'[q].id = file[q].id
         /\ \A id : Unharmed(id)' => Unharmed(id)
         /\ \A p : \A fd \in DOMAIN handle : fd2path[fd] \in RecordFiles /\ OnDisk(file, fd, p) =>
              OnDisk(file', fd, p)
  <1>1. DOMAIN file' = DOMAIN file /\ \A q \in DOMAIN file :
          /\ file'[q] = [id |-> file[q].id, num_pages |-> file'[q].num_pages, page |-> file'[q].page]
          /\ DOMAIN file[q].page \subseteq DOMAIN file'[q].page
    BY DEF Grown
  <1>2. \A q \in DOMAIN file : file'[q].id = file[q].id
    BY <1>1
  <1>3. \A id : Unharmed(id)' => Unharmed(id)
    BY DEF Unharmed
  <1>4. \A q \in DOMAIN file : q = path \/ file'[q].num_pages = file[q].num_pages
    BY DEF Counts
  <1>5. FileShapes'
    BY <1>1, <1>2, <1>4 DEF IInv, FileInv, FileShapes, Counts
  <1>6. IdsDiffer'
    BY <1>1, <1>2 DEF IInv, FileInv, IdsDiffer
  <1>7. FilesOwn'
    BY <1>1, <1>2 DEF FilesOwn, Grown
  <1>8. HeaderCovered'
    <2> SUFFICES ASSUME NEW q \in DOMAIN file \cap RecordFiles, NEW p \in 1..(file'[q].num_pages - 1)
                 PROVE  /\ file[q].id \notin torn' => p \in DOMAIN file'[q].page
                        /\ Unharmed(file[q].id)' => file'[q].page[p] = file[q].id
      BY <1>1, <1>2 DEF HeaderCovered, Unharmed
    <2>1. CASE q = path
      BY <2>1 DEF Counts
    <2>2. CASE q # path
      <3>1. /\ file[q].id \notin torn => p \in DOMAIN file[q].page
            /\ Unharmed(file[q].id) => file[q].page[p] = file[q].id
        BY <2>2, <1>4 DEF IInv, FileInv, HeaderCovered
      <3>2. file[q].id \notin torn' => p \in DOMAIN file'[q].page
        BY <3>1, <1>1
      <3>3. Unharmed(file[q].id)' => Unharmed(file[q].id) /\ p \in DOMAIN file[q].page
        BY <3>1, <1>2 DEF Unharmed
      <3> QED BY <3>1, <3>2, <3>3 DEF Grown
    <2> QED BY <2>1, <2>2
  <1>9. \A p : \A fd \in DOMAIN handle : fd2path[fd] \in RecordFiles /\ OnDisk(file, fd, p) => OnDisk(file', fd, p)
    <2> SUFFICES ASSUME NEW fd \in DOMAIN handle, NEW p, fd2path[fd] \in RecordFiles, OnDisk(file, fd, p)
                 PROVE  OnDisk(file', fd, p)
      OBVIOUS
    <2>1. fd2path[fd] \in DOMAIN file /\ file[fd2path[fd]].id = handle[fd].id
      BY DEF IInv, TablesAgree
    <2> QED BY <2>1, <1>1 DEF Grown, OnDisk
  <1> QED BY <1>2, <1>3, <1>5, <1>6, <1>7, <1>8, <1>9 DEF FileInv

\* UpdatePage writes the victim, if it is dirty, and nothing else.
LEMMA EvictedFile ==
  ASSUME IInv, NEW f \in Frames, NEW g, g = Evicted(f)
  PROVE  /\ Grown(g) /\ \A q \in DOMAIN file : g[q].num_pages = file[q].num_pages
         /\ frame[f].dirty /\ frame[f].p >= 1 =>
              /\ frame[f].p \in DOMAIN g[fd2path[frame[f].fd]].page
              /\ Sound(frame[f].fd) => g[fd2path[frame[f].fd]].page[frame[f].p] = handle[frame[f].fd].id
  <1>1. CASE ~frame[f].dirty
    <2>1. g = file
      BY <1>1 DEF Evicted
    <2>2. Grown(file)
      BY DEF Grown, IInv, FileInv, FileShapes, FilesOwn
    <2> QED BY <1>1, <2>1, <2>2
  <1>2. CASE frame[f].dirty
    <2> PICK fd, fs : fd = frame[f].fd /\ fs = {f}
      OBVIOUS
    <2>1. fd \in DOMAIN handle /\ fs \in SUBSET PagesOf(fd)
      BY <1>2 DEF IInv, DirtyHeld, PagesOf
    <2>2. g = Written(fd, fs)
      BY <1>2 DEF Evicted
    <2>3. /\ Grown(g) /\ Counts(g, fd2path[fd], file[fd2path[fd]].num_pages)
          /\ \A e \in fs : frame[e].p >= 1 =>
                /\ frame[e].p \in DOMAIN g[fd2path[fd]].page
                /\ Sound(fd) => g[fd2path[fd]].page[frame[e].p] = handle[fd].id
      BY <2>1, <2>2, WrittenFile
    <2> QED BY <2>3 DEF Counts
  <1> QED BY <1>1, <1>2

-----------------------------------------------------------------------------
\* The handle of fd, and only it, may count another number of pages.
Recounted(fd, n) ==
  /\ DOMAIN handle' = DOMAIN handle
  /\ \A g \in DOMAIN handle : handle'[g].id = handle[g].id
  /\ \A g \in DOMAIN handle \ {fd} : handle'[g] = handle[g]
  /\ handle'[fd] = [id |-> handle[fd].id, num_pages |-> n]

LEMMA PageIs ==
  ASSUME NEW fd, NEW p, NEW id, NEW dirty \in BOOLEAN, NEW lost, NEW page,
         page = Page(fd, p, id, dirty, lost)
  PROVE  page.fd = fd /\ page.p = p /\ page.id = id /\ page.dirty = dirty
  BY DEF Page

\* UpdatePage gives a frame another page: one of a file that is open, which if the
\* file is an unharmed record file is its own, counted, and in no frame yet.
LEMMA UpdateKeeps ==
  ASSUME IInv, NEW f \in Frames, NEW fd \in DOMAIN handle, NEW p \in Nat, NEW id,
         NEW dirty \in BOOLEAN, NEW lost, NEW n \in Nat,
         UpdatePage(f, Page(fd, p, id, dirty, lost)), Recounted(fd, n),
         UNCHANGED <<created, tables, tainted, torn>>, strayed \subseteq strayed',
         fd2pageno' \in [Fds -> Nat], NumbersGoOn',
         id \notin {handle[fd].id, Zeros} => handle[fd].id \in tainted,
         fd2path[fd] \in RecordFiles /\ Unharmed(handle[fd].id)' =>
           id = handle[fd].id /\ p < n /\ <<fd, p>> \notin DOMAIN table,
         fd2path[fd] \in RecordFiles =>
           n = handle[fd].num_pages \/ (n = p + 1 /\ p = handle[fd].num_pages /\ dirty)
  PROVE  IInv'
  <1> PICK new : new = Page(fd, p, id, dirty, lost)
    OBVIOUS
  <1> PICK x : x = <<frame[f].fd, frame[f].p>>
    OBVIOUS
  <1>1. new.fd = fd /\ new.p = p /\ new.id = id /\ new.dirty = dirty
    BY DEF Page
  <1>2. /\ DOMAIN frame' = Frames /\ frame'[f] = new
        /\ \A e \in Frames \ {f} : frame'[e] = frame[e]
    BY DEF UpdatePage, IInv, Shapes
  <1>3. /\ DOMAIN table' = (DOMAIN table \ {x}) \cup {<<fd, p>>}
        /\ table'[<<fd, p>>] = f
        /\ \A y \in DOMAIN table' : y # <<fd, p>> => y \in DOMAIN table /\ y # x /\ table'[y] = table[y]
    BY <1>1 DEF UpdatePage, Put, Erase
  <1>4. UNCHANGED <<path2fd, fd2path>>
    BY DEF tables
  <1>5. /\ Grown(file') /\ \A q \in DOMAIN file : file'[q].num_pages = file[q].num_pages
        /\ frame[f].dirty /\ frame[f].p >= 1 =>
              /\ frame[f].p \in DOMAIN file'[fd2path[frame[f].fd]].page
              /\ Sound(frame[f].fd) =>
                   file'[fd2path[frame[f].fd]].page[frame[f].p] = handle[frame[f].fd].id
    <2> PICK g : g = Evicted(f)
      OBVIOUS
    <2>1. g = file'
      BY DEF UpdatePage
    <2> QED BY <2>1, EvictedFile
  <1>6. fd2path[fd] \in DOMAIN file /\ file[fd2path[fd]].id = handle[fd].id
    BY DEF IInv, TablesAgree
  <1>7. /\ FileInv'
        /\ \A q \in DOMAIN file : file'[q].id = file[q].id
        /\ \A i : Unharmed(i)' => Unharmed(i)
        /\ \A q : \A g \in DOMAIN handle : fd2path[g] \in RecordFiles /\ OnDisk(file, g, q) =>
              OnDisk(file', g, q)
    <2> PICK path, m : path = fd2path[fd] /\ m = file[path].num_pages
      OBVIOUS
    <2>1. Counts(file', path, m) /\ m \in Nat
      BY <1>5, <1>6 DEF Counts, IInv, FileInv, FileShapes
    <2>2. path \in DOMAIN file \cap RecordFiles => \A q \in 1..(m - 1) :
           /\ file[path].id \notin torn' => q \in DOMAIN file'[path].page
           /\ Unharmed(file[path].id)' => file'[path].page[q] = file[path].id
      <3> SUFFICES ASSUME path \in DOMAIN file \cap RecordFiles, NEW q \in 1..(m - 1)
                   PROVE  /\ file[path].id \notin torn' => q \in DOMAIN file'[path].page
                          /\ Unharmed(file[path].id)' => file'[path].page[q] = file[path].id
        OBVIOUS
      <3>1. /\ file[path].id \notin torn => q \in DOMAIN file[path].page
            /\ Unharmed(file[path].id) => file[path].page[q] = file[path].id
        BY DEF IInv, FileInv, HeaderCovered
      <3>2. file'[path] = [id |-> file[path].id, num_pages |-> file'[path].num_pages,
                           page |-> file'[path].page]
        BY <1>5 DEF Grown
      <3>3. file'[path].id = file[path].id
        BY <3>2
      <3>4. Unharmed(file[path].id)' => Unharmed(file[path].id)
        BY <3>3 DEF Unharmed
      <3>5. Unharmed(file[path].id) => file[path].id \notin torn
        BY DEF Unharmed
      <3> QED BY <3>1, <3>4, <3>5, <1>5 DEF Grown
    <2> QED BY <2>1, <2>2, <1>5, FilesGrow
  <1>8. \A g \in DOMAIN handle : Sound(g)' => Sound(g)
    BY <1>4, <1>7 DEF Sound, Recounted
  <1>9. Shapes'
    <2>1. \A e \in Frames : frame'[e].p \in Nat /\ frame'[e].dirty \in BOOLEAN
      BY <1>1, <1>2 DEF IInv, Shapes
    <2>2. handle'[fd].num_pages = n /\ handle'[fd].id = handle[fd].id
      BY DEF Recounted
    <2>3. \A g \in DOMAIN handle' : /\ handle'[g] = [id |-> handle'[g].id, num_pages |-> handle'[g].num_pages]
                                    /\ handle'[g].num_pages \in Nat
      <3> TAKE g \in DOMAIN handle'
      <3>1. CASE g = fd
        BY <3>1, <2>2 DEF Recounted
      <3>2. CASE g # fd
        BY <3>2 DEF Recounted, IInv, Shapes
      <3> QED BY <3>1, <3>2
    <2> QED BY <2>1, <2>3, <1>2, <1>4 DEF IInv, Shapes
  <1>10. TablesAgree'
    <2>1. \A g \in DOMAIN handle : fd2path[g] \in DOMAIN file
      BY DEF IInv, TablesAgree
    <2>2. DOMAIN file' = DOMAIN file
      BY <1>5 DEF Grown
    <2> QED BY <2>1, <2>2, <1>4, <1>7 DEF IInv, TablesAgree, Recounted, Open
  <1>11. FramesOwn'
    BY <1>1, <1>2 DEF IInv, FramesOwn, Recounted
  <1>12. DirtyHeld'
    BY <1>1, <1>2 DEF IInv, DirtyHeld, Recounted
  <1>13. TableRight'
    <2> SUFFICES ASSUME NEW y \in DOMAIN table'
                 PROVE  table'[y] \in Frames /\ y = <<frame'[table'[y]].fd, frame'[table'[y]].p>>
      BY DEF TableRight
    <2>1. CASE y = <<fd, p>>
      BY <2>1, <1>1, <1>2, <1>3
    <2>2. CASE y # <<fd, p>>
      <3>1. y \in DOMAIN table /\ y # x /\ table'[y] = table[y]
        BY <2>2, <1>3
      <3>2. table[y] \in Frames /\ y = <<frame[table[y]].fd, frame[table[y]].p>>
        BY <3>1 DEF IInv, TableRight
      <3>3. table[y] # f
        BY <3>1, <3>2
      <3> QED BY <3>1, <3>2, <3>3, <1>2
    <2> QED BY <2>1, <2>2
  <1>14. FramesRight'
    <2> SUFFICES ASSUME NEW e \in Frames, Sound(frame[e].fd)'
                 PROVE  /\ frame'[e].id = handle'[frame'[e].fd].id
                        /\ frame'[e].p < handle'[frame'[e].fd].num_pages
                        /\ Found(e)'
      BY DEF FramesRight
    <2>1. CASE e = f
      <3>1. frame'[e].fd = fd /\ frame'[e].p = p /\ frame'[e].id = id
        BY <2>1, <1>1, <1>2
      <3>2. fd2path[fd] \in RecordFiles /\ Unharmed(handle[fd].id)'
        BY <3>1, <1>4 DEF Sound
      <3>3. handle'[fd].num_pages = n /\ handle'[fd].id = handle[fd].id
        BY DEF Recounted
      <3>4. Found(e)'
        BY <2>1, <3>1, <1>3 DEF Found
      <3> QED BY <3>1, <3>2, <3>3, <3>4
    <2>2. CASE e # f
      <3>1. frame'[e] = frame[e]
        BY <2>2, <1>2
      <3>2. Sound(frame[e].fd) /\ frame[e].fd \in DOMAIN handle
        BY <3>1, <1>8 DEF Sound, Recounted
      <3>3. /\ frame[e].id = handle[frame[e].fd].id
            /\ frame[e].p < handle[frame[e].fd].num_pages
            /\ <<frame[e].fd, frame[e].p>> \in DOMAIN table /\ table[<<frame[e].fd, frame[e].p>>] = e
        BY <3>2 DEF IInv, FramesRight, Found
      <3>4. <<frame[e].fd, frame[e].p>> # x
        <4> SUFFICES ASSUME <<frame[e].fd, frame[e].p>> = x PROVE FALSE
          OBVIOUS
        <4>1. frame[f].fd = frame[e].fd /\ frame[f].p = frame[e].p
          OBVIOUS
        <4>2. <<frame[f].fd, frame[f].p>> \in DOMAIN table /\ table[<<frame[f].fd, frame[f].p>>] = f
          BY <3>2, <4>1 DEF IInv, FramesRight, Found
        <4> QED BY <4>1, <4>2, <3>3, <2>2
      <3>5. <<frame[e].fd, frame[e].p>> # <<fd, p>>
        <4> SUFFICES ASSUME frame[e].fd = fd, frame[e].p = p PROVE FALSE
          OBVIOUS
        <4>1. fd2path[fd] \in RecordFiles /\ Unharmed(handle[fd].id)'
          BY <3>1, <1>4 DEF Sound
        <4> QED BY <4>1, <3>3
      <3>6. Found(e)'
        BY <3>1, <3>3, <3>4, <3>5, <1>3 DEF Found
      <3>7. frame[e].p < handle'[frame[e].fd].num_pages
        <4>1. CASE frame[e].fd = fd
          <5>1. handle'[fd].num_pages = n /\ frame[e].p \in Nat /\ handle[fd].num_pages \in Nat
            BY DEF Recounted, IInv, Shapes
          <5> QED BY <4>1, <5>1, <3>2, <3>3 DEF Sound
        <4>2. CASE frame[e].fd # fd
          BY <4>2, <3>2, <3>3 DEF Recounted
        <4> QED BY <4>1, <4>2
      <3> QED BY <3>1, <3>2, <3>3, <3>6, <3>7 DEF Recounted
    <2> QED BY <2>1, <2>2
  <1>15. PagesThere'
    <2> SUFFICES ASSUME NEW g \in DOMAIN handle, fd2path[g] \in RecordFiles, handle[g].id \notin torn,
                        NEW q \in 1..(handle'[g].num_pages - 1)
                 PROVE  OnDisk(file, g, q)' \/ InDirtyFrame(g, q)'
      BY <1>4 DEF PagesThere, Recounted
    <2>0. OnDisk(file', g, q) => OnDisk(file, g, q)'
      BY <1>4, <1>7 DEF OnDisk, Recounted
    <2>1. CASE g = fd /\ q = p /\ dirty
      BY <2>1, <1>1, <1>2 DEF InDirtyFrame
    <2>2. CASE ~(g = fd /\ q = p /\ dirty)
      <3>1. q \in 1..(handle[g].num_pages - 1)
        <4>1. CASE g # fd
          BY <4>1 DEF Recounted
        <4>2. CASE g = fd
          <5>1. handle'[fd].num_pages = n /\ handle[fd].num_pages \in Nat
            BY DEF Recounted, IInv, Shapes
          <5> QED BY <4>2, <5>1, <2>2
        <4> QED BY <4>1, <4>2
      <3>2. OnDisk(file, g, q) \/ InDirtyFrame(g, q)
        BY <3>1 DEF IInv, PagesThere
      <3>3. CASE OnDisk(file, g, q)
        BY <3>3, <2>0, <1>7
      <3>4. CASE InDirtyFrame(g, q)
        <4>1. PICK e \in Frames : frame[e].fd = g /\ frame[e].p = q /\ frame[e].dirty
          BY <3>4 DEF InDirtyFrame
        <4>2. CASE e # f
          BY <4>1, <4>2, <1>2 DEF InDirtyFrame
        <4>3. CASE e = f
          <5>1. Unharmed(handle[g].id) => Sound(g)
            BY DEF Sound
          <5>2. OnDisk(file', g, q)
            BY <4>1, <4>3, <5>1, <1>5 DEF OnDisk
          <5> QED BY <5>2, <2>0
        <4> QED BY <4>2, <4>3
      <3> QED BY <3>2, <3>3, <3>4
    <2> QED BY <2>1, <2>2
  <1> QED BY <1>7, <1>9, <1>10, <1>11, <1>12, <1>13, <1>14, <1>15 DEF IInv

\* NewPage: the next number of a record file is the first that it does not count,
\* which no frame of an unharmed one has.
LEMMA NewPageKeeps == ASSUME IInv, NEW fd \in Fds, NewPage(fd) PROVE IInv'
  <1> PICK p, id, n : p = fd2pageno[fd] /\ id = handle[fd].id /\ n = handle[fd].num_pages
    OBVIOUS
  <1>1. /\ fd \in DOMAIN handle /\ p \in Nat /\ n \in Nat
        /\ handle[fd] = [id |-> id, num_pages |-> n]
    BY DEF NewPage, IInv, Shapes
  <1>2. PICK f \in Frames : UpdatePage(f, Page(fd, p, id, TRUE, FALSE))
    BY DEF NewPage
  <1>3. UNCHANGED <<created, tables, tainted, torn, strayed>> /\ fd2path' = fd2path
    BY DEF NewPage, tables, history
  <1>4. /\ fd2pageno' \in [Fds -> Nat] /\ fd2pageno'[fd] = p + 1
        /\ \A g \in Fds \ {fd} : fd2pageno'[g] = fd2pageno[g]
    BY <1>1 DEF NewPage, IInv, Shapes
  <1> PICK m : m = IF fd2path[fd] \in RecordFiles THEN n + 1 ELSE n
    OBVIOUS
  <1>5. Recounted(fd, m)
    <2>1. CASE fd2path[fd] \in RecordFiles
      <3>1. [handle[fd] EXCEPT !.num_pages = @ + 1] = [id |-> id, num_pages |-> n + 1]
        BY <1>1
      <3>2. handle' = [handle EXCEPT ![fd] = [id |-> id, num_pages |-> n + 1]]
        BY <2>1, <3>1 DEF NewPage
      <3>3. /\ DOMAIN handle' = DOMAIN handle
            /\ handle'[fd] = [id |-> id, num_pages |-> n + 1]
            /\ \A g \in DOMAIN handle \ {fd} : handle'[g] = handle[g]
        BY <3>2, <1>1
      <3>4. handle'[fd].id = id
        BY <3>3
      <3> QED BY <2>1, <3>3, <3>4 DEF Recounted
    <2>2. CASE fd2path[fd] \notin RecordFiles
      <3>1. handle' = handle
        BY <2>2 DEF NewPage
      <3> QED BY <2>2, <3>1, <1>1 DEF Recounted
    <2> QED BY <2>1, <2>2
  <1>6. fd2path[fd] \in RecordFiles => handle'[fd].num_pages = n + 1
    BY <1>5 DEF Recounted
  <1>7. fd2path[fd] \in RecordFiles => p = n
    BY <1>1 DEF IInv, NumbersGoOn
  <1>8. NumbersGoOn'
    <2> SUFFICES ASSUME NEW g \in DOMAIN handle, fd2path[g] \in RecordFiles
                 PROVE  fd2pageno'[g] = handle'[g].num_pages
      BY <1>3, <1>5 DEF NumbersGoOn, Recounted
    <2>1. CASE g = fd
      BY <2>1, <1>4, <1>6, <1>7
    <2>2. CASE g # fd
      BY <2>2, <1>4, <1>5 DEF IInv, NumbersGoOn, Recounted, TablesAgree, Open, Shapes
    <2> QED BY <2>1, <2>2
  <1>9. fd2path[fd] \in RecordFiles /\ Unharmed(handle[fd].id)' => <<fd, p>> \notin DOMAIN table
    <2> SUFFICES ASSUME fd2path[fd] \in RecordFiles, Unharmed(handle[fd].id)', <<fd, p>> \in DOMAIN table
                 PROVE  FALSE
      OBVIOUS
    <2>1. Sound(fd)
      BY <1>1, <1>3, <1>5 DEF Sound, Unharmed, Recounted
    <2>2. PICK e \in Frames : frame[e].fd = fd /\ frame[e].p = p
      BY DEF IInv, TableRight
    <2>3. frame[e].p < n
      BY <2>1, <2>2 DEF IInv, FramesRight
    <2> QED BY <2>2, <2>3, <1>1, <1>7
  <1>10. /\ m \in Nat
         /\ fd2path[fd] \in RecordFiles => p < m /\ m = p + 1 /\ p = handle[fd].num_pages
    BY <1>1, <1>7
  <1> QED BY <1>1, <1>2, <1>3, <1>4, <1>5, <1>8, <1>9, <1>10, UpdateKeeps

\* FetchPage, a miss: what is read was on disk after the eviction, which a page
\* that an unharmed record file counts was if no frame has it.
LEMMA FetchKeeps == ASSUME IInv, NEW fd, NEW p \in Nat \ {0}, Fetch(fd, p) PROVE IInv'
  <1>1. /\ fd \in DOMAIN handle
        /\ <<fd, p>> \notin DOMAIN table
        /\ UNCHANGED <<created, tables, handle, fd2pageno, tainted, torn>>
        /\ fd2path' = fd2path
        /\ strayed \subseteq strayed'
        /\ fd2path[fd] \in RecordFiles /\ p >= handle[fd].num_pages => handle[fd].id \in strayed'
    BY DEF Fetch, tables
  <1> DEFINE Held(f, page) == IF p \in DOMAIN page THEN Page(fd, p, page[p], FALSE, FALSE)
                              ELSE Page(fd, p, Zeros, FALSE, TRUE)
  <1>2. PICK f \in Frames : UpdatePage(f, Held(f, Evicted(f)[fd2path[fd]].page))
    BY DEF Fetch
  <1> PICK g : g = Evicted(f)
    OBVIOUS
  <1> PICK page : page = g[fd2path[fd]].page
    OBVIOUS
  <1>3. UpdatePage(f, Held(f, page))
    BY <1>2
  <1>4. fd2path[fd] \in DOMAIN file /\ file[fd2path[fd]].id = handle[fd].id
    BY <1>1 DEF IInv, TablesAgree
  <1>5. Grown(g)
    BY EvictedFile
  <1>6. \A q \in DOMAIN page : page[q] \notin {handle[fd].id, Zeros} => handle[fd].id \in tainted
    BY <1>4, <1>5 DEF Grown
  <1>7. ASSUME fd2path[fd] \in RecordFiles, Unharmed(handle[fd].id)'
        PROVE  p \in DOMAIN page /\ page[p] = handle[fd].id /\ p < handle[fd].num_pages
    <2>1. p < handle[fd].num_pages /\ Sound(fd) /\ handle[fd].id \notin torn
      BY <1>1, <1>7 DEF Unharmed, Sound, IInv, Shapes
    <2>2. ~InDirtyFrame(fd, p)
      BY <1>1, <2>1 DEF IInv, FramesRight, Found, InDirtyFrame
    <2>3. p \in 1..(handle[fd].num_pages - 1)
      BY <1>1, <2>1 DEF IInv, Shapes
    <2>4. OnDisk(file, fd, p)
      BY <1>1, <1>7, <2>1, <2>2, <2>3 DEF IInv, PagesThere
    <2> QED BY <2>1, <2>4, <1>4, <1>5, <1>7 DEF OnDisk, Sound, Grown
  <1> PICK n : n = handle[fd].num_pages
    OBVIOUS
  <1>8. n \in Nat /\ Recounted(fd, n)
    BY <1>1 DEF IInv, Shapes, Recounted
  <1>9. NumbersGoOn' /\ fd2pageno' \in [Fds -> Nat]
    BY <1>1 DEF IInv, Shapes, NumbersGoOn
  <1>10. CASE p \in DOMAIN page
    <2> PICK id : id = page[p]
      OBVIOUS
    <2>1. UpdatePage(f, Page(fd, p, id, FALSE, FALSE))
      BY <1>3, <1>10
    <2> HIDE DEF Held
    <2> QED BY <1>1, <1>6, <1>7, <1>8, <1>9, <1>10, <2>1, UpdateKeeps
  <1>11. CASE p \notin DOMAIN page
    <2> PICK id : id = Zeros
      OBVIOUS
    <2>1. UpdatePage(f, Page(fd, p, id, FALSE, TRUE))
      BY <1>3, <1>11
    <2> HIDE DEF Held
    <2> QED BY <1>1, <1>7, <1>8, <1>9, <1>11, <2>1, UpdateKeeps
  <1> QED BY <1>10, <1>11

LEMMA UseKeeps == ASSUME IInv, NEW fd, NEW p, NEW is_dirty \in BOOLEAN, Use(fd, p, is_dirty) PROVE IInv'
  <1> PICK f : f = table[<<fd, p>>]
    OBVIOUS
  <1>0. PICK dirty \in BOOLEAN : dirty = (frame[f].dirty \/ is_dirty)
    OBVIOUS
  <1>1. /\ fd \in DOMAIN handle
        /\ UNCHANGED <<file, created, path2fd, fd2path, handle, fd2pageno, table, tainted, torn, strayed>>
    BY DEF Use, tables, history
  <1>2. f \in Frames /\ frame[f].fd = fd /\ frame[f].p = p
    BY DEF Use, IInv, TableRight
  <1>3. /\ DOMAIN frame' = Frames
        /\ \A e \in Frames : e # f => frame'[e] = frame[e]
        /\ frame'[f] = Page(frame[f].fd, frame[f].p, frame[f].id, dirty, FALSE)
    BY <1>0, <1>2 DEF Use, IInv, Shapes
  <1>4. /\ frame'[f].fd = frame[f].fd /\ frame'[f].p = frame[f].p
        /\ frame'[f].id = frame[f].id /\ frame'[f].dirty = dirty
    <2> PICK new, a, b, c : new = frame'[f] /\ a = frame[f].fd /\ b = frame[f].p /\ c = frame[f].id
      OBVIOUS
    <2>1. new = Page(a, b, c, dirty, FALSE)
      BY <1>3 DEF Page
    <2>2. new.fd = a /\ new.p = b /\ new.id = c /\ new.dirty = dirty
      BY <2>1 DEF Page
    <2> QED BY <2>2
  <1>5. \A e \in Frames : /\ frame'[e].fd = frame[e].fd /\ frame'[e].p = frame[e].p
                           /\ frame'[e].id = frame[e].id
    BY <1>3, <1>4
  <1>6. \A e \in Frames : (frame[e].dirty => frame'[e].dirty) /\ frame'[e].dirty \in BOOLEAN
    BY <1>0, <1>3, <1>4 DEF IInv, Shapes
  <1>7. FileInv'
    BY <1>1 DEF IInv, FileInv, FileShapes, IdsDiffer, FilesOwn, HeaderCovered, Unharmed
  <1>8. Shapes'
    BY <1>1, <1>3, <1>5, <1>6 DEF IInv, Shapes
  <1>9. TablesAgree' /\ NumbersGoOn'
    BY <1>1 DEF IInv, TablesAgree, NumbersGoOn, Open
  <1>10. FramesOwn' /\ TableRight'
    BY <1>1, <1>5 DEF IInv, FramesOwn, TableRight
  <1>11. DirtyHeld'
    <2> SUFFICES ASSUME NEW e \in Frames, frame'[e].dirty PROVE frame[e].fd \in DOMAIN handle
      BY <1>1, <1>5 DEF DirtyHeld
    <2>1. CASE e = f
      BY <2>1, <1>1, <1>2
    <2>2. CASE e # f
      BY <2>2, <1>3 DEF IInv, DirtyHeld
    <2> QED BY <2>1, <2>2
  <1>12. FramesRight'
    BY <1>1, <1>5 DEF IInv, FramesRight, Sound, Unharmed, Found
  <1>13. PagesThere'
    BY <1>1, <1>5, <1>6 DEF IInv, PagesThere, OnDisk, Unharmed, InDirtyFrame
  <1> QED BY <1>7, <1>8, <1>9, <1>10, <1>11, <1>12, <1>13 DEF IInv

\* A node given back is written, and its frame is free: the file is an index.
LEMMA DeleteNodeKeeps == ASSUME IInv, NEW fd \in Fds, NEW p, DeleteNode(fd, p) PROVE IInv'
  <1> PICK f, fs, n : f = table[<<fd, p>>] /\ fs = {f} /\ n = handle[fd].num_pages
    OBVIOUS
  <1>1. /\ fd \in DOMAIN handle /\ fd2path[fd] \in IndexFiles /\ <<fd, p>> \in DOMAIN table
        /\ n \in Nat /\ handle' = handle
        /\ UNCHANGED <<created, path2fd, fd2path, fd2pageno, tainted, torn, strayed>>
    BY DEF DeleteNode, tables, history, IInv, Shapes
  <1>2. f \in Frames /\ frame[f].fd = fd /\ frame[f].p = p
    BY <1>1 DEF IInv, TableRight
  <1>3. fd2path[fd] \notin RecordFiles /\ ~Sound(fd)
    BY <1>1 DEF Sound
  <1>4. /\ DOMAIN frame' = Frames /\ frame'[f] = Free
        /\ \A e \in Frames \ {f} : frame'[e] = frame[e]
    BY <1>2 DEF DeleteNode, IInv, Shapes
  <1>5. Free.fd = 0 /\ Free.p = 0 /\ Free.dirty \in BOOLEAN /\ ~Free.dirty /\ Free.id = Zeros
    BY DEF Free, Page
  <1>6. Recounted(fd, n)
    BY <1>1 DEF Recounted, IInv, Shapes
  <1>7. fs \in SUBSET PagesOf(fd)
    BY <1>2 DEF PagesOf
  <1>8. Grown(file') /\ Counts(file', fd2path[fd], file[fd2path[fd]].num_pages)
    <2> PICK g : g = Written(fd, fs)
      OBVIOUS
    <2>1. g = file'
      BY DEF DeleteNode
    <2> QED BY <2>1, <1>1, <1>7, WrittenFile
  <1>9. /\ FileInv'
        /\ \A q \in DOMAIN file : file'[q].id = file[q].id
        /\ \A q : \A g \in DOMAIN handle : fd2path[g] \in RecordFiles /\ OnDisk(file, g, q) =>
              OnDisk(file', g, q)
    <2> PICK path, m : path = fd2path[fd] /\ m = file[path].num_pages
      OBVIOUS
    <2>1. m \in Nat /\ path \notin RecordFiles
      BY <1>1, <1>3 DEF IInv, FileInv, FileShapes, TablesAgree
    <2> QED BY <2>1, <1>1, <1>8, FilesGrow
  <1>10. DOMAIN file' = DOMAIN file
    BY <1>8 DEF Grown
  <1>11. /\ DOMAIN table' = DOMAIN table \ {<<fd, p>>}
         /\ \A y \in DOMAIN table' : table'[y] = table[y]
    BY DEF DeleteNode, Erase
  <1>12. \A g \in DOMAIN handle : Sound(g)' => Sound(g) /\ g # fd /\ handle'[g] = handle[g]
    BY <1>1, <1>3, <1>6 DEF Sound, Recounted, Unharmed
  <1>13. Shapes'
    <2>2. \A g \in DOMAIN handle' : /\ handle'[g] = [id |-> handle'[g].id, num_pages |-> handle'[g].num_pages]
                                    /\ handle'[g].num_pages \in Nat
      BY <1>1 DEF IInv, Shapes
    <2>3. \A e \in Frames : frame'[e].p \in Nat /\ frame'[e].dirty \in BOOLEAN
      BY <1>4, <1>5, 0 \in Nat DEF IInv, Shapes
    <2> QED BY <2>2, <2>3, <1>1, <1>4 DEF IInv, Shapes
  <1>14. TablesAgree'
    <2>1. \A g \in DOMAIN handle : fd2path[g] \in DOMAIN file
      BY DEF IInv, TablesAgree
    <2> QED BY <2>1, <1>1, <1>6, <1>9, <1>10 DEF IInv, TablesAgree, Recounted, Open
  <1>15. FramesOwn'
    BY <1>1, <1>4, <1>5, <1>6 DEF IInv, FramesOwn, Recounted
  <1>16. DirtyHeld'
    BY <1>4, <1>5, <1>6 DEF IInv, DirtyHeld, Recounted
  <1>17. TableRight'
    <2> SUFFICES ASSUME NEW y \in DOMAIN table'
                 PROVE  table[y] \in Frames /\ y = <<frame'[table[y]].fd, frame'[table[y]].p>>
      BY <1>11 DEF TableRight
    <2>1. table[y] \in Frames /\ y = <<frame[table[y]].fd, frame[table[y]].p>> /\ y # <<fd, p>>
      BY <1>11 DEF IInv, TableRight
    <2> QED BY <2>1, <1>2, <1>4
  <1>18. NumbersGoOn'
    BY <1>1, <1>3, <1>6 DEF IInv, NumbersGoOn, Recounted
  <1>19. FramesRight'
    <2> SUFFICES ASSUME NEW e \in Frames, Sound(frame[e].fd)'
                 PROVE  /\ frame'[e].id = handle'[frame'[e].fd].id
                        /\ frame'[e].p < handle'[frame'[e].fd].num_pages
                        /\ Found(e)'
      BY DEF FramesRight
    <2>1. frame'[e].fd \in DOMAIN handle
      BY <1>6 DEF Sound, Recounted
    <2>2. e # f
      <3> SUFFICES ASSUME e = f PROVE FALSE
        OBVIOUS
      <3>1. 0 \in DOMAIN handle
        BY <2>1, <1>4, <1>5
      <3> QED BY <3>1 DEF IInv, TablesAgree, Shapes, Open, Fds
    <2>3. frame'[e] = frame[e]
      BY <2>2, <1>4
    <2>4. Sound(frame[e].fd) /\ frame[e].fd # fd /\ handle'[frame[e].fd] = handle[frame[e].fd]
      BY <2>1, <2>3, <1>12
    <2>5. frame[e].id = handle[frame[e].fd].id /\ frame[e].p < handle[frame[e].fd].num_pages /\ Found(e)
      BY <2>4 DEF IInv, FramesRight
    <2>6. Found(e)'
      BY <2>3, <2>4, <2>5, <1>11 DEF Found
    <2> QED BY <2>3, <2>4, <2>5, <2>6
  <1>20. PagesThere'
    <2> SUFFICES ASSUME NEW g \in DOMAIN handle, fd2path[g] \in RecordFiles, handle[g].id \notin torn,
                        NEW q \in 1..(handle'[g].num_pages - 1)
                 PROVE  OnDisk(file, g, q)' \/ InDirtyFrame(g, q)'
      BY <1>1, <1>6 DEF PagesThere, Recounted
    <2>1. g # fd /\ handle'[g] = handle[g]
      BY <1>3, <1>6 DEF Recounted
    <2>2. OnDisk(file, g, q) \/ InDirtyFrame(g, q)
      BY <2>1 DEF IInv, PagesThere
    <2>3. OnDisk(file', g, q) => OnDisk(file, g, q)'
      BY <2>1, <1>1 DEF OnDisk, Unharmed
    <2>4. InDirtyFrame(g, q) => InDirtyFrame(g, q)'
      BY <2>1, <1>2, <1>4 DEF InDirtyFrame
    <2> QED BY <2>2, <2>3, <2>4, <1>9
  <1> QED BY <1>9, <1>13, <1>14, <1>15, <1>16, <1>17, <1>18, <1>19, <1>20 DEF IInv

\* After a close every page that the header counts is on disk: those that were
\* not have been in the pool under the descriptor, and FlushAllPages wrote them.
LEMMA CloseKeeps == ASSUME IInv, NEW fd \in Fds, Close(fd) PROVE IInv'
  <1> PICK path, fs, n : path = fd2path[fd] /\ fs = PagesOf(fd) /\ n = handle[fd].num_pages
    OBVIOUS
  <1>1. /\ fd \in DOMAIN handle
        /\ UNCHANGED <<created, fd2pageno, table, tainted, torn, strayed>>
        /\ DOMAIN path2fd' = DOMAIN path2fd \ {path}
        /\ \A q \in DOMAIN path2fd' : path2fd'[q] = path2fd[q]
        /\ DOMAIN fd2path' = DOMAIN fd2path \ {fd}
        /\ \A g \in DOMAIN fd2path' : fd2path'[g] = fd2path[g]
        /\ DOMAIN handle' = DOMAIN handle \ {fd}
        /\ \A g \in DOMAIN handle' : handle'[g] = handle[g]
    BY DEF Close, Erase, history
  <1>2. file' = Saved(fd, fs) /\ fs \in SUBSET PagesOf(fd)
    BY DEF Close
  <1>3. n \in Nat /\ path \in DOMAIN file /\ file[path].id = handle[fd].id
    BY <1>1 DEF IInv, Shapes, TablesAgree
  <1>4. /\ Grown(file') /\ Counts(file', path, n)
        /\ \A f \in fs : frame[f].p >= 1 =>
              /\ frame[f].p \in DOMAIN file'[path].page
              /\ Sound(fd) => file'[path].page[frame[f].p] = handle[fd].id
    <2> PICK g : g = Saved(fd, fs)
      OBVIOUS
    <2>1. g = file'
      BY <1>2
    <2> QED BY <2>1, <1>1, <1>2, SavedFile
  <1>5. path \in DOMAIN file \cap RecordFiles => \A p \in 1..(n - 1) :
           /\ file[path].id \notin torn' => p \in DOMAIN file'[path].page
           /\ Unharmed(file[path].id)' => file'[path].page[p] = file[path].id
    <2> SUFFICES ASSUME path \in RecordFiles, NEW p \in 1..(n - 1), handle[fd].id \notin torn
                 PROVE  /\ p \in DOMAIN file'[path].page
                        /\ Unharmed(handle[fd].id) => file'[path].page[p] = handle[fd].id
      <3>1. file'[path] = [id |-> file[path].id, num_pages |-> file'[path].num_pages,
                           page |-> file'[path].page]
        BY <1>3, <1>4 DEF Grown
      <3>2. file'[path].id = file[path].id
        BY <3>1
      <3> QED BY <3>2, <1>1, <1>3 DEF Unharmed
    <2>1. OnDisk(file, fd, p) \/ InDirtyFrame(fd, p)
      BY <1>1 DEF IInv, PagesThere
    <2>2. CASE OnDisk(file, fd, p)
      BY <2>2, <1>3, <1>4 DEF OnDisk, Grown
    <2>3. CASE InDirtyFrame(fd, p)
      <3>1. PICK f \in fs : frame[f].p = p
        BY <2>3 DEF InDirtyFrame, PagesOf
      <3>2. Unharmed(handle[fd].id) => Sound(fd)
        BY <1>1 DEF Sound
      <3> QED BY <3>1, <3>2, <1>4
    <2> QED BY <2>1, <2>2, <2>3
  <1>6. /\ FileInv'
        /\ \A q \in DOMAIN file : file'[q].id = file[q].id
        /\ \A q : \A g \in DOMAIN handle : fd2path[g] \in RecordFiles /\ OnDisk(file, g, q) =>
              OnDisk(file', g, q)
    BY <1>1, <1>3, <1>4, <1>5, FilesGrow
  <1>7. DOMAIN file' = DOMAIN file
    BY <1>4 DEF Grown
  <1>8. /\ path \in DOMAIN path2fd /\ path2fd[path] = fd /\ fd \in Open
        /\ \A g \in Open : g # fd => fd2path[g] # path
        /\ DOMAIN handle \subseteq Open
    BY <1>1 DEF IInv, TablesAgree
  <1>9. /\ DOMAIN frame' = Frames
        /\ \A f \in Frames : frame[f].fd # fd => frame'[f] = frame[f]
        /\ \A f \in Frames : frame[f].fd = fd =>
             frame'[f] = Page(frame[f].fd, frame[f].p, frame[f].id, FALSE, frame[f].lost)
    BY DEF Close, Cleaned, PagesOf
  <1>10. \A f \in Frames : /\ frame'[f].fd = frame[f].fd /\ frame'[f].p = frame[f].p
                           /\ frame'[f].id = frame[f].id
                           /\ frame[f].fd = fd => frame'[f].dirty \in BOOLEAN /\ ~frame'[f].dirty
    <2> TAKE f \in Frames
    <2>1. CASE frame[f].fd = fd
      <3> PICK new, a, b, c, l : /\ new = frame'[f] /\ a = frame[f].fd /\ b = frame[f].p
                                 /\ c = frame[f].id /\ l = frame[f].lost
        OBVIOUS
      <3> PICK d \in BOOLEAN : d = FALSE
        OBVIOUS
      <3>1. new = Page(a, b, c, d, l)
        BY <2>1, <1>9
      <3>2. new.fd = a /\ new.p = b /\ new.id = c /\ new.dirty = d
        BY <3>1, PageIs
      <3> QED BY <3>2
    <2>2. CASE frame[f].fd # fd
      BY <2>2, <1>9
    <2> QED BY <2>1, <2>2
  <1>11. \A g \in DOMAIN handle' : /\ g \in DOMAIN handle /\ g # fd /\ handle'[g] = handle[g]
                                   /\ g \in Open /\ fd2path'[g] = fd2path[g]
                                   /\ Unharmed(handle[g].id)' => Unharmed(handle[g].id)
    BY <1>1, <1>8 DEF Open, Unharmed
  <1>12. Shapes'
    <2>1. \A f \in Frames : frame'[f].p \in Nat /\ frame'[f].dirty \in BOOLEAN
      BY <1>9, <1>10 DEF IInv, Shapes
    <2> QED BY <2>1, <1>1, <1>9 DEF IInv, Shapes
  <1>13. TablesAgree'
    <2>1. DOMAIN path2fd' \subseteq DOMAIN file'
      BY <1>1, <1>7 DEF IInv, TablesAgree
    <2>2. \A q \in DOMAIN path2fd' : path2fd'[q] \in Open' /\ fd2path'[path2fd'[q]] = q
      BY <1>1, <1>8 DEF IInv, TablesAgree, Open
    <2>3. \A g \in Open' : fd2path'[g] \in DOMAIN path2fd' /\ path2fd'[fd2path'[g]] = g
      BY <1>1, <1>8 DEF IInv, TablesAgree, Open
    <2>4. \A g \in DOMAIN handle : fd2path[g] \in DOMAIN file
      BY DEF IInv, TablesAgree
    <2>5. \A g \in DOMAIN handle' : g \in Open' /\ handle'[g].id = file'[fd2path'[g]].id
      BY <1>1, <1>6, <1>11, <2>4 DEF IInv, TablesAgree, Open
    <2> QED BY <2>1, <2>2, <2>3, <2>5 DEF TablesAgree
  <1>14. FramesOwn'
    BY <1>1, <1>10, <1>11 DEF IInv, FramesOwn
  <1>15. DirtyHeld'
    BY <1>1, <1>9, <1>10 DEF IInv, DirtyHeld
  <1>16. TableRight'
    BY <1>1, <1>10 DEF IInv, TableRight
  <1>17. NumbersGoOn'
    BY <1>1, <1>11 DEF IInv, NumbersGoOn
  <1>18. FramesRight'
    BY <1>1, <1>10, <1>11 DEF IInv, FramesRight, Sound, Found
  <1>19. PagesThere'
    <2> SUFFICES ASSUME NEW g \in DOMAIN handle', fd2path'[g] \in RecordFiles, handle'[g].id \notin torn',
                        NEW q \in 1..(handle'[g].num_pages - 1)
                 PROVE  OnDisk(file, g, q)' \/ InDirtyFrame(g, q)'
      BY DEF PagesThere
    <2>1. OnDisk(file, g, q) \/ InDirtyFrame(g, q)
      BY <1>1, <1>11 DEF IInv, PagesThere
    <2>2. OnDisk(file', g, q) => OnDisk(file, g, q)'
      BY <1>11 DEF OnDisk
    <2>3. InDirtyFrame(g, q) => InDirtyFrame(g, q)'
      BY <1>9, <1>10, <1>11 DEF InDirtyFrame
    <2> QED BY <2>1, <2>2, <2>3, <1>6, <1>11
  <1> QED BY <1>6, <1>12, <1>13, <1>14, <1>15, <1>16, <1>17, <1>18, <1>19 DEF IInv

LEMMA DiesClosingKeeps == ASSUME IInv, NEW fd \in Fds, DiesClosing(fd) PROVE IInv'
  <1>1. PICK k \in 0..PoolSize : file' = Saved(fd, {f \in PagesOf(fd) : f <= k})
    BY DEF DiesClosing
  <1> PICK path, fs, n : /\ path = fd2path[fd] /\ fs = {f \in PagesOf(fd) : f <= k}
                         /\ n = handle[fd].num_pages
    OBVIOUS
  <1>2. /\ fd \in DOMAIN handle /\ Dies
        /\ torn \subseteq torn' /\ (path \in RecordFiles => handle[fd].id \in torn')
        /\ UNCHANGED <<created, tainted, strayed>>
    BY DEF DiesClosing, Dies
  <1>3. n \in Nat /\ path \in DOMAIN file /\ file[path].id = handle[fd].id
    BY <1>2 DEF IInv, Shapes, TablesAgree
  <1>4. Grown(file') /\ Counts(file', path, n)
    <2> PICK g : g = Saved(fd, fs)
      OBVIOUS
    <2>1. g = file' /\ fs \in SUBSET PagesOf(fd)
      BY <1>1
    <2> QED BY <2>1, <1>2, SavedFile
  <1>5. path \in DOMAIN file \cap RecordFiles => \A p \in 1..(n - 1) :
           /\ file[path].id \notin torn' => p \in DOMAIN file'[path].page
           /\ Unharmed(file[path].id)' => file'[path].page[p] = file[path].id
    <2>1. file'[path] = [id |-> file[path].id, num_pages |-> file'[path].num_pages,
                         page |-> file'[path].page]
      BY <1>3, <1>4 DEF Grown
    <2>2. file'[path].id = file[path].id
      BY <2>1
    <2> QED BY <2>2, <1>2, <1>3 DEF Unharmed
  <1>6. FileInv'
    BY <1>2, <1>3, <1>4, <1>5, FilesGrow
  <1> QED BY <1>2, <1>6, DeathKeeps

LEMMA DiesCreatingKeeps == ASSUME IInv, NEW path, DiesCreating(path) PROVE IInv'
  <1>1. CreateFile(path, 0, <<>>) /\ Dies /\ UNCHANGED history
    BY DEF DiesCreating, Dies, history
  <1>2. (\A p \in DOMAIN <<>> : <<>>[p] = created + 1) /\ 0 \in Nat /\ 0 \in 0..1
    OBVIOUS
  <1>3. FileInv'
    BY <1>1, <1>2, NewFile
  <1> QED BY <1>1, <1>3, DeathKeeps

LEMMA RestartKeeps == ASSUME IInv, Restart PROVE IInv'
  <1>1. Dies /\ UNCHANGED <<file, created, torn, tainted, strayed>>
    BY DEF Restart, Dies
  <1>2. FileInv'
    BY <1>1 DEF IInv, FileInv, FileShapes, IdsDiffer, FilesOwn, HeaderCovered, Unharmed
  <1> QED BY <1>1, <1>2, DeathKeeps

LEMMA NextKeepsIInv == IInv /\ [Next]_vars => IInv'
  <1> SUFFICES ASSUME IInv, [Next]_vars PROVE IInv'
    OBVIOUS
  <1>1. CASE UNCHANGED vars
    <2>1. UNCHANGED <<file, created, path2fd, fd2path, handle, fd2pageno, pool, tainted, torn, strayed>>
      BY <1>1 DEF vars, memory, tables, history
    <2>2. FileInv' /\ TablesAgree'
      BY <2>1 DEF IInv, FileInv, FileShapes, IdsDiffer, FilesOwn, HeaderCovered, Unharmed, TablesAgree, Open
    <2>3. DOMAIN fd2path' \subseteq Fds /\ fd2pageno' \in [Fds -> Nat]
      BY <2>1 DEF IInv, Shapes
    <2> QED BY <2>1, <2>2, <2>3, MemoryKeeps
  <1>2. CASE \E path \in Paths :
               \/ RmCreate(path) \/ RmOpen(path)
               \/ IxCreate(path) \/ IxCreateTooLong(path) \/ IxOpen(path)
               \/ OpenFails(path) \/ Destroy(path) \/ DiesCreating(path)
    BY <1>2, RmCreateKeeps, RmOpenKeeps, IxCreateKeeps, IxCreateTooLongKeeps, IxOpenKeeps,
       OpenFailsKeeps, DestroyKeeps, DiesCreatingKeeps
  <1>3. CASE \E fd \in Fds : NewPage(fd) \/ Close(fd) \/ DiesClosing(fd)
    BY <1>3, NewPageKeeps, CloseKeeps, DiesClosingKeeps
  <1>4. CASE \E fd \in Fds, p \in 1..MaxPage :
               \/ Fetch(fd, p) \/ DeleteNode(fd, p)
               \/ \E is_dirty \in BOOLEAN : Use(fd, p, is_dirty)
    <2>1. PICK fd \in Fds, p \in 1..MaxPage :
               \/ Fetch(fd, p) \/ DeleteNode(fd, p)
               \/ \E is_dirty \in BOOLEAN : Use(fd, p, is_dirty)
      BY <1>4
    <2>2. p \in Nat \ {0}
      OBVIOUS
    <2> QED BY <2>1, <2>2, FetchKeeps, DeleteNodeKeeps, UseKeeps
  <1>5. CASE Restart
    BY <1>5, RestartKeeps
  <1> QED BY <1>1, <1>2, <1>3, <1>4, <1>5 DEF Next

-----------------------------------------------------------------------------
\* For every set of paths and every bound: RmManager and IxManager keep the files,
\* the tables of open files and the pool in the inductive invariant IInv.
THEOREM StorageSafe == Spec => []IInv
  BY InitIInv, NextKeepsIInv, PTL DEF Spec

\* DiskManager's two maps of open files are inverse to each other, and a handle's
\* file is the one its descriptor was opened for.
THEOREM TablesSafe == Spec => []TablesAgree
  <1>1. IInv => TablesAgree
    BY DEF IInv
  <1> QED BY <1>1, StorageSafe, PTL

\* While a record file is open, no page of it gets lost and no number is handed out
\* that a frame has, through all evictions.  Excepted are files that were opened
\* under a descriptor with pages in the pool that do not belong there (tainted),
\* files with a close cut short (torn), and files asked for a page that they do not
\* count (strayed): for them NewPage can make a second frame of one name, and the
\* eviction of the first takes the name out of page_table_.
THEOREM PagesSafe == Spec => []RecordPagesKept
  <1>1. ASSUME IInv PROVE RecordPagesKept
    <2> SUFFICES ASSUME NEW fd \in DOMAIN handle, fd2path[fd] \in RecordFiles, Unharmed(handle[fd].id)
                 PROVE  /\ \A f \in PagesOf(fd) : frame[f].p < handle[fd].num_pages
                        /\ \A p \in 1..(handle[fd].num_pages - 1) :
                             \/ \E f \in Frames :
                                  Holders(fd, p) = {f} /\ frame[f].id = handle[fd].id /\ Found(f)
                             \/ /\ Holders(fd, p) = {}
                                /\ p \in DOMAIN file[fd2path[fd]].page
                                /\ file[fd2path[fd]].page[p] = handle[fd].id
      BY <1>1 DEF IInv, NumbersGoOn, RecordPagesKept
    <2>1. Sound(fd) /\ handle[fd].id \notin torn
      BY DEF Sound, Unharmed
    <2>2. \A f \in Frames : frame[f].fd = fd =>
            frame[f].id = handle[fd].id /\ frame[f].p < handle[fd].num_pages /\ Found(f)
      BY <1>1, <2>1 DEF IInv, FramesRight
    <2>3. ASSUME NEW p \in 1..(handle[fd].num_pages - 1)
          PROVE  \/ \E f \in Frames :
                      Holders(fd, p) = {f} /\ frame[f].id = handle[fd].id /\ Found(f)
                 \/ /\ Holders(fd, p) = {}
                    /\ p \in DOMAIN file[fd2path[fd]].page
                    /\ file[fd2path[fd]].page[p] = handle[fd].id
      <3>1. CASE Holders(fd, p) = {}
        <4>1. ~InDirtyFrame(fd, p)
          BY <3>1 DEF InDirtyFrame, Holders
        <4>2. OnDisk(file, fd, p)
          BY <1>1, <2>1, <4>1 DEF IInv, PagesThere
        <4> QED BY <3>1, <4>2 DEF OnDisk
      <3>2. CASE Holders(fd, p) # {}
        <4>1. PICK f \in Holders(fd, p) : TRUE
          BY <3>2
        <4>2. f \in Frames /\ frame[f].fd = fd /\ frame[f].p = p
          BY <4>1 DEF Holders
        <4>3. \A e \in Holders(fd, p) : e \in Frames /\ frame[e].fd = fd /\ frame[e].p = p
          BY DEF Holders
        <4>4. \A e \in Holders(fd, p) : table[<<fd, p>>] = e
          BY <4>3, <2>2 DEF Found
        <4>5. Holders(fd, p) = {f}
          BY <4>1, <4>4
        <4> QED BY <4>2, <4>5, <2>2
      <3> QED BY <3>1, <3>2
    <2> QED BY <2>2, <2>3 DEF PagesOf
  <1> QED BY <1>1, StorageSafe, PTL

\* Only a process that dies within close_file leaves a header that counts pages
\* which are not on disk.
THEOREM HeadersSafe == Spec => []HeaderCovered
  <1>1. IInv => HeaderCovered
    BY DEF IInv, FileInv
  <1> QED BY <1>1, StorageSafe, PTL

\* The pages of one file get into another only through the pages that close_file
\* leaves in the pool under a descriptor that is used again.
THEOREM MixupsNeedReuse == Spec => []ForeignPagesNeedReuse
  <1>1. IInv => ForeignPagesNeedReuse
    BY DEF IInv, FileInv, FramesOwn, FilesOwn, ForeignPagesNeedReuse
  <1> QED BY <1>1, StorageSafe, PTL
==============================================================================
