------------------------------- MODULE RmScan -------------------------------
(***************************************************************************)
(* A scan of a record file (rm_scan.cpp) while the file is in use: between *)
(* two calls of next(), which take a fresh copy of the file header, other  *)
(* callers insert, delete and update records.  The scan is a cursor rid_   *)
(* and nothing else; seen and stable only record what happened.            *)
(***************************************************************************)
EXTENDS RmFile

VARIABLES
  rid_,       \* the cursor <<page_no, slot_no>>
  scanning,   \* a scan exists
  seen,       \* the record ids it has stood on
  stable      \* the record ids that have held a record since it began

scan_vars == <<rid_, scanning, seen, stable>>

\* is_end()
NoRid == <<RM_NO_PAGE, -1>>
LiveRids == {r \in Rids : RecordsOf[r] # NoRecord}

ScanInit ==
  /\ Init
  /\ rid_ = NoRid
  /\ scanning = FALSE
  /\ seen = {}
  /\ stable = {}

\* (mutant) first_bit in place of next_bit
CursorFromStart(from, p) == -1

\* (mutant) slot_no is not set back to -1 when the scan goes to the next page
CursorKeepingSlot(from, p) == from[2]

\* The slot after which next(), called at from, searches page p: slot_no goes
\* back to -1 with every new page.
Cursor(from, p) == IF p = from[1] THEN from[2] ELSE -1

Found(from, p) == NextBit(TRUE, pages[p].bitmap, N, Cursor(from, p))

\* Where next() called at from leaves rid_.  The pages from from[1] on are
\* fetched, searched and unpinned one after the other, up to the first that
\* holds a record or cannot be fetched; the latter is an exception.
NextRid(from) ==
  LET stops == {p \in from[1]..(file_hdr_.num_pages - 1) :
                  ~Fetchable(p) \/ Found(from, p) < N}
      p     == CHOOSE q \in stops : \A o \in stops : q <= o
  IN  IF stops = {} THEN NoRid
      ELSE <<p, IF Fetchable(p) THEN Found(from, p) ELSE Cursor(from, p)>>

\* RmScan's constructor.  An exception in its next() leaves no scan behind.
ScanBegin ==
  LET r == NextRid(<<RM_FIRST_RECORD_PAGE, -1>>)
  IN  /\ Running
      /\ ~scanning
      /\ r \in Rids \cup {NoRid}
      /\ rid_' = r
      /\ scanning' = TRUE
      /\ seen' = {r} \cap Rids
      /\ stable' = LiveRids
      /\ UNCHANGED vars

ScanNext ==
  /\ Running
  /\ scanning
  /\ rid_ # NoRid       \* is_end()
  /\ rid_' = NextRid(rid_)
  /\ seen' = seen \cup ({rid_'} \cap Rids)
  /\ UNCHANGED <<vars, scanning, stable>>

\* The caller drops the scan, at its end or before.
ScanEnd ==
  /\ scanning
  /\ rid_' = NoRid
  /\ scanning' = FALSE
  /\ seen' = {}
  /\ stable' = {}
  /\ UNCHANGED vars

\* Another call on the file.  The handle outlives the scans that point to it.
FileStep ==
  /\ Next
  /\ scanning => open'
  /\ stable' = stable \cap LiveRids'
  /\ UNCHANGED <<rid_, scanning, seen>>

ScanSpec ==
  ScanInit /\ [][ScanBegin \/ ScanNext \/ ScanEnd \/ FileStep]_<<vars, scan_vars>>

-----------------------------------------------------------------------------
\* A scan that has reached its end has stood on every record that was there
\* from its beginning to its end, whatever was inserted and deleted around it.
ScanComplete == scanning /\ rid_ = NoRid => stable \subseteq seen

\* next() never comes back to a record id, not even to one whose record was
\* deleted and replaced behind the cursor.
NeverTwice ==
  [][rid_' \in Rids /\ rid_' # rid_ => rid_' \notin seen]_<<vars, scan_vars>>
=============================================================================
