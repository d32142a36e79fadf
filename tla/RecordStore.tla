----------------------------- MODULE RecordStore -----------------------------
(***************************************************************************)
(* What a record file promises: records at record ids.  An insertion puts  *)
(* the record at an id that held none; a record stays at its id with its   *)
(* contents until it is updated or deleted, whatever pages are created,    *)
(* closed or reopened in between.                                          *)
(***************************************************************************)
CONSTANTS Rids, Records, NoRecord

VARIABLE records    \* record id -> the record there, NoRecord if none

Init == records = [r \in Rids |-> NoRecord]

Insert(r, rec) ==
  /\ records[r] = NoRecord
  /\ records' = [records EXCEPT ![r] = rec]

Update(r, rec) ==
  /\ records[r] # NoRecord
  /\ records' = [records EXCEPT ![r] = rec]

Delete(r) ==
  /\ records[r] # NoRecord
  /\ records' = [records EXCEPT ![r] = NoRecord]

Next ==
  \E r \in Rids : Delete(r) \/ \E rec \in Records : Insert(r, rec) \/ Update(r, rec)

Spec == Init /\ [][Next]_records
==============================================================================
