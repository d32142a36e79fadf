------------------------------ MODULE IndexBag ------------------------------
(***************************************************************************)
(* What an index as coded promises its callers: a bag of pairs <<key,      *)
(* rid>>.  A call takes effect when it begins, on one pair of its own key  *)
(* at most, and changes nothing more until it returns.                     *)
(*                                                                         *)
(* It is no map: an insert may add a second pair for a key, and a delete   *)
(* may leave a pair of its key where it is, when the descent ends at       *)
(* another leaf than the one that holds it.  An insert is dropped only on  *)
(* account of a pair of its key.                                           *)
(***************************************************************************)
EXTENDS Integers

CONSTANTS Keys, Vals

VARIABLES
  count,        \* pair <<key, rid>> -> how often the index holds it
  busy          \* a call that changed the index has not returned yet

vars == <<count, busy>>

Held(key) == \E val \in Vals : count[<<key, val>>] > 0

Init ==
  /\ count = [e \in Keys \X Vals |-> 0]
  /\ busy = FALSE

Insert(key, val) ==
  /\ ~busy
  /\ \/ count' = [count EXCEPT ![<<key, val>>] = @ + 1]
     \/ Held(key) /\ UNCHANGED count
  /\ busy' \in BOOLEAN

Delete(key) ==
  /\ ~busy
  /\ \E val \in Vals :
       /\ count[<<key, val>>] > 0
       /\ count' = [count EXCEPT ![<<key, val>>] = @ - 1]
  /\ busy' = TRUE

Return == busy /\ busy' = FALSE /\ UNCHANGED count

Next ==
  \/ \E key \in Keys : Delete(key) \/ \E val \in Vals : Insert(key, val)
  \/ Return

Spec == Init /\ [][Next]_vars
=============================================================================
