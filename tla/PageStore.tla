------------------------------ MODULE PageStore ------------------------------
(***************************************************************************)
(* What a buffer pool promises its users: pages with contents, which a     *)
(* thread may write while it has the page pinned.  Nothing else a thread   *)
(* or the pool does changes what a page holds, with one exception: a page  *)
(* that was created and never written may be blank or not there at all.    *)
(***************************************************************************)
CONSTANTS Threads, PageIds, Data, Zero, EOF

VARIABLES
  store,   \* page -> its contents, EOF if it is not there
  pinned   \* page -> the threads that have it pinned

vars == <<store, pinned>>

\* A pinned page keeps its contents; an unpinned one may go from blank to
\* absent and back.
Kept(p) ==
  \/ store'[p] = store[p]
  \/ pinned[p] = {} /\ {store[p], store'[p]} \subseteq {Zero, EOF}

Init ==
  /\ store \in [PageIds -> Data \cup {Zero, EOF}]
  /\ pinned = [p \in PageIds |-> {}]

\* A thread obtains a page: there is something in it to look at.
Pin(t, p) ==
  /\ t \notin pinned[p]
  /\ pinned' = [pinned EXCEPT ![p] = @ \cup {t}]
  /\ \A q \in PageIds : Kept(q)
  /\ store'[p] # EOF

Unpin(t, p) ==
  /\ t \in pinned[p]
  /\ pinned' = [pinned EXCEPT ![p] = @ \ {t}]
  /\ UNCHANGED store

Write(t, p, d) ==
  /\ t \in pinned[p]
  /\ store' = [store EXCEPT ![p] = d]
  /\ UNCHANGED pinned

\* Pages move between memory and disk, or are deleted from the pool.
Move ==
  /\ \A q \in PageIds : Kept(q)
  /\ UNCHANGED pinned

Next ==
  \/ \E t \in Threads, p \in PageIds :
       Pin(t, p) \/ Unpin(t, p) \/ \E d \in Data : Write(t, p, d)
  \/ Move

Spec == Init /\ [][Next]_vars
==============================================================================
