---------------------------- MODULE ReplacerOrder ----------------------------
(***************************************************************************)
(* What a page replacer promises, with no data structure: the frames that  *)
(* may be evicted, and the order in which they became evictable.  A victim *)
(* is the evictable frame that has been evictable longest.                 *)
(***************************************************************************)
EXTENDS Naturals, FiniteSets

CONSTANTS
  Frames,           \* frame ids
  max_size_,        \* how many frames the replacer may hold
  INVALID_FRAME_ID  \* what Victim hands out when nothing is evictable

VARIABLES
  evictable,  \* the frames in the replacer
  older,      \* <<f, g>> : f has been evictable longer than g
  victim      \* the frame id the last Victim call handed out

vars == <<evictable, older, victim>>

Init ==
  /\ evictable = {}
  /\ older = {}
  /\ victim = INVALID_FRAME_ID

\* The pairs of R that do not mention f.
Dropping(R, f) == {p \in R : p[1] # f /\ p[2] # f}

Victim ==
  \/ /\ evictable = {}
     /\ victim' = INVALID_FRAME_ID
     /\ UNCHANGED <<evictable, older>>
  \/ \E f \in evictable :
       /\ \A g \in evictable \ {f} : <<f, g>> \in older
       /\ victim' = f
       /\ evictable' = evictable \ {f}
       /\ older' = Dropping(older, f)

Pin(f) ==
  /\ evictable' = evictable \ {f}
  /\ older' = Dropping(older, f)
  /\ UNCHANGED victim

\* A frame that is already evictable keeps its age; a full replacer takes no
\* more frames.
Unpin(f) ==
  /\ f \notin evictable
  /\ Cardinality(evictable) < max_size_
  /\ evictable' = evictable \cup {f}
  /\ older' = older \cup {<<g, f>> : g \in evictable}
  /\ UNCHANGED victim

Next == Victim \/ \E f \in Frames : Pin(f) \/ Unpin(f)

Spec == Init /\ [][Next]_vars
==============================================================================
