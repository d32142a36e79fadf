----------------------------- MODULE LRUReplacer -----------------------------
(***************************************************************************)
(* The LRU page replacer used alone (src/src/replacer/lru_replacer.cpp):   *)
(* any method with any argument, in any order.  Every method holds latch_  *)
(* from its first line to its last, so each is one atomic step.            *)
(***************************************************************************)
EXTENDS LRUList

VARIABLES
  replacer,  \* the replacer: LRUlist_ and the keys of LRUhash_
  victim     \* the frame id the last Victim call handed out

replacerVars == <<replacer, victim>>

ReplacerInit ==
  /\ replacer = EmptyReplacer
  /\ victim = INVALID_FRAME_ID

Victim ==
  /\ victim' = VictimOf(replacer)
  /\ replacer' = AfterVictim(replacer)

Pin(f) ==
  /\ replacer' = AfterPin(replacer, f)
  /\ UNCHANGED victim

Unpin(f) ==
  /\ replacer' = AfterUnpin(replacer, f)
  /\ UNCHANGED victim

ReplacerNext == Victim \/ \E f \in Frames : Pin(f) \/ Unpin(f)

ReplacerSpec == ReplacerInit /\ [][ReplacerNext]_replacerVars

-----------------------------------------------------------------------------
(* Properties.                                                             *)

\* List and hash table stay in step through every sequence of Victim, Pin and
\* Unpin (the pairs of statements at lru_replacer.cpp:22-23, 36-37 and 59-60).
HashIndexesList == ReplacerOK(replacer)

\* The victim is a frame or none, and the list never outgrows max_size_
\* (lru_replacer.cpp:54).
ReplacerTypeOK ==
  /\ victim \in Frames \cup {INVALID_FRAME_ID}
  /\ Len(replacer.LRUlist_) \in 0..max_size_

\* The order the list stands for.
OlderIn(l, h) ==
  {p \in h \X h : \E i, j \in 1..Len(l) : j < i /\ p = <<l[i], l[j]>>}

evictable == replacer.LRUhash_
older == OlderIn(replacer.LRUlist_, replacer.LRUhash_)

Order == INSTANCE ReplacerOrder

\* The list is an implementation of the order "evictable for longer": a victim
\* is always the frame whose effective unpin is the oldest, whatever pins,
\* repeated unpins and refused unpins happened in between.
ImplementsOrder == Order!Spec
==============================================================================
