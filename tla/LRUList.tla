------------------------------- MODULE LRUList -------------------------------
(***************************************************************************)
(* The state of the LRU page replacer (src/src/replacer/lru_replacer.cpp)  *)
(* and what its methods do to it: a list of evictable frames, most recently *)
(* unpinned first, and a hash table from a frame id to its node in the     *)
(* list, modelled by its set of keys (a node is the one that holds the     *)
(* key).  The methods are operators from a state to the next one, because  *)
(* BufferPoolManager calls several of them inside one of its own steps.    *)
(***************************************************************************)
EXTENDS Integers, Sequences, FiniteSets, SequencesExt

CONSTANTS
  Frames,           \* frame ids
  max_size_,        \* capacity given to the constructor
  INVALID_FRAME_ID  \* handed out by Victim when nothing is evictable

ASSUME FramesAssumption == IsFiniteSet(Frames) /\ INVALID_FRAME_ID \notin Frames
ASSUME MaxSizeAssumption == max_size_ \in Nat

EmptyReplacer == [LRUlist_ |-> <<>>, LRUhash_ |-> {}]

\* The place of frame f in list l.
Node(l, f) == CHOOSE i \in 1..Len(l) : l[i] = f

-----------------------------------------------------------------------------
(* The methods, as functions of the replacer's state.                      *)

\* (mutant) the most recently unpinned frame instead of the least recent one
VictimOfFront(r) ==
  IF r.LRUlist_ = <<>> THEN INVALID_FRAME_ID ELSE Head(r.LRUlist_)

\* The frame Victim hands out: the back of the list.
VictimOf(r) ==
  IF r.LRUlist_ = <<>> THEN INVALID_FRAME_ID ELSE Last(r.LRUlist_)

\* (mutant) the victim's key is left in the hash table
AfterVictimKeepingKey(r) ==
  IF r.LRUlist_ = <<>> THEN r
  ELSE [LRUlist_ |-> Front(r.LRUlist_), LRUhash_ |-> r.LRUhash_]

AfterVictim(r) ==
  IF r.LRUlist_ = <<>> THEN r
  ELSE [LRUlist_ |-> Front(r.LRUlist_),
        LRUhash_ |-> r.LRUhash_ \ {Last(r.LRUlist_)}]

AfterPin(r, f) ==
  IF f \in r.LRUhash_
  THEN [LRUlist_ |-> RemoveAt(r.LRUlist_, Node(r.LRUlist_, f)),
        LRUhash_ |-> r.LRUhash_ \ {f}]
  ELSE r

AfterUnpin(r, f) ==
  IF f \in r.LRUhash_ \/ Len(r.LRUlist_) >= max_size_ THEN r
  ELSE [LRUlist_ |-> <<f>> \o r.LRUlist_,
        LRUhash_ |-> r.LRUhash_ \cup {f}]

-----------------------------------------------------------------------------
\* The list l holds each frame at most once, and the hash table has exactly
\* the listed frames as its keys h.
Indexed(l, h) ==
  /\ l \in Seq(Frames)
  /\ \A i, j \in 1..Len(l) : l[i] = l[j] => i = j
  /\ h = {l[i] : i \in 1..Len(l)}

ReplacerOK(r) ==
  /\ DOMAIN r = {"LRUlist_", "LRUhash_"}
  /\ Indexed(r.LRUlist_, r.LRUhash_)
==============================================================================
