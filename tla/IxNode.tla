------------------------------- MODULE IxNode -------------------------------
(***************************************************************************)
(* One page of a B+ tree index: the pure operations of IxNodeHandle.       *)
(*                                                                         *)
(* A node is a record.  keys and vals are the pairs [0, num_key) of the    *)
(* page (num_key is their length); past is what the rid slots from num_key *)
(* on still hold: insert_pairs, erase_pair and SetSize never clear a slot. *)
(* Only a descent can read them, in an internal node, and past is empty in *)
(* a leaf.  Indices are those of the code and start at 0.                  *)
(***************************************************************************)
EXTENDS Integers, Sequences

CONSTANT Order  \* btree_order: pairs a node may keep

\* create_index asserts btree_order > 2.
ASSUME OrderAssumption == Order \in Nat /\ Order > 2

MaxSize == Order + 1

MinSize == MaxSize \div 2

\* A page fresh from NewPage: every byte is 0, and so is every child slot.
NewNode(is_leaf, parent, prev_leaf, next_leaf) ==
  [leaf |-> is_leaf, parent |-> parent, prev |-> prev_leaf, next |-> next_leaf,
   keys |-> <<>>, vals |-> <<>>,
   past |-> IF is_leaf THEN <<>> ELSE [i \in 1..MaxSize |-> 0]]

Size(n) == Len(n.keys)

KeyAt(n, i) == n.keys[i + 1]

\* rids[i] is read without a check against num_key.
ValueAt(n, i) == (n.vals \o n.past)[i + 1]

(***************************************************************************)
(* The two binary searches, step by step: the keys of an internal node are *)
(* not always sorted (its key 0 may be stale), so what a search returns    *)
(* depends on the slots it probes.                                         *)
(***************************************************************************)
lower_bound(n, target) ==
  LET search[w \in (0..Size(n)) \X (0..Size(n))] ==
        LET l == w[1]
            r == w[2]
            mid == (l + r) \div 2
        IN  IF l >= r THEN l
            ELSE IF KeyAt(n, mid) < target THEN search[<<mid + 1, r>>] ELSE search[<<l, mid>>]
  IN  search[<<0, Size(n)>>]

upper_bound(n, target) ==
  LET search[w \in (0..Size(n)) \X (0..Size(n))] ==
        LET l == w[1]
            r == w[2]
            mid == (l + r) \div 2
        IN  IF l >= r THEN l
            ELSE IF KeyAt(n, mid) <= target THEN search[<<mid + 1, r>>] ELSE search[<<l, mid>>]
  IN  search[<<0, Size(n)>>]

HasKey(n, i, key) == i < Size(n) /\ KeyAt(n, i) = key

\* LeafLookup: the values found, none or one.
LeafLookup(n, key) ==
  LET idx == lower_bound(n, key)
  IN  IF HasKey(n, idx, key) THEN {ValueAt(n, idx)} ELSE {}

\* The child a descent goes to: the one at upper_bound, which may lie past num_key.
InternalLookup(n, key) == ValueAt(n, upper_bound(n, key))

\* s with t put in before index pos.
Splice(s, pos, t) == SubSeq(s, 1, pos) \o t \o SubSeq(s, pos + 1, Len(s))

insert_pairs(n, pos, ks, vs) ==
  [n EXCEPT !.keys = Splice(@, pos, ks),
            !.vals = Splice(@, pos, vs),
            !.past = SubSeq(@, Len(vs) + 1, Len(@))]

insert_pair(n, pos, key, val) == insert_pairs(n, pos, <<key>>, <<val>>)

Without(s, pos) == SubSeq(s, 1, pos) \o SubSeq(s, pos + 2, Len(s))

\* The last pair is copied one slot down and its old slot keeps it.
erase_pair(n, pos) ==
  [n EXCEPT !.keys = Without(@, pos),
            !.vals = Without(@, pos),
            !.past = IF n.leaf THEN @ ELSE <<n.vals[Size(n)]>> \o @]

SetSize(n, size) ==
  [n EXCEPT !.keys = SubSeq(@, 1, size),
            !.vals = SubSeq(@, 1, size),
            !.past = IF n.leaf THEN @ ELSE SubSeq(n.vals, size + 1, Size(n)) \o @]

\* A key that is already in the node is left alone.
Insert(n, key, val) ==
  LET pos == lower_bound(n, key)
  IN  IF HasKey(n, pos, key) THEN n ELSE insert_pair(n, pos, key, val)

\* Mutant: whatever the search stops at is erased.
RemoveUnchecked(n, key) ==
  LET pos == lower_bound(n, key)
  IN  IF pos < Size(n) THEN erase_pair(n, pos) ELSE n

Remove(n, key) ==
  LET pos == lower_bound(n, key)
  IN  IF HasKey(n, pos, key) THEN erase_pair(n, pos) ELSE n

\* The assertion that the child is there is the CHOOSE having a witness.
find_child(n, child) ==
  CHOOSE i \in 0..(Size(n) - 1) :
    /\ ValueAt(n, i) = child
    /\ \A j \in 0..(i - 1) : ValueAt(n, j) # child

SetKey(n, i, key) == [n EXCEPT !.keys[i + 1] = key]
=============================================================================
