------------------------------- MODULE IxScan -------------------------------
(***************************************************************************)
(* Reading an index: lower_bound, upper_bound, leaf_begin, leaf_end and    *)
(* get_rid of IxIndexHandle, and the scan IxScan makes of them.  None of   *)
(* them takes root_latch_ or changes the tree; the scans here are of a     *)
(* tree at rest.                                                           *)
(***************************************************************************)
EXTENDS BPlusTree

Iid(page, slot) == <<page, slot>>

leaf_begin == Iid(IX_INIT_ROOT_PAGE, 0)

leaf_end == Iid(hdr.last_leaf, Size(node[hdr.last_leaf]))

IndexLowerBound(key) ==
  LET leaf == FindLeafPage(key) IN Iid(leaf, lower_bound(node[leaf], key))

\* Mutant: the end of the leaf is taken for the end of the index.
UpperBoundInLeaf(key) ==
  LET leaf == FindLeafPage(key) IN Iid(leaf, upper_bound(node[leaf], key))

\* When every key of the leaf is at most key, the end of the whole index.
IndexUpperBound(key) ==
  LET leaf == FindLeafPage(key)
      idx == upper_bound(node[leaf], key)
  IN  IF idx = Size(node[leaf]) THEN leaf_end ELSE Iid(leaf, idx)

\* rid() throws IndexEntryNotFoundError, and next() fails its assertion, on an
\* iid past the entries of its leaf, and next() on a page that is no leaf.
Readable(iid) ==
  iid[1] \in DOMAIN node /\ node[iid[1]].leaf /\ iid[2] < Size(node[iid[1]])

\* Mutant: the last entry of a leaf is skipped.
NextIidShort(iid) ==
  IF iid[1] # hdr.last_leaf /\ iid[2] + 2 = Size(node[iid[1]])
  THEN Iid(node[iid[1]].next, 0)
  ELSE Iid(iid[1], iid[2] + 1)

\* IxScan::next.  It leaves the leaf pinned.
NextIid(iid) ==
  IF iid[1] # hdr.last_leaf /\ iid[2] + 1 = Size(node[iid[1]])
  THEN Iid(node[iid[1]].next, 0)
  ELSE Iid(iid[1], iid[2] + 1)

\* The loop of the executors and the tests: the keys a scan from lower to upper
\* visits, and whether it got to its end.
Scan(lower, upper) ==
  LET from[iid \in PageNos \X (0..MaxSize)] ==
        CASE iid = upper -> [keys |-> <<>>, ends |-> TRUE]
          [] iid # upper /\ ~Readable(iid) -> [keys |-> <<>>, ends |-> FALSE]
          [] OTHER -> LET rest == from[NextIid(iid)]
                      IN  [rest EXCEPT !.keys = <<KeyAt(node[iid[1]], iid[2])>> \o @]
  IN  from[lower]

(***************************************************************************)
(* A scan of the whole index ends, and visits every entry once: the list   *)
(* of leaves and last_leaf are right after any splits and merges, and also *)
(* on an index that was emptied.                                           *)
(***************************************************************************)
ScanVisitsAll ==
  op = Idle /\ health # "wild" =>
    LET all == Scan(leaf_begin, leaf_end)
    IN  /\ all.ends
        /\ \A key \in Keys :
             Cardinality({i \in 1..Len(all.keys) : all.keys[i] = key}) = Copies(key)

(***************************************************************************)
(* The range an index scan takes for "column = key", whatever became of    *)
(* the tree: for a key that GetValue finds it can be read to its end and   *)
(* begins with that key.  Two searches of one leaf, whose keys need not be *)
(* sorted, have to fit each other for it.  The range may go on past the    *)
(* key: upper_bound is leaf_end when the key is the last of its leaf, and  *)
(* the executor filters the rest.  For a key that is not found lower_bound *)
(* may be an iid that cannot be read, the end of a leaf.                   *)
(***************************************************************************)
RangesReadable ==
  Quiet =>
    \A key \in Keys :
      FindLeafPage(key) # Lost /\ GetValue(key) # {} =>
        LET range == Scan(IndexLowerBound(key), IndexUpperBound(key))
        IN  range.ends /\ range.keys # <<>> /\ range.keys[1] = key

\* InternalLookup's comment: it returns the child whose subtree holds the key.
\* So every key in the index is found by GetValue.
EveryKeyFound == Quiet => \A key \in KeysPresent :
                            FindLeafPage(key) # Lost /\ GetValue(key) # {}

\* The leaf slots that hold a pair, and their number.
SlotsOf(key, val) ==
  {at \in UNION {{p} \X (1..Size(node[p])) : p \in {q \in Nodes : node[q].leaf}} :
     node[at[1]].keys[at[2]] = key /\ node[at[1]].vals[at[2]] = val}

Counted == [e \in Keys \X Vals |-> Cardinality(SlotsOf(e[1], e[2]))]

Bag == INSTANCE IndexBag WITH count <- Counted, busy <- op # Idle

(***************************************************************************)
(* An index is a bag of pairs: a call puts in one pair, or takes one out,  *)
(* or leaves all as they are, at its first step, and what follows on the   *)
(* way up the tree, the splits, merges and moves between neighbours,       *)
(* loses, doubles and alters nothing.                                      *)
(***************************************************************************)
ImplementsBag == Bag!Spec

(***************************************************************************)
(* The pair is the call's own: insert_entry puts in its key and its rid,   *)
(* and is dropped only on account of a pair of its key; delete_entry takes *)
(* a pair of its key, or none.  A search that stops one slot off, in a     *)
(* leaf whose keys are in no order, would give it another pair.            *)
(***************************************************************************)
CallsKeepToTheirKey ==
  [][\A key \in Keys :
       /\ DeleteEntry(key) => Bag!Delete(key) \/ UNCHANGED Bag!vars
       /\ \A val \in Vals : InsertEntry(key, val) => Bag!Insert(key, val)]_vars
=============================================================================
