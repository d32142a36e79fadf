----------------------------- MODULE BPlusTree ------------------------------
(***************************************************************************)
(* IxIndexHandle: the B+ tree of one index file, from insert_entry,        *)
(* delete_entry and GetValue down to the node operations of IxNode.        *)
(*                                                                         *)
(* The three calls hold root_latch_ from beginning to end, so one call     *)
(* runs at a time; its steps (the leaf, one Split, one level of            *)
(* InsertIntoParent, one level of CoalesceOrRedistribute, one level of     *)
(* maintain_parent) are actions of their own, joined by op.  A handle on   *)
(* a node is a pin on its page; the pins a recursion has yet to release    *)
(* are the frames of op.stack.                                             *)
(*                                                                         *)
(* Page numbers: AllocatePage hands out numbers that were never used.      *)
(* Here a new page gets the least number that nothing, not even a stale    *)
(* slot, refers to: the tree can only tell pages apart by its pointers.    *)
(***************************************************************************)
EXTENDS IxNode, FiniteSets

CONSTANTS
  Keys,         \* integers, the column values
  Vals,         \* rids of records
  MaxPage,      \* bound: page numbers are 2..MaxPage
  Appended      \* bound: these keys are only inserted above all keys present

\* A column value is an int; a rid is something a set of rids can hold.
ASSUME KeysAssumption == Keys \subseteq Int

ASSUME AppendedAssumption == Appended \subseteq Keys

ASSUME MaxPageAssumption == MaxPage \in Nat /\ MaxPage >= 2

IX_NO_PAGE == -1

IX_LEAF_HEADER_PAGE == 1

IX_INIT_ROOT_PAGE == 2

PageNos == -1..MaxPage

VARIABLES
  hdr,          \* file_hdr_: root_page, num_pages, last_leaf
  node,         \* page number -> node, for the leaf header and the live nodes
  pins,         \* page number -> pin_count_
  op,           \* the call that holds root_latch_
  health        \* "ok", "tabled": page -1 is in the page table, "wild"

vars == <<hdr, node, pins, op, health>>

\* stack: one tuple of pages still to be unpinned per frame, innermost last.
Op(pc, page, stack) == [pc |-> pc, page |-> page, stack |-> stack]

Idle == Op("idle", IX_NO_PAGE, <<>>)

\* create_index and open_index: the list header and an empty root leaf, each the
\* neighbour of the other.
Init ==
  /\ hdr = [root |-> IX_INIT_ROOT_PAGE, num_pages |-> 3, last_leaf |-> IX_INIT_ROOT_PAGE]
  /\ node = [p \in {IX_LEAF_HEADER_PAGE, IX_INIT_ROOT_PAGE} |->
               LET other == IF p = IX_INIT_ROOT_PAGE THEN IX_LEAF_HEADER_PAGE
                                                     ELSE IX_INIT_ROOT_PAGE
               IN  NewNode(TRUE, IX_NO_PAGE, other, other)]
  /\ pins = [p \in PageNos |-> 0]
  /\ op = Idle
  /\ health = "ok"

-----------------------------------------------------------------------------
\* FetchNode and CreateNode pin, UnpinPage unpins.
Pin(ps) == [p \in PageNos |-> IF p \in ps THEN pins[p] + 1 ELSE pins[p]]

Unpin(ps) == [p \in PageNos |-> IF p \in ps THEN pins[p] - 1 ELSE pins[p]]

IsRoot(p) == node[p].parent = IX_NO_PAGE

\* Pages some slot still names, a slot past num_key included.
Named == UNION {LET n == node[p] IN {n.vals[i] : i \in 1..Len(n.vals)}
                                 \cup {n.past[i] : i \in 1..Len(n.past)}
                  : p \in {q \in DOMAIN node : ~node[q].leaf}}

Unallocated == (IX_INIT_ROOT_PAGE..MaxPage) \ (DOMAIN node \cup Named)

\* Bound: CreateNode finds a page.
HasPage == Unallocated # {}

FreshPage == CHOOSE p \in Unallocated : \A q \in Unallocated : p <= q

\* The nodes ns and a new one.
WithNode(ns, p, n) == [q \in DOMAIN ns \cup {p} |-> IF q = p THEN n ELSE ns[q]]

\* FindLeafPage.  0 (the file header read as a node), or the number of a page
\* that was deleted, ends outside the tree: what happens next is undefined.
Lost == 0

FindLeafPage(key) ==
  LET down[p \in PageNos] ==
        CASE p \notin DOMAIN node -> Lost
          [] p \in DOMAIN node /\ node[p].leaf -> p
          [] OTHER -> down[InternalLookup(node[p], key)]
  IN  down[hdr.root]

\* A call on an index with a root may begin.
Begins == op = Idle /\ health # "wild" /\ hdr.root # IX_NO_PAGE

\* The descent of a call runs out of the tree.
SearchLost(key) ==
  /\ Begins
  /\ FindLeafPage(key) = Lost
  /\ health' = "wild"
  /\ UNCHANGED <<hdr, node, pins, op>>

(***************************************************************************)
(* A call on an index with no root fetches page -1.  The first fetch       *)
(* throws UnixError, but leaves page -1 in the page table; the next one    *)
(* hits it and reads a page of zeros, an internal node whose child is the  *)
(* file header.                                                            *)
(***************************************************************************)
RootMissing ==
  /\ op = Idle
  /\ hdr.root = IX_NO_PAGE
  /\ \/ health = "ok" /\ health' = "tabled"
     \/ health = "tabled" /\ health' = "wild"
  /\ UNCHANGED <<hdr, node, pins, op>>

\* Nothing is said about an index after that.
Undefined == health = "wild" /\ UNCHANGED vars

\* GetValue changes nothing: it pins the leaf, looks, and unpins it.  The rids
\* it returns, when the descent ends at a leaf.
GetValue(key) == LeafLookup(node[FindLeafPage(key)], key)

-----------------------------------------------------------------------------
KeysPresent == UNION {{node[p].keys[i] : i \in 1..Size(node[p])}
                        : p \in {q \in DOMAIN node : node[q].leaf}}

\* The bounds on inserts: the splits of a tree of three levels find their pages.
InBounds(key) ==
  /\ key \in Appended => \A k \in KeysPresent : k < key
  /\ Cardinality(Unallocated) > 3

\* insert_entry up to the test for a full leaf; it always returns true.
InsertEntry(key, val) ==
  Begins /\ \E leaf \in {FindLeafPage(key)} :
    /\ leaf # Lost
    /\ InBounds(key)
    /\ LET n == Insert(node[leaf], key, val)
       IN  /\ node' = [node EXCEPT ![leaf] = n]
           /\ IF Size(n) = MaxSize
              THEN op' = Op("split", leaf, <<>>) /\ pins' = Pin({leaf})
              ELSE UNCHANGED <<op, pins>>
    /\ UNCHANGED <<hdr, health>>

\* Mutant: the pair in the middle is not copied.
RightHalfShort(n) ==
  LET mid == (Size(n) + 1) \div 2
  IN  insert_pairs(NewNode(n.leaf, n.parent, 0, 0), 0,
                   SubSeq(n.keys, mid + 2, Size(n)), SubSeq(n.vals, mid + 2, Size(n)))

\* The new right half of a node, and what is left of the node.
RightHalf(n) ==
  LET mid == (Size(n) + 1) \div 2
  IN  insert_pairs(NewNode(n.leaf, n.parent, 0, 0), 0,
                   SubSeq(n.keys, mid + 1, Size(n)), SubSeq(n.vals, mid + 1, Size(n)))

LeftHalf(n) == SetSize(n, (Size(n) + 1) \div 2)

\* Mutant: the children keep their old parent.
AdoptNone(ns, kids, p) == ns

\* maintain_child: the nodes ns, with p as the parent of the pages in kids.
Adopt(ns, kids, p) ==
  [q \in DOMAIN ns |-> IF q \in kids THEN [ns[q] EXCEPT !.parent = p] ELSE ns[q]]

Children(n) == IF n.leaf THEN {} ELSE {n.vals[i] : i \in 1..Len(n.vals)}

\* The leaf list ns, with new (whose node is there already) put in after p.
LinkLeaf(ns, p, new) ==
  LET next == ns[p].next
  IN  [ns EXCEPT ![new].next = next, ![new].prev = p, ![next].prev = new, ![p].next = new]

\* Split(node), and CreateNode in it: new is put to the right of node.
Split ==
  /\ op.pc = "split"
  /\ HasPage
  /\ LET p == op.page
         new == FreshPage
         n == node[p]
         halves == WithNode([node EXCEPT ![p] = LeftHalf(n)], new, RightHalf(n))
     IN  /\ node' = IF n.leaf THEN LinkLeaf(halves, p, new)
                              ELSE Adopt(halves, Children(RightHalf(n)), new)
         /\ pins' = Pin({new})
         /\ hdr' = [hdr EXCEPT !.num_pages = @ + 1]
         /\ op' = Op("parent", p, Append(op.stack, <<p, new>>))
  /\ UNCHANGED <<health>>

Frame == op.stack[Len(op.stack)]

\* InsertIntoParent when old_node is the root: a root above the two.
NewRoot ==
  /\ op.pc = "parent"
  /\ IsRoot(op.page)
  /\ HasPage
  /\ LET old == Frame[1]
         new == Frame[2]
         r == FreshPage
         blank == NewNode(FALSE, IX_NO_PAGE, 0, 0)
         root == insert_pair(insert_pair(blank, 0, KeyAt(node[old], 0), old),
                             1, KeyAt(node[new], 0), new)
     IN  /\ node' = WithNode(Adopt(node, {old, new}, r), r, root)
         /\ hdr' = [hdr EXCEPT !.root = r, !.num_pages = @ + 1]
  /\ op' = [op EXCEPT !.pc = "return"]
  /\ UNCHANGED <<pins, health>>

\* InsertIntoParent below the root: the parent gets the new child after the
\* old one, and is split in turn when that fills it.
InsertIntoParent ==
  /\ op.pc = "parent"
  /\ ~IsRoot(op.page)
  /\ LET old == Frame[1]
         new == Frame[2]
         p == node[old].parent
         n == insert_pair(node[p], find_child(node[p], old) + 1, KeyAt(node[new], 0), new)
     IN  /\ node' = [node EXCEPT ![p] = n, ![new].parent = p]
         /\ IF Size(n) = MaxSize
            THEN op' = Op("split", p, op.stack) /\ pins' = Pin({p})
            ELSE op' = [op EXCEPT !.pc = "return"] /\ UNCHANGED pins
  /\ UNCHANGED <<hdr, health>>

\* A call of the recursion returns and unpins the node it split and the new
\* one.  The outermost is insert_entry, which first moves last_leaf on.
InsertReturns ==
  /\ op.pc = "return"
  /\ LET rest == SubSeq(op.stack, 1, Len(op.stack) - 1)
     IN  /\ pins' = Unpin({Frame[1], Frame[2]})
         /\ op' = IF rest = <<>> THEN Idle ELSE [op EXCEPT !.stack = rest]
         /\ hdr' = IF rest = <<>> /\ Frame[1] = hdr.last_leaf
                   THEN [hdr EXCEPT !.last_leaf = Frame[2]] ELSE hdr
  /\ UNCHANGED <<node, health>>

-----------------------------------------------------------------------------
\* delete_entry up to CoalesceOrRedistribute.
DeleteEntry(key) ==
  Begins /\ \E leaf \in {FindLeafPage(key)} :
    /\ leaf # Lost
    /\ LET n == Remove(node[leaf], key)
       IN  IF Size(n) = Size(node[leaf])
           THEN UNCHANGED <<node, op, pins>>
           ELSE /\ node' = [node EXCEPT ![leaf] = n]
                /\ op' = Op("fix", leaf, <<>>)
                /\ pins' = Pin({leaf})
    /\ UNCHANGED <<hdr, health>>

\* CoalesceOrRedistribute(node), one level: the node is op.page.
Underflows == op.pc = "fix" /\ Size(node[op.page]) < MinSize

\* Mutant: the early return forgets to unpin.
BigEnoughPinned ==
  /\ op.pc = "fix"
  /\ ~Underflows
  /\ op' = Idle
  /\ UNCHANGED <<hdr, node, pins, health>>

BigEnough ==
  /\ op.pc = "fix"
  /\ ~Underflows
  /\ pins' = Unpin({op.page})
  /\ op' = Idle
  /\ UNCHANGED <<hdr, node, health>>

\* AdjustRoot: a root with one child makes way for it, a root leaf with no
\* key leaves the index without a root; any other root stays.
AdjustRoot ==
  /\ Underflows
  /\ IsRoot(op.page)
  /\ LET n == node[op.page]
         only == ValueAt(n, 0)
     IN  CASE ~n.leaf /\ Size(n) = 1 ->
                /\ node' = [q \in DOMAIN node \ {op.page} |->
                              IF q = only THEN [node[q] EXCEPT !.parent = IX_NO_PAGE]
                                          ELSE node[q]]
                /\ hdr' = [hdr EXCEPT !.root = only, !.num_pages = @ - 1]
           [] n.leaf /\ Size(n) = 0 ->
                /\ hdr' = [hdr EXCEPT !.root = IX_NO_PAGE, !.num_pages = @ - 1]
                /\ UNCHANGED node
           [] OTHER -> UNCHANGED <<hdr, node>>
  /\ pins' = Unpin({op.page})
  /\ op' = Idle
  /\ UNCHANGED <<health>>

\* The parent of op.page, its place there, and its neighbour: the one on the
\* left, or the one on the right of a first child.
Parent == node[op.page].parent

Index == find_child(node[Parent], op.page)

Neighbor == ValueAt(node[Parent], IF Index > 0 THEN Index - 1 ELSE Index + 1)

\* Mutant: two nodes that fit one page only just are merged.
RichOffByOne == Size(node[op.page]) + Size(node[Neighbor]) > 2 * MinSize

Rich == Size(node[op.page]) + Size(node[Neighbor]) >= 2 * MinSize

\* Redistribute up to maintain_parent: one pair moves over from the neighbour,
\* and its child with it.  The page whose first key changed is op.page next.
Redistribute ==
  /\ Underflows
  /\ ~IsRoot(op.page)
  /\ Rich
  /\ LET x == op.page
         y == Neighbor
         from == IF Index = 0 THEN 0 ELSE Size(node[y]) - 1
         to == IF Index = 0 THEN Size(node[x]) ELSE 0
         key == KeyAt(node[y], from)
         val == ValueAt(node[y], from)
         moved == [node EXCEPT ![x] = insert_pair(@, to, key, val),
                               ![y] = erase_pair(@, from)]
     IN  /\ node' = IF node[x].leaf THEN moved ELSE Adopt(moved, {val}, x)
         /\ op' = Op("up", IF Index = 0 THEN y ELSE x, <<<<x, y, Parent>>>>)
         /\ pins' = Pin({y, Parent})
  /\ UNCHANGED <<hdr, health>>

\* maintain_parent, one level: the parent's key for op.page becomes the first
\* key of op.page; the loop ends at the root or at a key that is right.
MaintainParent ==
  /\ op.pc = "up"
  /\ LET p == Parent
         done == IsRoot(op.page) \/ KeyAt(node[p], Index) = KeyAt(node[op.page], 0)
     IN  IF done
         THEN /\ pins' = Unpin({Frame[i] : i \in 1..3})
              /\ op' = Idle
              /\ UNCHANGED node
         ELSE /\ node' = [node EXCEPT ![p] = SetKey(@, Index, KeyAt(node[op.page], 0))]
              /\ op' = [op EXCEPT !.page = p]
              /\ UNCHANGED pins
  /\ UNCHANGED <<hdr, health>>

\* Mutant: the leaf after it still points back to it.
UnlinkForwards(ns, leaf) == [ns EXCEPT ![ns[leaf].prev].next = ns[leaf].next]

\* erase_leaf: its two neighbours in the leaf list are linked to each other.
UnlinkLeaf(ns, leaf) ==
  [ns EXCEPT ![ns[leaf].prev].next = ns[leaf].next,
             ![ns[leaf].next].prev = ns[leaf].prev]

\* Coalesce: the right one of the two is emptied into the left one, taken out
\* of the leaf list and of the parent, and deleted; the parent is next.
Coalesce ==
  /\ Underflows
  /\ ~IsRoot(op.page)
  /\ ~Rich
  /\ LET left == IF Index = 0 THEN op.page ELSE Neighbor
         right == IF Index = 0 THEN Neighbor ELSE op.page
         n == node[right]
         merged == [node EXCEPT
                      ![left] = insert_pairs(@, Size(@), n.keys, n.vals),
                      ![Parent] = erase_pair(@, find_child(@, right))]
         linked == IF n.leaf THEN UnlinkLeaf(merged, right)
                             ELSE Adopt(merged, Children(n), left)
     IN  /\ node' = [q \in DOMAIN node \ {right} |-> linked[q]]
         /\ hdr' = [hdr EXCEPT !.num_pages = @ - 1,
                               !.last_leaf = IF n.leaf /\ right = @ THEN left ELSE @]
  /\ pins' = [pins EXCEPT ![Parent] = @ + 1, ![op.page] = @ - 1]
  /\ op' = Op("fix", Parent, <<>>)
  /\ UNCHANGED <<health>>

Next ==
  \/ \E key \in Keys :
       \/ DeleteEntry(key)
       \/ SearchLost(key)
       \/ \E val \in Vals : InsertEntry(key, val)
  \/ Split \/ NewRoot \/ InsertIntoParent \/ InsertReturns
  \/ BigEnough \/ AdjustRoot \/ Redistribute \/ MaintainParent \/ Coalesce
  \/ RootMissing
  \/ Undefined

Spec == Init /\ [][Next]_vars

-----------------------------------------------------------------------------
Nodes == DOMAIN node \ {IX_LEAF_HEADER_PAGE}

Quiet == op = Idle /\ health # "wild" /\ hdr.root # IX_NO_PAGE

\* The height of a node, and the first and the last leaf below it.
Height[p \in Nodes] == IF node[p].leaf THEN 0 ELSE 1 + Height[ValueAt(node[p], 0)]

FirstLeaf[p \in Nodes] == IF node[p].leaf THEN p ELSE FirstLeaf[ValueAt(node[p], 0)]

LastLeaf[p \in Nodes] ==
  IF node[p].leaf THEN p ELSE LastLeaf[ValueAt(node[p], Size(node[p]) - 1)]

\* Where the internal nodes list page p: node and index.
Places(p) == {at \in Nodes \X (0..Order) :
                LET n == node[at[1]] IN ~n.leaf /\ at[2] < Size(n) /\ ValueAt(n, at[2]) = p}

(***************************************************************************)
(* Between two calls the nodes are a tree, whatever was split, merged or   *)
(* rebalanced: the root has no parent, every other node is listed once, by *)
(* the node its parent pointer names, and all leaves are at one depth.     *)
(* find_child's assertion rests on it, for every later call.               *)
(***************************************************************************)
TreeLinked ==
  Quiet =>
    /\ hdr.root \in Nodes /\ node[hdr.root].parent = IX_NO_PAGE
    /\ \A p \in Nodes : Children(node[p]) \subseteq Nodes \ {hdr.root}
    /\ \A p \in Nodes \ {hdr.root} :
         /\ node[p].parent \in Nodes
         /\ Places(p) = {<<node[p].parent, find_child(node[node[p].parent], p)>>}
    /\ \A p \in Nodes : \A c \in Children(node[p]) : Height[c] = Height[p] - 1

(***************************************************************************)
(* Between two calls no node is overfull (CreateNode's spare slot is free  *)
(* again), and none but the root is below min_size: CoalesceOrRedistribute *)
(* went up as far as it had to.  num_pages counts the file header, the     *)
(* list header and the nodes: what CreateNode counts up, every way of      *)
(* dropping a node counts down.                                            *)
(***************************************************************************)
NodesFilled ==
  Quiet =>
    /\ hdr.num_pages = 2 + Cardinality(Nodes)
    /\ \A p \in Nodes :
         /\ Size(node[p]) < MaxSize
         /\ p # hdr.root => Size(node[p]) >= MinSize
         /\ p = hdr.root /\ ~node[p].leaf => Size(node[p]) >= 2

(***************************************************************************)
(* Between two calls the leaf list, from the list header round to it       *)
(* again, holds the leaves in the order of the tree, both ways; last_leaf  *)
(* is its last one and page 2, which first_leaf names for ever, its first. *)
(***************************************************************************)
LeavesListed ==
  Quiet =>
    /\ node[IX_LEAF_HEADER_PAGE].next = IX_INIT_ROOT_PAGE
    /\ FirstLeaf[hdr.root] = IX_INIT_ROOT_PAGE
    /\ LastLeaf[hdr.root] = hdr.last_leaf
    /\ node[hdr.last_leaf].next = IX_LEAF_HEADER_PAGE
    /\ \A p \in {q \in Nodes : ~node[q].leaf} : \A i \in 1..(Size(node[p]) - 1) :
         node[LastLeaf[ValueAt(node[p], i - 1)]].next = FirstLeaf[ValueAt(node[p], i)]
    /\ \A p \in {q \in DOMAIN node : node[q].leaf} : node[node[p].next].prev = p

\* Every page that a call pinned, at whatever level, is unpinned when the call
\* returns: otherwise the pool runs out of frames.
PinsReleased == op = Idle => \A p \in PageNos : pins[p] = 0

\* How many leaf slots hold the key.
Copies(key) ==
  Cardinality({at \in (DOMAIN node) \X (1..MaxSize) :
                 LET n == node[at[1]] IN n.leaf /\ at[2] <= Size(n) /\ n.keys[at[2]] = key})
=============================================================================
