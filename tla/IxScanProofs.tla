---------------------------- MODULE IxScanProofs ----------------------------
(***************************************************************************)
(* Proofs about the scans of an index, and about the bag of pairs it is.   *)
(*                                                                         *)
(* The invariant has two parts beyond those of BPlusTreeProofs.  ChainInv: *)
(* the leaf list leads from page 2 through every leaf to the list header,  *)
(* in every state.  BagInv: every pair is in finitely many slots, and is   *)
(* one a caller put in.  What the steps of a call after its first do to    *)
(* the leaves (LeafStep) is one of four things: nothing, a leaf divided,   *)
(* two leaves dealt anew, two leaves joined; each leaves the chain a chain *)
(* and every pair in as many slots as before.  No order of the keys is     *)
(* needed for it, and there is none: the descent of the code may put a key *)
(* into any leaf.                                                          *)
(***************************************************************************)
EXTENDS IxScan, BPlusTreeProofs, FunctionTheorems

\* The sequences of keys and of values that two nodes have together.
JoinsBoth(J, V, l, lv, r, rv) ==
  /\ Joins(J, l, r) /\ Joins(V, lv, rv)
  /\ Len(l) \in Nat /\ Len(r) \in Nat /\ Len(l) > 0 /\ Len(lv) = Len(l) /\ Len(rv) = Len(r)

\* A sequence is what its two parts are together.
LEMMA PartsJoin ==
  \A Z, u, m :
    u \in Seq(Z) /\ m \in 0..Len(u) =>
      /\ Joins(u, SubSeq(u, 1, m), SubSeq(u, m + 1, Len(u)))
      /\ Len(SubSeq(u, 1, m)) = m /\ Len(SubSeq(u, m + 1, Len(u))) = Len(u) - m
  <1> SUFFICES ASSUME NEW Z, NEW u, NEW m, u \in Seq(Z), m \in 0..Len(u)
               PROVE  /\ Joins(u, SubSeq(u, 1, m), SubSeq(u, m + 1, Len(u)))
                      /\ Len(SubSeq(u, 1, m)) = m /\ Len(SubSeq(u, m + 1, Len(u))) = Len(u) - m
    OBVIOUS
  <1> DEFINE a == SubSeq(u, 1, m)
             b == SubSeq(u, m + 1, Len(u))
  <1>1. Len(u) \in Nat /\ m \in Nat /\ m <= Len(u)
    BY SeqIs
  <1>2. Len(a) = m - 1 + 1 /\ \A i \in 1..(m - 1 + 1) : a[i] = u[1 + i - 1]
    <2>1. 1 \in 1..(Len(u) + 1) /\ m \in (1 - 1)..Len(u)
      BY <1>1
    <2> QED BY <2>1, CutIs
  <1>3. Len(b) = Len(u) - (m + 1) + 1 /\ \A i \in 1..(Len(u) - (m + 1) + 1) : b[i] = u[m + 1 + i - 1]
    <2>1. m + 1 \in 1..(Len(u) + 1) /\ Len(u) \in (m + 1 - 1)..Len(u)
      BY <1>1
    <2> QED BY <2>1, CutIs
  <1> HIDE DEF a, b
  <1>4. Len(a) = m /\ Len(b) = Len(u) - m
    BY <1>1, <1>2, <1>3
  <1>5. ASSUME NEW i \in 1..Len(a) PROVE u[i] = a[i]
    <2>1. i \in 1..(m - 1 + 1) /\ 1 + i - 1 = i
      BY <1>1, <1>4
    <2> QED BY <1>2, <2>1
  <1>6. ASSUME NEW i \in 1..Len(b) PROVE u[Len(a) + i] = b[i]
    <2>1. i \in 1..(Len(u) - (m + 1) + 1) /\ m + 1 + i - 1 = Len(a) + i
      BY <1>1, <1>4
    <2> QED BY <1>3, <2>1
  <1>7. Joins(u, a, b)
    BY <1>1, <1>4, <1>5, <1>6 DEF Joins
  <1> QED BY <1>4, <1>7 DEF a, b

\* The halves of a node are what it was together.
LEMMA HalvesJoin ==
  ASSUME NEW n, NEW l, NEW r, NodeOK(n), Size(n) >= 2, IsHalves(l, r, n)
  PROVE  JoinsBoth(n.keys, n.vals, l.keys, l.vals, r.keys, r.vals) /\ Len(r.keys) > 0
  <1> DEFINE mid == (Size(n) + 1) \div 2
  <1>1. /\ Size(n) \in Nat /\ Len(n.keys) = Size(n) /\ Len(n.vals) = Size(n)
        /\ n.keys \in Seq(Keys) /\ n.vals \in Seq(Slots)
    BY NodeIs
  <1>2. mid \in 1..(Size(n) - 1)
    BY <1>1
  <1>3. /\ l.keys = SubSeq(n.keys, 1, mid) /\ l.vals = SubSeq(n.vals, 1, mid)
        /\ r.keys = SubSeq(n.keys, mid + 1, Size(n)) /\ r.vals = SubSeq(n.vals, mid + 1, Size(n))
    BY DEF IsHalves
  <1> HIDE DEF mid
  <1>4. mid \in 0..Len(n.keys) /\ mid \in 0..Len(n.vals)
    BY <1>1, <1>2
  <1>5. Joins(n.keys, l.keys, r.keys) /\ Len(l.keys) = mid /\ Len(r.keys) = Size(n) - mid
    <2>1. /\ Joins(n.keys, SubSeq(n.keys, 1, mid), SubSeq(n.keys, mid + 1, Len(n.keys)))
          /\ Len(SubSeq(n.keys, 1, mid)) = mid
          /\ Len(SubSeq(n.keys, mid + 1, Len(n.keys))) = Len(n.keys) - mid
      BY <1>1, <1>4, PartsJoin
    <2> QED BY <1>1, <1>3, <2>1
  <1>6. Joins(n.vals, l.vals, r.vals) /\ Len(l.vals) = mid /\ Len(r.vals) = Size(n) - mid
    <2>1. /\ Joins(n.vals, SubSeq(n.vals, 1, mid), SubSeq(n.vals, mid + 1, Len(n.vals)))
          /\ Len(SubSeq(n.vals, 1, mid)) = mid
          /\ Len(SubSeq(n.vals, mid + 1, Len(n.vals))) = Len(n.vals) - mid
      BY <1>1, <1>4, PartsJoin
    <2> QED BY <1>1, <1>3, <2>1
  <1> QED BY <1>1, <1>2, <1>5, <1>6 DEF JoinsBoth

-----------------------------------------------------------------------------
(* A pair that goes from a node to its neighbour.                          *)

\* k and m are l and r when the first member of r has gone to the end of l.
GoneLeft(k, m, l, r) == With1(k, l, Len(l), r[1]) /\ Less1(m, r, 0)

\* The first member of r goes to the end of l: together they stay what they were.
LEMMA JoinsMoveLeft ==
  ASSUME NEW Z, NEW l, NEW r, NEW k, NEW m, l \in Seq(Z), r \in Seq(Z), Len(r) > 0,
         GoneLeft(k, m, l, r)
  PROVE  Joins(l \o r, l, r) /\ Joins(l \o r, k, m) /\ Len(k) = Len(l) + 1 /\ Len(m) = Len(r) - 1
  <1> DEFINE u == l \o r
             a == Len(l)
             b == Len(r)
  <1>1. a \in Nat /\ b \in Nat /\ b > 0
    BY SeqIs
  <1>2. Len(u) = a + b /\ \A i \in 1..(a + b) : u[i] = IF i <= a THEN l[i] ELSE r[i - a]
    BY ConcatIs
  <1>3. Len(k) = a + 1 /\ k[a + 1] = r[1] /\ \A i \in 1..a : k[i] = l[i]
    BY <1>1 DEF With1, GoneLeft
  <1>4. Len(m) = b - 1 /\ \A i \in 1..(b - 1) : m[i] = r[i + 1]
    BY <1>1 DEF Less1, GoneLeft
  <1> HIDE DEF u, a, b
  <1>5. ASSUME NEW i \in 1..a PROVE u[i] = l[i]
    BY <1>1, <1>2
  <1>6. ASSUME NEW i \in 1..b PROVE u[a + i] = r[i]
    <2>1. PICK e : e = a + i
      OBVIOUS
    <2>2. e \in 1..(a + b) /\ ~(e <= a) /\ e - a = i
      BY <1>1, <2>1
    <2>3. u[e] = r[e - a]
      BY <1>2, <2>2
    <2> QED BY <2>1, <2>2, <2>3
  <1>7. ASSUME NEW i \in 1..(a + 1) PROVE u[i] = k[i]
    <2>1. CASE i <= a
      BY <1>1, <1>3, <1>5, <2>1
    <2>2. CASE i = a + 1
      <3>1. 1 \in 1..b
        BY <1>1
      <3> QED BY <1>3, <1>6, <2>2, <3>1
    <2> QED BY <1>1, <2>1, <2>2
  <1>8. ASSUME NEW i \in 1..(b - 1) PROVE u[a + 1 + i] = m[i]
    <2>1. i + 1 \in 1..b /\ a + 1 + i = a + (i + 1)
      BY <1>1
    <2>2. u[a + (i + 1)] = r[i + 1]
      BY <1>6, <2>1
    <2> QED BY <1>4, <2>1, <2>2
  <1>9. Joins(u, l, r)
    BY <1>2, <1>5, <1>6 DEF Joins, a, b
  <1>10. Joins(u, k, m)
    <2>1. Len(u) = Len(k) + Len(m)
      BY <1>1, <1>2, <1>3, <1>4
    <2> QED BY <1>3, <1>4, <1>7, <1>8, <2>1 DEF Joins
  <1> QED BY <1>3, <1>4, <1>9, <1>10 DEF u, a, b

\* The last member of l goes before r.
LEMMA JoinsMoveRight ==
  ASSUME NEW Z, NEW l, NEW r, NEW k, NEW m, l \in Seq(Z), r \in Seq(Z), Len(l) > 0,
         Less1(k, l, Len(l) - 1), With1(m, r, 0, l[Len(l)])
  PROVE  Joins(l \o r, l, r) /\ Joins(l \o r, k, m) /\ Len(k) = Len(l) - 1 /\ Len(m) = Len(r) + 1
  <1> DEFINE u == l \o r
             a == Len(l)
             b == Len(r)
  <1>1. a \in Nat /\ b \in Nat /\ a > 0
    BY SeqIs
  <1>2. Len(u) = a + b /\ \A i \in 1..(a + b) : u[i] = IF i <= a THEN l[i] ELSE r[i - a]
    BY ConcatIs
  <1>3. Len(k) = a - 1 /\ \A i \in 1..(a - 1) : k[i] = l[i]
    BY <1>1 DEF Less1
  <1>4. Len(m) = b + 1 /\ m[1] = l[a] /\ \A i \in 1..b : m[i + 1] = r[i]
    BY <1>1 DEF With1
  <1> HIDE DEF u, a, b
  <1>5. ASSUME NEW i \in 1..a PROVE u[i] = l[i]
    BY <1>1, <1>2
  <1>6. ASSUME NEW i \in 1..b PROVE u[a + i] = r[i]
    <2>1. PICK e : e = a + i
      OBVIOUS
    <2>2. e \in 1..(a + b) /\ ~(e <= a) /\ e - a = i
      BY <1>1, <2>1
    <2>3. u[e] = r[e - a]
      BY <1>2, <2>2
    <2> QED BY <2>1, <2>2, <2>3
  <1>7. ASSUME NEW i \in 1..(a - 1) PROVE u[i] = k[i]
    BY <1>1, <1>3, <1>5
  <1>8. ASSUME NEW i \in 1..(b + 1) PROVE u[a - 1 + i] = m[i]
    <2>1. CASE i = 1
      <3>1. a \in 1..a /\ a - 1 + 1 = a
        BY <1>1
      <3> QED BY <1>4, <1>5, <2>1, <3>1
    <2>2. CASE i # 1
      <3>1. i - 1 \in 1..b /\ a - 1 + i = a + (i - 1) /\ (i - 1) + 1 = i
        BY <1>1, <2>2
      <3>2. u[a + (i - 1)] = r[i - 1] /\ m[(i - 1) + 1] = r[i - 1]
        BY <1>4, <1>6, <3>1
      <3> QED BY <3>1, <3>2
    <2> QED BY <2>1, <2>2
  <1>9. Joins(u, l, r)
    BY <1>2, <1>5, <1>6 DEF Joins, a, b
  <1>10. Joins(u, k, m)
    <2>1. Len(u) = Len(k) + Len(m)
      BY <1>1, <1>2, <1>3, <1>4
    <2> QED BY <1>3, <1>4, <1>7, <1>8, <2>1 DEF Joins
  <1> QED BY <1>3, <1>4, <1>9, <1>10 DEF u, a, b

SameChain(ms, ns) ==
  DOMAIN ms = DOMAIN ns /\ \A q \in DOMAIN ns : (ms[q].leaf <=> ns[q].leaf) /\ ms[q].next = ns[q].next

\* The pairs of two neighbours before and after are shares of the same sequences.
Reshared(ns, ms, left, right) ==
  \E J, V :
    /\ JoinsBoth(J, V, ns[left].keys, ns[left].vals, ns[right].keys, ns[right].vals)
    /\ JoinsBoth(J, V, ms[left].keys, ms[left].vals, ms[right].keys, ms[right].vals)

\* The nodes ms: those of ns, with other pairs in left and right.
Apart2(ms, ns, left, right) ==
  /\ SameChain(ms, ns)
  /\ \A q \in DOMAIN ns : q # left /\ q # right => ms[q].keys = ns[q].keys /\ ms[q].vals = ns[q].vals

\* left and right, neighbours below p, share their pairs out in another way.
Reshares(ns, ms, p, j, left, right) ==
  /\ Adjacent(ns, p, j, left, right) /\ (ns[left].leaf <=> ns[right].leaf)
  /\ Reshared(ns, ms, left, right) /\ Apart2(ms, ns, left, right)
  /\ Len(ns[right].keys) > 0 /\ Len(ms[right].keys) > 0

\* Neighbours in the tree are neighbours in the leaf list.
InList(ns, left, right) == ns[left].leaf => Before(ns, left, right)

\* Neighbours that are leaves follow each other in the leaf list.
LEMMA LeafBefore ==
  ASSUME NEW ns, NEW fl, NEW ll, NEW z, NEW p, NEW j, NEW left, NEW right, Store(ns), Ends(ns, fl, ll, 0, z),
         Adjacent(ns, p, j, left, right), left \in Nds(ns), right \in Nds(ns), ns[left].leaf, ns[right].leaf
  PROVE  Before(ns, left, right)
  <1>1. p \in Nds(ns) /\ ~ns[p].leaf
    BY DEF Adjacent
  <1>2. p # 0 /\ left # 0 /\ right # 0
    BY <1>1, NdsIs, PagesIs
  <1>3. Spans(ns, fl, ll, ns[p].vals, fl[p], ll[p])
    BY <1>1, <1>2 DEF Ends, Own
  <1>4. ns[ll[left]].next = fl[right]
    BY <1>3 DEF Spans, Adjacent
  <1>5. ll[left] = left /\ fl[right] = right
    BY <1>2 DEF Ends, Own
  <1> QED BY <1>4, <1>5 DEF Before

\* The sequences of a pair that goes left, and of one that goes right.
LEMMA ReshareLeft ==
  ASSUME NEW lk, NEW lv, NEW rk, NEW rv, NEW mk, NEW mv, NEW ok, NEW ov,
         lk \in Seq(Keys), rk \in Seq(Keys), lv \in Seq(Slots), rv \in Seq(Slots),
         Len(lv) = Len(lk), Len(rv) = Len(rk), Len(lk) > 0, Len(rk) > 0,
         With1(mk, lk, Len(lk), rk[1]), Less1(ok, rk, 0), With1(mv, lv, Len(lv), rv[1]), Less1(ov, rv, 0)
  PROVE  \E J, V : JoinsBoth(J, V, lk, lv, rk, rv) /\ JoinsBoth(J, V, mk, mv, ok, ov)
  <1>1. Len(lk) \in Nat /\ Len(rk) \in Nat
    BY SeqIs
  <1>2. /\ Joins(lk \o rk, lk, rk) /\ Joins(lk \o rk, mk, ok)
        /\ Len(mk) = Len(lk) + 1 /\ Len(ok) = Len(rk) - 1
    <2>1. GoneLeft(mk, ok, lk, rk)
      BY DEF GoneLeft
    <2> QED BY <2>1, JoinsMoveLeft
  <1>3. Len(rv) > 0
    OBVIOUS
  <1>4. /\ Joins(lv \o rv, lv, rv) /\ Joins(lv \o rv, mv, ov)
        /\ Len(mv) = Len(lv) + 1 /\ Len(ov) = Len(rv) - 1
    <2>1. GoneLeft(mv, ov, lv, rv)
      BY DEF GoneLeft
    <2> QED BY <1>3, <2>1, JoinsMoveLeft
  <1>5. JoinsBoth(lk \o rk, lv \o rv, lk, lv, rk, rv)
    BY <1>1, <1>2, <1>4 DEF JoinsBoth
  <1>6. JoinsBoth(lk \o rk, lv \o rv, mk, mv, ok, ov)
    <2>1. Len(mk) \in Nat /\ Len(ok) \in Nat /\ Len(mk) > 0 /\ Len(mv) = Len(mk) /\ Len(ov) = Len(ok)
      BY <1>1, <1>2, <1>4
    <2> QED BY <1>2, <1>4, <2>1 DEF JoinsBoth
  <1> QED BY <1>5, <1>6

\* The last pair of the left one goes before those of the right one.
LEMMA ReshareRight ==
  ASSUME NEW lk, NEW lv, NEW rk, NEW rv, NEW mk, NEW mv, NEW ok, NEW ov,
         lk \in Seq(Keys), rk \in Seq(Keys), lv \in Seq(Slots), rv \in Seq(Slots),
         Len(lv) = Len(lk), Len(rv) = Len(rk), Len(lk) > 1,
         Less1(mk, lk, Len(lk) - 1), With1(ok, rk, 0, lk[Len(lk)]), Less1(mv, lv, Len(lv) - 1), With1(ov, rv, 0, lv[Len(lv)])
  PROVE  \E J, V : JoinsBoth(J, V, lk, lv, rk, rv) /\ JoinsBoth(J, V, mk, mv, ok, ov)
  <1>1. Len(lk) \in Nat /\ Len(rk) \in Nat /\ Len(lk) > 0 /\ Len(lv) > 0
    BY SeqIs
  <1>2. /\ Joins(lk \o rk, lk, rk) /\ Joins(lk \o rk, mk, ok)
        /\ Len(mk) = Len(lk) - 1 /\ Len(ok) = Len(rk) + 1
    BY <1>1, JoinsMoveRight
  <1>4. /\ Joins(lv \o rv, lv, rv) /\ Joins(lv \o rv, mv, ov)
        /\ Len(mv) = Len(lv) - 1 /\ Len(ov) = Len(rv) + 1
    BY <1>1, JoinsMoveRight
  <1>5. JoinsBoth(lk \o rk, lv \o rv, lk, lv, rk, rv)
    BY <1>1, <1>2, <1>4 DEF JoinsBoth
  <1>6. JoinsBoth(lk \o rk, lv \o rv, mk, mv, ok, ov)
    <2>1. Len(mk) \in Nat /\ Len(ok) \in Nat /\ Len(mk) > 0 /\ Len(mv) = Len(mk) /\ Len(ov) = Len(ok)
      BY <1>1, <1>2, <1>4
    <2> QED BY <1>2, <1>4, <2>1 DEF JoinsBoth
  <1> QED BY <1>5, <1>6

KeyFrom(ns, y, from, key) == key = ns[y].keys[from + 1]

\* What Redistribute does, seen from the left one and the right one of the two.
LEMMA MovesReshare ==
  ASSUME NEW ns, NEW ms, NEW h, NEW x, NEW y, NEW p, NEW idx, NEW from, NEW to, NEW key, NEW val, NEW nx, NEW ny,
         Store(ns), Siblings(ns, h, x, y, p, idx), AtEnds(ns, x, y, idx, from, to), KeyFrom(ns, y, from, key),
         Moves(ns, x, y, from, to, key, val, nx, ny), MovesAll(ms, ns, x, y, val, nx, ny)
  PROVE  \E j, left, right :
           Reshares(ns, ms, p, j, left, right) /\ {left, right} = {x, y} /\ right = (IF idx = 0 THEN y ELSE x)
  <1>1. /\ x \in Nds(ns) /\ y \in Nds(ns) /\ p \in Nds(ns) /\ x # y /\ ~ns[p].leaf
        /\ (ns[x].leaf <=> ns[y].leaf) /\ idx \in 0..(Size(ns[p]) - 1) /\ ns[p].vals[idx + 1] = x
        /\ (idx > 0 => ns[p].vals[idx] = y) /\ (idx = 0 => Size(ns[p]) > 1 /\ ns[p].vals[2] = y)
    BY DEF Siblings
  <1>2. /\ Nds(ns) \subseteq DOMAIN ns /\ NodeOK(ns[x]) /\ NodeOK(ns[y]) /\ NodeOK(ns[p])
    BY <1>1, NdsIs
  <1>3. /\ ns[x].keys \in Seq(Keys) /\ ns[x].vals \in Seq(Slots) /\ Len(ns[x].keys) = Size(ns[x])
        /\ Len(ns[x].vals) = Size(ns[x]) /\ Size(ns[x]) \in Nat
        /\ ns[y].keys \in Seq(Keys) /\ ns[y].vals \in Seq(Slots) /\ Len(ns[y].keys) = Size(ns[y])
        /\ Len(ns[y].vals) = Size(ns[y]) /\ Size(ns[y]) \in Nat
        /\ Len(ns[p].vals) = Size(ns[p]) /\ Size(ns[p]) \in Nat
    BY <1>2, NodeIs
  <1>4. /\ Size(ns[x]) = MinSize - 1 /\ Size(ns[y]) >= MinSize + 1
        /\ val = ns[y].vals[from + 1] /\ Size(nx) = MinSize
        /\ IsInsert(nx, ns[x], to, <<key>>, <<val>>) /\ IsErase(ny, ns[y], from)
        /\ from = From(ns[y], idx) /\ to = To(ns[x], idx)
    BY DEF Moves, AtEnds
  <1>5. Size(ns[x]) > 0 /\ Size(ns[y]) > 2
    BY <1>3, <1>4, Sizes
  <1>6. SamePairs(ms[x], nx) /\ SamePairs(ms[y], ny)
    BY <1>1, <1>2 DEF MovesAll, MovedAs
  <1>7. /\ ms[x].keys = Splice(ns[x].keys, to, <<key>>) /\ ms[x].vals = Splice(ns[x].vals, to, <<val>>)
        /\ ms[y].keys = Without(ns[y].keys, from) /\ ms[y].vals = Without(ns[y].vals, from)
    BY <1>4, <1>6 DEF SamePairs, IsInsert, IsErase
  <1>8. ASSUME NEW q \in DOMAIN ns
        PROVE  /\ (ms[q].leaf <=> ns[q].leaf) /\ ms[q].next = ns[q].next
               /\ (q # x /\ q # y => ms[q].keys = ns[q].keys /\ ms[q].vals = ns[q].vals)
    <2>1. MovedAs(ms[q], ns[q], q, x, nx, y, ny, IF ns[x].leaf THEN {} ELSE {val})
      BY DEF MovesAll
    <2>2. /\ ms[q].next = ns[q].next
          /\ (q = x => SamePairs(ms[q], nx)) /\ (q = y => SamePairs(ms[q], ny))
          /\ (q # x /\ q # y => SamePairs(ms[q], ns[q]))
      BY <1>1, <2>1 DEF MovedAs
    <2>3. (nx.leaf <=> ns[x].leaf) /\ (ny.leaf <=> ns[y].leaf)
      BY <1>4 DEF IsInsert, IsErase, SameLinks
    <2> QED BY <2>2, <2>3 DEF SamePairs
  <1>9. Apart2(ms, ns, x, y) /\ Apart2(ms, ns, y, x)
    <2>1. DOMAIN ms = DOMAIN ns
      BY DEF MovesAll
    <2> QED BY <1>8, <2>1 DEF Apart2, SameChain
  <1> DEFINE xk == ns[x].keys
             xv == ns[x].vals
             yk == ns[y].keys
             yv == ns[y].vals
             mk == ms[x].keys
             mv == ms[x].vals
             ok == ms[y].keys
             ov == ms[y].vals
  <1>10. /\ from \in 0..(Len(yk) - 1) /\ to \in 0..Len(xk) /\ from \in 0..(Len(yv) - 1) /\ to \in 0..Len(xv)
    BY <1>3 DEF Moves
  <1>11. key \in Keys /\ val \in Slots
    <2>1. from + 1 \in 1..Len(yk) /\ from + 1 \in 1..Len(yv)
      BY <1>3, <1>10
    <2> QED BY <1>3, <1>4, <2>1, SeqIs DEF KeyFrom
  <1>12. /\ xk \in Seq(Keys) /\ yk \in Seq(Keys) /\ xv \in Seq(Slots) /\ yv \in Seq(Slots)
         /\ Len(xv) = Len(xk) /\ Len(yv) = Len(yk) /\ Len(xk) > 0 /\ Len(yk) > 2 /\ Len(xk) \in Nat /\ Len(yk) \in Nat
         /\ key = yk[from + 1] /\ val = yv[from + 1]
    BY <1>3, <1>4, <1>5 DEF KeyFrom
  <1>13. With1(mk, xk, to, key) /\ With1(mv, xv, to, val)
    <2>1. mk = Splice(xk, to, <<key>>) /\ mv = Splice(xv, to, <<val>>)
      BY <1>7
    <2> HIDE DEF xk, xv, mk, mv
    <2> QED BY <1>10, <1>11, <1>12, <2>1, With1Is
  <1>14. Less1(ok, yk, from) /\ Less1(ov, yv, from)
    <2>1. ok = Without(yk, from) /\ ov = Without(yv, from)
      BY <1>7
    <2> HIDE DEF yk, yv, ok, ov
    <2> QED BY <1>10, <1>12, <2>1, Less1Is
  <1>15. from = (IF idx = 0 THEN 0 ELSE Len(yk) - 1) /\ to = (IF idx = 0 THEN Len(xk) ELSE 0)
    BY <1>3, <1>4 DEF From, To
  <1>16. Len(mk) > 0 /\ Len(ok) > 0
    <2> HIDE DEF xk, yk, mk, ok
    <2> QED BY <1>12, <1>13, <1>14 DEF With1, Less1
  <1>17. CASE idx = 0
    <2>1. Reshared(ns, ms, x, y)
      <3>1. from = 0 /\ to = Len(xk) /\ to = Len(xv)
        BY <1>12, <1>15, <1>17
      <3> HIDE DEF xk, xv, yk, yv, mk, mv, ok, ov
      <3>2. key = yk[1] /\ val = yv[1]
        BY <1>12, <3>1
      <3>3. /\ With1(mk, xk, Len(xk), yk[1]) /\ With1(mv, xv, Len(xv), yv[1])
            /\ Less1(ok, yk, 0) /\ Less1(ov, yv, 0)
        BY <1>13, <1>14, <3>1, <3>2
      <3>4. \E J, V : JoinsBoth(J, V, xk, xv, yk, yv) /\ JoinsBoth(J, V, mk, mv, ok, ov)
        <4>1. Len(yk) > 0
          BY <1>12
        <4> QED BY <1>12, <3>3, <4>1, ReshareLeft
      <3> QED BY <3>4 DEF Reshared, xk, xv, yk, yv, mk, mv, ok, ov
    <2>2. Adjacent(ns, p, 1, x, y)
      BY <1>1, <1>3, <1>17 DEF Adjacent
    <2> WITNESS 1, x, y
    <2>3. Len(ns[y].keys) > 0 /\ Len(ms[y].keys) > 0
      BY <1>12, <1>16
    <2>4. Reshares(ns, ms, p, 1, x, y)
      BY <1>1, <1>9, <2>1, <2>2, <2>3 DEF Reshares
    <2> QED BY <1>17, <2>4
  <1>18. CASE idx # 0
    <2>1. Reshared(ns, ms, y, x)
      <3>1. from = Len(yk) - 1 /\ from = Len(yv) - 1 /\ to = 0 /\ from + 1 = Len(yk) /\ from + 1 = Len(yv)
        BY <1>12, <1>15, <1>18
      <3> HIDE DEF xk, xv, yk, yv, mk, mv, ok, ov
      <3>2. key = yk[Len(yk)] /\ val = yv[Len(yv)]
        BY <1>12, <3>1
      <3>3. /\ With1(mk, xk, 0, yk[Len(yk)]) /\ With1(mv, xv, 0, yv[Len(yv)])
            /\ Less1(ok, yk, Len(yk) - 1) /\ Less1(ov, yv, Len(yv) - 1)
        BY <1>13, <1>14, <3>1, <3>2
      <3>4. \E J, V : JoinsBoth(J, V, yk, yv, xk, xv) /\ JoinsBoth(J, V, ok, ov, mk, mv)
        <4>1. Len(yk) > 1
          BY <1>12
        <4> QED BY <1>12, <3>3, <4>1, ReshareRight
      <3> QED BY <3>4 DEF Reshared, xk, xv, yk, yv, mk, mv, ok, ov
    <2>2. Adjacent(ns, p, idx, y, x)
      <3>1. idx \in 1..(Len(ns[p].vals) - 1) /\ idx > 0
        BY <1>1, <1>3, <1>18
      <3> QED BY <1>1, <3>1 DEF Adjacent
    <2> WITNESS idx, y, x
    <2>3. Len(ns[x].keys) > 0 /\ Len(ms[x].keys) > 0
      BY <1>12, <1>16
    <2>4. Reshares(ns, ms, p, idx, y, x)
      BY <1>1, <1>9, <2>1, <2>2, <2>3 DEF Reshares
    <2> QED BY <1>18, <2>4
  <1> QED BY <1>17, <1>18

-----------------------------------------------------------------------------
(* A node merged into its left neighbour.                                  *)

\* The nodes ms: those of ns with right, which is after left at place j of p,
\* merged into left and taken out of p and of the leaf list.
MergedInto(ms, ns, p, j, left, right) ==
  /\ Adjacent(ns, p, j, left, right) /\ (ns[left].leaf <=> ns[right].leaf) /\ DOMAIN ms = DOMAIN ns \ {right}
  /\ JoinsBoth(ms[left].keys, ms[left].vals, ns[left].keys, ns[left].vals, ns[right].keys, ns[right].vals)
  /\ Len(ns[right].keys) > 0
  /\ Less1(ms[p].keys, ns[p].keys, j) /\ Less1(ms[p].vals, ns[p].vals, j)
  /\ \A q \in DOMAIN ms : q # left /\ q # p => ms[q].keys = ns[q].keys /\ ms[q].vals = ns[q].vals
  /\ \A q \in DOMAIN ms :
       /\ (ms[q].leaf <=> ns[q].leaf)
       /\ ms[q].next = IF ns[right].leaf /\ q = left THEN ns[right].next ELSE ns[q].next

\* The two nodes of Coalesce.
Merger(ns, ms, root, p, j, left, right) ==
  /\ MergedInto(ms, ns, p, j, left, right) /\ InList(ns, left, right)
  /\ left \in Nds(ns) /\ right \in Nds(ns) /\ left # right /\ root # left /\ root # right

\* What Coalesce does to the nodes.
LEMMA CoalesceMerges ==
  ASSUME NEW h, TreeInv(h), HdrType, NEW fl, NEW ll, NEW m, LeafInv(fl, ll, m), Coalesce
  PROVE  \E p, j, left, right :
           /\ Merger(node, node', hdr.root, p, j, left, right)
           /\ hdr'.root = hdr.root /\ op.pc = "fix" /\ op'.pc = "fix" /\ op'.page = p
           /\ hdr'.last_leaf = IF node[right].leaf /\ right = hdr.last_leaf THEN left ELSE hdr.last_leaf
  <1>1. PICK x : x = op.page
    OBVIOUS
  <1>2. PICK p : p = Parent
    OBVIOUS
  <1>3. PICK idx : idx = Index
    OBVIOUS
  <1>4. PICK y : y = Neighbor
    OBVIOUS
  <1>5. PICK left : left = IF idx = 0 THEN x ELSE y
    OBVIOUS
  <1>6. PICK right : right = IF idx = 0 THEN y ELSE x
    OBVIOUS
  <1>7. PICK nl : nl = insert_pairs(node[left], Size(node[left]), node[right].keys, node[right].vals)
    OBVIOUS
  <1>8. PICK np : np = erase_pair(node[p], find_child(node[p], right))
    OBVIOUS
  <1>9. Coalesces(node', node, h, left, right, p, nl, np) /\ x # hdr.root /\ y # hdr.root
    BY <1>1, <1>2, <1>3, <1>4, <1>5, <1>6, <1>7, <1>8, CoalesceNodes
  <1>10. /\ Underflows /\ op' = Op("fix", p, <<>>) /\ hdr'.root = hdr.root
         /\ hdr'.last_leaf = IF node[right].leaf /\ right = hdr.last_leaf THEN left ELSE hdr.last_leaf
    <2>1. left = (IF Index = 0 THEN op.page ELSE Neighbor) /\ right = IF Index = 0 THEN Neighbor ELSE op.page
      BY <1>1, <1>3, <1>4, <1>5, <1>6
    <2>2. /\ Underflows /\ op' = Op("fix", p, <<>>)
          /\ hdr' = [hdr EXCEPT !.num_pages = @ - 1,
                                !.last_leaf = IF node[right].leaf /\ right = @ THEN left ELSE @]
      BY <1>2, <2>1 DEF Coalesce
    <2> QED BY <2>2 DEF HdrType
  <1>11. /\ op.pc = "fix" /\ Store(node) /\ hdr.root \in Nds(node)
         /\ \A q \in Nds(node) : q # hdr.root => Size(node[q]) \in Nat /\ Size(node[q]) >= MinSize - 1
    <2>1. ASSUME NEW q \in Nds(node), q # hdr.root PROVE Size(node[q]) \in Nat /\ Size(node[q]) >= MinSize - 1
      BY <1>1, <1>10, <2>1, FixIs, Sizes
    <2> QED BY <1>1, <1>10, <2>1, FixIs
  <1>12. /\ left \in Nds(node) /\ right \in Nds(node) /\ p \in Nds(node) /\ left # right /\ p # left /\ p # right
         /\ (node[left].leaf <=> node[right].leaf) /\ ~node[p].leaf
         /\ IsInsert(nl, node[left], Size(node[left]), node[right].keys, node[right].vals)
         /\ DOMAIN node' = DOMAIN node \ {right}
    BY <1>9 DEF Coalesces
  <1>13. PICK i \in 1..Size(node[p]) :
            i > 1 /\ node[p].vals[i] = right /\ node[p].vals[i - 1] = left /\ IsErase(np, node[p], i - 1)
    BY <1>9 DEF Coalesces
  <1>14. \A q \in DOMAIN node' : CoalescedAs(node'[q], node[q], q, left, nl, p, np, node[right])
    BY <1>9 DEF Coalesces
  <1>15. left # hdr.root /\ right # hdr.root
    BY <1>5, <1>6, <1>9
  <1>16. /\ Nds(node) \subseteq DOMAIN node
         /\ NodeOK(node[left]) /\ NodeOK(node[right]) /\ NodeOK(node[p])
    BY <1>11, <1>12, NdsIs
  <1>17. /\ Len(node[p].vals) = Size(node[p]) /\ Size(node[p]) \in Nat /\ Len(node[p].keys) = Size(node[p])
         /\ node[p].vals \in Seq(Slots) /\ node[p].keys \in Seq(Keys)
         /\ Len(node[left].vals) = Size(node[left]) /\ Len(node[left].keys) = Size(node[left])
         /\ Len(node[right].vals) = Size(node[right]) /\ Len(node[right].keys) = Size(node[right])
         /\ node[left].vals \in Seq(Slots) /\ node[right].vals \in Seq(Slots)
         /\ node[left].keys \in Seq(Keys) /\ node[right].keys \in Seq(Keys)
    BY <1>12, <1>16, NodeIs
  <1>18. PICK j : j = i - 1
    OBVIOUS
  <1>19. j \in 1..(Size(node[p]) - 1) /\ j + 1 = i /\ j \in 0..(Size(node[p]) - 1)
    BY <1>13, <1>17, <1>18
  <1>20. Adjacent(node, p, j, left, right)
    BY <1>12, <1>13, <1>17, <1>18, <1>19 DEF Adjacent
  <1>21. left \in DOMAIN node' /\ p \in DOMAIN node'
    BY <1>12, <1>16
  <1>22. ASSUME NEW q \in DOMAIN node'
         PROVE  /\ (node'[q].leaf <=> node[q].leaf)
                /\ (q = left => node'[q].vals = nl.vals /\ node'[q].keys = nl.keys)
                /\ (q = p => node'[q].vals = np.vals /\ node'[q].keys = np.keys)
                /\ (q # left /\ q # p => node'[q].vals = node[q].vals /\ node'[q].keys = node[q].keys)
                /\ node'[q].next = (IF node[right].leaf /\ q = node[right].prev THEN node[right].next ELSE node[q].next)
    <2>1. CoalescedAs(node'[q], node[q], q, left, nl, p, np, node[right])
      BY <1>14
    <2>2. (q = left => SamePairs(node'[q], nl)) /\ (q = p => SamePairs(node'[q], np))
          /\ (q # left /\ q # p => SamePairs(node'[q], node[q]))
      BY <1>12, <2>1 DEF CoalescedAs
    <2>3. (nl.leaf <=> node[left].leaf) /\ (np.leaf <=> node[p].leaf)
      BY <1>12, <1>13 DEF IsInsert, IsErase, SameLinks
    <2>4. node'[q].next = (IF node[right].leaf /\ q = node[right].prev THEN node[right].next ELSE node[q].next)
      BY <2>1 DEF CoalescedAs
    <2> QED BY <2>2, <2>3, <2>4 DEF SamePairs
  <1>23. Ring(node) /\ Ends(node, fl, ll, 0, m)
    BY <1>11 DEF LeafInv, Old
  <1>24. InList(node, left, right)
    BY <1>11, <1>12, <1>20, <1>23, LeafBefore DEF InList
  <1>25. node[right].leaf => node[right].prev = left
    BY <1>12, <1>16, <1>23, <1>24 DEF InList, Before, Ring
  <1>26. Len(node[left].keys) > 0 /\ Len(node[right].keys) > 0
    BY <1>11, <1>12, <1>15, <1>17, Sizes, SMTT(30)
  <1>27. Less1(node'[p].keys, node[p].keys, j) /\ Less1(node'[p].vals, node[p].vals, j)
    <2>1. node'[p].keys = Without(node[p].keys, j) /\ node'[p].vals = Without(node[p].vals, j)
      BY <1>13, <1>18, <1>21, <1>22 DEF IsErase
    <2> QED BY <1>17, <1>19, <2>1, Less1Is
  <1>28. JoinsBoth(node'[left].keys, node'[left].vals, node[left].keys, node[left].vals, node[right].keys, node[right].vals)
    <2>1. /\ node'[left].vals = Splice(node[left].vals, Len(node[left].vals), node[right].vals)
          /\ node'[left].keys = Splice(node[left].keys, Len(node[left].keys), node[right].keys)
      BY <1>12, <1>17, <1>21, <1>22 DEF IsInsert
    <2>2. /\ Joins(node'[left].keys, node[left].keys, node[right].keys)
          /\ Joins(node'[left].vals, node[left].vals, node[right].vals)
      BY <1>17, <2>1, JoinsIs
    <2>3. /\ Len(node[left].keys) \in Nat /\ Len(node[right].keys) \in Nat
          /\ Len(node[left].vals) = Len(node[left].keys) /\ Len(node[right].vals) = Len(node[right].keys)
      BY <1>17, SeqIs
    <2> QED BY <1>26, <2>2, <2>3 DEF JoinsBoth
  <1>29. MergedInto(node', node, p, j, left, right)
    <2>1. ASSUME NEW q \in DOMAIN node'
          PROVE  node'[q].next = IF node[right].leaf /\ q = left THEN node[right].next ELSE node[q].next
      BY <1>22, <1>25
    <2> QED BY <1>12, <1>20, <1>22, <1>26, <1>27, <1>28, <2>1 DEF MergedInto
  <1>30. Merger(node, node', hdr.root, p, j, left, right)
    BY <1>12, <1>15, <1>24, <1>29 DEF Merger
  <1>31. op'.pc = "fix" /\ op'.page = p
    BY <1>10 DEF Op
  <1> QED BY <1>10, <1>11, <1>30, <1>31

-----------------------------------------------------------------------------
(* What a scan returns.                                                    *)

ScanResults == [keys : Seq(Int), ends : BOOLEAN]

\* What a scan returns that reads k before it goes on to return r.
ReadThen(k, r) == [r EXCEPT !.keys = <<k>> \o @]

\* f reads an item and repeats step until it is done.
ReadEq(f, D, done, out, item, step) ==
  \A x \in D : f[x] = IF x \in done THEN out[x] ELSE ReadThen(item[x], f[step[x]])

ReadLoop(D, done, item, step, rank) ==
  /\ \A x \in D : step[x] \in D /\ rank[x] \in Nat
  /\ \A x \in D : x \notin done => item[x] \in Int /\ rank[step[x]] < rank[x]

\* ls: the keys ks, and k before them.
Longer(ls, k, ks) ==
  /\ Len(ks) \in Nat /\ Len(ls) = Len(ks) + 1 /\ ls[1] = k /\ \A i \in 1..Len(ks) : ls[i + 1] = ks[i]

\* The result of a scan that reads one more key.
LEMMA ReadThenIs ==
  \A k, r : k \in Int /\ r \in ScanResults =>
    /\ ReadThen(k, r) \in ScanResults /\ ReadThen(k, r).ends = r.ends
    /\ Longer(ReadThen(k, r).keys, k, r.keys)
  <1> SUFFICES ASSUME NEW k \in Int, NEW r \in ScanResults
               PROVE  /\ ReadThen(k, r) \in ScanResults /\ ReadThen(k, r).ends = r.ends
                      /\ Longer(ReadThen(k, r).keys, k, r.keys)
    OBVIOUS
  <1>1. r.keys \in Seq(Int) /\ r.ends \in BOOLEAN /\ Len(r.keys) \in Nat
    BY SeqIs DEF ScanResults
  <1>2. PICK ks : ks = r.keys
    OBVIOUS
  <1>3. PICK one : one = <<k>>
    OBVIOUS
  <1>4. one \in Seq(Int) /\ Len(one) = 1 /\ one[1] = k
    BY <1>3
  <1>5. /\ one \o ks \in Seq(Int) /\ Len(one \o ks) = 1 + Len(ks)
        /\ \A i \in 1..(1 + Len(ks)) : (one \o ks)[i] = IF i <= 1 THEN one[i] ELSE ks[i - 1]
    <2>1. /\ one \o ks \in Seq(Int) /\ Len(one \o ks) = Len(one) + Len(ks)
          /\ \A i \in 1..(Len(one) + Len(ks)) :
               (one \o ks)[i] = IF i <= Len(one) THEN one[i] ELSE ks[i - Len(one)]
      BY <1>1, <1>2, <1>4, ConcatProperties
    <2> QED BY <1>4, <2>1
  <1>6. (one \o ks)[1] = k
    <2>1. 1 \in 1..(1 + Len(ks))
      BY <1>1, <1>2
    <2> QED BY <1>4, <1>5, <2>1
  <1>7. ASSUME NEW i \in 1..Len(ks) PROVE (one \o ks)[i + 1] = ks[i]
    <2>1. i + 1 \in 1..(1 + Len(ks)) /\ ~(i + 1 <= 1) /\ i + 1 - 1 = i
      BY <1>1, <1>2
    <2> QED BY <1>5, <2>1
  <1>8. ReadThen(k, r).keys = one \o ks /\ ReadThen(k, r).ends = r.ends
    BY <1>2, <1>3 DEF ReadThen, ScanResults
  <1>9. ReadThen(k, r) \in ScanResults
    <2>1. ReadThen(k, r) = [r EXCEPT !.keys = one \o ks]
      BY <1>2, <1>3 DEF ReadThen
    <2> HIDE DEF ReadThen
    <2> QED BY <1>5, <2>1 DEF ScanResults
  <1>10. Len(one \o ks) = Len(ks) + 1
    BY <1>1, <1>2, <1>5
  <1>11. Longer(one \o ks, k, ks)
    BY <1>1, <1>2, <1>6, <1>7, <1>10 DEF Longer
  <1> QED BY <1>2, <1>8, <1>9, <1>11

\* There is such an f when the ranks are bounded.
LEMMA ReadExists ==
  \A D, done, out, item, step, rank, n :
    (/\ ReadLoop(D, done, item, step, rank) /\ (\A x \in D : out[x] \in ScanResults)
     /\ n \in Nat /\ (\A x \in D : rank[x] <= n))
      => \E f \in [D -> ScanResults] : ReadEq(f, D, done, out, item, step)
  <1> SUFFICES ASSUME NEW D, NEW done, NEW out, NEW item, NEW step, NEW rank, NEW n,
                      ReadLoop(D, done, item, step, rank), \A x \in D : out[x] \in ScanResults,
                      n \in Nat, \A x \in D : rank[x] <= n
               PROVE  \E f \in [D -> ScanResults] : ReadEq(f, D, done, out, item, step)
    OBVIOUS
  <1> DEFINE Upto(f, k) ==
               \A x \in D : rank[x] < k => f[x] = IF x \in done THEN out[x] ELSE ReadThen(item[x], f[step[x]])
             P == {k \in Nat : \E f \in [D -> ScanResults] : Upto(f, k)}
             rk == [k \in Nat |-> k]
  <1>1. ASSUME NEW k \in Nat, \A j \in Nat : rk[j] < rk[k] => j \in P PROVE k \in P
    <2>1. CASE k = 0
      <3>1. [x \in D |-> out[x]] \in [D -> ScanResults]
        OBVIOUS
      <3>2. \A x \in D : ~(rank[x] < 0)
        BY DEF ReadLoop
      <3>3. Upto([x \in D |-> out[x]], 0)
        BY <3>2
      <3>4. \E f \in [D -> ScanResults] : Upto(f, 0)
        <4> HIDE DEF Upto
        <4> QED BY <3>1, <3>3
      <3> HIDE DEF Upto
      <3> QED BY <2>1, <3>4
    <2>2. CASE k # 0
      <3>1. k - 1 \in P
        BY <1>1, <2>2
      <3>2. PICK f \in [D -> ScanResults] : Upto(f, k - 1)
        <4> HIDE DEF Upto
        <4> QED BY <3>1
      <3> DEFINE g == [x \in D |-> IF x \in done THEN out[x] ELSE ReadThen(item[x], f[step[x]])]
      <3>3. g \in [D -> ScanResults]
        <4>1. ASSUME NEW x \in D PROVE g[x] \in ScanResults
          <5>1. CASE x \in done
            BY <5>1
          <5>2. CASE x \notin done
            <6>1. item[x] \in Int /\ f[step[x]] \in ScanResults
              BY <3>2, <5>2 DEF ReadLoop
            <6>2. ReadThen(item[x], f[step[x]]) \in ScanResults
              BY <6>1, ReadThenIs
            <6> QED BY <5>2, <6>2
          <5> QED BY <5>1, <5>2
        <4> QED BY <4>1
      <3>4. ASSUME NEW x \in D, rank[x] < k
            PROVE  g[x] = IF x \in done THEN out[x] ELSE ReadThen(item[x], g[step[x]])
        <4>1. CASE x \in done
          BY <4>1
        <4>2. CASE x \notin done
          <5>1. /\ step[x] \in D /\ rank[step[x]] < rank[x]
                /\ rank[x] \in Nat /\ rank[step[x]] \in Nat
            BY <4>2 DEF ReadLoop
          <5>2. rank[step[x]] < k - 1
            BY <3>4, <5>1
          <5>3. f[step[x]] = g[step[x]]
            BY <3>2, <5>1, <5>2
          <5>4. g[x] = ReadThen(item[x], f[step[x]])
            BY <4>2
          <5> QED BY <4>2, <5>3, <5>4
        <4> QED BY <4>1, <4>2
      <3> HIDE DEF g
      <3>5. Upto(g, k)
        BY <3>4
      <3> HIDE DEF Upto
      <3> QED BY <3>3, <3>5
    <2> QED BY <2>1, <2>2
  <1>2. Nat \subseteq P
    <2>1. \A k \in Nat : rk[k] \in Nat
      OBVIOUS
    <2> DEFINE D0 == Nat
    <2>2. /\ \A k \in D0 : rk[k] \in Nat
          /\ \A k \in D0 : (\A j \in D0 : rk[j] < rk[k] => j \in P) => k \in P
      BY <1>1, <2>1
    <2> HIDE DEF P, rk, D0
    <2>3. D0 \subseteq P
      BY <2>2, RankInduction
    <2> QED BY <2>3 DEF D0
  <1>3. PICK f \in [D -> ScanResults] : Upto(f, n + 1)
    <2>1. n + 1 \in P
      BY <1>2
    <2> HIDE DEF Upto
    <2> QED BY <2>1
  <1>4. \A x \in D : rank[x] < n + 1
    BY DEF ReadLoop
  <1> QED BY <1>3, <1>4 DEF ReadEq

-----------------------------------------------------------------------------
(* The leaf list as a chain, and the scan that follows it.                 *)

Leaves(ns) == {q \in Nds(ns) : ns[q].leaf}

\* d counts the leaves after a leaf: the list is one chain, from page 2 through
\* every leaf to the list header.
Chain(ns, d) ==
  /\ d \in [Pages -> Nat] /\ IX_INIT_ROOT_PAGE \in Leaves(ns)
  /\ \A q \in Leaves(ns) :
       /\ d[q] <= d[IX_INIT_ROOT_PAGE]
       /\ \/ ns[q].next = IX_LEAF_HEADER_PAGE /\ d[q] = 0
          \/ ns[q].next \in Leaves(ns) /\ d[q] = d[ns[q].next] + 1
  /\ \A q, r \in Leaves(ns) : d[q] = d[r] => q = r

\* What a scan needs: the chain ends at last_leaf, and no other leaf is empty.
Scannable(d) ==
  /\ Store(node) /\ Chain(node, d) /\ node[IX_LEAF_HEADER_PAGE].keys = <<>>
  /\ hdr.last_leaf \in Leaves(node) /\ d[hdr.last_leaf] = 0
  /\ \A q \in Leaves(node) : Size(node[q]) < MaxSize /\ (q # hdr.last_leaf => Size(node[q]) > 0)

Iids == PageNos \X (0..MaxSize)

\* The iids a scan goes through: of the entries, and the end of the index.
Place(x) ==
  /\ x \in Iids /\ x[1] \in Leaves(node) /\ x[2] <= Size(node[x[1]])
  /\ x[1] # hdr.last_leaf => x[2] < Size(node[x[1]])

\* How far an iid is from the end of the index.
Far(d) == [x \in Iids |-> IF x[1] \in Leaves(node) THEN d[x[1]] * (MaxSize + 1) + (MaxSize - x[2]) ELSE 0]

\* Multiplication.
LEMMA Times == \A a, b, m \in Nat : /\ a * m \in Nat /\ (a + 1) * m = a * m + m
                                    /\ a <= b => a * m <= b * m
  <1>1. \A a, m \in Nat : a * m \in Nat
    OBVIOUS
  <1>2. \A a, m \in Nat : (a + 1) * m = a * m + m
    OBVIOUS
  <1>3. ASSUME NEW a \in Nat, NEW b \in Nat, NEW m \in Nat, a <= b PROVE a * m <= b * m
    <2>1. PICK c \in Nat : b = a + c
      BY <1>3
    <2>2. (a + c) * m = a * m + c * m
      OBVIOUS
    <2>3. c * m \in Nat /\ a * m \in Nat
      BY <1>1
    <2> QED BY <2>1, <2>2, <2>3
  <1> QED BY <1>1, <1>2, <1>3

\* The leaves.
LEMMA LeavesIs ==
  \A ns, q : Store(ns) /\ q \in Leaves(ns) =>
    /\ q \in Nds(ns) /\ q \in Pages /\ q \in DOMAIN ns /\ q # IX_LEAF_HEADER_PAGE /\ ns[q].leaf /\ NodeOK(ns[q])
    /\ Size(ns[q]) \in Nat /\ Size(ns[q]) = Len(ns[q].keys) /\ Len(ns[q].vals) = Len(ns[q].keys)
  BY NdsIs, NodeIs, PagesIs DEF Leaves

\* What is read at an iid, and the next one.
LEMMA NextIidIs ==
  ASSUME NEW d, Scannable(d), NEW x \in Iids, Readable(x)
  PROVE  /\ x[1] \in Leaves(node) /\ Place(x) /\ Place(NextIid(x))
         /\ KeyAt(node[x[1]], x[2]) = node[x[1]].keys[x[2] + 1] /\ KeyAt(node[x[1]], x[2]) \in Int
         /\ Far(d)[NextIid(x)] < Far(d)[x]
         /\ \/ /\ NextIid(x)[1] = x[1] /\ NextIid(x)[2] = x[2] + 1
            \/ /\ x[1] # hdr.last_leaf /\ x[2] + 1 = Size(node[x[1]]) /\ NextIid(x)[2] = 0
               /\ NextIid(x)[1] \in Leaves(node) /\ d[x[1]] = d[NextIid(x)[1]] + 1
  <1>0. /\ Store(node) /\ Chain(node, d) /\ d \in [Pages -> Nat] /\ MaxSize \in Nat /\ MaxSize + 1 \in Nat
        /\ \A q \in Leaves(node) : Size(node[q]) < MaxSize /\ (q # hdr.last_leaf => Size(node[q]) > 0)
    BY Sizes DEF Scannable, Chain
  <1> DEFINE p == x[1]
             i == x[2]
             n == node[p]
             y == NextIid(x)
  <1>1. p \in PageNos /\ i \in 0..MaxSize /\ x = <<p, i>>
    BY DEF Iids
  <1>2. p \in Leaves(node) /\ i < Size(n)
    <2>1. p \in DOMAIN node /\ n.leaf /\ i < Size(n)
      BY DEF Readable
    <2>2. p # IX_LEAF_HEADER_PAGE
      <3>1. ASSUME p = IX_LEAF_HEADER_PAGE PROVE FALSE
        <4>1. n.keys = <<>>
          BY <3>1 DEF Scannable
        <4>2. Size(n) = 0
          BY <4>1 DEF Size
        <4> QED BY <1>1, <2>1, <4>2
      <3> QED BY <3>1
    <2> QED BY <2>1, <2>2 DEF Leaves, Nds
  <1>3. p \in Pages /\ NodeOK(n) /\ Size(n) \in Nat /\ n.keys \in Seq(Keys) /\ Len(n.keys) = Size(n)
    BY <1>0, <1>2, LeavesIs, NodeIs
  <1>4. KeyAt(n, i) = n.keys[i + 1] /\ KeyAt(n, i) \in Int
    <2>1. KeyAt(n, i) = n.keys[i + 1]
      BY DEF KeyAt
    <2>2. i + 1 \in 1..Size(n)
      BY <1>1, <1>2, <1>3
    <2>3. n.keys[i + 1] \in Keys
      BY <1>3, <2>2, SeqIs
    <2> QED BY <2>1, <2>3, KeysAssumption
  <1>5. Place(x)
    BY <1>1, <1>2, <1>3 DEF Place
  <1>6. Size(n) < MaxSize /\ d[p] \in Nat
    BY <1>0, <1>2, <1>3
  <1>7. Far(d)[x] = d[p] * (MaxSize + 1) + (MaxSize - i)
    BY <1>2 DEF Far
  <1>8. d[p] * (MaxSize + 1) \in Nat
    BY <1>0, <1>6, Times
  <1>9. CASE p # hdr.last_leaf /\ i + 1 = Size(n)
    <2>1. y = <<n.next, 0>>
      BY <1>9 DEF NextIid, Iid
    <2>2. d[p] # 0
      BY <1>2, <1>9 DEF Scannable, Chain
    <2>3. n.next \in Leaves(node) /\ d[p] = d[n.next] + 1
      BY <1>2, <2>2 DEF Scannable, Chain
    <2>4. n.next \in Pages /\ Size(node[n.next]) \in Nat
      BY <1>0, <2>3, LeavesIs
    <2>5. y \in Iids
      <3>1. PICK m : m = n.next
        OBVIOUS
      <3>2. m \in PageNos /\ 0 \in 0..MaxSize
        <4>1. m \in PageNos
          BY <2>4, <3>1, PagesIs
        <4>2. 0 \in 0..MaxSize
          BY <1>0
        <4> QED BY <4>1, <4>2
      <3>3. <<m, 0>> \in Iids
        BY <3>2 DEF Iids
      <3> QED BY <2>1, <3>1, <3>3
    <2>6. y[1] = n.next /\ y[2] = 0
      BY <2>1
    <2> HIDE DEF y
    <2>7. Place(y)
      BY <1>0, <2>3, <2>4, <2>5, <2>6 DEF Place
    <2>8. Far(d)[y] = d[n.next] * (MaxSize + 1) + (MaxSize - 0)
      BY <2>3, <2>5, <2>6 DEF Far
    <2>9. d[n.next] \in Nat
      BY <1>0, <2>4
    <2>10. d[p] * (MaxSize + 1) = d[n.next] * (MaxSize + 1) + (MaxSize + 1) /\ d[n.next] * (MaxSize + 1) \in Nat
      BY <1>0, <2>3, <2>9, Times
    <2>11. Far(d)[y] < Far(d)[x]
      BY <1>0, <1>1, <1>7, <1>8, <2>8, <2>10
    <2> QED BY <1>2, <1>4, <1>5, <1>9, <2>3, <2>6, <2>7, <2>11 DEF y
  <1>10. CASE ~(p # hdr.last_leaf /\ i + 1 = Size(n))
    <2>1. y = <<p, i + 1>>
      BY <1>10 DEF NextIid, Iid
    <2>2. i + 1 \in 0..MaxSize /\ i + 1 <= Size(n) /\ (p # hdr.last_leaf => i + 1 < Size(n))
      BY <1>0, <1>1, <1>2, <1>3, <1>6, <1>10
    <2>3. y \in Iids /\ y[1] = p /\ y[2] = i + 1
      BY <1>1, <2>1, <2>2 DEF Iids
    <2> HIDE DEF y
    <2>4. Place(y)
      BY <1>2, <2>2, <2>3 DEF Place
    <2>5. Far(d)[y] = d[p] * (MaxSize + 1) + (MaxSize - (i + 1))
      BY <1>2, <2>3 DEF Far
    <2>6. Far(d)[y] < Far(d)[x]
      BY <1>0, <1>1, <1>7, <1>8, <2>2, <2>5
    <2> QED BY <1>2, <1>4, <1>5, <2>3, <2>4, <2>6 DEF y
  <1> QED BY <1>9, <1>10

\* from is the function Scan follows to upper, at x.
FromAt(from, x, upper) ==
  from[x] = IF x = upper THEN [keys |-> <<>>, ends |-> TRUE]
            ELSE IF ~Readable(x) THEN [keys |-> <<>>, ends |-> FALSE]
            ELSE ReadThen(KeyAt(node[x[1]], x[2]), from[NextIid(x)])

ScanFrom(from, upper) ==
  /\ from \in [Iids -> ScanResults] /\ \A x \in Iids : FromAt(from, x, upper)
  /\ \A lower : Scan(lower, upper) = from[lower]

\* There is such a function: every scan comes to an end.
LEMMA ScanIs ==
  ASSUME NEW d, Scannable(d), NEW upper
  PROVE  \E from : ScanFrom(from, upper)
  <1> DEFINE Body(f, iid) == CASE iid = upper -> [keys |-> <<>>, ends |-> TRUE]
                        [] iid # upper /\ ~Readable(iid) -> [keys |-> <<>>, ends |-> FALSE]
                        [] OTHER -> LET rest == f[NextIid(iid)]
                                    IN  [rest EXCEPT !.keys = <<KeyAt(node[iid[1]], iid[2])>> \o @]
             Eq(f) == f = [iid \in PageNos \X (0..MaxSize) |-> Body(f, iid)]
             from == CHOOSE f : Eq(f)
             done == {x \in Iids : x = upper \/ ~Readable(x)}
             out == [x \in Iids |-> IF x = upper THEN [keys |-> <<>>, ends |-> TRUE]
                                                 ELSE [keys |-> <<>>, ends |-> FALSE]]
             item == [x \in Iids |-> KeyAt(node[x[1]], x[2])]
             step == [x \in Iids |-> IF x \in done THEN x ELSE NextIid(x)]
             rank == Far(d)
  <1>0. /\ Store(node) /\ Chain(node, d) /\ d \in [Pages -> Nat] /\ MaxSize \in Nat /\ MaxSize + 1 \in Nat
        /\ \A q \in Leaves(node) : d[q] \in Nat /\ d[q] <= d[IX_INIT_ROOT_PAGE]
        /\ d[IX_INIT_ROOT_PAGE] \in Nat
    BY Sizes, LeavesIs DEF Scannable, Chain
  <1>1. ASSUME NEW x \in Iids PROVE rank[x] \in Nat /\ rank[x] <= d[IX_INIT_ROOT_PAGE] * (MaxSize + 1) + MaxSize
    <2>1. x[2] \in 0..MaxSize
      BY DEF Iids
    <2>2. d[IX_INIT_ROOT_PAGE] * (MaxSize + 1) \in Nat
      BY <1>0, Times
    <2>3. CASE x[1] \in Leaves(node)
      <3>1. d[x[1]] \in Nat /\ d[x[1]] <= d[IX_INIT_ROOT_PAGE]
        BY <1>0, <2>3
      <3>2. /\ d[x[1]] * (MaxSize + 1) \in Nat
            /\ d[x[1]] * (MaxSize + 1) <= d[IX_INIT_ROOT_PAGE] * (MaxSize + 1)
        BY <1>0, <3>1, Times
      <3>3. rank[x] = d[x[1]] * (MaxSize + 1) + (MaxSize - x[2])
        BY <2>3 DEF Far
      <3> HIDE DEF rank
      <3> QED BY <1>0, <2>1, <2>2, <3>2, <3>3
    <2>4. CASE x[1] \notin Leaves(node)
      <3>1. rank[x] = 0
        BY <2>4 DEF Far
      <3> HIDE DEF rank
      <3> QED BY <1>0, <2>2, <3>1
    <2> QED BY <2>3, <2>4
  <1>2. ASSUME NEW x \in Iids, x \notin done
        PROVE  step[x] \in Iids /\ item[x] \in Int /\ rank[step[x]] < rank[x]
    <2>1. Readable(x) /\ step[x] = NextIid(x) /\ item[x] = KeyAt(node[x[1]], x[2])
      BY <1>2
    <2>2. Place(NextIid(x)) /\ KeyAt(node[x[1]], x[2]) \in Int /\ Far(d)[NextIid(x)] < Far(d)[x]
      BY <2>1, NextIidIs
    <2> HIDE DEF step, item
    <2> QED BY <2>1, <2>2 DEF Place
  <1>3. ReadLoop(Iids, done, item, step, rank)
    <2>1. ASSUME NEW x \in Iids, x \in done PROVE step[x] \in Iids
      BY <2>1
    <2> HIDE DEF done, item, step, rank
    <2> QED BY <1>1, <1>2, <2>1 DEF ReadLoop
  <1>4. ASSUME NEW x \in Iids PROVE out[x] \in ScanResults
    <2>1. <<>> \in Seq(Int)
      BY EmptySeq
    <2> QED BY <2>1 DEF ScanResults
  <1>5. ASSUME NEW f, NEW x \in Iids
        PROVE  Body(f, x) = IF x \in done THEN out[x] ELSE ReadThen(item[x], f[step[x]])
    <2>1. CASE x = upper
      BY <2>1
    <2>2. CASE x # upper /\ ~Readable(x)
      BY <2>2
    <2>3. CASE x # upper /\ Readable(x)
      BY <2>3 DEF ReadThen
    <2> QED BY <2>1, <2>2, <2>3
  <1>6. ASSUME NEW f
        PROVE  (f = [x \in Iids |-> f[x]] /\ ReadEq(f, Iids, done, out, item, step)) <=> Eq(f)
    <2>1. Eq(f) <=> f = [x \in Iids |-> IF x \in done THEN out[x] ELSE ReadThen(item[x], f[step[x]])]
      <3>1. \A x \in Iids : Body(f, x) = IF x \in done THEN out[x] ELSE ReadThen(item[x], f[step[x]])
        BY <1>5
      <3> HIDE DEF Body, done, out, item, step
      <3>2. [x \in Iids |-> Body(f, x)] = [x \in Iids |-> IF x \in done THEN out[x] ELSE ReadThen(item[x], f[step[x]])]
        BY <3>1
      <3> QED BY <3>2 DEF Iids
    <2> HIDE DEF Eq, done, out, item, step
    <2> QED BY <2>1 DEF ReadEq
  <1>7. \E f : Eq(f)
    <2>1. d[IX_INIT_ROOT_PAGE] * (MaxSize + 1) + MaxSize \in Nat
      BY <1>0, Times
    <2> HIDE DEF done, out, item, step, rank, Eq
    <2>2. PICK f \in [Iids -> ScanResults] : ReadEq(f, Iids, done, out, item, step)
      BY <1>1, <1>3, <1>4, <2>1, ReadExists
    <2>3. f = [x \in Iids |-> f[x]]
      BY <2>2
    <2> QED BY <1>6, <2>2, <2>3
  <1>8. Eq(from)
    <2> HIDE DEF Eq
    <2> QED BY <1>7
  <1>9. from = [x \in Iids |-> from[x]] /\ ReadEq(from, Iids, done, out, item, step)
    <2> HIDE DEF from, done, out, item, step, Eq
    <2> QED BY <1>6, <1>8
  <1>10. ASSUME NEW x \in Iids PROVE FromAt(from, x, upper)
    <2>1. from[x] = IF x \in done THEN out[x] ELSE ReadThen(item[x], from[step[x]])
      <3> HIDE DEF from, done, out, item, step
      <3> QED BY <1>9 DEF ReadEq
    <2>2. CASE x = upper
      <3> HIDE DEF from
      <3> QED BY <2>1, <2>2 DEF FromAt
    <2>3. CASE x # upper /\ ~Readable(x)
      <3> HIDE DEF from
      <3> QED BY <2>1, <2>3 DEF FromAt
    <2>4. CASE x # upper /\ Readable(x)
      <3> HIDE DEF from
      <3> QED BY <2>1, <2>4 DEF FromAt
    <2> QED BY <2>2, <2>3, <2>4
  <1>11. \A lower : Scan(lower, upper) = from[lower]
    BY DEF Scan
  <1>12. from \in [Iids -> ScanResults]
    <2> DEFINE P == {x \in Iids : from[x] \in ScanResults}
    <2>1. ASSUME NEW x \in Iids PROVE rank[x] \in Nat
      BY <1>1
    <2>2. ASSUME NEW x \in Iids, \A y \in Iids : rank[y] < rank[x] => y \in P PROVE x \in P
      <3>1. from[x] = IF x \in done THEN out[x] ELSE ReadThen(item[x], from[step[x]])
        <4> HIDE DEF from, done, out, item, step
        <4> QED BY <1>9 DEF ReadEq
      <3> HIDE DEF from, done, out, item, step, rank
      <3>2. CASE x \in done
        BY <1>4, <3>1, <3>2
      <3>3. CASE x \notin done
        <4>1. step[x] \in P /\ item[x] \in Int
          BY <1>2, <2>2, <3>3
        <4>2. ReadThen(item[x], from[step[x]]) \in ScanResults
          BY <4>1, ReadThenIs
        <4> QED BY <3>1, <3>3, <4>2
      <3> QED BY <3>2, <3>3
    <2>3. Iids \subseteq P
      <3> HIDE DEF P, rank
      <3> QED BY <2>1, <2>2, RankInduction
    <2>4. \A x \in Iids : from[x] \in ScanResults
      BY <2>3
    <2> HIDE DEF from
    <2> QED BY <1>9, <2>4
  <1> HIDE DEF from
  <1> QED BY <1>10, <1>11, <1>12 DEF ScanFrom

\* A scan that is at x has not passed u.
Reaches(d, x, u) == d[u[1]] < d[x[1]] \/ (x[1] = u[1] /\ x[2] <= u[2])

\* What the parts of an iid are.
LEMMA IidIs ==
  \A x \in Iids : x[1] \in PageNos /\ x[2] \in 0..MaxSize /\ x[2] \in Nat /\ x = <<x[1], x[2]>>
  BY Sizes DEF Iids

\* A scan on its way to u can be read, and its next iid is on the way too.
LEMMA OnTheWay ==
  ASSUME NEW d, Scannable(d), NEW x, NEW u, Place(x), Place(u), Reaches(d, x, u), x # u
  PROVE  Readable(x) /\ Place(NextIid(x)) /\ Reaches(d, NextIid(x), u)
  <1>0. Store(node) /\ Chain(node, d) /\ d \in [Pages -> Nat]
    BY DEF Scannable, Chain
  <1>1. /\ x \in Iids /\ u \in Iids /\ x[1] \in Leaves(node) /\ u[1] \in Leaves(node)
        /\ x[2] <= Size(node[x[1]]) /\ u[2] <= Size(node[u[1]])
        /\ (x[1] # hdr.last_leaf => x[2] < Size(node[x[1]])) /\ (u[1] # hdr.last_leaf => u[2] < Size(node[u[1]]))
    BY DEF Place
  <1>2. x[2] \in Nat /\ u[2] \in Nat /\ x = <<x[1], x[2]>> /\ u = <<u[1], u[2]>>
    BY <1>1, IidIs
  <1>3. /\ Size(node[x[1]]) \in Nat /\ Size(node[u[1]]) \in Nat /\ x[1] \in DOMAIN node /\ node[x[1]].leaf
        /\ d[x[1]] \in Nat /\ d[u[1]] \in Nat
    BY <1>0, <1>1, LeavesIs
  <1>4. x[1] = u[1] => x[2] < u[2]
    <2>1. x[1] = u[1] => x[2] # u[2]
      BY <1>2
    <2>2. x[1] = u[1] => x[2] <= u[2]
      BY <1>3 DEF Reaches
    <2> QED BY <1>2, <2>1, <2>2
  <1>5. x[2] < Size(node[x[1]])
    <2>1. CASE x[1] = u[1]
      BY <1>1, <1>2, <1>3, <1>4, <2>1
    <2>2. CASE x[1] # u[1]
      <3>1. d[x[1]] # 0
        BY <1>3, <2>2 DEF Reaches
      <3> QED BY <1>1, <3>1 DEF Scannable
    <2> QED BY <2>1, <2>2
  <1>6. Readable(x)
    BY <1>3, <1>5 DEF Readable
  <1>7. /\ Place(NextIid(x))
        /\ \/ /\ NextIid(x)[1] = x[1] /\ NextIid(x)[2] = x[2] + 1
           \/ /\ x[1] # hdr.last_leaf /\ x[2] + 1 = Size(node[x[1]]) /\ NextIid(x)[2] = 0
              /\ NextIid(x)[1] \in Leaves(node) /\ d[x[1]] = d[NextIid(x)[1]] + 1
    BY <1>1, <1>6, NextIidIs
  <1>8. PICK y : y = NextIid(x)
    OBVIOUS
  <1>9. CASE y[1] = x[1] /\ y[2] = x[2] + 1
    <2>1. CASE x[1] = u[1]
      <3>1. y[2] <= u[2]
        BY <1>2, <1>4, <1>9, <2>1
      <3> QED BY <1>6, <1>7, <1>8, <1>9, <2>1, <3>1 DEF Reaches
    <2>2. CASE x[1] # u[1]
      BY <1>6, <1>7, <1>8, <1>9, <2>2 DEF Reaches
    <2> QED BY <2>1, <2>2
  <1>10. CASE /\ x[1] # hdr.last_leaf /\ x[2] + 1 = Size(node[x[1]]) /\ y[2] = 0
              /\ y[1] \in Leaves(node) /\ d[x[1]] = d[y[1]] + 1
    <2>1. x[1] # u[1]
      <3> SUFFICES ASSUME x[1] = u[1] PROVE FALSE
        OBVIOUS
      <3>1. u[2] < Size(node[x[1]]) /\ x[2] < u[2]
        BY <1>1, <1>4, <1>10
      <3> QED BY <1>2, <1>3, <1>10, <3>1
    <2>2. d[u[1]] < d[x[1]] /\ d[y[1]] \in Nat
      BY <1>0, <1>10, <2>1, LeavesIs DEF Reaches
    <2>3. d[u[1]] < d[y[1]] \/ d[u[1]] = d[y[1]]
      BY <1>3, <1>10, <2>2
    <2>4. d[u[1]] = d[y[1]] => u[1] = y[1]
      BY <1>0, <1>1, <1>10 DEF Chain
    <2>5. Reaches(d, y, u)
      BY <1>2, <1>10, <2>3, <2>4 DEF Reaches
    <2> QED BY <1>6, <1>7, <1>8, <2>5
  <1> QED BY <1>7, <1>8, <1>9, <1>10

\* A scan that begins before its end gets there.
LEMMA ScanEnds ==
  ASSUME NEW d, Scannable(d), NEW u, Place(u), NEW from, ScanFrom(from, u),
         NEW x, Place(x), Reaches(d, x, u)
  PROVE  from[x].ends /\ (x # u => from[x].keys # <<>> /\ from[x].keys[1] = node[x[1]].keys[x[2] + 1])
  <1> DEFINE D == {y \in Iids : Place(y) /\ Reaches(d, y, u)}
             P == {y \in D : from[y].ends}
             rank == [y \in D |-> Far(d)[y]]
  <1>1. from \in [Iids -> ScanResults] /\ \A y \in Iids : FromAt(from, y, u)
    BY DEF ScanFrom
  <1>2. ASSUME NEW y, Place(y), Reaches(d, y, u), y # u
        PROVE  /\ y \in Iids /\ NextIid(y) \in D /\ KeyAt(node[y[1]], y[2]) \in Int
               /\ Far(d)[NextIid(y)] < Far(d)[y] /\ from[NextIid(y)] \in ScanResults
               /\ from[y] = ReadThen(KeyAt(node[y[1]], y[2]), from[NextIid(y)])
               /\ KeyAt(node[y[1]], y[2]) = node[y[1]].keys[y[2] + 1]
    <2>1. y \in Iids
      BY <1>2 DEF Place
    <2>2. Readable(y) /\ Place(NextIid(y)) /\ Reaches(d, NextIid(y), u)
      BY <1>2, OnTheWay
    <2>3. /\ KeyAt(node[y[1]], y[2]) \in Int /\ Far(d)[NextIid(y)] < Far(d)[y]
          /\ KeyAt(node[y[1]], y[2]) = node[y[1]].keys[y[2] + 1]
      BY <2>1, <2>2, NextIidIs
    <2>4. NextIid(y) \in Iids
      BY <2>2 DEF Place
    <2>5. from[y] = ReadThen(KeyAt(node[y[1]], y[2]), from[NextIid(y)])
      BY <1>1, <1>2, <2>1, <2>2 DEF FromAt
    <2>6. from[NextIid(y)] \in ScanResults
      BY <1>1, <2>4
    <2> QED BY <2>1, <2>2, <2>3, <2>4, <2>5, <2>6
  <1>3. ASSUME NEW y \in D PROVE rank[y] \in Nat
    <2>1. y \in Iids /\ y[1] \in Leaves(node) /\ y[2] \in 0..MaxSize
      BY IidIs DEF Place
    <2>2. d[y[1]] \in Nat /\ MaxSize \in Nat /\ MaxSize + 1 \in Nat
      BY <2>1, LeavesIs, Sizes DEF Scannable, Chain
    <2>3. d[y[1]] * (MaxSize + 1) \in Nat
      BY <2>2, Times
    <2>4. Far(d)[y] = d[y[1]] * (MaxSize + 1) + (MaxSize - y[2])
      BY <2>1 DEF Far
    <2>5. Far(d)[y] \in Nat
      BY <2>1, <2>2, <2>3, <2>4
    <2> QED BY <2>5
  <1>4. ASSUME NEW y \in D, \A z \in D : rank[z] < rank[y] => z \in P PROVE y \in P
    <2>1. CASE y = u
      <3>1. from[y].ends
        BY <1>1, <2>1 DEF FromAt
      <3> QED BY <3>1
    <2>2. CASE y # u
      <3>1. /\ NextIid(y) \in D /\ KeyAt(node[y[1]], y[2]) \in Int /\ from[NextIid(y)] \in ScanResults
            /\ Far(d)[NextIid(y)] < Far(d)[y]
            /\ from[y] = ReadThen(KeyAt(node[y[1]], y[2]), from[NextIid(y)])
        BY <1>2, <2>2
      <3>2. NextIid(y) \in P
        BY <1>4, <3>1
      <3>3. from[y].ends = from[NextIid(y)].ends
        <4>1. PICK k, r : k = KeyAt(node[y[1]], y[2]) /\ r = from[NextIid(y)]
          OBVIOUS
        <4>2. k \in Int /\ r \in ScanResults /\ from[y] = ReadThen(k, r)
          BY <3>1, <4>1
        <4>3. ReadThen(k, r).ends = r.ends
          <5> HIDE DEF D, P, rank
          <5> QED BY ONLY <4>2, ReadThenIs
        <4> QED BY <4>1, <4>2, <4>3
      <3> QED BY <3>2, <3>3
    <2> QED BY <2>1, <2>2
  <1>5. D \subseteq P
    <2> HIDE DEF P, rank, D
    <2> QED BY <1>3, <1>4, RankInduction
  <1>6. from[x].ends
    <2>1. x \in D
      BY DEF Place
    <2> QED BY <1>5, <2>1
  <1>7. ASSUME x # u PROVE from[x].keys # <<>> /\ from[x].keys[1] = node[x[1]].keys[x[2] + 1]
    <2>1. PICK k : k = KeyAt(node[x[1]], x[2])
      OBVIOUS
    <2>2. PICK r : r = from[NextIid(x)]
      OBVIOUS
    <2>3. k \in Int /\ r \in ScanResults /\ from[x] = ReadThen(k, r) /\ k = node[x[1]].keys[x[2] + 1]
      <3>1. /\ KeyAt(node[x[1]], x[2]) \in Int /\ from[NextIid(x)] \in ScanResults
            /\ from[x] = ReadThen(KeyAt(node[x[1]], x[2]), from[NextIid(x)])
            /\ KeyAt(node[x[1]], x[2]) = node[x[1]].keys[x[2] + 1]
        BY <1>2, <1>7
      <3> QED BY <2>1, <2>2, <3>1
    <2>4. Len(r.keys) \in Nat /\ Len(from[x].keys) = Len(r.keys) + 1 /\ from[x].keys[1] = k
      <3>1. /\ Len(r.keys) \in Nat /\ Len(ReadThen(k, r).keys) = Len(r.keys) + 1
            /\ ReadThen(k, r).keys[1] = k
        BY ONLY <2>3, ReadThenIs DEF Longer
      <3> QED BY <2>3, <3>1
    <2>5. Len(from[x].keys) # 0
      BY <2>4
    <2>6. from[x].keys # <<>>
      BY <2>5
    <2> QED BY <2>3, <2>4, <2>6
  <1> QED BY <1>6, <1>7

\* The slots with entries that a scan at x has yet to read.
SlotsFrom(d, x) ==
  {at \in Pages \X (1..MaxSize) :
     /\ at[1] \in Leaves(node) /\ at[2] <= Size(node[at[1]])
     /\ d[at[1]] < d[x[1]] \/ (at[1] = x[1] /\ x[2] < at[2])}

SlotKey(at) == node[at[1]].keys[at[2]]

\* ks are the keys in the slots T, each slot once, in the order of g.
Visits(g, ks, T) ==
  /\ g \in [1..Len(ks) -> T]
  /\ \A i, j \in 1..Len(ks) : g[i] = g[j] => i = j
  /\ \A at \in T : \E i \in 1..Len(ks) : g[i] = at
  /\ \A i \in 1..Len(ks) : ks[i] = SlotKey(g[i])

\* One more slot is visited before the others.
LEMMA VisitsOneMore ==
  ASSUME NEW g, NEW ks, NEW ls, NEW T, NEW U, NEW at, Visits(g, ks, T), Len(ks) \in Nat,
         Len(ls) = Len(ks) + 1, ls[1] = SlotKey(at), \A i \in 1..Len(ks) : ls[i + 1] = ks[i],
         U = T \cup {at}, at \notin T
  PROVE  \E f : Visits(f, ls, U)
  <1> DEFINE n == Len(ks)
             f == [i \in 1..(n + 1) |-> IF i = 1 THEN at ELSE g[i - 1]]
  <1>0. n \in Nat
    OBVIOUS
  <1>1. /\ g \in [1..n -> T] /\ (\A i, j \in 1..n : g[i] = g[j] => i = j)
        /\ (\A x \in T : \E i \in 1..n : g[i] = x) /\ \A i \in 1..n : ks[i] = SlotKey(g[i])
    BY DEF Visits
  <1>2. \A i \in 1..(n + 1) : i # 1 => i - 1 \in 1..n
    BY <1>0
  <1>3. \A i \in 1..n : i + 1 \in 1..(n + 1) /\ i + 1 # 1 /\ i + 1 - 1 = i
    BY <1>0
  <1>4. 1 \in 1..(n + 1)
    BY <1>0
  <1> HIDE DEF n
  <1>5. f[1] = at /\ \A i \in 1..(n + 1) : i # 1 => f[i] = g[i - 1] /\ f[i] \in T
    BY <1>1, <1>2, <1>4
  <1>6. f \in [1..(n + 1) -> U]
    <2>1. \A i \in 1..(n + 1) : f[i] \in U
      BY <1>5
    <2> QED BY <2>1
  <1> HIDE DEF f
  <1>7. ASSUME NEW i \in 1..(n + 1), NEW j \in 1..(n + 1), f[i] = f[j] PROVE i = j
    <2>1. CASE i = 1
      BY <1>5, <1>7, <2>1
    <2>2. CASE j = 1
      BY <1>5, <1>7, <2>2
    <2>3. CASE i # 1 /\ j # 1
      <3>1. i - 1 = j - 1
        BY <1>1, <1>2, <1>5, <1>7, <2>3
      <3> QED BY <3>1
    <2> QED BY <2>1, <2>2, <2>3
  <1>8. ASSUME NEW x \in U PROVE \E i \in 1..(n + 1) : f[i] = x
    <2>1. CASE x = at
      BY <1>4, <1>5, <2>1
    <2>2. CASE x \in T
      <3>1. PICK i \in 1..n : g[i] = x
        BY <1>1, <2>2
      <3>2. PICK e : e = i + 1
        OBVIOUS
      <3>3. e \in 1..(n + 1) /\ e # 1 /\ e - 1 = i
        BY <1>3, <3>2
      <3>4. f[e] = x
        BY <1>5, <3>1, <3>3
      <3> QED BY <3>3, <3>4
    <2> QED BY <2>1, <2>2
  <1>9. ASSUME NEW i \in 1..(n + 1) PROVE ls[i] = SlotKey(f[i])
    <2>1. CASE i = 1
      BY <1>5, <2>1
    <2>2. CASE i # 1
      <3>1. PICK e : e = i - 1
        OBVIOUS
      <3>2. e \in 1..n /\ i = e + 1 /\ f[i] = g[e]
        BY <1>2, <1>5, <2>2, <3>1
      <3>3. ls[e + 1] = ks[e]
        BY <3>2 DEF n
      <3> QED BY <1>1, <3>2, <3>3
    <2> QED BY <2>1, <2>2
  <1>10. Len(ls) = n + 1
    BY DEF n
  <1>11. Visits(f, ls, U)
    BY <1>6, <1>7, <1>8, <1>9, <1>10 DEF Visits
  <1> QED BY <1>11

\* Reading an iid leaves the slots after it.
LEMMA SlotsFromNext ==
  ASSUME NEW d, Scannable(d), NEW x \in Iids, Readable(x)
  PROVE  /\ SlotsFrom(d, x) = SlotsFrom(d, NextIid(x)) \cup {<<x[1], x[2] + 1>>}
         /\ <<x[1], x[2] + 1>> \notin SlotsFrom(d, NextIid(x))
  <1>0. Store(node) /\ Chain(node, d) /\ d \in [Pages -> Nat] /\ MaxSize \in Nat
        /\ \A q \in Leaves(node) : Size(node[q]) < MaxSize
    BY Sizes DEF Scannable, Chain
  <1>1. PICK y : y = NextIid(x)
    OBVIOUS
  <1>2. PICK p, i : p = x[1] /\ i = x[2]
    OBVIOUS
  <1>3. /\ p \in Leaves(node) /\ Place(x) /\ Place(y)
        /\ \/ y[1] = p /\ y[2] = i + 1
           \/ /\ p # hdr.last_leaf /\ i + 1 = Size(node[p]) /\ y[2] = 0
              /\ y[1] \in Leaves(node) /\ d[p] = d[y[1]] + 1
    BY <1>1, <1>2, NextIidIs
  <1>4. i \in Nat /\ i < Size(node[p])
    BY <1>2, IidIs DEF Readable
  <1>5. Size(node[p]) \in Nat /\ Size(node[p]) < MaxSize /\ p \in Pages /\ d[p] \in Nat
    BY <1>0, <1>3, LeavesIs
  <1>6. i + 1 \in 1..MaxSize /\ i + 1 <= Size(node[p])
    BY <1>0, <1>4, <1>5
  <1> DEFINE at0 == <<p, i + 1>>
  <1>7. at0 \in SlotsFrom(d, x)
    <2>1. at0 \in Pages \X (1..MaxSize) /\ at0[1] = p /\ at0[2] = i + 1 /\ i < i + 1
      BY <1>4, <1>5, <1>6
    <2> QED BY <1>2, <1>3, <1>6, <2>1 DEF SlotsFrom
  <1>8. ASSUME NEW at \in Pages \X (1..MaxSize), at[1] \in Leaves(node), at[2] <= Size(node[at[1]])
        PROVE  /\ (d[at[1]] < d[p] \/ (at[1] = p /\ i < at[2]))
                  <=> (d[at[1]] < d[y[1]] \/ (at[1] = y[1] /\ y[2] < at[2])) \/ at = at0
               /\ ~((d[at0[1]] < d[y[1]] \/ (at0[1] = y[1] /\ y[2] < at0[2])))
    <2>1. PICK q, j : q = at[1] /\ j = at[2]
      OBVIOUS
    <2>2. q \in Leaves(node) /\ q \in Pages /\ j \in Nat /\ j > 0 /\ j <= Size(node[q]) /\ at = <<q, j>> /\ d[q] \in Nat
      BY <1>0, <1>8, <2>1, LeavesIs
    <2>3. at = at0 <=> q = p /\ j = i + 1
      BY <2>2
    <2>4. at0[1] = p /\ at0[2] = i + 1
      OBVIOUS
    <2> HIDE DEF at0
    <2>5. CASE y[1] = p /\ y[2] = i + 1
      <3>1. ~(d[at0[1]] < d[y[1]] \/ (at0[1] = y[1] /\ y[2] < at0[2]))
        BY <1>4, <1>5, <2>4, <2>5
      <3>2. (i < j) <=> (i + 1 < j \/ j = i + 1)
        BY <1>4, <2>2
      <3> QED BY <2>1, <2>3, <2>5, <3>1, <3>2
    <2>6. CASE /\ p # hdr.last_leaf /\ i + 1 = Size(node[p]) /\ y[2] = 0
               /\ y[1] \in Leaves(node) /\ d[p] = d[y[1]] + 1
      <3>1. d[y[1]] \in Nat
        BY <1>0, <2>6, LeavesIs
      <3>2. y[1] # p
        BY <1>5, <2>6, <3>1
      <3>3. ~(d[at0[1]] < d[y[1]] \/ (at0[1] = y[1] /\ y[2] < at0[2]))
        BY <1>5, <2>4, <2>6, <3>1, <3>2
      <3>4. d[q] = d[y[1]] <=> q = y[1]
        BY <1>0, <2>2, <2>6 DEF Chain
      <3>5. d[q] < d[p] <=> d[q] < d[y[1]] \/ d[q] = d[y[1]]
        BY <2>2, <2>6, <3>1
      <3>6. q = p => (i < j <=> j = i + 1)
        BY <1>4, <2>2, <2>6
      <3>7. y[2] < j
        BY <2>2, <2>6
      <3> QED BY <2>1, <2>3, <3>3, <3>4, <3>5, <3>6, <3>7
    <2> QED BY <1>3, <2>5, <2>6
  <1>9. at0 \notin SlotsFrom(d, y)
    <2>1. at0 \in Pages \X (1..MaxSize) /\ at0[1] \in Leaves(node) /\ at0[2] <= Size(node[at0[1]])
      BY <1>7 DEF SlotsFrom
    <2>2. ~(d[at0[1]] < d[y[1]] \/ (at0[1] = y[1] /\ y[2] < at0[2]))
      BY <1>8, <2>1
    <2> HIDE DEF at0
    <2> QED BY <2>2 DEF SlotsFrom
  <1>10. SlotsFrom(d, x) = SlotsFrom(d, y) \cup {at0}
    <2> HIDE DEF at0
    <2>1. ASSUME NEW at \in SlotsFrom(d, x) PROVE at \in SlotsFrom(d, y) \cup {at0}
      <3>1. /\ at \in Pages \X (1..MaxSize) /\ at[1] \in Leaves(node) /\ at[2] <= Size(node[at[1]])
            /\ d[at[1]] < d[p] \/ (at[1] = p /\ i < at[2])
        BY <1>2, <2>1 DEF SlotsFrom
      <3>2. (d[at[1]] < d[y[1]] \/ (at[1] = y[1] /\ y[2] < at[2])) \/ at = at0
        BY <1>8, <3>1
      <3> QED BY <3>1, <3>2 DEF SlotsFrom
    <2>2. ASSUME NEW at \in SlotsFrom(d, y) PROVE at \in SlotsFrom(d, x)
      <3>1. /\ at \in Pages \X (1..MaxSize) /\ at[1] \in Leaves(node) /\ at[2] <= Size(node[at[1]])
            /\ d[at[1]] < d[y[1]] \/ (at[1] = y[1] /\ y[2] < at[2])
        BY <2>2 DEF SlotsFrom
      <3>2. d[at[1]] < d[p] \/ (at[1] = p /\ i < at[2])
        BY <1>8, <3>1
      <3> QED BY <1>2, <3>1, <3>2 DEF SlotsFrom
    <2> QED BY <1>7, <2>1, <2>2
  <1> QED BY <1>1, <1>2, <1>9, <1>10

\* The end of the index is a place, and every place is on the way to it.
LEMMA EndIs ==
  ASSUME NEW d, Scannable(d)
  PROVE  /\ Place(leaf_end) /\ SlotsFrom(d, leaf_end) = {}
         /\ \A x : Place(x) => Reaches(d, x, leaf_end)
  <1>0. /\ Store(node) /\ Chain(node, d) /\ d \in [Pages -> Nat] /\ MaxSize \in Nat
        /\ hdr.last_leaf \in Leaves(node) /\ d[hdr.last_leaf] = 0
        /\ \A q \in Leaves(node) : Size(node[q]) < MaxSize
    BY Sizes DEF Scannable, Chain
  <1>1. PICK l, s : l = hdr.last_leaf /\ s = Size(node[l])
    OBVIOUS
  <1>2. l \in Pages /\ l \in PageNos /\ s \in Nat /\ s < MaxSize
    BY <1>0, <1>1, LeavesIs, PagesIs
  <1>3. s \in 0..MaxSize
    BY <1>0, <1>2
  <1>4. PICK u : u = leaf_end
    OBVIOUS
  <1>5. u = <<l, s>> /\ u[1] = l /\ u[2] = s /\ u \in Iids
    BY <1>1, <1>2, <1>3, <1>4 DEF leaf_end, Iid, Iids
  <1>6. Place(u)
    BY <1>0, <1>1, <1>2, <1>5 DEF Place
  <1>7. SlotsFrom(d, u) = {}
    <2> SUFFICES ASSUME NEW at \in SlotsFrom(d, u) PROVE FALSE
      OBVIOUS
    <2>1. /\ at[1] \in Leaves(node) /\ at[2] <= Size(node[at[1]]) /\ at[2] \in Nat
          /\ d[at[1]] < d[u[1]] \/ (at[1] = u[1] /\ u[2] < at[2])
      BY DEF SlotsFrom
    <2>2. d[at[1]] \in Nat
      BY <1>0, <2>1, LeavesIs
    <2> QED BY <1>0, <1>1, <1>2, <1>5, <2>1, <2>2
  <1>8. ASSUME NEW x, Place(x) PROVE Reaches(d, x, u)
    <2>1. x[1] \in Leaves(node) /\ x[2] <= Size(node[x[1]])
      BY <1>8 DEF Place
    <2>2. d[x[1]] \in Nat
      BY <1>0, <2>1, LeavesIs
    <2>3. d[x[1]] = 0 => x[1] = l
      BY <1>0, <1>1, <2>1 DEF Chain
    <2>4. d[x[1]] # 0 => 0 < d[x[1]]
      BY <2>2
    <2> QED BY <1>0, <1>1, <1>5, <2>1, <2>3, <2>4 DEF Reaches
  <1> QED BY <1>4, <1>6, <1>7, <1>8

\* One step of a scan on its way to u.
LEMMA ScanReads ==
  ASSUME NEW d, Scannable(d), NEW u, Place(u), NEW from, ScanFrom(from, u),
         NEW x, Place(x), Reaches(d, x, u), x # u
  PROVE  \E k, r :
           /\ k = SlotKey(<<x[1], x[2] + 1>>) /\ k \in Int /\ r = from[NextIid(x)] /\ r \in ScanResults
           /\ from[x] = ReadThen(k, r) /\ Readable(x) /\ x \in Iids /\ Place(NextIid(x))
           /\ Far(d)[NextIid(x)] < Far(d)[x]
  <1>1. from \in [Iids -> ScanResults] /\ \A y \in Iids : FromAt(from, y, u)
    BY DEF ScanFrom
  <1>2. PICK k, r : k = KeyAt(node[x[1]], x[2]) /\ r = from[NextIid(x)]
    OBVIOUS
  <1>3. x \in Iids
    BY DEF Place
  <1>4. Readable(x) /\ Place(NextIid(x))
    BY OnTheWay
  <1>5. /\ KeyAt(node[x[1]], x[2]) \in Int /\ Far(d)[NextIid(x)] < Far(d)[x]
        /\ KeyAt(node[x[1]], x[2]) = node[x[1]].keys[x[2] + 1]
    BY <1>3, <1>4, NextIidIs
  <1>6. NextIid(x) \in Iids
    BY <1>4 DEF Place
  <1>7. from[x] = ReadThen(k, r)
    BY <1>1, <1>2, <1>3, <1>4 DEF FromAt
  <1>8. r \in ScanResults
    BY <1>1, <1>2, <1>6
  <1>9. k = SlotKey(<<x[1], x[2] + 1>>)
    BY <1>2, <1>5 DEF SlotKey
  <1> QED BY <1>2, <1>3, <1>4, <1>5, <1>7, <1>8, <1>9

\* How far a place is from the end is a number.
LEMMA FarIs ==
  ASSUME NEW d, Scannable(d), NEW x, Place(x)
  PROVE  Far(d)[x] \in Nat
  <1>1. x \in Iids /\ x[1] \in Leaves(node) /\ x[2] \in 0..MaxSize
    BY IidIs DEF Place
  <1>2. d[x[1]] \in Nat /\ MaxSize \in Nat /\ MaxSize + 1 \in Nat
    BY <1>1, LeavesIs, Sizes DEF Scannable, Chain
  <1>3. d[x[1]] * (MaxSize + 1) \in Nat
    BY <1>2, Times
  <1>4. Far(d)[x] = d[x[1]] * (MaxSize + 1) + (MaxSize - x[2])
    BY <1>1 DEF Far
  <1> QED BY <1>1, <1>2, <1>3, <1>4

\* A scan to the end of the index reads every slot it has yet to read, once.
LEMMA ScanVisits ==
  ASSUME NEW d, Scannable(d), NEW from, ScanFrom(from, leaf_end), NEW x, Place(x)
  PROVE  \E g : Visits(g, from[x].keys, SlotsFrom(d, x))
  <1>0. PICK u : u = leaf_end
    OBVIOUS
  <1>1. ScanFrom(from, u) /\ Place(u) /\ SlotsFrom(d, u) = {} /\ \A y : Place(y) => Reaches(d, y, u)
    BY <1>0, EndIs
  <1> DEFINE D == {y \in Iids : Place(y)}
             P == {y \in D : \E g : Visits(g, from[y].keys, SlotsFrom(d, y))}
             rank == [y \in D |-> Far(d)[y]]
  <1>2. ASSUME NEW y \in D PROVE rank[y] \in Nat
    BY FarIs
  <1>3. ASSUME NEW y \in D, \A z \in D : rank[z] < rank[y] => z \in P PROVE y \in P
    <2>1. CASE y = u
      <3>1. from[u].keys = <<>>
        BY <1>1, <2>1 DEF ScanFrom, FromAt
      <3>2. PICK g : g = [i \in {} |-> 0]
        OBVIOUS
      <3>3. Len(<<>>) = 0 /\ 1..0 = {}
        OBVIOUS
      <3>4. Visits(g, <<>>, {})
        BY <3>2, <3>3 DEF Visits
      <3> QED BY <1>1, <2>1, <3>1, <3>4
    <2>2. CASE y # u
      <3>0. Place(y) /\ Reaches(d, y, u)
        BY <1>1
      <3>1. PICK k, r :
              /\ k = SlotKey(<<y[1], y[2] + 1>>) /\ k \in Int /\ r = from[NextIid(y)] /\ r \in ScanResults
              /\ from[y] = ReadThen(k, r) /\ Readable(y) /\ y \in Iids /\ Place(NextIid(y))
              /\ Far(d)[NextIid(y)] < Far(d)[y]
        BY <1>1, <2>2, <3>0, ScanReads
      <3>2. NextIid(y) \in D
        BY <3>1 DEF Place
      <3>3. rank[NextIid(y)] < rank[y]
        BY <3>1, <3>2
      <3>4. NextIid(y) \in P
        BY <1>3, <3>2, <3>3
      <3>5. PICK g : Visits(g, r.keys, SlotsFrom(d, NextIid(y)))
        BY <3>1, <3>4
      <3>6. /\ Len(r.keys) \in Nat /\ Len(from[y].keys) = Len(r.keys) + 1 /\ from[y].keys[1] = k
            /\ \A i \in 1..Len(r.keys) : from[y].keys[i + 1] = r.keys[i]
        <4>1. Longer(from[y].keys, k, r.keys)
          BY <3>1, ReadThenIs
        <4> QED BY <4>1 DEF Longer
      <3>7. /\ SlotsFrom(d, y) = SlotsFrom(d, NextIid(y)) \cup {<<y[1], y[2] + 1>>}
            /\ <<y[1], y[2] + 1>> \notin SlotsFrom(d, NextIid(y))
        BY <3>1, SlotsFromNext
      <3>8. PICK ks, ls, T, U, at : /\ ks = r.keys /\ ls = from[y].keys /\ T = SlotsFrom(d, NextIid(y))
                                    /\ U = SlotsFrom(d, y) /\ at = <<y[1], y[2] + 1>>
        OBVIOUS
      <3>9. \E f : Visits(f, ls, U)
        <4>1. /\ Visits(g, ks, T) /\ Len(ks) \in Nat
              /\ Len(ls) = Len(ks) + 1 /\ ls[1] = SlotKey(at) /\ \A i \in 1..Len(ks) : ls[i + 1] = ks[i]
              /\ U = T \cup {at} /\ at \notin T
          BY <3>1, <3>5, <3>6, <3>7, <3>8
        <4> QED BY ONLY <4>1, VisitsOneMore
      <3> QED BY <3>8, <3>9
    <2> QED BY <2>1, <2>2
  <1>4. D \subseteq P
    <2> HIDE DEF P, rank, D
    <2> QED BY <1>2, <1>3, RankInduction
  <1>5. x \in D
    BY DEF Place
  <1> QED BY <1>4, <1>5

KeySlots(T, key) == {at \in T : SlotKey(at) = key}

Hits(ks, key) == {i \in 1..Len(ks) : ks[i] = key}

\* The slots that hold a key are as many as the times it is visited.
LEMMA VisitsCount ==
  ASSUME NEW g, NEW ks, NEW T, Visits(g, ks, T), Len(ks) \in Nat, NEW key
  PROVE  Cardinality(KeySlots(T, key)) = Cardinality(Hits(ks, key))
  <1> DEFINE S == {i \in 1..Len(ks) : ks[i] = key}
             U == {at \in T : SlotKey(at) = key}
             f == [i \in S |-> g[i]]
  <1>1. IsFiniteSet(S)
    <2>1. IsFiniteSet(1..Len(ks))
      BY FS_Interval
    <2> QED BY <2>1, FS_Subset
  <1>2. \A i \in S : f[i] \in U
    BY DEF Visits
  <1>3. f \in [S -> U]
    BY <1>2
  <1>4. \A i, j \in S : f[i] = f[j] => i = j
    BY DEF Visits
  <1>5. ASSUME NEW at \in U PROVE \E i \in S : f[i] = at
    <2>1. PICK i \in 1..Len(ks) : g[i] = at
      BY DEF Visits
    <2>2. ks[i] = key
      BY <2>1 DEF Visits
    <2> QED BY <2>1, <2>2
  <1>6. DOMAIN f = S
    OBVIOUS
  <1> HIDE DEF S, U, f
  <1>7. f \in Bijection(S, U)
    BY <1>3, <1>4, <1>5, <1>6 DEF Bijection, Injection, Surjection, IsInjective
  <1>8. ExistsBijection(S, U)
    BY <1>7 DEF ExistsBijection
  <1>9. Cardinality(U) = Cardinality(S)
    BY <1>1, <1>8, FS_Bijection
  <1> QED BY <1>9 DEF S, U, KeySlots, Hits

\* The slots of all entries.
AllSlots == {at \in Pages \X (1..MaxSize) : at[1] \in Leaves(node) /\ at[2] <= Size(node[at[1]])}

\* A scan begins before all of them.
LEMMA BeginIs ==
  ASSUME NEW d, Scannable(d)
  PROVE  Place(leaf_begin) /\ SlotsFrom(d, leaf_begin) = AllSlots
  <1>0. /\ Store(node) /\ Chain(node, d) /\ d \in [Pages -> Nat] /\ MaxSize \in Nat
        /\ IX_INIT_ROOT_PAGE \in Leaves(node)
        /\ \A q \in Leaves(node) : q # hdr.last_leaf => Size(node[q]) > 0
    BY Sizes DEF Scannable, Chain
  <1>1. PICK p : p = IX_INIT_ROOT_PAGE
    OBVIOUS
  <1>2. p \in PageNos /\ p \in Pages /\ Size(node[p]) \in Nat /\ 0 \in 0..MaxSize
    BY <1>0, <1>1, LeavesIs, PagesIs
  <1>3. PICK x : x = leaf_begin
    OBVIOUS
  <1>4. x = <<p, 0>>
    BY <1>1, <1>3 DEF leaf_begin, Iid
  <1>5. x[1] = p /\ x[2] = 0 /\ x \in Iids
    BY <1>2, <1>4 DEF Iids
  <1>6. Place(x)
    BY <1>0, <1>1, <1>2, <1>5 DEF Place
  <1>7. ASSUME NEW at \in AllSlots PROVE at \in SlotsFrom(d, x)
    <2>1. at[1] \in Leaves(node) /\ at[2] \in 1..MaxSize
      BY DEF AllSlots
    <2>2. d[at[1]] \in Nat /\ d[p] \in Nat /\ d[at[1]] <= d[p] /\ (d[at[1]] = d[p] => at[1] = p)
      BY <1>0, <1>1, <1>2, <2>1, LeavesIs DEF Chain
    <2>3. d[at[1]] < d[p] \/ at[1] = p
      BY <2>2
    <2>4. 0 < at[2]
      BY <2>1
    <2> QED BY <1>5, <2>3, <2>4 DEF SlotsFrom, AllSlots
  <1>8. SlotsFrom(d, x) \subseteq AllSlots
    BY DEF SlotsFrom, AllSlots
  <1> QED BY <1>3, <1>6, <1>7, <1>8

\* The copies of a key.
LEMMA CopiesIs ==
  ASSUME NEW d, Scannable(d), NEW key
  PROVE  Copies(key) = Cardinality(KeySlots(AllSlots, key))
  <1>0. Store(node) /\ node[IX_LEAF_HEADER_PAGE].keys = <<>>
    BY DEF Scannable
  <1> DEFINE T == {at \in (DOMAIN node) \X (1..MaxSize) :
                     LET n == node[at[1]] IN n.leaf /\ at[2] <= Size(n) /\ n.keys[at[2]] = key}
  <1>1. ASSUME NEW at \in T PROVE at \in AllSlots /\ SlotKey(at) = key
    <2>1. /\ at[1] \in DOMAIN node /\ at[2] \in 1..MaxSize /\ at = <<at[1], at[2]>>
          /\ node[at[1]].leaf /\ at[2] <= Size(node[at[1]]) /\ node[at[1]].keys[at[2]] = key
      OBVIOUS
    <2>2. at[1] # IX_LEAF_HEADER_PAGE
      <3> SUFFICES ASSUME at[1] = IX_LEAF_HEADER_PAGE PROVE FALSE
        OBVIOUS
      <3>1. Size(node[at[1]]) = 0
        BY <1>0 DEF Size
      <3> QED BY <2>1, <3>1
    <2>3. at[1] \in Leaves(node)
      BY <2>1, <2>2 DEF Leaves, Nds
    <2>4. at[1] \in Pages
      BY <1>0, <2>3, LeavesIs
    <2> HIDE DEF T
    <2> QED BY <2>1, <2>3, <2>4 DEF AllSlots, SlotKey
  <1>2. ASSUME NEW at \in AllSlots, SlotKey(at) = key PROVE at \in T
    <2>1. /\ at[1] \in Leaves(node) /\ at[2] \in 1..MaxSize /\ at = <<at[1], at[2]>>
          /\ at[2] <= Size(node[at[1]]) /\ node[at[1]].keys[at[2]] = key
      BY <1>2 DEF AllSlots, SlotKey
    <2>2. at[1] \in DOMAIN node /\ node[at[1]].leaf
      BY <1>0, <2>1, LeavesIs
    <2> QED BY <2>1, <2>2
  <1>3. T = {at \in AllSlots : SlotKey(at) = key}
    <2> HIDE DEF T
    <2> QED BY <1>1, <1>2
  <1>4. Copies(key) = Cardinality(T)
    BY DEF Copies
  <1> QED BY <1>3, <1>4 DEF KeySlots

\* What a scan of the whole index returns: it ends, and visits every slot once.
LEMMA WholeScan ==
  ASSUME NEW d, Scannable(d)
  PROVE  /\ Scan(leaf_begin, leaf_end).ends /\ Scan(leaf_begin, leaf_end) \in ScanResults
         /\ \E g : Visits(g, Scan(leaf_begin, leaf_end).keys, AllSlots)
  <1>1. PICK from : ScanFrom(from, leaf_end)
    BY ScanIs
  <1>2. Place(leaf_begin) /\ SlotsFrom(d, leaf_begin) = AllSlots /\ Place(leaf_end)
        /\ Reaches(d, leaf_begin, leaf_end)
    BY BeginIs, EndIs
  <1>3. PICK all : all = from[leaf_begin]
    OBVIOUS
  <1>4. Scan(leaf_begin, leaf_end) = all /\ from \in [Iids -> ScanResults]
    BY <1>1, <1>3 DEF ScanFrom
  <1>5. leaf_begin \in Iids
    BY <1>2 DEF Place
  <1>6. all.ends
    BY <1>1, <1>2, <1>3, ScanEnds
  <1>7. PICK g : Visits(g, all.keys, AllSlots)
    BY <1>1, <1>2, <1>3, ScanVisits
  <1> QED BY <1>3, <1>4, <1>5, <1>6, <1>7

\* It visits a key as often as it is there.
LEMMA ScannableVisitsAll ==
  ASSUME NEW d, Scannable(d)
  PROVE  ScanVisitsAll
  <1>1. PICK all : all = Scan(leaf_begin, leaf_end)
    OBVIOUS
  <1>2. all.ends /\ all \in ScanResults /\ \E g : Visits(g, all.keys, AllSlots)
    BY <1>1, WholeScan
  <1>3. Len(all.keys) \in Nat
    BY <1>2, SeqIs DEF ScanResults
  <1>4. PICK g : Visits(g, all.keys, AllSlots)
    BY <1>2
  <1>5. ASSUME NEW key \in Keys
        PROVE  Cardinality({i \in 1..Len(all.keys) : all.keys[i] = key}) = Copies(key)
    <2>1. PICK ks : ks = all.keys
      OBVIOUS
    <2>2. Visits(g, ks, AllSlots) /\ Len(ks) \in Nat
      BY <1>3, <1>4, <2>1
    <2>3. Cardinality(KeySlots(AllSlots, key)) = Cardinality(Hits(ks, key))
      BY <2>2, VisitsCount
    <2> QED BY <2>1, <2>3, CopiesIs DEF Hits
  <1> QED BY <1>1, <1>2, <1>5 DEF ScanVisitsAll

-----------------------------------------------------------------------------
(* What the steps of a call, after its first, do to the leaves.            *)

\* A leaf left alone, its parent and its link back apart.
SameLeaf(m, n) == m.next = n.next /\ m.keys = n.keys /\ m.vals = n.vals

\* All leaves left alone.
Alike(ms, ns) == Leaves(ms) = Leaves(ns) /\ \A q \in Leaves(ns) : SameLeaf(ms[q], ns[q])

\* The leaf p split into p and new.
Divided(ms, ns, p, new) ==
  /\ p \in Leaves(ns) /\ new \in Pages \ Leaves(ns) /\ Leaves(ms) = Leaves(ns) \cup {new}
  /\ ms[p].next = new /\ ms[new].next = ns[p].next
  /\ \A q \in Leaves(ns) : q # p => SameLeaf(ms[q], ns[q])
  /\ JoinsBoth(ns[p].keys, ns[p].vals, ms[p].keys, ms[p].vals, ms[new].keys, ms[new].vals)

\* The leaves left and right with their pairs shared out in another way.
Dealt(ms, ns, left, right) ==
  /\ left \in Leaves(ns) /\ right \in Leaves(ns) /\ left # right /\ Leaves(ms) = Leaves(ns)
  /\ \A q \in Leaves(ns) : ms[q].next = ns[q].next
  /\ \A q \in Leaves(ns) : q # left /\ q # right => SameLeaf(ms[q], ns[q])
  /\ Reshared(ns, ms, left, right)

\* The leaf right emptied into left, the leaf before it.
Joined(ms, ns, left, right) ==
  /\ left \in Leaves(ns) /\ right \in Leaves(ns) /\ left # right /\ Leaves(ms) = Leaves(ns) \ {right}
  /\ ns[left].next = right /\ ms[left].next = ns[right].next
  /\ \A q \in Leaves(ns) : q # left /\ q # right => SameLeaf(ms[q], ns[q])
  /\ JoinsBoth(ms[left].keys, ms[left].vals, ns[left].keys, ns[left].vals, ns[right].keys, ns[right].vals)

LeafStep(ms, ns) ==
  /\ ms[IX_LEAF_HEADER_PAGE].keys = ns[IX_LEAF_HEADER_PAGE].keys
  /\ \/ Alike(ms, ns)
     \/ \E p, new : Divided(ms, ns, p, new)
     \/ \E left, right : Dealt(ms, ns, left, right)
     \/ \E left, right : Joined(ms, ns, left, right)

\* The leaves of a tree are pages.
LEMMA LeafIn ==
  \A ns, q : q \in Leaves(ns) <=> q \in DOMAIN ns /\ q # IX_LEAF_HEADER_PAGE /\ ns[q].leaf
  BY DEF Leaves, Nds

\* Split.
LEMMA SplitLeafStep ==
  ASSUME NEW h, TreeInv(h), Split
  PROVE  LeafStep(node', node)
  <1>1. PICK p, new, l, r : p = op.page /\ new = FreshPage /\ l = LeftHalf(node[p]) /\ r = RightHalf(node[p])
    OBVIOUS
  <1>2. /\ p \in Nds(node) /\ new \in Pages /\ new \notin DOMAIN node
        /\ IsHalves(l, r, node[p]) /\ HalvedAs(node', node, p, new, l, r)
        /\ PutAfter(node', node, p, new)
    BY <1>1, SplitNodes
  <1>3. Store(node) /\ p \in DOMAIN node /\ p # IX_LEAF_HEADER_PAGE /\ NodeOK(node[p]) /\ p # new
        /\ IX_LEAF_HEADER_PAGE \in DOMAIN node /\ new # IX_LEAF_HEADER_PAGE
    BY <1>2, NdsIs, PagesIs DEF TreeInv, Store, Nds
  <1>4. op.pc = "split"
    BY DEF Split
  <1>5. Size(node[p]) >= 2
    BY <1>1, <1>4, Sizes DEF TreeInv, OpInv, SplitInv
  <1>6. JoinsBoth(node[p].keys, node[p].vals, l.keys, l.vals, r.keys, r.vals)
    BY <1>2, <1>3, <1>5, HalvesJoin
  <1>7. DOMAIN node' = DOMAIN node \cup {new}
    BY <1>2 DEF HalvedAs
  <1>8. /\ (node'[new].leaf <=> node[p].leaf) /\ node'[new].keys = r.keys /\ node'[new].vals = r.vals
        /\ (node'[p].leaf <=> node[p].leaf) /\ node'[p].keys = l.keys /\ node'[p].vals = l.vals
    BY <1>2, <1>3, <1>7 DEF HalvedAs, SamePairs, IsHalves, SameLinks
  <1>9. \A q \in DOMAIN node : q # p => (node'[q].leaf <=> node[q].leaf) /\ node'[q].keys = node[q].keys
                                        /\ node'[q].vals = node[q].vals
    BY <1>2, <1>7 DEF HalvedAs, SamePairs
  <1>10. \A q \in DOMAIN node : q # p => node'[q].next = node[q].next
    BY <1>2 DEF PutAfter
  <1>11. CASE node[p].leaf
    <2>1. node'[p].next = new /\ node'[new].next = node[p].next
      BY <1>2, <1>3, <1>11 DEF PutAfter
    <2>2. p \in Leaves(node) /\ new \notin Leaves(node) /\ Leaves(node') = Leaves(node) \cup {new}
      BY <1>2, <1>3, <1>7, <1>8, <1>9, <1>11, LeafIn
    <2>3. \A q \in Leaves(node) : q # p => SameLeaf(node'[q], node[q])
      BY <1>9, <1>10, LeafIn DEF SameLeaf
    <2>4. Divided(node', node, p, new)
      BY <1>2, <1>6, <1>8, <2>1, <2>2, <2>3 DEF Divided
    <2> QED BY <1>3, <1>9, <2>4 DEF LeafStep
  <1>12. CASE ~node[p].leaf
    <2>1. Leaves(node') = Leaves(node) /\ \A q \in Leaves(node) : q # p
      BY <1>2, <1>3, <1>7, <1>8, <1>9, <1>12, LeafIn
    <2>2. Alike(node', node)
      BY <1>9, <1>10, <2>1, LeafIn DEF Alike, SameLeaf
    <2> QED BY <1>3, <1>9, <2>2 DEF LeafStep
  <1> QED BY <1>11, <1>12

\* A new root.
LEMMA NewRootLeafStep ==
  ASSUME NEW h, TreeInv(h), NewRoot
  PROVE  LeafStep(node', node)
  <1>1. PICK old, new, r : old = Frame[1] /\ new = Frame[2] /\ r = FreshPage
    OBVIOUS
  <1>2. /\ r \in Pages /\ r \notin DOMAIN node /\ DOMAIN node' = DOMAIN node \cup {r}
        /\ RootOver(node'[r], old, new)
        /\ \A q \in DOMAIN node : RootedAs(node'[q], node[q], q, old, new, r)
    BY <1>1, NewRootNodes
  <1>3. IX_LEAF_HEADER_PAGE \in DOMAIN node /\ ~node'[r].leaf
    BY <1>2 DEF TreeInv, Store, RootOver
  <1>4. \A q \in DOMAIN node : /\ (node'[q].leaf <=> node[q].leaf) /\ node'[q].keys = node[q].keys
                               /\ node'[q].vals = node[q].vals /\ node'[q].next = node[q].next
    BY <1>2 DEF RootedAs, SamePairs
  <1>5. Leaves(node') = Leaves(node)
    BY <1>2, <1>3, <1>4, LeafIn
  <1> QED BY <1>3, <1>4, <1>5, LeafIn DEF LeafStep, Alike, SameLeaf

\* InsertIntoParent.
LEMMA InsertIntoParentLeafStep ==
  ASSUME NEW h, TreeInv(h), InsertIntoParent
  PROVE  LeafStep(node', node)
  <1>1. PICK old, new : old = Frame[1] /\ new = Frame[2]
    OBVIOUS
  <1>2. PICK p, key : p = node[old].parent /\ key = KeyAt(node[new], 0)
    OBVIOUS
  <1>3. PICK n : n = insert_pair(node[p], find_child(node[p], old) + 1, key, new)
    OBVIOUS
  <1>4. /\ p \in Nds(node) /\ ~node[p].leaf /\ DOMAIN node' = DOMAIN node
        /\ (\E i \in 1..Size(node[p]) : node[p].vals[i] = old /\ ParentWith(n, node[p], i, key, new))
        /\ \A q \in DOMAIN node : AddedAs(node'[q], node[q], q, p, n, new)
    BY <1>1, <1>2, <1>3, InsertIntoParentNodes
  <1>5. IX_LEAF_HEADER_PAGE \in DOMAIN node /\ p # IX_LEAF_HEADER_PAGE /\ p \in DOMAIN node
    BY <1>4 DEF TreeInv, Store, Nds
  <1>6. ~n.leaf
    BY <1>4 DEF ParentWith, IsInsert, SameLinks
  <1>7. \A q \in DOMAIN node : q # p => /\ (node'[q].leaf <=> node[q].leaf) /\ node'[q].keys = node[q].keys
                               /\ node'[q].vals = node[q].vals /\ node'[q].next = node[q].next
    BY <1>4 DEF AddedAs, SamePairs
  <1>8. ~node'[p].leaf
    BY <1>4, <1>5, <1>6 DEF AddedAs
  <1>9. Leaves(node') = Leaves(node) /\ \A q \in Leaves(node) : q # p
    BY <1>4, <1>7, <1>8, LeafIn
  <1> QED BY <1>5, <1>7, <1>9, LeafIn DEF LeafStep, Alike, SameLeaf

\* AdjustRoot.
LEMMA AdjustRootLeafStep ==
  ASSUME NEW h, TreeInv(h), AdjustRoot
  PROVE  LeafStep(node', node)
  <1>1. PICK r : r = op.page
    OBVIOUS
  <1>2. PICK only : only = ValueAt(node[r], 0)
    OBVIOUS
  <1>3. Underflows
    BY DEF AdjustRoot
  <1>4. r \in Nds(node) /\ Store(node) /\ NodeOK(node[r])
    BY <1>1, <1>3, FixIs
  <1>5. IX_LEAF_HEADER_PAGE \in DOMAIN node /\ r # IX_LEAF_HEADER_PAGE
    BY <1>4 DEF Store, Nds
  <1>6. CASE ~node[r].leaf /\ Size(node[r]) = 1
    <2>1. node' = [q \in DOMAIN node \ {r} |->
                     IF q = only THEN Reparented(node[q], IX_NO_PAGE) ELSE node[q]]
      BY <1>1, <1>2, <1>6 DEF AdjustRoot, Reparented
    <2>2. DOMAIN node' = DOMAIN node \ {r} /\ \A q \in DOMAIN node \ {r} :
            node'[q] = IF q = only THEN Reparented(node[q], IX_NO_PAGE) ELSE node[q]
      BY <2>1
    <2>3. ASSUME NEW q \in DOMAIN node, q # r
          PROVE  /\ (node'[q].leaf <=> node[q].leaf) /\ node'[q].keys = node[q].keys
                 /\ node'[q].vals = node[q].vals /\ node'[q].next = node[q].next
      <3>1. q \in DOMAIN node \ {r} /\ NodeOK(node[q])
        BY <1>4, <2>3 DEF Store
      <3>2. CASE q = only
        <4>1. SamePairs(node'[q], node[q]) /\ node'[q].next = node[q].next
          BY <2>2, <3>1, <3>2, ReparentIs
        <4> QED BY <4>1 DEF SamePairs
      <3>3. CASE q # only
        BY <2>2, <3>1, <3>3
      <3> QED BY <3>2, <3>3
    <2>4. Leaves(node') = Leaves(node) /\ \A q \in Leaves(node) : q # r
      BY <1>6, <2>2, <2>3, LeafIn
    <2> QED BY <1>5, <2>3, <2>4, LeafIn DEF LeafStep, Alike, SameLeaf
  <1>7. CASE ~(~node[r].leaf /\ Size(node[r]) = 1)
    <2>1. node' = node
      BY <1>1, <1>7 DEF AdjustRoot
    <2> QED BY <2>1 DEF LeafStep, Alike, SameLeaf
  <1> QED BY <1>6, <1>7

\* maintain_parent.
LEMMA MaintainParentLeafStep ==
  ASSUME NEW h, TreeInv(h), MaintainParent
  PROVE  LeafStep(node', node)
  <1>1. op.pc = "up" /\ op.page \in Nds(node)
    BY DEF MaintainParent, TreeInv, OpInv, UpInv
  <1>2. PICK c : c = op.page
    OBVIOUS
  <1>3. PICK p : p = node[c].parent
    OBVIOUS
  <1>4. PICK idx, key : idx = find_child(node[p], c) /\ key = KeyAt(node[c], 0)
    OBVIOUS
  <1>5. Parent = p /\ Index = idx
    BY <1>2, <1>3, <1>4 DEF Parent, Index
  <1>6. CASE IsRoot(c) \/ KeyAt(node[p], idx) = key
    <2>1. node' = node
      BY <1>2, <1>4, <1>5, <1>6 DEF MaintainParent
    <2> QED BY <2>1 DEF LeafStep, Alike, SameLeaf
  <1>7. CASE ~(IsRoot(c) \/ KeyAt(node[p], idx) = key)
    <2>1. PICK n : n = SetKey(node[p], idx, key)
      OBVIOUS
    <2>2. node' = Replaced(node, p, n)
      BY <1>2, <1>4, <1>5, <1>7, <2>1 DEF MaintainParent, Replaced
    <2>3. c \in Nds(node) /\ p \in Nds(node) /\ ~node[p].leaf
      BY <1>1, <1>2, <1>3, <1>7, RootIs
    <2>4. ~n.leaf
      <3>1. node[p] \in NodeRecords
        BY <2>3, NdsIs DEF TreeInv, NodeOK
      <3> QED BY <2>1, <2>3, <3>1 DEF SetKey, NodeRecords
    <2>5. DOMAIN node' = DOMAIN node /\ \A q \in DOMAIN node : node'[q] = IF q = p THEN n ELSE node[q]
      BY <2>2, ReplacedIs
    <2>6. IX_LEAF_HEADER_PAGE \in DOMAIN node /\ p # IX_LEAF_HEADER_PAGE
      BY <2>3 DEF TreeInv, Store, Nds
    <2>7. Leaves(node') = Leaves(node) /\ \A q \in Leaves(node) : q # p /\ q \in DOMAIN node
      <3>1. \A q \in DOMAIN node : node'[q].leaf <=> node[q].leaf
        BY <2>3, <2>4, <2>5
      <3>2. \A q \in Leaves(node) : q # p
        BY <2>3, LeafIn
      <3> QED BY <2>5, <3>1, <3>2, LeafIn
    <2> QED BY <2>5, <2>6, <2>7 DEF LeafStep, Alike, SameLeaf
  <1> QED BY <1>6, <1>7

\* Redistribute.
LEMMA RedistributeLeafStep ==
  ASSUME NEW h, TreeInv(h), NEW fl, NEW ll, NEW m, LeafInv(fl, ll, m), Redistribute
  PROVE  LeafStep(node', node)
  <1>1. PICK x : x = op.page
    OBVIOUS
  <1>2. PICK p : p = Parent
    OBVIOUS
  <1>3. PICK idx : idx = Index
    OBVIOUS
  <1>4. PICK y : y = Neighbor
    OBVIOUS
  <1>5. PICK from : from = From(node[y], idx)
    OBVIOUS
  <1>6. PICK to : to = To(node[x], idx)
    OBVIOUS
  <1>7. PICK key : key = KeyAt(node[y], from)
    OBVIOUS
  <1>8. PICK val : val = ValueAt(node[y], from)
    OBVIOUS
  <1>9. PICK nx : nx = insert_pair(node[x], to, key, val)
    OBVIOUS
  <1>10. PICK ny : ny = erase_pair(node[y], from)
    OBVIOUS
  <1>11. /\ Siblings(node, h, x, y, p, idx)
         /\ Moves(node, x, y, from, to, key, val, nx, ny) /\ MovesAll(node', node, x, y, val, nx, ny)
    BY <1>1, <1>2, <1>3, <1>4, <1>5, <1>6, <1>7, <1>8, <1>9, <1>10, RedistributeNodes
  <1>12. Underflows
    BY DEF Redistribute
  <1>13. Store(node)
    BY <1>1, <1>12, FixIs
  <1>14. AtEnds(node, x, y, idx, from, to) /\ KeyFrom(node, y, from, key)
    BY <1>5, <1>6, <1>7 DEF AtEnds, KeyAt, KeyFrom
  <1>15. PICK j, left, right :
           /\ Reshares(node, node', p, j, left, right) /\ {left, right} = {x, y}
           /\ right = (IF idx = 0 THEN y ELSE x)
    BY <1>11, <1>13, <1>14, MovesReshare
  <1>16. /\ x \in Nds(node) /\ y \in Nds(node) /\ x # y /\ IX_LEAF_HEADER_PAGE \in DOMAIN node
    BY <1>11, <1>13 DEF Siblings, Store
  <1>17. /\ left \in DOMAIN node /\ right \in DOMAIN node /\ left # right
         /\ left # IX_LEAF_HEADER_PAGE /\ right # IX_LEAF_HEADER_PAGE
    BY <1>15, <1>16 DEF Nds
  <1>18. /\ DOMAIN node' = DOMAIN node
         /\ \A q \in DOMAIN node : (node'[q].leaf <=> node[q].leaf) /\ node'[q].next = node[q].next
         /\ \A q \in DOMAIN node : q # left /\ q # right =>
              node'[q].keys = node[q].keys /\ node'[q].vals = node[q].vals
    BY <1>15 DEF Reshares, Apart2, SameChain
  <1>19. (node[left].leaf <=> node[right].leaf) /\ Reshared(node, node', left, right)
    BY <1>15 DEF Reshares
  <1>20. Leaves(node') = Leaves(node)
    BY <1>18, LeafIn
  <1>21. CASE node[left].leaf
    <2>1. Dealt(node', node, left, right)
      BY <1>17, <1>18, <1>19, <1>20, <1>21, LeafIn DEF Dealt, SameLeaf
    <2> QED BY <1>16, <1>17, <1>18, <2>1 DEF LeafStep
  <1>22. CASE ~node[left].leaf
    <2>1. Alike(node', node)
      BY <1>17, <1>18, <1>19, <1>20, <1>22, LeafIn DEF Alike, SameLeaf
    <2> QED BY <1>16, <1>17, <1>18, <2>1 DEF LeafStep
  <1> QED BY <1>21, <1>22

\* Coalesce.
LEMMA CoalesceLeafStep ==
  ASSUME NEW h, TreeInv(h), HdrType, NEW fl, NEW ll, NEW m, LeafInv(fl, ll, m), Coalesce
  PROVE  LeafStep(node', node)
  <1>1. PICK p, j, left, right : Merger(node, node', hdr.root, p, j, left, right)
    BY CoalesceMerges
  <1>2. Store(node) /\ IX_LEAF_HEADER_PAGE \in DOMAIN node
    BY DEF TreeInv, Store
  <1>3. /\ left \in DOMAIN node /\ right \in DOMAIN node /\ left # right
        /\ left # IX_LEAF_HEADER_PAGE /\ right # IX_LEAF_HEADER_PAGE /\ InList(node, left, right)
    BY <1>1 DEF Merger, Nds
  <1>4. /\ DOMAIN node' = DOMAIN node \ {right} /\ (node[left].leaf <=> node[right].leaf)
        /\ JoinsBoth(node'[left].keys, node'[left].vals, node[left].keys, node[left].vals,
                     node[right].keys, node[right].vals)
        /\ \A q \in DOMAIN node' : q # left /\ q # p => node'[q].keys = node[q].keys /\ node'[q].vals = node[q].vals
        /\ \A q \in DOMAIN node' :
             /\ (node'[q].leaf <=> node[q].leaf)
             /\ node'[q].next = IF node[right].leaf /\ q = left THEN node[right].next ELSE node[q].next
    BY <1>1 DEF Merger, MergedInto
  <1>5. p \in Nds(node) /\ ~node[p].leaf
    BY <1>1 DEF Merger, MergedInto, Adjacent
  <1>6. p # IX_LEAF_HEADER_PAGE /\ node'[IX_LEAF_HEADER_PAGE].keys = node[IX_LEAF_HEADER_PAGE].keys
    BY <1>2, <1>3, <1>4, <1>5 DEF Nds
  <1>7. CASE node[right].leaf
    <2>1. left \in Leaves(node) /\ right \in Leaves(node) /\ Leaves(node') = Leaves(node) \ {right}
      BY <1>3, <1>4, <1>7, LeafIn
    <2>2. node[left].next = right /\ node'[left].next = node[right].next
      BY <1>3, <1>4, <1>7 DEF InList, Before
    <2>3. ASSUME NEW q \in Leaves(node), q # left, q # right PROVE SameLeaf(node'[q], node[q])
      <3>1. q \in DOMAIN node' /\ q # p
        BY <1>4, <1>5, <2>3, LeafIn
      <3> QED BY <1>4, <2>3, <3>1 DEF SameLeaf
    <2>4. Joined(node', node, left, right)
      BY <1>3, <1>4, <2>1, <2>2, <2>3 DEF Joined
    <2> QED BY <1>6, <2>4 DEF LeafStep
  <1>8. CASE ~node[right].leaf
    <2>1. Leaves(node') = Leaves(node)
      BY <1>3, <1>4, <1>8, LeafIn, ZenonT(40)
    <2>2. ASSUME NEW q \in Leaves(node) PROVE SameLeaf(node'[q], node[q])
      <3>1. q \in DOMAIN node' /\ q # p /\ q # left
        BY <1>4, <1>5, <1>8, <2>1, LeafIn
      <3> QED BY <1>4, <1>8, <3>1 DEF SameLeaf
    <2> QED BY <1>6, <2>1, <2>2 DEF LeafStep, Alike
  <1> QED BY <1>7, <1>8

-----------------------------------------------------------------------------
(* The chain of the leaves across the steps of the calls.                  *)

SameNext(ms, ns) == Leaves(ms) = Leaves(ns) /\ \A q \in Leaves(ns) : ms[q].next = ns[q].next

\* The same links are the same chain.
LEMMA ChainSame ==
  ASSUME NEW ms, NEW ns, NEW d, Chain(ns, d), SameNext(ms, ns)
  PROVE  Chain(ms, d)
  BY DEF Chain, SameNext

\* The chain with a leaf more: new, after p.
LEMMA ChainDivided ==
  ASSUME NEW ms, NEW ns, NEW d, NEW p, NEW new, Leaves(ns) \subseteq Pages, Chain(ns, d), Divided(ms, ns, p, new)
  PROVE  \E e : Chain(ms, e)
  <1>1. /\ d \in [Pages -> Nat] /\ IX_INIT_ROOT_PAGE \in Leaves(ns)
        /\ \A q \in Leaves(ns) :
             /\ d[q] <= d[IX_INIT_ROOT_PAGE]
             /\ \/ ns[q].next = IX_LEAF_HEADER_PAGE /\ d[q] = 0
                \/ ns[q].next \in Leaves(ns) /\ d[q] = d[ns[q].next] + 1
        /\ \A q, r \in Leaves(ns) : d[q] = d[r] => q = r
    BY DEF Chain
  <1>2. /\ p \in Leaves(ns) /\ new \in Pages /\ new \notin Leaves(ns) /\ Leaves(ms) = Leaves(ns) \cup {new}
        /\ ms[p].next = new /\ ms[new].next = ns[p].next
        /\ \A q \in Leaves(ns) : q # p => ms[q].next = ns[q].next
    BY DEF Divided, SameLeaf
  <1>3. PICK e : e = [q \in Pages |-> IF q = new THEN d[p] ELSE IF d[q] >= d[p] THEN d[q] + 1 ELSE d[q]]
    OBVIOUS
  <1>4. /\ \A q \in Leaves(ns) : d[q] \in Nat /\ q \in Pages /\ q # new
        /\ \A q \in Leaves(ns) : e[q] = IF d[q] >= d[p] THEN d[q] + 1 ELSE d[q]
        /\ e[new] = d[p]
    BY <1>1, <1>2, <1>3
  <1>5. e \in [Pages -> Nat]
    <2>1. \A q \in Pages : d[q] \in Nat /\ d[p] \in Nat
      BY <1>1, <1>2
    <2> QED BY <1>3, <2>1
  <1>6. ASSUME NEW q \in Leaves(ms) PROVE e[q] <= e[IX_INIT_ROOT_PAGE]
    BY <1>1, <1>2, <1>4
  <1>7. ASSUME NEW q \in Leaves(ms)
        PROVE  \/ ms[q].next = IX_LEAF_HEADER_PAGE /\ e[q] = 0
               \/ ms[q].next \in Leaves(ms) /\ e[q] = e[ms[q].next] + 1
    <2>1. CASE q = p
      BY <1>2, <1>4, <2>1
    <2>2. CASE q = new
      BY <1>1, <1>2, <1>4, <2>2
    <2>3. CASE q \in Leaves(ns) /\ q # p
      <3>1. CASE ns[q].next = IX_LEAF_HEADER_PAGE /\ d[q] = 0
        <4>1. d[p] # 0
          BY <1>1, <1>2, <2>3, <3>1
        <4> QED BY <1>2, <1>4, <2>3, <3>1, <4>1
      <3>2. CASE ns[q].next \in Leaves(ns) /\ d[q] = d[ns[q].next] + 1
        <4>1. d[q] # d[p]
          BY <1>1, <1>2, <2>3
        <4> QED BY <1>2, <1>4, <2>3, <3>2, <4>1
      <3> QED BY <1>1, <2>3, <3>1, <3>2
    <2> QED BY <1>2, <2>1, <2>2, <2>3
  <1>8. ASSUME NEW q \in Leaves(ms), NEW r \in Leaves(ms), e[q] = e[r] PROVE q = r
    BY <1>1, <1>2, <1>4, <1>8
  <1> QED BY <1>1, <1>2, <1>5, <1>6, <1>7, <1>8 DEF Chain

\* The chain with a leaf less.
LEMMA ChainJoined ==
  ASSUME NEW ms, NEW ns, NEW d, NEW left, NEW right, Leaves(ns) \subseteq Pages, Chain(ns, d),
         Joined(ms, ns, left, right)
  PROVE  \E e : Chain(ms, e)
  <1>1. /\ d \in [Pages -> Nat] /\ IX_INIT_ROOT_PAGE \in Leaves(ns)
        /\ \A q \in Leaves(ns) :
             /\ d[q] <= d[IX_INIT_ROOT_PAGE]
             /\ \/ ns[q].next = IX_LEAF_HEADER_PAGE /\ d[q] = 0
                \/ ns[q].next \in Leaves(ns) /\ d[q] = d[ns[q].next] + 1
        /\ \A q, r \in Leaves(ns) : d[q] = d[r] => q = r
    BY DEF Chain
  <1>2. /\ left \in Leaves(ns) /\ right \in Leaves(ns) /\ left # right /\ Leaves(ms) = Leaves(ns) \ {right}
        /\ ns[left].next = right /\ ms[left].next = ns[right].next
        /\ \A q \in Leaves(ns) : q # left /\ q # right => ms[q].next = ns[q].next
    BY DEF Joined, SameLeaf
  <1>3. PICK e : e = [q \in Pages |-> IF d[q] > d[right] THEN d[q] - 1 ELSE d[q]]
    OBVIOUS
  <1>4. /\ \A q \in Leaves(ns) : d[q] \in Nat /\ q \in Pages
        /\ \A q \in Leaves(ns) : e[q] = IF d[q] > d[right] THEN d[q] - 1 ELSE d[q]
    BY <1>1, <1>3
  <1>5. e \in [Pages -> Nat]
    <2>1. \A q \in Pages : d[q] \in Nat /\ d[right] \in Nat
      BY <1>1, <1>2
    <2> QED BY <1>3, <2>1
  <1>6. d[left] = d[right] + 1
    <2>1. right # IX_LEAF_HEADER_PAGE
      BY <1>2, LeafIn
    <2> QED BY <1>1, <1>2, <2>1
  <1>7. right # IX_INIT_ROOT_PAGE
    <2>1. d[left] <= d[IX_INIT_ROOT_PAGE] /\ d[right] \in Nat
      BY <1>1, <1>2, <1>4
    <2> QED BY <1>6, <2>1
  <1>8. ASSUME NEW q \in Leaves(ms) PROVE e[q] <= e[IX_INIT_ROOT_PAGE]
    <2>1. q \in Leaves(ns) /\ d[q] <= d[IX_INIT_ROOT_PAGE]
      BY <1>1, <1>2
    <2>2. d[q] # d[right] /\ d[IX_INIT_ROOT_PAGE] # d[right]
      BY <1>1, <1>2, <1>7
    <2> QED BY <1>1, <1>2, <1>4, <2>1, <2>2
  <1>9. ASSUME NEW q \in Leaves(ms)
        PROVE  \/ ms[q].next = IX_LEAF_HEADER_PAGE /\ e[q] = 0
               \/ ms[q].next \in Leaves(ms) /\ e[q] = e[ms[q].next] + 1
    <2>1. q \in Leaves(ns) /\ q # right
      BY <1>2
    <2>2. CASE q = left
      <3>1. e[left] = d[right]
        BY <1>2, <1>4, <1>6
      <3>2. CASE ns[right].next = IX_LEAF_HEADER_PAGE /\ d[right] = 0
        BY <1>2, <2>2, <3>1, <3>2
      <3>3. CASE ns[right].next \in Leaves(ns) /\ d[right] = d[ns[right].next] + 1
        <4>1. ns[right].next # right /\ e[ns[right].next] = d[ns[right].next]
          BY <1>2, <1>4, <3>3
        <4> QED BY <1>2, <2>2, <3>1, <3>3, <4>1
      <3> QED BY <1>1, <1>2, <3>2, <3>3
    <2>3. CASE q # left
      <3>1. CASE ns[q].next = IX_LEAF_HEADER_PAGE /\ d[q] = 0
        BY <1>2, <1>4, <2>1, <2>3, <3>1
      <3>2. CASE ns[q].next \in Leaves(ns) /\ d[q] = d[ns[q].next] + 1
        <4>1. ns[q].next # right
          <5> SUFFICES ASSUME ns[q].next = right PROVE FALSE
            OBVIOUS
          <5>1. d[q] = d[left]
            BY <1>6, <3>2
          <5> QED BY <1>1, <1>2, <2>1, <2>3, <5>1
        <4>2. d[q] # d[right] /\ d[ns[q].next] # d[right]
          BY <1>1, <1>2, <2>1, <3>2, <4>1
        <4> QED BY <1>2, <1>4, <2>1, <2>3, <3>2, <4>1, <4>2
      <3> QED BY <1>1, <2>1, <3>1, <3>2
    <2> QED BY <2>2, <2>3
  <1>10. ASSUME NEW q \in Leaves(ms), NEW r \in Leaves(ms), e[q] = e[r] PROVE q = r
    <2>1. q \in Leaves(ns) /\ r \in Leaves(ns) /\ d[q] # d[right] /\ d[r] # d[right]
      BY <1>1, <1>2
    <2>2. d[q] = d[r]
      BY <1>2, <1>4, <1>10, <2>1
    <2> QED BY <1>1, <2>1, <2>2
  <1> QED BY <1>1, <1>2, <1>5, <1>7, <1>8, <1>9, <1>10 DEF Chain

\* The chain across one of those steps.
LEMMA ChainStep ==
  ASSUME NEW ms, NEW ns, NEW d, Store(ns), Chain(ns, d), LeafStep(ms, ns)
  PROVE  \E e : Chain(ms, e)
  <1>1. Leaves(ns) \subseteq Pages
    BY LeavesIs
  <1>2. CASE Alike(ms, ns)
    <2>1. SameNext(ms, ns)
      BY <1>2 DEF Alike, SameLeaf, SameNext
    <2> QED BY <2>1, ChainSame
  <1>3. ASSUME NEW p, NEW new, Divided(ms, ns, p, new) PROVE \E e : Chain(ms, e)
    BY <1>1, <1>3, ChainDivided
  <1>4. ASSUME NEW left, NEW right, Dealt(ms, ns, left, right) PROVE \E e : Chain(ms, e)
    <2>1. SameNext(ms, ns)
      BY <1>4 DEF Dealt, SameNext
    <2> QED BY <2>1, ChainSame
  <1>5. ASSUME NEW left, NEW right, Joined(ms, ns, left, right) PROVE \E e : Chain(ms, e)
    BY <1>1, <1>5, ChainJoined
  <1> QED BY <1>2, <1>3, <1>4, <1>5 DEF LeafStep

\* The nodes ms: those of ns with n, a leaf with the same links, for leaf.
LEMMA EditIs ==
  ASSUME NEW ms, NEW ns, NEW leaf, NEW n, Store(ns), leaf \in Nds(ns), ns[leaf].leaf,
         SameLinks(n, ns[leaf]), ms = Replaced(ns, leaf, n)
  PROVE  /\ SameNext(ms, ns) /\ leaf \in Leaves(ns)
         /\ \A q \in DOMAIN ns : ms[q] = IF q = leaf THEN n ELSE ns[q]
         /\ ms[IX_LEAF_HEADER_PAGE].keys = ns[IX_LEAF_HEADER_PAGE].keys
  <1>1. DOMAIN ms = DOMAIN ns /\ \A q \in DOMAIN ns : ms[q] = IF q = leaf THEN n ELSE ns[q]
    BY ReplacedIs
  <1>2. \A q \in DOMAIN ns : (ms[q].leaf <=> ns[q].leaf) /\ ms[q].next = ns[q].next
    BY <1>1 DEF SameLinks
  <1>3. Leaves(ms) = Leaves(ns)
    BY <1>1, <1>2, LeafIn
  <1>4. leaf \in Leaves(ns)
    BY DEF Leaves
  <1>5. IX_LEAF_HEADER_PAGE \in DOMAIN ns /\ leaf # IX_LEAF_HEADER_PAGE
    BY DEF Store, Nds
  <1>6. SameNext(ms, ns)
    BY <1>2, <1>3, LeafIn DEF SameNext
  <1> QED BY <1>1, <1>4, <1>5, <1>6

\* insert_entry changes one leaf.
LEMMA InsertEntryEdit ==
  ASSUME NEW h, h \in [Pages -> Nat], TreeInv(h), NEW key \in Keys, NEW val \in Vals, InsertEntry(key, val)
  PROVE  SameNext(node', node) /\ node'[IX_LEAF_HEADER_PAGE].keys = node[IX_LEAF_HEADER_PAGE].keys
  <1>1. op = Idle /\ Begins /\ FindLeafPage(key) # Lost
    BY DEF InsertEntry, Begins
  <1>2. PICK leaf : leaf = FindLeafPage(key)
    OBVIOUS
  <1>3. PICK n : n = Insert(node[leaf], key, val)
    OBVIOUS
  <1>4. node' = Replaced(node, leaf, n)
    BY <1>2, <1>3 DEF InsertEntry, Replaced
  <1>5. leaf \in Nds(node) /\ node[leaf].leaf
    BY <1>1, <1>2, BeginsIs
  <1>6. NodeOK(node[leaf]) /\ Size(node[leaf]) < MaxSize /\ Size(node[leaf]) \in Nat /\ Store(node)
    BY <1>1, <1>5, NdsIs, QuietSizes DEF TreeInv
  <1>7. SameLinks(n, node[leaf])
    BY <1>3, <1>5, <1>6, InsertIs
  <1> QED BY <1>4, <1>5, <1>6, <1>7, EditIs

\* delete_entry changes one leaf at most.
LEMMA DeleteEntryEdit ==
  ASSUME NEW h, h \in [Pages -> Nat], TreeInv(h), NEW key \in Keys, DeleteEntry(key)
  PROVE  SameNext(node', node) /\ node'[IX_LEAF_HEADER_PAGE].keys = node[IX_LEAF_HEADER_PAGE].keys
  <1>1. op = Idle /\ Begins /\ FindLeafPage(key) # Lost
    BY DEF DeleteEntry, Begins
  <1>2. PICK leaf : leaf = FindLeafPage(key)
    OBVIOUS
  <1>3. PICK n : n = Remove(node[leaf], key)
    OBVIOUS
  <1>4. node' = node \/ node' = Replaced(node, leaf, n)
    BY <1>2, <1>3 DEF DeleteEntry, Replaced
  <1>5. leaf \in Nds(node) /\ node[leaf].leaf
    BY <1>1, <1>2, BeginsIs
  <1>6. NodeOK(node[leaf]) /\ Store(node)
    BY <1>1, <1>5, NdsIs DEF TreeInv
  <1>7. SameLinks(n, node[leaf])
    BY <1>3, <1>5, <1>6, RemoveIs
  <1>8. CASE node' = node
    BY <1>8 DEF SameNext
  <1>9. CASE node' = Replaced(node, leaf, n)
    BY <1>5, <1>6, <1>7, <1>9, EditIs
  <1> QED BY <1>4, <1>8, <1>9

\* An index without a root has the first leaf left, empty.
Bare == hdr.last_leaf = IX_INIT_ROOT_PAGE /\ Leaves(node) = {IX_INIT_ROOT_PAGE}
        /\ node[IX_INIT_ROOT_PAGE].keys = <<>>

\* The leaf list, from page 2 to the list header, in all states.
ChainInv ==
  /\ Store(node) /\ node[IX_LEAF_HEADER_PAGE].keys = <<>> /\ \E d : Chain(node, d)
  /\ hdr.root = IX_NO_PAGE => Bare

\* A root that is a leaf is the only one, page 2.
LEMMA RootAlone ==
  ASSUME NEW fl, NEW ll, NEW m, LeafInv(fl, ll, m), NEW d, Chain(node, d), Store(node), op.pc # "parent",
         hdr.root \in Nds(node), hdr.root # 0, node[hdr.root].leaf
  PROVE  hdr.root = IX_INIT_ROOT_PAGE /\ Leaves(node) = {IX_INIT_ROOT_PAGE} /\ LastLeafNow = hdr.root
  <1>1. /\ Ends(node, fl, ll, 0, m) /\ Whole(node, fl[hdr.root], ll[hdr.root]) /\ ll[hdr.root] = LastLeafNow
    BY DEF LeafInv, Old
  <1>2. fl[hdr.root] = hdr.root /\ ll[hdr.root] = hdr.root
    BY <1>1 DEF Ends, Own
  <1>3. hdr.root = IX_INIT_ROOT_PAGE /\ node[hdr.root].next = IX_LEAF_HEADER_PAGE
    BY <1>1, <1>2 DEF Whole
  <1>4. /\ d \in [Pages -> Nat] /\ IX_INIT_ROOT_PAGE \in Leaves(node)
        /\ \A q \in Leaves(node) :
             /\ d[q] <= d[IX_INIT_ROOT_PAGE]
             /\ \/ node[q].next = IX_LEAF_HEADER_PAGE /\ d[q] = 0
                \/ node[q].next \in Leaves(node) /\ d[q] = d[node[q].next] + 1
        /\ \A q, r \in Leaves(node) : d[q] = d[r] => q = r
    BY DEF Chain
  <1>5. IX_LEAF_HEADER_PAGE \notin Leaves(node)
    BY LeafIn
  <1>6. d[IX_INIT_ROOT_PAGE] = 0
    BY <1>3, <1>4, <1>5
  <1>7. ASSUME NEW q \in Leaves(node) PROVE q = IX_INIT_ROOT_PAGE
    <2>1. d[q] = 0
      <3>1. d[q] <= 0 /\ (d[q] = 0 \/ (node[q].next \in Leaves(node) /\ d[q] = d[node[q].next] + 1))
        BY <1>4, <1>6
      <3>2. q \in Pages /\ d[q] \in Nat
        BY <1>4, LeavesIs
      <3>3. node[q].next \in Leaves(node) => node[q].next \in Pages /\ d[node[q].next] \in Nat
        BY <1>4, LeavesIs
      <3> QED BY <3>1, <3>2, <3>3
    <2> QED BY <1>4, <1>6, <2>1
  <1> QED BY <1>1, <1>2, <1>3, <1>4, <1>7

\* A new index.
LEMMA InitChain == Init => ChainInv
  <1> SUFFICES ASSUME Init PROVE ChainInv
    OBVIOUS
  <1>1. hdr.root = 2 /\ 2 # IX_NO_PAGE
    BY DEF Init, IX_INIT_ROOT_PAGE, IX_NO_PAGE
  <1>2. DOMAIN node = {1, 2} /\ node[1] = NewNode(TRUE, IX_NO_PAGE, 2, 2) /\ node[2] = NewNode(TRUE, IX_NO_PAGE, 1, 1)
    BY DEF Init, IX_INIT_ROOT_PAGE, IX_LEAF_HEADER_PAGE
  <1>3. node[1].keys = <<>> /\ node[2].next = 1
    BY <1>2 DEF NewNode
  <1>4. node[2].leaf
    BY <1>2 DEF NewNode
  <1>5. Leaves(node) = {2} /\ 2 \in Pages
    <2>1. Nds(node) = {2} /\ 2 \in Pages
      BY <1>2, Sizes DEF Nds, IX_LEAF_HEADER_PAGE, Pages, IX_INIT_ROOT_PAGE
    <2>2. \A q : q \in Leaves(node) <=> q \in Nds(node) /\ node[q].leaf
      BY DEF Leaves
    <2> QED BY <1>4, <2>1, <2>2
  <1>6. PICK d : d = [q \in Pages |-> 0]
    OBVIOUS
  <1>7. Chain(node, d)
    BY <1>3, <1>5, <1>6 DEF Chain, IX_INIT_ROOT_PAGE, IX_LEAF_HEADER_PAGE
  <1>8. Store(node)
    BY <1>1, InitInv DEF IInv, TreeInv
  <1> QED BY <1>1, <1>3, <1>7, <1>8 DEF ChainInv, IX_LEAF_HEADER_PAGE

\* Every step of every call keeps it.
LEMMA NextChain ==
  ASSUME IInv, LInv, ChainInv, [Next]_vars, IInv'
  PROVE  ChainInv'
  <1>1. CASE UNCHANGED <<hdr, node, pins, op>>
    BY <1>1 DEF ChainInv, Bare
  <1>2. CASE ~UNCHANGED <<hdr, node, pins, op>>
    <2>1. \/ \E key \in Keys : DeleteEntry(key) \/ \E val \in Vals : InsertEntry(key, val)
          \/ Split \/ NewRoot \/ InsertIntoParent \/ InsertReturns
          \/ BigEnough \/ AdjustRoot \/ Redistribute \/ MaintainParent \/ Coalesce
      BY <1>2 DEF Next, vars, SearchLost, RootMissing, Undefined
    <2>2. hdr.root # IX_NO_PAGE
      <3> SUFFICES ASSUME hdr.root = IX_NO_PAGE PROVE FALSE
        OBVIOUS
      <3>1. op.pc = "idle"
        BY DEF IInv, Idle, Op
      <3> QED BY <2>1, <3>1 DEF DeleteEntry, InsertEntry, Begins, Split, NewRoot, InsertIntoParent,
                                InsertReturns, BigEnough, AdjustRoot, Redistribute, MaintainParent,
                                Coalesce, Underflows
    <2>3. PICK h \in [Pages -> Nat] : TreeInv(h)
      BY <2>2 DEF IInv
    <2>4. HdrType
      BY DEF IInv
    <2>5. PICK fl \in [Pages -> Pages], ll \in [Pages -> Pages], m \in Nat : LeafInv(fl, ll, m)
      BY <2>2 DEF LInv
    <2>6. PICK d : Chain(node, d)
      BY DEF ChainInv
    <2>7. Store(node) /\ node[IX_LEAF_HEADER_PAGE].keys = <<>>
      BY DEF ChainInv
    <2>8. /\ node'[IX_LEAF_HEADER_PAGE].keys = node[IX_LEAF_HEADER_PAGE].keys
          /\ SameNext(node', node) \/ LeafStep(node', node)
      <3>1. ASSUME NEW key \in Keys, DeleteEntry(key)
            PROVE  SameNext(node', node) /\ node'[IX_LEAF_HEADER_PAGE].keys = node[IX_LEAF_HEADER_PAGE].keys
        BY <2>3, <3>1, DeleteEntryEdit
      <3>2. ASSUME NEW key \in Keys, NEW val \in Vals, InsertEntry(key, val)
            PROVE  SameNext(node', node) /\ node'[IX_LEAF_HEADER_PAGE].keys = node[IX_LEAF_HEADER_PAGE].keys
        BY <2>3, <3>2, InsertEntryEdit
      <3>3. CASE Split
        BY <2>3, <3>3, SplitLeafStep DEF LeafStep
      <3>4. CASE NewRoot
        BY <2>3, <3>4, NewRootLeafStep DEF LeafStep
      <3>5. CASE InsertIntoParent
        BY <2>3, <3>5, InsertIntoParentLeafStep DEF LeafStep
      <3>6. CASE InsertReturns \/ BigEnough
        <4>1. node' = node
          BY <3>6 DEF InsertReturns, BigEnough
        <4> QED BY <4>1 DEF SameNext
      <3>7. CASE AdjustRoot
        BY <2>3, <3>7, AdjustRootLeafStep DEF LeafStep
      <3>8. CASE Redistribute
        BY <2>3, <2>5, <3>8, RedistributeLeafStep DEF LeafStep
      <3>9. CASE MaintainParent
        BY <2>3, <3>9, MaintainParentLeafStep DEF LeafStep
      <3>10. CASE Coalesce
        BY <2>3, <2>4, <2>5, <3>10, CoalesceLeafStep DEF LeafStep
      <3> QED BY <2>1, <3>1, <3>2, <3>3, <3>4, <3>5, <3>6, <3>7, <3>8, <3>9, <3>10
    <2>9. \E e : Chain(node', e)
      BY <2>6, <2>7, <2>8, ChainSame, ChainStep
    <2>10. CASE hdr'.root # IX_NO_PAGE
      <3>1. Store(node')
        BY <2>10 DEF IInv, TreeInv
      <3> QED BY <2>7, <2>8, <2>9, <2>10, <3>1 DEF ChainInv
    <2>11. CASE hdr'.root = IX_NO_PAGE
      <3>1. AdjustRoot
        <4>1. AdjustRoot \/ hdr'.root = hdr.root \/ NewRoot
          BY <2>1, <2>4 DEF DeleteEntry, InsertEntry, Split, InsertIntoParent, InsertReturns,
                            BigEnough, Redistribute, MaintainParent, Coalesce, HdrType
        <4>2. ASSUME NewRoot PROVE FALSE
          <5>1. hdr'.root = FreshPage /\ HasPage
            BY <2>4, <4>2 DEF NewRoot, HdrType
          <5>2. FreshPage \in Pages
            BY <5>1, FreshIs
          <5> QED BY <2>11, <5>1, <5>2, PagesIs
        <4> QED BY <2>2, <2>11, <4>1, <4>2, SMTT(30)
      <3>2. PICK r : r = op.page
        OBVIOUS
      <3>3. Underflows /\ IsRoot(r)
        BY <3>1, <3>2 DEF AdjustRoot
      <3>4. op.pc = "fix" /\ r \in Nds(node) /\ NodeOK(node[r])
        BY <2>3, <3>2, <3>3, FixIs
      <3>5. r = hdr.root
        BY <2>3, <3>3, <3>4, RootIs
      <3>6. node[r].leaf /\ Size(node[r]) = 0 /\ node' = node /\ hdr'.last_leaf = hdr.last_leaf
        <4>1. ~node[r].leaf /\ Size(node[r]) = 1 => hdr'.root # IX_NO_PAGE
          <5> SUFFICES ASSUME ~node[r].leaf, Size(node[r]) = 1 PROVE hdr'.root # IX_NO_PAGE
            OBVIOUS
          <5>1. hdr'.root = ValueAt(node[r], 0)
            BY <2>4, <3>1, <3>2 DEF AdjustRoot, HdrType
          <5>2. 0 \in 0..(Size(node[r]) - 1) /\ 1 \in 1..Len(node[r].vals) /\ node[r].vals \in Seq(Pages)
            <6>1. Len(node[r].vals) = 1 /\ node[r].vals \in Seq(Pages)
              BY <3>4, NodeIs
            <6> QED BY <6>1
          <5>3. hdr'.root = node[r].vals[1]
            BY <3>4, <5>1, <5>2, ValueAtIs
          <5> QED BY <5>2, <5>3, PagesIs, SeqIs
        <4> QED BY <2>2, <2>4, <2>11, <3>1, <3>2, <4>1 DEF AdjustRoot, HdrType
      <3>7. r # 0
        BY <2>7, <3>4, NdsIs, PagesIs
      <3>8. r = IX_INIT_ROOT_PAGE /\ Leaves(node) = {IX_INIT_ROOT_PAGE} /\ LastLeafNow = r
        BY <2>5, <2>6, <2>7, <3>4, <3>5, <3>6, <3>7, RootAlone
      <3>9. LastLeafNow = hdr.last_leaf
        BY <3>4 DEF LastLeafNow
      <3>10. node[r].keys = <<>>
        BY <3>4, <3>6, NodeIs, EmptySeq DEF Size
      <3>11. Bare'
        BY <3>6, <3>8, <3>9, <3>10 DEF Bare
      <3> QED BY <2>7, <2>9, <3>6, <3>11 DEF ChainInv
    <2> QED BY <2>10, <2>11
  <1> QED BY <1>1, <1>2

\* Between two calls the chain can be scanned.
LEMMA ChainScans ==
  ASSUME IInv, LInv, ChainInv, op = Idle
  PROVE  \E d : Scannable(d)
  <1>1. PICK d : Chain(node, d)
    BY DEF ChainInv
  <1>2. Store(node) /\ node[IX_LEAF_HEADER_PAGE].keys = <<>>
    BY DEF ChainInv
  <1>3. /\ d \in [Pages -> Nat] /\ IX_INIT_ROOT_PAGE \in Leaves(node)
        /\ \A q \in Leaves(node) :
             \/ node[q].next = IX_LEAF_HEADER_PAGE /\ d[q] = 0
             \/ node[q].next \in Leaves(node) /\ d[q] = d[node[q].next] + 1
    BY <1>1 DEF Chain
  <1>4. IX_LEAF_HEADER_PAGE \notin Leaves(node) /\ Leaves(node) \subseteq Pages
    BY <1>2, LeafIn, LeavesIs
  <1>5. CASE hdr.root = IX_NO_PAGE
    <2>1. Bare
      BY <1>5 DEF ChainInv
    <2>2. d[IX_INIT_ROOT_PAGE] = 0
      <3>1. d[IX_INIT_ROOT_PAGE] \in Nat
        BY <1>3, <1>4
      <3> QED BY <1>3, <2>1, <3>1 DEF Bare
    <2>3. \A q \in Leaves(node) : Size(node[q]) < MaxSize
      BY <2>1, Sizes DEF Bare, Size
    <2>4. Scannable(d)
      BY <1>1, <1>2, <2>1, <2>2, <2>3 DEF Bare, Scannable
    <2> QED BY <2>4
  <1>6. CASE hdr.root # IX_NO_PAGE
    <2>1. PICK h \in [Pages -> Nat] : TreeInv(h)
      BY <1>6 DEF IInv
    <2>2. PICK fl \in [Pages -> Pages], ll \in [Pages -> Pages], m \in Nat : LeafInv(fl, ll, m)
      BY <1>6 DEF LInv
    <2>3. op.pc = "idle"
      BY DEF Idle, Op
    <2>4. /\ hdr.root \in Nds(node)
          /\ \A p \in Nds(node) :
               Size(node[p]) \in Nat /\ Size(node[p]) < MaxSize /\ (p # hdr.root => Size(node[p]) >= MinSize)
      BY <2>1, QuietSizes
    <2>5. hdr.root \in Pages /\ hdr.root # 0
      BY <1>2, <2>4, NdsIs, PagesIs
    <2>6. ll[hdr.root] = hdr.last_leaf /\ Whole(node, fl[hdr.root], ll[hdr.root]) /\ Ends(node, fl, ll, 0, m)
      BY <2>2, <2>3 DEF LeafInv, LastLeafNow, Old
    <2>7. hdr.last_leaf \in Leaves(node) /\ node[hdr.last_leaf].next = IX_LEAF_HEADER_PAGE
      BY <2>4, <2>6 DEF Whole, Ends, LeafOf, Leaves
    <2>8. d[hdr.last_leaf] = 0
      BY <1>3, <1>4, <2>7
    <2>9. ASSUME NEW q \in Leaves(node)
          PROVE  Size(node[q]) < MaxSize /\ (q # hdr.last_leaf => Size(node[q]) > 0)
      <3>1. q \in Nds(node) /\ node[q].leaf
        BY DEF Leaves
      <3>2. q = hdr.root => q = hdr.last_leaf
        BY <2>4, <2>5, <2>6, <3>1 DEF Ends, Own
      <3> QED BY <2>4, <3>1, <3>2, Sizes
    <2>10. Scannable(d)
      BY <1>1, <1>2, <2>7, <2>8, <2>9 DEF Scannable
    <2> QED BY <2>10
  <1> QED BY <1>5, <1>6

(***************************************************************************)
(* A scan of the whole index, from leaf_begin to leaf_end, ends and visits *)
(* every entry once, between any two calls: whatever was split and merged, *)
(* also on an index that was emptied.                                      *)
(***************************************************************************)
THEOREM ScanVisitsAllHolds == Spec => []ScanVisitsAll
  <1>1. IInv /\ LInv /\ ChainInv => ScanVisitsAll
    <2> SUFFICES ASSUME IInv, LInv, ChainInv PROVE ScanVisitsAll
      OBVIOUS
    <2>1. CASE op = Idle
      BY <2>1, ChainScans, ScannableVisitsAll
    <2>2. CASE op # Idle
      BY <2>2 DEF ScanVisitsAll
    <2> QED BY <2>1, <2>2
  <1>2. Init => IInv /\ LInv /\ ChainInv
    BY InitInv, InitLeaves, InitChain
  <1>3. IInv /\ LInv /\ ChainInv /\ [Next]_vars => (IInv /\ LInv /\ ChainInv)'
    BY NextInv, NextLeaves, NextChain
  <1> QED BY <1>1, <1>2, <1>3, PTL DEF Spec

-----------------------------------------------------------------------------
(* The range of one key.                                                   *)

\* Two binary searches take the same turns until they probe an index that sends
\* only the second one right; from there on it is ahead.
LEMMA SearchesFit ==
  ASSUME NEW n \in Nat, NEW less, NEW leq, \A m \in 0..(n - 1) : m \in less => m \in leq,
         NEW f, IsSearch(f, n, less), NEW g, IsSearch(g, n, leq)
  PROVE  /\ f[<<0, n>>] \in 0..n /\ g[<<0, n>>] \in 0..n
         /\ f[<<0, n>>] < n /\ f[<<0, n>>] \in leq => f[<<0, n>>] < g[<<0, n>>]
  <1> DEFINE D == (0..n) \X (0..n)
             Fit(w) == /\ f[w] \in w[1]..w[2] /\ g[w] \in w[1]..w[2] /\ f[w] <= g[w]
                       /\ f[w] = g[w] => f[w] = w[2] \/ f[w] \notin leq
             rank == [w \in D |-> IF w[1] >= w[2] THEN 0 ELSE w[2] - w[1]]
             P == {w \in D : w[1] <= w[2] => Fit(w)}
  <1>1. ASSUME NEW l \in 0..n, NEW r \in 0..n, NEW h, NEW S, IsSearch(h, n, S)
        PROVE  h[<<l, r>>] = IF l >= r THEN l
                             ELSE IF (l + r) \div 2 \in S THEN h[<<(l + r) \div 2 + 1, r>>]
                                                          ELSE h[<<l, (l + r) \div 2>>]
    <2>1. <<l, r>> \in (0..n) \X (0..n)
      OBVIOUS
    <2> QED BY <1>1, <2>1 DEF IsSearch
  <1>2. \A w \in D : rank[w] \in Nat
    OBVIOUS
  <1>3. ASSUME NEW w \in D, \A v \in D : rank[v] < rank[w] => v \in P PROVE w \in P
    <2>1. PICK l \in 0..n, r \in 0..n : w = <<l, r>>
      OBVIOUS
    <2>2. SUFFICES ASSUME l <= r PROVE Fit(<<l, r>>)
      BY <2>1
    <2>3. CASE l = r
      <3>1. l >= r
        BY <2>3
      <3>2. f[<<l, r>>] = l
        BY <1>1, <3>1
      <3>3. g[<<l, r>>] = l
        BY <1>1, <3>1
      <3> QED BY <2>3, <3>2, <3>3
    <2>4. CASE l < r
      <3> DEFINE m == (l + r) \div 2
      <3>1. m \in 0..n /\ m + 1 \in 0..n /\ l <= m /\ m < r /\ m \in 0..(n - 1)
        BY <2>4
      <3>2. /\ f[<<l, r>>] = IF m \in less THEN f[<<m + 1, r>>] ELSE f[<<l, m>>]
            /\ g[<<l, r>>] = IF m \in leq THEN g[<<m + 1, r>>] ELSE g[<<l, m>>]
        BY <1>1, <2>4
      <3>3. <<m + 1, r>> \in D /\ <<l, m>> \in D
        BY <3>1
      <3> HIDE DEF m
      <3>4. rank[<<m + 1, r>>] < rank[w] /\ rank[<<l, m>>] < rank[w]
        BY <2>1, <2>4, <3>1, <3>3
      <3>5. Fit(<<m + 1, r>>) /\ Fit(<<l, m>>)
        <4>1. <<m + 1, r>> \in P /\ <<l, m>> \in P
          BY <1>3, <3>3, <3>4
        <4> QED BY <3>1, <4>1
      <3>6. PICK a, b, c, e : /\ a = f[<<m + 1, r>>] /\ b = g[<<m + 1, r>>]
                              /\ c = f[<<l, m>>] /\ e = g[<<l, m>>]
        OBVIOUS
      <3>7. /\ a \in (m + 1)..r /\ b \in (m + 1)..r /\ a <= b /\ (a = b => a = r \/ a \notin leq)
            /\ c \in l..m /\ e \in l..m /\ c <= e /\ (c = e => c = m \/ c \notin leq)
        BY <3>5, <3>6
      <3>8. PICK x, y : x = f[<<l, r>>] /\ y = g[<<l, r>>]
        OBVIOUS
      <3>9. x \in l..r /\ y \in l..r /\ x <= y /\ (x = y => x = r \/ x \notin leq)
        <4>1. CASE m \in less
          <5>1. x = a /\ y = b
            BY <3>1, <3>2, <3>6, <3>8, <4>1
          <5> QED BY <3>1, <3>7, <5>1
        <4>2. CASE m \notin less /\ m \in leq
          <5>1. x = c /\ y = b
            BY <3>2, <3>6, <3>8, <4>2
          <5> QED BY <3>1, <3>7, <5>1
        <4>3. CASE m \notin less /\ m \notin leq
          <5>1. x = c /\ y = e
            BY <3>2, <3>6, <3>8, <4>3
          <5> QED BY <3>1, <3>7, <4>3, <5>1
        <4> QED BY <4>1, <4>2, <4>3
      <3> QED BY <3>8, <3>9
    <2> QED BY <2>2, <2>3, <2>4
  <1>4. D \subseteq P
    <2> HIDE DEF D, P, rank
    <2> QED BY <1>2, <1>3, RankInduction
  <1>5. <<0, n>> \in D
    OBVIOUS
  <1>6. Fit(<<0, n>>)
    BY <1>4, <1>5
  <1>7. PICK x, y : x = f[<<0, n>>] /\ y = g[<<0, n>>]
    OBVIOUS
  <1>8. x \in 0..n /\ y \in 0..n /\ x <= y /\ (x = y => x = n \/ x \notin leq)
    BY <1>6, <1>7
  <1> QED BY <1>7, <1>8

\* lower_bound is such a search.
LEMMA LowerSearches ==
  ASSUME NEW n, NEW target, Size(n) \in Nat
  PROVE  \E f : /\ IsSearch(f, Size(n), {m \in 0..Size(n) : KeyAt(n, m) < target})
                /\ lower_bound(n, target) = f[<<0, Size(n)>>]
  <1> DEFINE less == {m \in 0..Size(n) : KeyAt(n, m) < target}
             Eq(f) == f = [w \in (0..Size(n)) \X (0..Size(n)) |->
                             IF w[1] >= w[2] THEN w[1]
                             ELSE IF KeyAt(n, (w[1] + w[2]) \div 2) < target
                                  THEN f[<<(w[1] + w[2]) \div 2 + 1, w[2]>>]
                                  ELSE f[<<w[1], (w[1] + w[2]) \div 2>>]]
             s == CHOOSE f : Eq(f)
  <1>1. \A w \in (0..Size(n)) \X (0..Size(n)) :
          (KeyAt(n, (w[1] + w[2]) \div 2) < target) <=> (w[1] + w[2]) \div 2 \in less
    <2> SUFFICES ASSUME NEW w \in (0..Size(n)) \X (0..Size(n))
                 PROVE  (w[1] + w[2]) \div 2 \in 0..Size(n)
      OBVIOUS
    <2>1. w[1] \in 0..Size(n) /\ w[2] \in 0..Size(n)
      OBVIOUS
    <2> QED BY <2>1
  <1>2. ASSUME NEW f PROVE Eq(f) <=> IsSearch(f, Size(n), less)
    <2> HIDE DEF less
    <2> QED BY <1>1 DEF IsSearch
  <1>3. \E f : Eq(f)
    <2> HIDE DEF Eq, less
    <2> QED BY <1>2, SearchIs
  <1>4. Eq(s)
    <2> HIDE DEF Eq
    <2> QED BY <1>3
  <1>5. lower_bound(n, target) = s[<<0, Size(n)>>]
    BY DEF lower_bound
  <1> HIDE DEF Eq, s
  <1> QED BY <1>2, <1>4, <1>5

\* So is upper_bound.
LEMMA UpperSearches ==
  ASSUME NEW n, NEW target, Size(n) \in Nat
  PROVE  \E f : /\ IsSearch(f, Size(n), {m \in 0..Size(n) : KeyAt(n, m) <= target})
                /\ upper_bound(n, target) = f[<<0, Size(n)>>]
  <1> DEFINE less == {m \in 0..Size(n) : KeyAt(n, m) <= target}
             Eq(f) == f = [w \in (0..Size(n)) \X (0..Size(n)) |->
                             IF w[1] >= w[2] THEN w[1]
                             ELSE IF KeyAt(n, (w[1] + w[2]) \div 2) <= target
                                  THEN f[<<(w[1] + w[2]) \div 2 + 1, w[2]>>]
                                  ELSE f[<<w[1], (w[1] + w[2]) \div 2>>]]
             s == CHOOSE f : Eq(f)
  <1>1. \A w \in (0..Size(n)) \X (0..Size(n)) :
          (KeyAt(n, (w[1] + w[2]) \div 2) <= target) <=> (w[1] + w[2]) \div 2 \in less
    <2> SUFFICES ASSUME NEW w \in (0..Size(n)) \X (0..Size(n))
                 PROVE  (w[1] + w[2]) \div 2 \in 0..Size(n)
      OBVIOUS
    <2>1. w[1] \in 0..Size(n) /\ w[2] \in 0..Size(n)
      OBVIOUS
    <2> QED BY <2>1
  <1>2. ASSUME NEW f PROVE Eq(f) <=> IsSearch(f, Size(n), less)
    <2> HIDE DEF less
    <2> QED BY <1>1 DEF IsSearch
  <1>3. \E f : Eq(f)
    <2> HIDE DEF Eq, less
    <2> QED BY <1>2, SearchIs
  <1>4. Eq(s)
    <2> HIDE DEF Eq
    <2> QED BY <1>3
  <1>5. upper_bound(n, target) = s[<<0, Size(n)>>]
    BY DEF upper_bound
  <1> HIDE DEF Eq, s
  <1> QED BY <1>2, <1>4, <1>5

\* upper_bound is past the key that lower_bound finds, whatever the order of the
\* keys.
LEMMA UpperPast ==
  ASSUME NEW n, NodeOK(n), NEW key \in Keys, NEW pos, pos = lower_bound(n, key), HasKey(n, pos, key),
         NEW idx, idx = upper_bound(n, key)
  PROVE  pos \in 0..(Size(n) - 1) /\ n.keys[pos + 1] = key /\ idx \in 0..Size(n) /\ pos < idx
  <1>1. n.keys \in Seq(Keys) /\ Size(n) \in Nat /\ Len(n.keys) = Size(n) /\ key \in Int
    BY NodeIs, KeysAssumption
  <1> DEFINE less == {m \in 0..Size(n) : KeyAt(n, m) < key}
             leq == {m \in 0..Size(n) : KeyAt(n, m) <= key}
  <1>2. PICK f : IsSearch(f, Size(n), less) /\ lower_bound(n, key) = f[<<0, Size(n)>>]
    BY <1>1, LowerSearches
  <1>3. PICK g : IsSearch(g, Size(n), leq) /\ upper_bound(n, key) = g[<<0, Size(n)>>]
    BY <1>1, UpperSearches
  <1>4. \A m \in 0..(Size(n) - 1) : m \in less => m \in leq
    <2> SUFFICES ASSUME NEW m \in 0..(Size(n) - 1), KeyAt(n, m) < key PROVE m \in leq
      OBVIOUS
    <2>1. m + 1 \in 1..Len(n.keys)
      BY <1>1
    <2>2. n.keys[m + 1] \in Int
      BY <1>1, <2>1, SeqIs, KeysAssumption
    <2> QED BY <1>1, <2>2 DEF KeyAt
  <1>5. pos < Size(n) /\ n.keys[pos + 1] = key /\ KeyAt(n, pos) = key
    BY DEF HasKey, KeyAt
  <1> HIDE DEF less, leq
  <1>6. /\ f[<<0, Size(n)>>] \in 0..Size(n) /\ g[<<0, Size(n)>>] \in 0..Size(n)
        /\ f[<<0, Size(n)>>] < Size(n) /\ f[<<0, Size(n)>>] \in leq => f[<<0, Size(n)>>] < g[<<0, Size(n)>>]
    BY <1>1, <1>2, <1>3, <1>4, SearchesFit
  <1>7. pos \in 0..Size(n) /\ idx \in 0..Size(n) /\ (pos \in leq => pos < idx)
    BY <1>2, <1>3, <1>5, <1>6
  <1>8. pos \in leq
    BY <1>1, <1>5, <1>7 DEF leq
  <1> QED BY <1>1, <1>5, <1>7, <1>8

\* The range of a key that is found can be read.
LEMMA RangeIs ==
  ASSUME IInv, LInv, ChainInv, Quiet, NEW key \in Keys, FindLeafPage(key) # Lost, GetValue(key) # {}
  PROVE  /\ Scan(IndexLowerBound(key), IndexUpperBound(key)).ends
         /\ Scan(IndexLowerBound(key), IndexUpperBound(key)).keys # <<>>
         /\ Scan(IndexLowerBound(key), IndexUpperBound(key)).keys[1] = key
  <1>1. op = Idle /\ hdr.root # IX_NO_PAGE /\ Begins
    BY DEF Quiet, Begins
  <1>2. PICK h \in [Pages -> Nat] : TreeInv(h)
    BY <1>1 DEF IInv
  <1>3. PICK d : Scannable(d)
    BY <1>1, ChainScans
  <1>4. PICK leaf : leaf = FindLeafPage(key)
    OBVIOUS
  <1>5. leaf \in Nds(node) /\ node[leaf].leaf
    BY <1>1, <1>2, <1>4, BeginsIs
  <1>6. leaf \in Leaves(node) /\ NodeOK(node[leaf])
    BY <1>5, NdsIs DEF Leaves, ChainInv
  <1>7. PICK pos : pos = lower_bound(node[leaf], key)
    OBVIOUS
  <1>8. HasKey(node[leaf], pos, key)
    BY <1>4, <1>7 DEF GetValue, LeafLookup
  <1>9. PICK idx : idx = upper_bound(node[leaf], key)
    OBVIOUS
  <1>10. /\ pos \in 0..(Size(node[leaf]) - 1) /\ node[leaf].keys[pos + 1] = key
         /\ idx \in 0..Size(node[leaf]) /\ pos < idx
    BY <1>6, <1>7, <1>8, <1>9, UpperPast
  <1>11. Size(node[leaf]) \in Nat /\ Size(node[leaf]) < MaxSize /\ leaf \in PageNos /\ MaxSize \in Nat
    BY <1>3, <1>6, LeavesIs, PagesIs, Sizes DEF Scannable
  <1>12. PICK x, u : x = IndexLowerBound(key) /\ u = IndexUpperBound(key)
    OBVIOUS
  <1>13. x = <<leaf, pos>> /\ x[1] = leaf /\ x[2] = pos
    BY <1>4, <1>7, <1>12 DEF IndexLowerBound, Iid
  <1>14. u = IF idx = Size(node[leaf]) THEN leaf_end ELSE <<leaf, idx>>
    BY <1>4, <1>9, <1>12 DEF IndexUpperBound, Iid
  <1>15. pos \in 0..MaxSize /\ idx \in 0..MaxSize /\ pos < Size(node[leaf]) /\ pos <= Size(node[leaf])
    BY <1>10, <1>11
  <1>16. Place(x)
    BY <1>6, <1>11, <1>13, <1>15 DEF Place, Iids
  <1>17. Place(u) /\ Reaches(d, x, u) /\ x # u
    <2>1. CASE idx = Size(node[leaf])
      <3>1. u = leaf_end /\ Place(u) /\ Reaches(d, x, u)
        BY <1>3, <1>14, <1>16, <2>1, EndIs
      <3>2. x # u
        <4> SUFFICES ASSUME x = u PROVE FALSE
          OBVIOUS
        <4>1. leaf_end[1] = hdr.last_leaf /\ leaf_end[2] = Size(node[hdr.last_leaf])
          BY DEF leaf_end, Iid
        <4>2. pos = Size(node[leaf])
          BY <1>13, <3>1, <4>1
        <4> QED BY <1>11, <1>15, <4>2
      <3> QED BY <3>1, <3>2
    <2>2. CASE idx # Size(node[leaf])
      <3>1. u = <<leaf, idx>> /\ u[1] = leaf /\ u[2] = idx
        BY <1>14, <2>2
      <3>2. idx < Size(node[leaf]) /\ idx <= Size(node[leaf])
        BY <1>10, <1>11, <2>2
      <3>3. Place(u)
        BY <1>6, <1>11, <1>15, <3>1, <3>2 DEF Place, Iids
      <3>4. pos <= idx /\ pos # idx
        BY <1>10
      <3> QED BY <1>13, <3>1, <3>3, <3>4 DEF Reaches
    <2> QED BY <2>1, <2>2
  <1>18. PICK from : ScanFrom(from, u)
    BY <1>3, ScanIs
  <1>19. from[x].ends /\ from[x].keys # <<>> /\ from[x].keys[1] = node[x[1]].keys[x[2] + 1]
    BY <1>3, <1>16, <1>17, <1>18, ScanEnds
  <1>20. Scan(x, u) = from[x]
    BY <1>18 DEF ScanFrom
  <1>21. from[x].keys[1] = key
    BY <1>10, <1>13, <1>19
  <1> QED BY <1>12, <1>19, <1>20, <1>21

(***************************************************************************)
(* The range an index scan takes for "column = key" can be read to its end *)
(* and begins with the key, for every key GetValue finds: after any splits *)
(* and merges, and in leaves whose keys are not sorted.                    *)
(***************************************************************************)
THEOREM RangesHold == Spec => []RangesReadable
  <1>1. IInv /\ LInv /\ ChainInv => RangesReadable
    BY RangeIs DEF RangesReadable
  <1>2. Init => IInv /\ LInv /\ ChainInv
    BY InitInv, InitLeaves, InitChain
  <1>3. IInv /\ LInv /\ ChainInv /\ [Next]_vars => (IInv /\ LInv /\ ChainInv)'
    BY NextInv, NextLeaves, NextChain
  <1> QED BY <1>1, <1>2, <1>3, PTL DEF Spec

-----------------------------------------------------------------------------
(* How many slots hold a pair.                                             *)

\* The slots of the leaves S of ns that hold the pair of k and v.
SlotsIn(S, ns, k, v) ==
  {at \in S \X Nat : /\ at[2] \in 1..Len(ns[at[1]].keys)
                     /\ ns[at[1]].keys[at[2]] = k /\ ns[at[1]].vals[at[2]] = v}

PairsOf(ns, k, v) == SlotsIn(Leaves(ns), ns, k, v)

\* What a slot is.
LEMMA SlotIs ==
  ASSUME NEW S, NEW ns, NEW k, NEW v
  PROVE  /\ \A q, i : <<q, i>> \in SlotsIn(S, ns, k, v) <=>
                        /\ q \in S /\ i \in Nat /\ i \in 1..Len(ns[q].keys)
                        /\ ns[q].keys[i] = k /\ ns[q].vals[i] = v
         /\ \A at \in SlotsIn(S, ns, k, v) : at = <<at[1], at[2]>>
  BY DEF SlotsIn

\* Two pairs are one when their members are.
LEMMA PairIs == \A a, b, c, d : <<a, b>> = <<c, d>> => a = c /\ b = d
  OBVIOUS

\* A function that takes one set to another, one to one.
LEMMA MatchIs ==
  ASSUME NEW A, NEW B, NEW g, \A x \in A : g[x] \in B, \A x, y \in A : g[x] = g[y] => x = y,
         \A y \in B : \E x \in A : g[x] = y
  PROVE  ExistsBijection(A, B)
  <1>1. PICK f : f = [x \in A |-> g[x]]
    OBVIOUS
  <1>2. f \in [A -> B] /\ DOMAIN f = A /\ \A x \in A : f[x] = g[x]
    BY <1>1
  <1>3. f \in Bijection(A, B)
    BY <1>2 DEF Bijection, Injection, Surjection, IsInjective
  <1> QED BY <1>3 DEF ExistsBijection

SameSlots(ms, ns, q) == ms[q].keys = ns[q].keys /\ ms[q].vals = ns[q].vals

\* The leaf p of ns cut in two, p and new.
CutAt(T, ms, S, ns, p, new) ==
  /\ p \in S /\ new \notin S /\ T = S \cup {new}
  /\ \A q \in S : q # p => SameSlots(ms, ns, q)
  /\ JoinsBoth(ns[p].keys, ns[p].vals, ms[p].keys, ms[p].vals, ms[new].keys, ms[new].vals)

\* The slots of a pair before and after the cut are as many.
LEMMA CutMatches ==
  ASSUME NEW S, NEW ns, NEW T, NEW ms, NEW p, NEW new, CutAt(T, ms, S, ns, p, new), NEW k, NEW v
  PROVE  ExistsBijection(SlotsIn(S, ns, k, v), SlotsIn(T, ms, k, v))
  <1>1. PICK a, b : a = Len(ms[p].keys) /\ b = Len(ms[new].keys)
    OBVIOUS
  <1>2. /\ a \in Nat /\ b \in Nat /\ Len(ns[p].keys) = a + b
        /\ \A i \in 1..a : ns[p].keys[i] = ms[p].keys[i] /\ ns[p].vals[i] = ms[p].vals[i]
        /\ \A i \in 1..b : ns[p].keys[a + i] = ms[new].keys[i] /\ ns[p].vals[a + i] = ms[new].vals[i]
    BY <1>1 DEF CutAt, JoinsBoth, Joins
  <1>3. /\ p \in S /\ new \notin S /\ p # new /\ (\A q : q \in T <=> q \in S \/ q = new)
        /\ \A q \in S : q # p => ms[q].keys = ns[q].keys /\ ms[q].vals = ns[q].vals
    BY DEF CutAt, SameSlots
  <1>4. PICK A, B : A = SlotsIn(S, ns, k, v) /\ B = SlotsIn(T, ms, k, v)
    OBVIOUS
  <1>5. /\ \A q, i : <<q, i>> \in A <=> /\ q \in S /\ i \in Nat /\ i \in 1..Len(ns[q].keys)
                                        /\ ns[q].keys[i] = k /\ ns[q].vals[i] = v
        /\ \A q, i : <<q, i>> \in B <=> /\ q \in T /\ i \in Nat /\ i \in 1..Len(ms[q].keys)
                                        /\ ms[q].keys[i] = k /\ ms[q].vals[i] = v
        /\ \A at \in A : at = <<at[1], at[2]>>
        /\ \A at \in B : at = <<at[1], at[2]>>
    BY <1>4, SlotIs
  <1> DEFINE g == [at \in A |-> IF at[1] = p /\ at[2] > a THEN <<new, at[2] - a>> ELSE at]
  <1>6. ASSUME NEW q, NEW i, <<q, i>> \in A
        PROVE  /\ g[<<q, i>>] = IF q = p /\ i > a THEN <<new, i - a>> ELSE <<q, i>>
               /\ g[<<q, i>>] \in B /\ i \in Nat /\ q # new
    <2>1. g[<<q, i>>] = IF q = p /\ i > a THEN <<new, i - a>> ELSE <<q, i>>
      BY <1>6
    <2>2. q \in S /\ i \in Nat /\ i \in 1..Len(ns[q].keys) /\ ns[q].keys[i] = k /\ ns[q].vals[i] = v
      BY <1>5, <1>6
    <2>3. CASE q # p
      <3>1. <<q, i>> \in B
        BY <1>3, <1>5, <2>2, <2>3
      <3> QED BY <1>3, <2>1, <2>2, <2>3, <3>1
    <2>4. CASE q = p /\ i <= a
      <3>1. i \in 1..a
        BY <1>2, <2>2, <2>4
      <3>2. <<q, i>> \in B
        BY <1>1, <1>2, <1>3, <1>5, <2>2, <2>4, <3>1
      <3> QED BY <1>2, <1>3, <2>1, <2>2, <2>4, <3>2
    <2>5. CASE q = p /\ i > a
      <3>1. PICK j : j = i - a
        OBVIOUS
      <3>2. j \in 1..b /\ j \in Nat /\ a + j = i
        BY <1>2, <2>2, <2>5, <3>1
      <3>3. ms[new].keys[j] = k /\ ms[new].vals[j] = v
        BY <1>2, <2>2, <2>5, <3>2
      <3>4. <<new, j>> \in B
        BY <1>1, <1>3, <1>5, <3>2, <3>3
      <3> QED BY <1>3, <2>1, <2>2, <2>5, <3>1, <3>4
    <2> QED BY <1>2, <2>2, <2>3, <2>4, <2>5
  <1>7. \A x \in A : g[x] \in B
    <2> SUFFICES ASSUME NEW x \in A PROVE g[x] \in B
      OBVIOUS
    <2>1. PICK q, i : x = <<q, i>>
      BY <1>5
    <2> HIDE DEF g
    <2> QED BY <1>6, <2>1
  <1>8. \A x, y \in A : g[x] = g[y] => x = y
    <2> SUFFICES ASSUME NEW x \in A, NEW y \in A, g[x] = g[y] PROVE x = y
      OBVIOUS
    <2>1. PICK q, i : x = <<q, i>>
      BY <1>5
    <2>2. PICK r, j : y = <<r, j>>
      BY <1>5
    <2> HIDE DEF g
    <2>3. /\ g[x] = (IF q = p /\ i > a THEN <<new, i - a>> ELSE <<q, i>>) /\ i \in Nat /\ q # new
          /\ g[y] = (IF r = p /\ j > a THEN <<new, j - a>> ELSE <<r, j>>) /\ j \in Nat /\ r # new
      BY <1>6, <2>1, <2>2
    <2>4. CASE (q = p /\ i > a) /\ (r = p /\ j > a)
      <3>0. <<new, i - a>> = <<new, j - a>>
        BY <2>3, <2>4, Zenon
      <3>1. i - a = j - a
        BY <3>0, PairIs
      <3> QED BY <1>2, <2>1, <2>2, <2>3, <2>4, <3>1
    <2>5. CASE ~(q = p /\ i > a) /\ ~(r = p /\ j > a)
      BY <2>1, <2>2, <2>3, <2>5
    <2>6. CASE (q = p /\ i > a) /\ ~(r = p /\ j > a)
      <3>1. <<new, i - a>> = <<r, j>>
        BY <2>3, <2>6, Zenon
      <3> QED BY <2>3, <3>1, PairIs
    <2>7. CASE ~(q = p /\ i > a) /\ (r = p /\ j > a)
      <3>1. <<q, i>> = <<new, j - a>>
        BY <2>3, <2>7, Zenon
      <3> QED BY <2>3, <3>1, PairIs
    <2> QED BY <2>4, <2>5, <2>6, <2>7
  <1>9. \A y \in B : \E x \in A : g[x] = y
    <2> SUFFICES ASSUME NEW y \in B PROVE \E x \in A : g[x] = y
      OBVIOUS
    <2>1. PICK q, i : y = <<q, i>>
      BY <1>5
    <2>2. q \in T /\ i \in Nat /\ i \in 1..Len(ms[q].keys) /\ ms[q].keys[i] = k /\ ms[q].vals[i] = v
      BY <1>5, <2>1
    <2> HIDE DEF g
    <2>3. CASE q = new
      <3>1. PICK j : j = a + i
        OBVIOUS
      <3>0. i \in 1..b /\ a \in Nat /\ b \in Nat
        BY <1>1, <1>2, <2>2, <2>3
      <3>2. j \in Nat /\ j \in 1..(a + b) /\ j > a /\ j - a = i /\ i \in 1..b
        BY <3>0, <3>1
      <3>3. <<p, j>> \in A
        BY <1>2, <1>3, <1>5, <2>2, <2>3, <3>1, <3>2
      <3>4. g[<<p, j>>] = <<new, j - a>>
        BY <1>6, <3>2, <3>3
      <3> QED BY <2>1, <2>3, <3>2, <3>3, <3>4
    <2>4. CASE q # new /\ q # p
      <3>1. <<q, i>> \in A
        BY <1>3, <1>5, <2>2, <2>4
      <3>2. g[<<q, i>>] = <<q, i>>
        BY <1>6, <2>4, <3>1
      <3> QED BY <2>1, <3>1, <3>2
    <2>5. CASE q = p
      <3>0. i \in 1..a /\ a \in Nat /\ b \in Nat
        BY <1>1, <1>2, <2>2, <2>5
      <3>1. i \in 1..a /\ i \in 1..(a + b) /\ ~(i > a)
        BY <3>0
      <3>2. <<q, i>> \in A
        BY <1>2, <1>3, <1>5, <2>2, <2>5, <3>1
      <3>3. g[<<q, i>>] = <<q, i>>
        BY <1>6, <3>1, <3>2
      <3> QED BY <2>1, <3>2, <3>3
    <2> QED BY <2>3, <2>4, <2>5
  <1> HIDE DEF g
  <1>10. ExistsBijection(A, B)
    BY <1>7, <1>8, <1>9, MatchIs
  <1> QED BY <1>4, <1>10

\* The leaf p of ns with one pair more, after its first pos pairs.
PutAt(S, ms, ns, p, pos, key, val) ==
  /\ p \in S /\ (\A q \in S : q # p => SameSlots(ms, ns, q))
  /\ Len(ns[p].keys) \in Nat /\ Len(ns[p].vals) = Len(ns[p].keys) /\ pos \in 0..Len(ns[p].keys)
  /\ With1(ms[p].keys, ns[p].keys, pos, key) /\ With1(ms[p].vals, ns[p].vals, pos, val)

\* Beside the slot of that pair the slots of a pair are as many.
LEMMA PutMatches ==
  ASSUME NEW S, NEW ms, NEW ns, NEW p, NEW pos, NEW key, NEW val, PutAt(S, ms, ns, p, pos, key, val),
         NEW k, NEW v
  PROVE  /\ ExistsBijection(SlotsIn(S, ns, k, v), SlotsIn(S, ms, k, v) \ {<<p, pos + 1>>})
         /\ <<p, pos + 1>> \in SlotsIn(S, ms, k, v) <=> k = key /\ v = val
  <1>1. PICK a, e : a = Len(ns[p].keys) /\ e = pos + 1
    OBVIOUS
  <1>2. /\ a \in Nat /\ pos \in 0..a /\ e \in Nat /\ e \in 1..(a + 1) /\ Len(ms[p].keys) = a + 1
        /\ ms[p].keys[e] = key /\ ms[p].vals[e] = val
        /\ \A j \in 1..a : j <= pos => ms[p].keys[j] = ns[p].keys[j] /\ ms[p].vals[j] = ns[p].vals[j]
        /\ \A j \in 1..a : j > pos => ms[p].keys[j + 1] = ns[p].keys[j] /\ ms[p].vals[j + 1] = ns[p].vals[j]
    BY <1>1 DEF PutAt, With1
  <1>3. p \in S /\ \A q \in S : q # p => ms[q].keys = ns[q].keys /\ ms[q].vals = ns[q].vals
    BY DEF PutAt, SameSlots
  <1>4. PICK A, M, B : A = SlotsIn(S, ns, k, v) /\ M = SlotsIn(S, ms, k, v) /\ B = M \ {<<p, e>>}
    OBVIOUS
  <1>5. /\ \A q, i : <<q, i>> \in A <=> /\ q \in S /\ i \in Nat /\ i \in 1..Len(ns[q].keys)
                                        /\ ns[q].keys[i] = k /\ ns[q].vals[i] = v
        /\ \A q, i : <<q, i>> \in M <=> /\ q \in S /\ i \in Nat /\ i \in 1..Len(ms[q].keys)
                                        /\ ms[q].keys[i] = k /\ ms[q].vals[i] = v
        /\ \A at \in A : at = <<at[1], at[2]>>
        /\ \A at \in M : at = <<at[1], at[2]>>
    BY <1>4, SlotIs
  <1>6. \A q, i : <<q, i>> \in B <=> <<q, i>> \in M /\ ~(q = p /\ i = e)
    BY <1>4
  <1>7. <<p, e>> \in M <=> k = key /\ v = val
    BY <1>2, <1>3, <1>5
  <1> DEFINE g == [at \in A |-> IF at[1] = p /\ at[2] > pos THEN <<p, at[2] + 1>> ELSE at]
  <1>8. ASSUME NEW q, NEW i, <<q, i>> \in A
        PROVE  /\ g[<<q, i>>] = IF q = p /\ i > pos THEN <<p, i + 1>> ELSE <<q, i>>
               /\ g[<<q, i>>] \in B /\ i \in Nat
    <2>1. g[<<q, i>>] = IF q = p /\ i > pos THEN <<p, i + 1>> ELSE <<q, i>>
      BY <1>8
    <2>2. q \in S /\ i \in Nat /\ i \in 1..Len(ns[q].keys) /\ ns[q].keys[i] = k /\ ns[q].vals[i] = v
      BY <1>5, <1>8
    <2>3. CASE q # p
      <3>1. <<q, i>> \in B
        BY <1>3, <1>5, <1>6, <2>2, <2>3
      <3> QED BY <2>1, <2>2, <2>3, <3>1
    <2>4. CASE q = p /\ i <= pos
      <3>1. i \in 1..a /\ i \in 1..(a + 1) /\ i # e /\ ~(i > pos)
        BY <1>1, <1>2, <2>2, <2>4
      <3>2. ms[p].keys[i] = k /\ ms[p].vals[i] = v
        BY <1>2, <2>2, <2>4, <3>1
      <3>3. <<q, i>> \in B
        BY <1>2, <1>5, <1>6, <2>2, <2>4, <3>1, <3>2
      <3> QED BY <2>1, <2>2, <3>1, <3>3
    <2>5. CASE q = p /\ i > pos
      <3>1. PICK j : j = i + 1
        OBVIOUS
      <3>2. i \in 1..a /\ j \in 1..(a + 1) /\ j \in Nat /\ j # e
        BY <1>1, <1>2, <2>2, <2>5, <3>1
      <3>3. ms[p].keys[j] = k /\ ms[p].vals[j] = v
        BY <1>2, <2>2, <2>5, <3>1, <3>2
      <3>4. <<p, j>> \in B
        BY <1>2, <1>3, <1>5, <1>6, <3>2, <3>3
      <3> QED BY <2>1, <2>2, <2>5, <3>1, <3>4
    <2> QED BY <1>2, <2>2, <2>3, <2>4, <2>5
  <1>9. \A x \in A : g[x] \in B
    <2> SUFFICES ASSUME NEW x \in A PROVE g[x] \in B
      OBVIOUS
    <2>1. PICK q, i : x = <<q, i>>
      BY <1>5
    <2> HIDE DEF g
    <2> QED BY <1>8, <2>1
  <1>10. \A x, y \in A : g[x] = g[y] => x = y
    <2> SUFFICES ASSUME NEW x \in A, NEW y \in A, g[x] = g[y] PROVE x = y
      OBVIOUS
    <2>1. PICK q, i : x = <<q, i>>
      BY <1>5
    <2>2. PICK r, j : y = <<r, j>>
      BY <1>5
    <2> HIDE DEF g
    <2>3. /\ g[x] = (IF q = p /\ i > pos THEN <<p, i + 1>> ELSE <<q, i>>) /\ i \in Nat
          /\ g[y] = (IF r = p /\ j > pos THEN <<p, j + 1>> ELSE <<r, j>>) /\ j \in Nat
      BY <1>8, <2>1, <2>2
    <2>4. CASE (q = p /\ i > pos) /\ (r = p /\ j > pos)
      <3>0. <<p, i + 1>> = <<p, j + 1>>
        BY <2>3, <2>4, Zenon
      <3>1. i + 1 = j + 1
        BY <3>0, PairIs
      <3> QED BY <2>1, <2>2, <2>3, <2>4, <3>1
    <2>5. CASE ~(q = p /\ i > pos) /\ ~(r = p /\ j > pos)
      BY <2>1, <2>2, <2>3, <2>5
    <2>6. CASE (q = p /\ i > pos) /\ ~(r = p /\ j > pos)
      <3>0. <<p, i + 1>> = <<r, j>>
        BY <2>3, <2>6, Zenon
      <3>1. r = p /\ j = i + 1
        BY <3>0, PairIs
      <3> QED BY <1>2, <2>3, <2>6, <3>1
    <2>7. CASE ~(q = p /\ i > pos) /\ (r = p /\ j > pos)
      <3>0. <<q, i>> = <<p, j + 1>>
        BY <2>3, <2>7, Zenon
      <3>1. q = p /\ i = j + 1
        BY <3>0, PairIs
      <3> QED BY <1>2, <2>3, <2>7, <3>1
    <2> QED BY <2>4, <2>5, <2>6, <2>7
  <1>11. \A y \in B : \E x \in A : g[x] = y
    <2> SUFFICES ASSUME NEW y \in B PROVE \E x \in A : g[x] = y
      OBVIOUS
    <2>1. PICK q, i : y = <<q, i>>
      BY <1>4, <1>5
    <2>2. /\ q \in S /\ i \in Nat /\ i \in 1..Len(ms[q].keys) /\ ms[q].keys[i] = k /\ ms[q].vals[i] = v
          /\ ~(q = p /\ i = e)
      BY <1>5, <1>6, <2>1
    <2> HIDE DEF g
    <2>3. CASE q # p
      <3>1. <<q, i>> \in A
        BY <1>3, <1>5, <2>2, <2>3
      <3>2. g[<<q, i>>] = <<q, i>>
        BY <1>8, <2>3, <3>1
      <3> QED BY <2>1, <3>1, <3>2
    <2>4. CASE q = p /\ i <= pos
      <3>1. i \in 1..a /\ ~(i > pos)
        BY <1>2, <2>2, <2>4
      <3>2. <<q, i>> \in A
        BY <1>1, <1>2, <1>5, <2>2, <2>4, <3>1
      <3>3. g[<<q, i>>] = <<q, i>>
        BY <1>8, <3>1, <3>2
      <3> QED BY <2>1, <3>2, <3>3
    <2>5. CASE q = p /\ i > pos
      <3>1. PICK j : j = i - 1
        OBVIOUS
      <3>0. /\ i \in 1..(a + 1) /\ a \in Nat /\ pos \in 0..a /\ i > pos /\ i # e /\ e = pos + 1
        BY <1>1, <1>2, <2>2, <2>5
      <3>2. j \in Nat /\ j \in 1..a /\ j > pos /\ j + 1 = i
        BY <3>0, <3>1
      <3>3. ns[p].keys[j] = k /\ ns[p].vals[j] = v
        BY <1>2, <2>2, <2>5, <3>2
      <3>4. <<p, j>> \in A
        BY <1>1, <1>3, <1>5, <3>2, <3>3
      <3>5. g[<<p, j>>] = <<p, j + 1>>
        BY <1>8, <3>2, <3>4
      <3> QED BY <2>1, <2>5, <3>2, <3>4, <3>5
    <2> QED BY <1>2, <2>2, <2>3, <2>4, <2>5
  <1> HIDE DEF g
  <1>12. ExistsBijection(A, B)
    BY <1>9, <1>10, <1>11, MatchIs
  <1> QED BY <1>1, <1>4, <1>7, <1>12

-----------------------------------------------------------------------------
(* The number of slots of every pair, across the steps of a call.          *)

\* Every pair is in finitely many slots, and its value is one of a caller's.
BagOf(ns) == \A k, v : IsFiniteSet(PairsOf(ns, k, v)) /\ (PairsOf(ns, k, v) # {} => v \in Vals)

AsMany(ms, ns) == \A k, v : Cardinality(PairsOf(ms, k, v)) = Cardinality(PairsOf(ns, k, v))

OneMore(ms, ns, key, val) ==
  \A k, v : Cardinality(PairsOf(ms, k, v))
              = Cardinality(PairsOf(ns, k, v)) + (IF k = key /\ v = val THEN 1 ELSE 0)

\* Slots that match one to one.
LEMMA MatchedAsMany ==
  ASSUME NEW ms, NEW ns, BagOf(ns), \A k, v : ExistsBijection(PairsOf(ns, k, v), PairsOf(ms, k, v))
  PROVE  BagOf(ms) /\ AsMany(ms, ns)
  <1>1. ASSUME NEW k, NEW v
        PROVE  /\ IsFiniteSet(PairsOf(ms, k, v)) /\ (PairsOf(ms, k, v) # {} => v \in Vals)
               /\ Cardinality(PairsOf(ms, k, v)) = Cardinality(PairsOf(ns, k, v))
    <2>1. PICK A, B : A = PairsOf(ns, k, v) /\ B = PairsOf(ms, k, v)
      OBVIOUS
    <2>2. IsFiniteSet(A) /\ (A # {} => v \in Vals) /\ ExistsBijection(A, B)
      BY <2>1 DEF BagOf
    <2>3. IsFiniteSet(B) /\ Cardinality(B) = Cardinality(A)
      BY <2>2, FS_Bijection
    <2>4. B # {} => A # {}
      BY <2>2, <2>3, FS_EmptySet
    <2> QED BY <2>1, <2>2, <2>3, <2>4
  <1> QED BY <1>1 DEF BagOf, AsMany

\* A split, a merge, and a move between neighbours.
LEMMA LeafStepAsMany ==
  ASSUME NEW ms, NEW ns, BagOf(ns), LeafStep(ms, ns)
  PROVE  BagOf(ms) /\ AsMany(ms, ns)
  <1>1. CASE Alike(ms, ns)
    <2>1. ASSUME NEW k, NEW v PROVE PairsOf(ms, k, v) = PairsOf(ns, k, v)
      <3>1. Leaves(ms) = Leaves(ns) /\ \A q \in Leaves(ns) : ms[q].keys = ns[q].keys /\ ms[q].vals = ns[q].vals
        BY <1>1 DEF Alike, SameLeaf
      <3> QED BY <3>1 DEF PairsOf, SlotsIn
    <2> QED BY <2>1 DEF BagOf, AsMany
  <1>2. ASSUME NEW p, NEW new, Divided(ms, ns, p, new) PROVE BagOf(ms) /\ AsMany(ms, ns)
    <2>1. CutAt(Leaves(ms), ms, Leaves(ns), ns, p, new)
      BY <1>2 DEF Divided, CutAt, SameLeaf, SameSlots
    <2>2. \A k, v : ExistsBijection(PairsOf(ns, k, v), PairsOf(ms, k, v))
      BY <2>1, CutMatches DEF PairsOf
    <2> QED BY <2>2, MatchedAsMany
  <1>3. ASSUME NEW left, NEW right, Joined(ms, ns, left, right) PROVE BagOf(ms) /\ AsMany(ms, ns)
    <2>1. /\ left \in Leaves(ms) /\ right \notin Leaves(ms) /\ Leaves(ns) = Leaves(ms) \cup {right}
          /\ \A q \in Leaves(ms) : q # left => SameSlots(ns, ms, q)
      BY <1>3 DEF Joined, SameLeaf, SameSlots
    <2>2. CutAt(Leaves(ns), ns, Leaves(ms), ms, left, right)
      BY <1>3, <2>1 DEF Joined, CutAt
    <2>3. \A k, v : ExistsBijection(PairsOf(ms, k, v), PairsOf(ns, k, v))
      BY <2>2, CutMatches DEF PairsOf
    <2>4. \A k, v : ExistsBijection(PairsOf(ns, k, v), PairsOf(ms, k, v))
      BY <2>3, Fun_ExistsBijSymmetric
    <2> QED BY <2>4, MatchedAsMany
  <1>4. ASSUME NEW left, NEW right, Dealt(ms, ns, left, right) PROVE BagOf(ms) /\ AsMany(ms, ns)
    <2>1. PICK J, V :
            /\ JoinsBoth(J, V, ns[left].keys, ns[left].vals, ns[right].keys, ns[right].vals)
            /\ JoinsBoth(J, V, ms[left].keys, ms[left].vals, ms[right].keys, ms[right].vals)
      BY <1>4 DEF Dealt, Reshared
    <2>2. PICK S : S = Leaves(ns) \ {right}
      OBVIOUS
    <2>3. PICK xs : xs = [q \in S |-> [keys |-> IF q = left THEN J ELSE ns[q].keys,
                                       vals |-> IF q = left THEN V ELSE ns[q].vals]]
      OBVIOUS
    <2>4. left \in S /\ right \notin S /\ Leaves(ns) = S \cup {right} /\ Leaves(ms) = S \cup {right}
      BY <1>4, <2>2 DEF Dealt
    <2>5. /\ xs[left].keys = J /\ xs[left].vals = V
          /\ \A q \in S : q # left => xs[q].keys = ns[q].keys /\ xs[q].vals = ns[q].vals
      BY <2>3, <2>4
    <2>6. \A q \in S : q # left => ms[q].keys = ns[q].keys /\ ms[q].vals = ns[q].vals
      BY <1>4, <2>2 DEF Dealt, SameLeaf
    <2>7. CutAt(Leaves(ns), ns, S, xs, left, right)
      BY <2>1, <2>4, <2>5 DEF CutAt, SameSlots
    <2>8. CutAt(Leaves(ms), ms, S, xs, left, right)
      BY <2>1, <2>4, <2>5, <2>6 DEF CutAt, SameSlots
    <2>9. ASSUME NEW k, NEW v PROVE ExistsBijection(PairsOf(ns, k, v), PairsOf(ms, k, v))
      <3>1. PICK A, B, C : A = PairsOf(ns, k, v) /\ B = SlotsIn(S, xs, k, v) /\ C = PairsOf(ms, k, v)
        OBVIOUS
      <3>2. ExistsBijection(B, A)
        BY <2>7, <3>1, CutMatches DEF PairsOf
      <3>3. ExistsBijection(B, C)
        BY <2>8, <3>1, CutMatches DEF PairsOf
      <3>4. ExistsBijection(A, B)
        BY <3>2, Fun_ExistsBijSymmetric
      <3>5. ExistsBijection(A, C)
        BY <3>3, <3>4, Fun_ExistsBijTransitive
      <3> QED BY <3>1, <3>5
    <2> QED BY <2>9, MatchedAsMany
  <1> QED BY <1>1, <1>2, <1>3, <1>4 DEF LeafStep

\* A pair put into a leaf, and the other way round a pair taken out of it.
LEMMA PutCounts ==
  ASSUME NEW ms, NEW ns, NEW p, NEW pos, NEW key, NEW val, Leaves(ms) = Leaves(ns),
         PutAt(Leaves(ns), ms, ns, p, pos, key, val)
  PROVE  /\ BagOf(ns) /\ val \in Vals => BagOf(ms) /\ OneMore(ms, ns, key, val)
         /\ BagOf(ms) => BagOf(ns) /\ OneMore(ms, ns, key, val) /\ val \in Vals /\ PairsOf(ms, key, val) # {}
  <1>1. PICK at : at = <<p, pos + 1>>
    OBVIOUS
  <1>2. \A k, v : /\ ExistsBijection(PairsOf(ns, k, v), PairsOf(ms, k, v) \ {at})
                  /\ at \in PairsOf(ms, k, v) <=> k = key /\ v = val
    BY <1>1, PutMatches DEF PairsOf
  <1>3. ASSUME BagOf(ns), val \in Vals PROVE BagOf(ms) /\ OneMore(ms, ns, key, val)
    <2>1. ASSUME NEW k, NEW v
          PROVE  /\ IsFiniteSet(PairsOf(ms, k, v)) /\ (PairsOf(ms, k, v) # {} => v \in Vals)
                 /\ Cardinality(PairsOf(ms, k, v))
                      = Cardinality(PairsOf(ns, k, v)) + (IF k = key /\ v = val THEN 1 ELSE 0)
      <3>1. PICK A, M, B : A = PairsOf(ns, k, v) /\ M = PairsOf(ms, k, v) /\ B = M \ {at}
        OBVIOUS
      <3>2. /\ ExistsBijection(A, B) /\ (at \in M <=> k = key /\ v = val)
            /\ IsFiniteSet(A) /\ (A # {} => v \in Vals)
        BY <1>2, <1>3, <3>1 DEF BagOf
      <3>3. IsFiniteSet(B) /\ Cardinality(B) = Cardinality(A)
        BY <3>2, FS_Bijection
      <3>4. Cardinality(A) \in Nat
        BY <3>2, FS_CardinalityType
      <3>5. CASE k = key /\ v = val
        <4>1. M = B \cup {at} /\ at \notin B
          BY <3>1, <3>2, <3>5
        <4>2. IsFiniteSet(M) /\ Cardinality(M) = Cardinality(B) + 1
          BY <3>3, <4>1, FS_AddElement
        <4> QED BY <1>3, <3>1, <3>3, <3>4, <3>5, <4>2
      <3>6. CASE ~(k = key /\ v = val)
        <4>1. M = B
          BY <3>1, <3>2, <3>6
        <4>2. M # {} => A # {}
          BY <3>2, <3>3, <4>1, FS_EmptySet
        <4>3. Cardinality(M) = Cardinality(A) + (IF k = key /\ v = val THEN 1 ELSE 0)
          BY <3>3, <3>4, <3>6, <4>1
        <4> QED BY <3>1, <3>2, <3>3, <4>1, <4>2, <4>3
      <3> QED BY <3>5, <3>6
    <2> QED BY <2>1 DEF BagOf, OneMore
  <1>4. ASSUME BagOf(ms) PROVE BagOf(ns) /\ OneMore(ms, ns, key, val)
    <2>1. ASSUME NEW k, NEW v
          PROVE  /\ IsFiniteSet(PairsOf(ns, k, v)) /\ (PairsOf(ns, k, v) # {} => v \in Vals)
                 /\ Cardinality(PairsOf(ms, k, v))
                      = Cardinality(PairsOf(ns, k, v)) + (IF k = key /\ v = val THEN 1 ELSE 0)
      <3>1. PICK A, M, B : A = PairsOf(ns, k, v) /\ M = PairsOf(ms, k, v) /\ B = M \ {at}
        OBVIOUS
      <3>2. /\ ExistsBijection(A, B) /\ (at \in M <=> k = key /\ v = val)
            /\ IsFiniteSet(M) /\ (M # {} => v \in Vals)
        BY <1>2, <1>4, <3>1 DEF BagOf
      <3>3. IsFiniteSet(B) /\ Cardinality(B) = IF at \in M THEN Cardinality(M) - 1 ELSE Cardinality(M)
        BY <3>1, <3>2, FS_RemoveElement
      <3>4. ExistsBijection(B, A)
        BY <3>2, Fun_ExistsBijSymmetric
      <3>5. IsFiniteSet(A) /\ Cardinality(A) = Cardinality(B)
        BY <3>3, <3>4, FS_Bijection
      <3>6. Cardinality(M) \in Nat
        BY <3>2, FS_CardinalityType
      <3>7. A # {} => M # {}
        <4>1. A # {} => B # {}
          BY <3>3, <3>5, FS_EmptySet
        <4> QED BY <3>1, <4>1
      <3>8. Cardinality(M) = Cardinality(A) + (IF k = key /\ v = val THEN 1 ELSE 0)
        BY <3>2, <3>3, <3>5, <3>6
      <3> QED BY <3>1, <3>2, <3>5, <3>7, <3>8
    <2> QED BY <2>1 DEF BagOf, OneMore
  <1>5. PairsOf(ms, key, val) # {}
    BY <1>2
  <1>6. BagOf(ms) => val \in Vals
    BY <1>5 DEF BagOf
  <1> QED BY <1>3, <1>4, <1>5, <1>6

\* What Insert does to the pairs of a leaf, in whatever order its keys are.
LEMMA InsertPuts ==
  ASSUME NEW n, NodeOK(n), n.leaf, NEW key \in Keys, NEW val \in Vals, Size(n) < MaxSize
  PROVE  \/ Insert(n, key, val) = n /\ \E i \in 1..Size(n) : n.keys[i] = key
         \/ \E pos \in 0..Size(n) : /\ With1(Insert(n, key, val).keys, n.keys, pos, key)
                                    /\ With1(Insert(n, key, val).vals, n.vals, pos, val)
  <1>1. PICK pos : pos = lower_bound(n, key)
    OBVIOUS
  <1>2. pos \in 0..Size(n) /\ Size(n) \in Nat
    BY <1>1, NodeIs, LowerBoundIs
  <1>3. Insert(n, key, val) = IF HasKey(n, pos, key) THEN n ELSE insert_pair(n, pos, key, val)
    BY <1>1 DEF Insert
  <1>4. CASE HasKey(n, pos, key)
    <2>1. pos + 1 \in 1..Size(n) /\ n.keys[pos + 1] = key
      BY <1>2, <1>4 DEF HasKey, KeyAt
    <2> QED BY <1>3, <1>4, <2>1
  <1>5. CASE ~HasKey(n, pos, key)
    <2>1. PICK m : m = insert_pair(n, pos, key, val)
      OBVIOUS
    <2>2. val \in Slots
      BY DEF Slots
    <2>3. IsInsert(m, n, pos, <<key>>, <<val>>)
      BY <1>2, <2>1, <2>2, InsertPairIs
    <2>4. m.keys = Splice(n.keys, pos, <<key>>) /\ m.vals = Splice(n.vals, pos, <<val>>)
      BY <2>3 DEF IsInsert
    <2>5. n.keys \in Seq(Keys) /\ n.vals \in Seq(Slots) /\ pos \in 0..Len(n.keys) /\ pos \in 0..Len(n.vals)
      BY <1>2, NodeIs
    <2>6. With1(m.keys, n.keys, pos, key) /\ With1(m.vals, n.vals, pos, val)
      BY <2>2, <2>4, <2>5, With1Is
    <2> QED BY <1>2, <1>3, <1>5, <2>1, <2>6
  <1> QED BY <1>4, <1>5

\* What is left when a member is taken out, with the member put in again.
LEMMA Less1With1 ==
  \A u, s, i : Less1(u, s, i) /\ Len(s) \in Nat /\ i \in 0..(Len(s) - 1) => With1(s, u, i, s[i + 1])
  <1> SUFFICES ASSUME NEW u, NEW s, NEW i, Less1(u, s, i), Len(s) \in Nat, i \in 0..(Len(s) - 1)
               PROVE  With1(s, u, i, s[i + 1])
    OBVIOUS
  <1>1. PICK a : a = Len(s)
    OBVIOUS
  <1>2. /\ a \in Nat /\ i \in 0..(a - 1) /\ Len(u) = a - 1
        /\ \A j \in 1..(a - 1) : (j <= i => u[j] = s[j]) /\ (j > i => u[j] = s[j + 1])
    BY <1>1 DEF Less1
  <1>3. Len(s) = Len(u) + 1
    BY <1>1, <1>2
  <1>4. \A j \in 1..Len(u) : (j <= i => s[j] = u[j]) /\ (j > i => s[j + 1] = u[j])
    BY <1>2
  <1> QED BY <1>3, <1>4 DEF With1

\* What Remove does to the pairs of a leaf.
LEMMA RemoveTakes ==
  ASSUME NEW n, NodeOK(n), NEW key, NEW m, m = Remove(n, key)
  PROVE  \/ m = n
         \/ \E pos \in 0..(Size(n) - 1) :
              /\ With1(n.keys, m.keys, pos, key) /\ With1(n.vals, m.vals, pos, n.vals[pos + 1])
              /\ Size(m) = Size(n) - 1 /\ NodeOK(m)
  <1>1. PICK pos : pos = lower_bound(n, key)
    OBVIOUS
  <1>2. pos \in 0..Size(n) /\ Size(n) \in Nat
    BY <1>1, NodeIs, LowerBoundIs
  <1>3. m = IF HasKey(n, pos, key) THEN erase_pair(n, pos) ELSE n
    BY <1>1 DEF Remove
  <1>4. CASE ~HasKey(n, pos, key)
    BY <1>3, <1>4
  <1>5. CASE HasKey(n, pos, key)
    <2>1. pos \in 0..(Size(n) - 1) /\ n.keys[pos + 1] = key
      BY <1>2, <1>5 DEF HasKey, KeyAt
    <2>2. IsErase(m, n, pos)
      BY <1>3, <1>5, <2>1, ErasePairIs
    <2>3. /\ m.keys = Without(n.keys, pos) /\ m.vals = Without(n.vals, pos)
          /\ Size(m) = Size(n) - 1 /\ NodeOK(m)
      BY <2>2 DEF IsErase
    <2>4. /\ n.keys \in Seq(Keys) /\ n.vals \in Seq(Slots) /\ Len(n.keys) \in Nat /\ Len(n.vals) \in Nat
          /\ pos \in 0..(Len(n.keys) - 1) /\ pos \in 0..(Len(n.vals) - 1)
      BY <2>1, NodeIs
    <2>5. Less1(m.keys, n.keys, pos) /\ Less1(m.vals, n.vals, pos)
      BY <2>3, <2>4, Less1Is
    <2>6. With1(n.keys, m.keys, pos, key) /\ With1(n.vals, m.vals, pos, n.vals[pos + 1])
      BY <2>1, <2>4, <2>5, Less1With1
    <2> QED BY <2>1, <2>3, <2>6
  <1> QED BY <1>4, <1>5

\* insert_entry up to the test for a full leaf.
LEMMA InsertCounts ==
  ASSUME NEW h, h \in [Pages -> Nat], TreeInv(h), BagOf(node), NEW key \in Keys, NEW val \in Vals,
         InsertEntry(key, val)
  PROVE  /\ BagOf(node')
         /\ \/ OneMore(node', node, key, val)
            \/ AsMany(node', node) /\ \E v \in Vals : PairsOf(node, key, v) # {}
  <1>1. op = Idle /\ Begins /\ FindLeafPage(key) # Lost
    BY DEF InsertEntry, Begins
  <1>2. PICK leaf : leaf = FindLeafPage(key)
    OBVIOUS
  <1>3. PICK o, n : o = node[leaf] /\ n = Insert(node[leaf], key, val)
    OBVIOUS
  <1>4. node' = Replaced(node, leaf, n)
    BY <1>2, <1>3 DEF InsertEntry, Replaced
  <1>5. leaf \in Nds(node) /\ node[leaf].leaf
    BY <1>1, <1>2, BeginsIs
  <1>6. NodeOK(o) /\ Size(o) < MaxSize /\ Size(o) \in Nat /\ Store(node)
    BY <1>1, <1>3, <1>5, NdsIs, QuietSizes DEF TreeInv
  <1>7. SameLinks(n, node[leaf])
    BY <1>3, <1>5, <1>6, InsertIs
  <1>8. /\ Leaves(node') = Leaves(node) /\ leaf \in Leaves(node)
        /\ \A q \in DOMAIN node : node'[q] = IF q = leaf THEN n ELSE node[q]
    BY <1>4, <1>5, <1>6, <1>7, EditIs DEF SameNext
  <1>9. \A q \in Leaves(node) : q \in DOMAIN node
    BY LeafIn
  <1>10. Len(o.keys) = Size(o) /\ Len(o.vals) = Size(o)
    BY <1>6, NodeIs
  <1>11. CASE n = o /\ \E i \in 1..Size(o) : o.keys[i] = key
    <2>1. PICK i \in 1..Size(o) : o.keys[i] = key
      BY <1>11
    <2>2. PICK v : v = o.vals[i]
      OBVIOUS
    <2>3. <<leaf, i>> \in PairsOf(node, key, v)
      BY <1>3, <1>6, <1>8, <1>10, <2>1, <2>2, SlotIs DEF PairsOf
    <2>4. v \in Vals
      BY <2>3 DEF BagOf
    <2>5. ASSUME NEW k, NEW w PROVE PairsOf(node', k, w) = PairsOf(node, k, w)
      <3>1. \A q \in Leaves(node) : node'[q] = node[q]
        BY <1>3, <1>8, <1>9, <1>11
      <3> QED BY <1>8, <3>1 DEF PairsOf, SlotsIn
    <2> QED BY <2>3, <2>4, <2>5 DEF BagOf, AsMany
  <1>12. ASSUME NEW pos \in 0..Size(o), With1(n.keys, o.keys, pos, key), With1(n.vals, o.vals, pos, val)
         PROVE  BagOf(node') /\ OneMore(node', node, key, val)
    <2>1. node'[leaf] = n /\ node[leaf] = o
      BY <1>3, <1>8, <1>9
    <2>2. \A q \in Leaves(node) : q # leaf => SameSlots(node', node, q)
      BY <1>8, <1>9 DEF SameSlots
    <2>3. PutAt(Leaves(node), node', node, leaf, pos, key, val)
      BY <1>6, <1>8, <1>10, <1>12, <2>1, <2>2 DEF PutAt
    <2> QED BY <1>8, <2>3, PutCounts
  <1>13. \/ n = o /\ \E i \in 1..Size(o) : o.keys[i] = key
         \/ \E pos \in 0..Size(o) : With1(n.keys, o.keys, pos, key) /\ With1(n.vals, o.vals, pos, val)
    <2>1. o.leaf
      BY <1>3, <1>5
    <2> QED BY <1>3, <1>6, <2>1, InsertPuts
  <1> QED BY <1>11, <1>12, <1>13

\* delete_entry up to CoalesceOrRedistribute.
LEMMA DeleteCounts ==
  ASSUME NEW h, h \in [Pages -> Nat], TreeInv(h), BagOf(node), NEW key \in Keys, DeleteEntry(key)
  PROVE  /\ BagOf(node')
         /\ \/ node' = node /\ op' = op
            \/ /\ op'.pc = "fix"
               /\ \E val \in Vals : OneMore(node, node', key, val)
  <1>1. op = Idle /\ Begins /\ FindLeafPage(key) # Lost
    BY DEF DeleteEntry, Begins
  <1>2. PICK leaf : leaf = FindLeafPage(key)
    OBVIOUS
  <1>3. PICK o, n : o = node[leaf] /\ n = Remove(node[leaf], key)
    OBVIOUS
  <1>4. IF Size(n) = Size(o)
        THEN node' = node /\ op' = op
        ELSE node' = Replaced(node, leaf, n) /\ op' = Op("fix", leaf, <<>>)
    BY <1>2, <1>3 DEF DeleteEntry, Replaced
  <1>5. leaf \in Nds(node) /\ node[leaf].leaf
    BY <1>1, <1>2, BeginsIs
  <1>6. NodeOK(o) /\ Size(o) \in Nat /\ Store(node)
    BY <1>1, <1>3, <1>5, NdsIs, NodeIs DEF TreeInv
  <1>7. SameLinks(n, node[leaf])
    BY <1>3, <1>5, <1>6, RemoveIs
  <1>8. CASE Size(n) = Size(o)
    <2>1. node' = node /\ op' = op
      BY <1>4, <1>8
    <2> QED BY <2>1 DEF BagOf
  <1>9. CASE Size(n) # Size(o)
    <2>1. node' = Replaced(node, leaf, n) /\ op' = Op("fix", leaf, <<>>)
      BY <1>4, <1>9
    <2>2. /\ Leaves(node') = Leaves(node) /\ leaf \in Leaves(node)
          /\ \A q \in DOMAIN node : node'[q] = IF q = leaf THEN n ELSE node[q]
      BY <1>5, <1>6, <1>7, <2>1, EditIs DEF SameNext
    <2>3. \A q \in Leaves(node) : q \in DOMAIN node
      BY LeafIn
    <2>4. PICK pos \in 0..(Size(o) - 1) :
            /\ With1(o.keys, n.keys, pos, key) /\ With1(o.vals, n.vals, pos, o.vals[pos + 1])
            /\ Size(n) = Size(o) - 1 /\ NodeOK(n)
      BY <1>3, <1>6, <1>9, RemoveTakes
    <2>5. PICK val : val = o.vals[pos + 1]
      OBVIOUS
    <2>6. node'[leaf] = n /\ node[leaf] = o
      BY <1>3, <2>2, <2>3
    <2>7. \A q \in Leaves(node) : q # leaf => SameSlots(node, node', q)
      BY <2>2, <2>3 DEF SameSlots
    <2>8. Len(n.keys) = Size(n) /\ Len(n.vals) = Size(n) /\ Size(n) \in Nat
      BY <2>4, NodeIs
    <2>9. pos \in 0..Len(n.keys)
      BY <1>6, <2>4, <2>8
    <2>10. PutAt(Leaves(node'), node, node', leaf, pos, key, val)
      BY <2>2, <2>4, <2>5, <2>6, <2>7, <2>8, <2>9 DEF PutAt
    <2>11. BagOf(node') /\ OneMore(node, node', key, val) /\ val \in Vals
      BY <2>2, <2>10, PutCounts
    <2> QED BY <2>1, <2>11 DEF Op
  <1> QED BY <1>8, <1>9

-----------------------------------------------------------------------------
(* The index as a bag.                                                     *)

BagInv == BagOf(node)

\* The slots of a pair, as SlotsOf has them.
LEMMA SlotsAre ==
  ASSUME NEW ns, NEW k, NEW v
  PROVE  {at \in UNION {{p} \X (1..Size(ns[p])) : p \in {q \in DOMAIN ns \ {IX_LEAF_HEADER_PAGE} : ns[q].leaf}} :
            ns[at[1]].keys[at[2]] = k /\ ns[at[1]].vals[at[2]] = v} = PairsOf(ns, k, v)
  <1> DEFINE U == UNION {{p} \X (1..Size(ns[p])) : p \in {q \in DOMAIN ns \ {IX_LEAF_HEADER_PAGE} : ns[q].leaf}}
  <1>1. \A at : at \in U <=> \E p \in Leaves(ns) : at \in {p} \X (1..Size(ns[p]))
    BY DEF Leaves, Nds
  <1>2. \A at, p, n : at \in {p} \X (1..n) <=> at \in {p} \X Nat /\ at[2] \in 1..n
    OBVIOUS
  <1>3. \A at : at \in U <=> \E p \in Leaves(ns) : at \in {p} \X Nat /\ at[2] \in 1..Size(ns[p])
    BY <1>1, <1>2
  <1>4. \A at : at \in PairsOf(ns, k, v) <=>
          /\ at \in Leaves(ns) \X Nat /\ at[2] \in 1..Len(ns[at[1]].keys)
          /\ ns[at[1]].keys[at[2]] = k /\ ns[at[1]].vals[at[2]] = v
    BY DEF PairsOf, SlotsIn
  <1>5. \A at : at \in Leaves(ns) \X Nat <=> \E p \in Leaves(ns) : at \in {p} \X Nat
    OBVIOUS
  <1>6. \A at, p : at \in {p} \X Nat => at[1] = p
    OBVIOUS
  <1> HIDE DEF U
  <1>7. {at \in U : ns[at[1]].keys[at[2]] = k /\ ns[at[1]].vals[at[2]] = v} = PairsOf(ns, k, v)
    BY <1>3, <1>4, <1>5, <1>6 DEF Size
  <1> QED BY <1>7 DEF U

\* What is counted.
LEMMA CountedIs ==
  /\ Counted = [e \in Keys \X Vals |-> Cardinality(PairsOf(node, e[1], e[2]))]
  /\ Counted' = [e \in Keys \X Vals |-> Cardinality(PairsOf(node', e[1], e[2]))]
  <1>1. \A k, v : SlotsOf(k, v) = PairsOf(node, k, v)
    BY SlotsAre DEF SlotsOf, Nodes
  <1>2. \A k, v : SlotsOf(k, v)' = PairsOf(node', k, v)
    BY SlotsAre DEF SlotsOf, Nodes
  <1>3. Counted = [e \in Keys \X Vals |-> Cardinality(PairsOf(node, e[1], e[2]))]
    BY <1>1 DEF Counted
  <1>4. Counted' = [e \in Keys \X Vals |-> Cardinality(PairsOf(node', e[1], e[2]))]
    BY <1>2 DEF Counted
  <1> QED BY <1>3, <1>4

\* The counts before and after, pair by pair.
LEMMA CountedAt ==
  /\ \A k \in Keys, v \in Vals : /\ Counted[<<k, v>>] = Cardinality(PairsOf(node, k, v))
                                 /\ Counted'[<<k, v>>] = Cardinality(PairsOf(node', k, v))
  /\ DOMAIN Counted = Keys \X Vals /\ DOMAIN Counted' = Keys \X Vals
  BY CountedIs

\* A step that leaves the pairs alone, one more pair, and one less.
LEMMA SameCounts == AsMany(node', node) => Counted' = Counted
  BY CountedIs DEF AsMany

LEMMA CountsUp ==
  ASSUME NEW key \in Keys, NEW val \in Vals, OneMore(node', node, key, val), BagOf(node)
  PROVE  Counted' = [Counted EXCEPT ![<<key, val>>] = @ + 1]
  <1>1. PICK a, b : a = Counted /\ b = Counted'
    OBVIOUS
  <1>2. /\ a = [e \in Keys \X Vals |-> Cardinality(PairsOf(node, e[1], e[2]))]
        /\ b = [e \in Keys \X Vals |-> Cardinality(PairsOf(node', e[1], e[2]))]
    BY <1>1, CountedIs
  <1>3. ASSUME NEW e \in Keys \X Vals PROVE b[e] = IF e = <<key, val>> THEN a[e] + 1 ELSE a[e]
    <2>1. e = <<e[1], e[2]>> /\ a[e] \in Nat
      <3>1. IsFiniteSet(PairsOf(node, e[1], e[2])) /\ a[e] = Cardinality(PairsOf(node, e[1], e[2]))
        BY <1>2 DEF BagOf
      <3>2. a[e] \in Nat
        BY <3>1, FS_CardinalityType
      <3> QED BY <3>2
    <2>2. b[e] = a[e] + (IF e[1] = key /\ e[2] = val THEN 1 ELSE 0)
      BY <1>2 DEF OneMore
    <2>3. e = <<key, val>> <=> e[1] = key /\ e[2] = val
      BY <2>1
    <2>4. CASE e = <<key, val>>
      BY <2>2, <2>3, <2>4
    <2>5. CASE e # <<key, val>>
      <3>1. b[e] = a[e] + 0
        BY <2>2, <2>3, <2>5
      <3> QED BY <2>1, <2>5, <3>1
    <2> QED BY <2>4, <2>5
  <1>4. /\ a = [e \in Keys \X Vals |-> a[e]] /\ b = [e \in Keys \X Vals |-> b[e]]
        /\ DOMAIN a = Keys \X Vals
    BY <1>2
  <1>5. b = [a EXCEPT ![<<key, val>>] = a[<<key, val>>] + 1]
    BY <1>3, <1>4
  <1> QED BY <1>1, <1>5

LEMMA CountsDown ==
  ASSUME NEW key \in Keys, NEW val \in Vals, OneMore(node, node', key, val), BagOf(node')
  PROVE  Counted' = [Counted EXCEPT ![<<key, val>>] = @ - 1] /\ Counted[<<key, val>>] > 0
  <1>1. PICK a, b : a = Counted /\ b = Counted'
    OBVIOUS
  <1>2. /\ a = [e \in Keys \X Vals |-> Cardinality(PairsOf(node, e[1], e[2]))]
        /\ b = [e \in Keys \X Vals |-> Cardinality(PairsOf(node', e[1], e[2]))]
    BY <1>1, CountedIs
  <1>3. ASSUME NEW e \in Keys \X Vals
        PROVE  b[e] = (IF e = <<key, val>> THEN a[e] - 1 ELSE a[e]) /\ (e = <<key, val>> => a[e] > 0)
    <2>1. e = <<e[1], e[2]>> /\ b[e] \in Nat
      <3>1. IsFiniteSet(PairsOf(node', e[1], e[2])) /\ b[e] = Cardinality(PairsOf(node', e[1], e[2]))
        BY <1>2 DEF BagOf
      <3>2. b[e] \in Nat
        BY <3>1, FS_CardinalityType
      <3> QED BY <3>2
    <2>2. a[e] = b[e] + (IF e[1] = key /\ e[2] = val THEN 1 ELSE 0)
      BY <1>2 DEF OneMore
    <2>3. e = <<key, val>> <=> e[1] = key /\ e[2] = val
      BY <2>1
    <2>4. CASE e = <<key, val>>
      <3>1. a[e] = b[e] + 1
        BY <2>2, <2>3, <2>4
      <3> QED BY <2>1, <2>4, <3>1
    <2>5. CASE e # <<key, val>>
      <3>1. a[e] = b[e] + 0
        BY <2>2, <2>3, <2>5
      <3> QED BY <2>1, <2>5, <3>1
    <2> QED BY <2>4, <2>5
  <1>4. /\ a = [e \in Keys \X Vals |-> a[e]] /\ b = [e \in Keys \X Vals |-> b[e]]
        /\ DOMAIN a = Keys \X Vals /\ <<key, val>> \in Keys \X Vals
    BY <1>2
  <1>5. b = [a EXCEPT ![<<key, val>>] = a[<<key, val>>] - 1] /\ a[<<key, val>>] > 0
    BY <1>3, <1>4
  <1> QED BY <1>1, <1>5

\* A pair that is there is counted.
LEMMA HeldIs ==
  ASSUME NEW key \in Keys, NEW v \in Vals, PairsOf(node, key, v) # {}, BagOf(node)
  PROVE  Bag!Held(key)
  <1>1. IsFiniteSet(PairsOf(node, key, v))
    BY DEF BagOf
  <1>2. PICK c : c = Cardinality(PairsOf(node, key, v))
    OBVIOUS
  <1>3. c \in Nat /\ c # 0
    BY <1>1, <1>2, FS_CardinalityType, FS_EmptySet
  <1>4. Counted[<<key, v>>] > 0
    BY <1>2, <1>3, CountedAt
  <1> QED BY <1>4 DEF Bag!Held

\* A step the bag does not see, and a return.
Unseen == AsMany(node', node) /\ (op' = Idle <=> op = Idle)

Returned == AsMany(node', node) /\ op # Idle /\ op' = Idle

\* What they are to the bag.
LEMMA UnseenIs == Unseen => UNCHANGED Bag!vars
  BY SameCounts DEF Unseen, Bag!vars

LEMMA ReturnedIs == Returned => Bag!Return
  BY SameCounts DEF Returned, Bag!Return

\* The first step of a delete, and of an insert.
LEMMA DeleteBag ==
  ASSUME NEW h, h \in [Pages -> Nat], TreeInv(h), BagOf(node), NEW key \in Keys, DeleteEntry(key)
  PROVE  BagOf(node') /\ (Bag!Delete(key) \/ UNCHANGED Bag!vars)
  <1>1. /\ BagOf(node')
        /\ \/ node' = node /\ op' = op
           \/ op'.pc = "fix" /\ \E val \in Vals : OneMore(node, node', key, val)
    BY DeleteCounts
  <1>2. CASE node' = node /\ op' = op
    <2>1. Unseen
      BY <1>2 DEF Unseen, AsMany
    <2> QED BY <1>1, <2>1, UnseenIs
  <1>3. ASSUME NEW val \in Vals, op'.pc = "fix", OneMore(node, node', key, val)
        PROVE  Bag!Delete(key)
    <2>1. op = Idle /\ op' # Idle
      BY <1>3 DEF DeleteEntry, Begins, Idle, Op
    <2>2. Counted' = [Counted EXCEPT ![<<key, val>>] = @ - 1] /\ Counted[<<key, val>>] > 0
      BY <1>1, <1>3, CountsDown
    <2> QED BY <2>1, <2>2 DEF Bag!Delete
  <1> QED BY <1>1, <1>2, <1>3

LEMMA InsertBag ==
  ASSUME NEW h, h \in [Pages -> Nat], TreeInv(h), BagOf(node), NEW key \in Keys, NEW val \in Vals,
         InsertEntry(key, val)
  PROVE  BagOf(node') /\ Bag!Insert(key, val)
  <1>1. /\ BagOf(node')
        /\ \/ OneMore(node', node, key, val)
           \/ AsMany(node', node) /\ \E v \in Vals : PairsOf(node, key, v) # {}
    BY InsertCounts
  <1>2. op = Idle /\ (op' # Idle) \in BOOLEAN
    BY DEF InsertEntry, Begins
  <1>3. \/ Counted' = [Counted EXCEPT ![<<key, val>>] = @ + 1]
        \/ Bag!Held(key) /\ Counted' = Counted
    BY <1>1, CountsUp, SameCounts, HeldIs
  <1> QED BY <1>1, <1>2, <1>3 DEF Bag!Insert

\* Every step of every call is a step of the bag, or one it does not see.
LEMMA NextBag ==
  ASSUME IInv, LInv, ChainInv, BagInv, [Next]_vars
  PROVE  BagInv' /\ [Bag!Next]_(Bag!vars)
  <1>1. CASE UNCHANGED <<hdr, node, pins, op>>
    <2>1. Unseen
      BY <1>1 DEF Unseen, AsMany
    <2> QED BY <1>1, <2>1, UnseenIs DEF BagInv
  <1>2. CASE ~UNCHANGED <<hdr, node, pins, op>>
    <2>1. \/ \E key \in Keys : DeleteEntry(key) \/ \E val \in Vals : InsertEntry(key, val)
          \/ Split \/ NewRoot \/ InsertIntoParent \/ InsertReturns
          \/ BigEnough \/ AdjustRoot \/ Redistribute \/ MaintainParent \/ Coalesce
      BY <1>2 DEF Next, vars, SearchLost, RootMissing, Undefined
    <2>2. hdr.root # IX_NO_PAGE
      <3> SUFFICES ASSUME hdr.root = IX_NO_PAGE PROVE FALSE
        OBVIOUS
      <3>1. op.pc = "idle"
        BY DEF IInv, Idle, Op
      <3> QED BY <2>1, <3>1 DEF DeleteEntry, InsertEntry, Begins, Split, NewRoot, InsertIntoParent,
                                InsertReturns, BigEnough, AdjustRoot, Redistribute, MaintainParent,
                                Coalesce, Underflows
    <2>3. PICK h \in [Pages -> Nat] : TreeInv(h)
      BY <2>2 DEF IInv
    <2>4. HdrType
      BY DEF IInv
    <2>5. PICK fl \in [Pages -> Pages], ll \in [Pages -> Pages], m \in Nat : LeafInv(fl, ll, m)
      BY <2>2 DEF LInv
    <2>6. BagOf(node) /\ op \in [pc : PCs, page : {IX_NO_PAGE} \cup Pages, stack : Seq(Seq(Pages))]
      BY <2>3 DEF BagInv, TreeInv, OpInv, OpType
    <2>7. (op.pc # "idle" => op # Idle) /\ (op'.pc # "idle" => op' # Idle)
      BY DEF Idle, Op
    <2>8. node' = node => BagOf(node') /\ AsMany(node', node)
      BY <2>6 DEF AsMany
    <2>9. LeafStep(node', node) => BagOf(node') /\ AsMany(node', node)
      BY <2>6, LeafStepAsMany
    <2>10. ASSUME NEW key \in Keys, DeleteEntry(key) PROVE BagOf(node') /\ [Bag!Next]_(Bag!vars)
      <3>1. BagOf(node') /\ (Bag!Delete(key) \/ UNCHANGED Bag!vars)
        BY <2>3, <2>6, <2>10, DeleteBag
      <3> QED BY <3>1 DEF Bag!Next
    <2>11. ASSUME NEW key \in Keys, NEW val \in Vals, InsertEntry(key, val)
           PROVE  BagOf(node') /\ [Bag!Next]_(Bag!vars)
      <3>1. BagOf(node') /\ Bag!Insert(key, val)
        BY <2>3, <2>6, <2>11, InsertBag
      <3> QED BY <3>1 DEF Bag!Next
    <2>12. CASE Split
      <3>1. BagOf(node') /\ AsMany(node', node)
        BY <2>3, <2>9, <2>12, SplitLeafStep
      <3>2. op.pc = "split" /\ op'.pc = "parent"
        BY <2>12 DEF Split, Op
      <3>3. Unseen
        BY <2>7, <3>1, <3>2 DEF Unseen
      <3> QED BY <3>1, <3>3, UnseenIs DEF BagInv
    <2>13. CASE NewRoot
      <3>1. BagOf(node') /\ AsMany(node', node)
        BY <2>3, <2>9, <2>13, NewRootLeafStep
      <3>2. op.pc = "parent" /\ op'.pc = "return"
        BY <2>6, <2>13 DEF NewRoot
      <3>3. Unseen
        BY <2>7, <3>1, <3>2 DEF Unseen
      <3> QED BY <3>1, <3>3, UnseenIs DEF BagInv
    <2>14. CASE InsertIntoParent
      <3>1. BagOf(node') /\ AsMany(node', node)
        BY <2>3, <2>9, <2>14, InsertIntoParentLeafStep
      <3>2. op.pc = "parent" /\ op'.pc \in {"split", "return"}
        <4>1. /\ op.pc = "parent"
              /\ (\E p : op' = Op("split", p, op.stack)) \/ op' = [op EXCEPT !.pc = "return"]
          BY <2>14 DEF InsertIntoParent
        <4> QED BY <2>6, <4>1 DEF Op
      <3>3. Unseen
        BY <2>7, <3>1, <3>2 DEF Unseen
      <3> QED BY <3>1, <3>3, UnseenIs DEF BagInv
    <2>15. CASE InsertReturns
      <3>1. node' = node /\ op.pc = "return"
        BY <2>15 DEF InsertReturns
      <3>2. op' = Idle \/ op'.pc = "return"
        <4>1. op' = Idle \/ \E rest : op' = [op EXCEPT !.stack = rest]
          BY <2>15 DEF InsertReturns
        <4> QED BY <2>6, <3>1, <4>1
      <3>3. CASE op' = Idle
        <4>1. Returned
          BY <2>7, <2>8, <3>1, <3>3 DEF Returned
        <4> QED BY <2>8, <3>1, <4>1, ReturnedIs DEF Bag!Next, BagInv
      <3>4. CASE op'.pc = "return"
        <4>1. Unseen
          BY <2>7, <2>8, <3>1, <3>4 DEF Unseen
        <4> QED BY <2>8, <3>1, <4>1, UnseenIs DEF BagInv
      <3> QED BY <3>2, <3>3, <3>4
    <2>16. CASE BigEnough
      <3>1. node' = node /\ op.pc = "fix" /\ op' = Idle
        BY <2>16 DEF BigEnough
      <3>2. Returned
        BY <2>7, <2>8, <3>1 DEF Returned
      <3> QED BY <2>8, <3>1, <3>2, ReturnedIs DEF Bag!Next, BagInv
    <2>17. CASE AdjustRoot
      <3>1. BagOf(node') /\ AsMany(node', node)
        BY <2>3, <2>9, <2>17, AdjustRootLeafStep
      <3>2. op.pc = "fix" /\ op' = Idle
        BY <2>17 DEF AdjustRoot, Underflows
      <3>3. Returned
        BY <2>7, <3>1, <3>2 DEF Returned
      <3> QED BY <3>1, <3>3, ReturnedIs DEF Bag!Next, BagInv
    <2>18. CASE Redistribute
      <3>1. BagOf(node') /\ AsMany(node', node)
        BY <2>3, <2>5, <2>9, <2>18, RedistributeLeafStep
      <3>2. op.pc = "fix" /\ op'.pc = "up"
        BY <2>18 DEF Redistribute, Underflows, Op
      <3>3. Unseen
        BY <2>7, <3>1, <3>2 DEF Unseen
      <3> QED BY <3>1, <3>3, UnseenIs DEF BagInv
    <2>19. CASE MaintainParent
      <3>1. BagOf(node') /\ AsMany(node', node)
        BY <2>3, <2>9, <2>19, MaintainParentLeafStep
      <3>2. op.pc = "up" /\ (op' = Idle \/ op'.pc = "up")
        <4>1. op.pc = "up" /\ (op' = Idle \/ \E p : op' = [op EXCEPT !.page = p])
          BY <2>19 DEF MaintainParent
        <4> QED BY <2>6, <4>1
      <3>3. CASE op' = Idle
        <4>1. Returned
          BY <2>7, <3>1, <3>2, <3>3 DEF Returned
        <4> QED BY <3>1, <4>1, ReturnedIs DEF Bag!Next, BagInv
      <3>4. CASE op'.pc = "up"
        <4>1. Unseen
          BY <2>7, <3>1, <3>2, <3>4 DEF Unseen
        <4> QED BY <3>1, <4>1, UnseenIs DEF BagInv
      <3> QED BY <3>2, <3>3, <3>4
    <2>20. CASE Coalesce
      <3>1. BagOf(node') /\ AsMany(node', node)
        BY <2>3, <2>4, <2>5, <2>9, <2>20, CoalesceLeafStep
      <3>2. op.pc = "fix" /\ op'.pc = "fix"
        BY <2>20 DEF Coalesce, Underflows, Op
      <3>3. Unseen
        BY <2>7, <3>1, <3>2 DEF Unseen
      <3> QED BY <3>1, <3>3, UnseenIs DEF BagInv
    <2>21. ASSUME NEW key \in Keys, DeleteEntry(key) \/ \E val \in Vals : InsertEntry(key, val)
           PROVE  BagInv' /\ [Bag!Next]_(Bag!vars)
      BY <2>10, <2>11, <2>21 DEF BagInv
    <2> QED BY <2>1, <2>12, <2>13, <2>14, <2>15, <2>16, <2>17, <2>18, <2>19, <2>20, <2>21
  <1> QED BY <1>1, <1>2

\* A new index is the empty bag.
LEMMA InitBag == Init => BagInv /\ Bag!Init
  <1> SUFFICES ASSUME Init PROVE BagInv /\ Bag!Init
    OBVIOUS
  <1>1. \A p \in DOMAIN node : node[p].keys = <<>>
    BY DEF Init, NewNode
  <1>2. \A k, v : PairsOf(node, k, v) = {}
    <2> SUFFICES ASSUME NEW k, NEW v, NEW at, at \in PairsOf(node, k, v) PROVE FALSE
      OBVIOUS
    <2>1. at[1] \in Leaves(node) /\ at[2] \in 1..Len(node[at[1]].keys)
      BY DEF PairsOf, SlotsIn
    <2>2. node[at[1]].keys = <<>>
      BY <1>1, <2>1, LeafIn
    <2> QED BY <2>1, <2>2
  <1>3. BagInv
    BY <1>2, FS_EmptySet DEF BagInv, BagOf
  <1>4. Counted = [e \in Keys \X Vals |-> 0]
    BY <1>2, FS_EmptySet, CountedIs
  <1>5. op = Idle
    BY DEF Init
  <1> QED BY <1>3, <1>4, <1>5 DEF Bag!Init

(***************************************************************************)
(* The index as coded is a bag of pairs: a call puts in one pair, takes    *)
(* out one or leaves all as they are at its first step, and no split,      *)
(* merge, move between neighbours, new root or dropped root loses, doubles *)
(* or alters a pair.                                                       *)
(***************************************************************************)
THEOREM BagRefinement == Spec => ImplementsBag
  <1>1. Init => IInv /\ LInv /\ ChainInv /\ BagInv /\ Bag!Init
    BY InitInv, InitLeaves, InitChain, InitBag
  <1>2. IInv /\ LInv /\ ChainInv /\ BagInv /\ [Next]_vars => (IInv /\ LInv /\ ChainInv /\ BagInv)'
    BY NextInv, NextLeaves, NextChain, NextBag
  <1>3. IInv /\ LInv /\ ChainInv /\ BagInv /\ [Next]_vars => [Bag!Next]_(Bag!vars)
    BY NextBag
  <1> QED BY <1>1, <1>2, <1>3, PTL DEF Spec, ImplementsBag, Bag!Spec

(***************************************************************************)
(* The pair a call puts in or takes out is its own: insert_entry's is of   *)
(* its key and its rid, and only a pair of its key makes it drop it;       *)
(* delete_entry's is of its key.                                           *)
(***************************************************************************)
THEOREM CallsKeep == Spec => CallsKeepToTheirKey
  <1> DEFINE ByKey == \A key \in Keys :
                        /\ DeleteEntry(key) => Bag!Delete(key) \/ UNCHANGED Bag!vars
                        /\ \A val \in Vals : InsertEntry(key, val) => Bag!Insert(key, val)
  <1>1. Init => IInv /\ LInv /\ ChainInv /\ BagInv
    BY InitInv, InitLeaves, InitChain, InitBag
  <1>2. IInv /\ LInv /\ ChainInv /\ BagInv /\ [Next]_vars => (IInv /\ LInv /\ ChainInv /\ BagInv)'
    BY NextInv, NextLeaves, NextChain, NextBag
  <1>3. IInv /\ BagInv => ByKey
    <2> SUFFICES ASSUME IInv, BagInv, NEW key \in Keys
                 PROVE  /\ DeleteEntry(key) => Bag!Delete(key) \/ UNCHANGED Bag!vars
                        /\ \A val \in Vals : InsertEntry(key, val) => Bag!Insert(key, val)
      OBVIOUS
    <2>1. BagOf(node)
      BY DEF BagInv
    <2>2. Begins => \E h \in [Pages -> Nat] : TreeInv(h)
      BY DEF Begins, IInv
    <2>3. ASSUME DeleteEntry(key) PROVE Bag!Delete(key) \/ UNCHANGED Bag!vars
      <3>1. PICK h \in [Pages -> Nat] : TreeInv(h)
        BY <2>2, <2>3 DEF DeleteEntry
      <3> QED BY <2>1, <2>3, <3>1, DeleteBag
    <2>4. ASSUME NEW val \in Vals, InsertEntry(key, val) PROVE Bag!Insert(key, val)
      <3>1. PICK h \in [Pages -> Nat] : TreeInv(h)
        BY <2>2, <2>4 DEF InsertEntry
      <3> QED BY <2>1, <2>4, <3>1, InsertBag
    <2> QED BY <2>3, <2>4
  <1>4. CallsKeepToTheirKey <=> [][ByKey]_vars
    BY DEF CallsKeepToTheirKey
  <1> HIDE DEF ByKey
  <1> QED BY <1>1, <1>2, <1>3, <1>4, PTL DEF Spec
=============================================================================
