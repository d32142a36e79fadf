----------------------- MODULE BufferPoolManagerProofs -----------------------
(***************************************************************************)
(* The LRU replacer and the buffer pool that owns one.                     *)
(*                                                                         *)
(* The replacer, for every set of frames and every capacity: its two       *)
(* structures agree, and it implements ReplacerOrder.  The pool's proofs   *)
(* use its list only through the lemmas AfterVictimOK, NoVictim,           *)
(* AfterPinOK, AfterUnpinOK and LenIsCardinality.                          *)
(*                                                                         *)
(* The pool's invariant, for every pool size, every set of threads and     *)
(* files and every contents, from the assumption WellBehaved, and that the *)
(* pool implements PageStore; and without the assumption that the frames   *)
(* stay apart.                                                             *)
(***************************************************************************)
EXTENDS BufferPoolManager, LRUReplacer, SequenceTheorems, FiniteSetTheorems,
        NaturalsInduction, WellFoundedInduction, TLAPS

-----------------------------------------------------------------------------
(* Facts about a list and its index.                                       *)

\* A listed frame is found by Node.
LEMMA NodeFinds ==
  ASSUME NEW l, NEW h, Indexed(l, h), NEW f \in h
  PROVE  Node(l, f) \in 1..Len(l) /\ l[Node(l, f)] = f
  BY DEF Indexed, Node

\* The elements of a list with one place taken out.
LEMMA RemoveAtElements ==
  ASSUME NEW l \in Seq(Frames), NEW n \in 1..Len(l)
  PROVE  /\ RemoveAt(l, n) \in Seq(Frames)
         /\ Len(RemoveAt(l, n)) = Len(l) - 1
         /\ \A i \in 1..(Len(l) - 1) :
              RemoveAt(l, n)[i] = IF i < n THEN l[i] ELSE l[i + 1]
  <1> DEFINE a == SubSeq(l, 1, n - 1)
             b == SubSeq(l, n + 1, Len(l))
  <1>1. Len(l) \in Nat /\ n \in Nat \ {0} /\ n <= Len(l)
    BY LenProperties
  <1>2. /\ a \in Seq(Frames) /\ Len(a) = n - 1
        /\ \A i \in 1..(n - 1) : a[i] = l[i]
    BY SubSeqProperties, ElementOfSeq
  <1>3. /\ b \in Seq(Frames) /\ Len(b) = Len(l) - n
        /\ \A i \in 1..(Len(l) - n) : b[i] = l[n + i]
    BY SubSeqProperties, ElementOfSeq
  <1>4. RemoveAt(l, n) = a \o b
    BY DEF RemoveAt
  <1> HIDE DEF a, b
  <1>5. /\ a \o b \in Seq(Frames)
        /\ Len(a \o b) = Len(a) + Len(b)
        /\ \A i \in 1..(Len(a) + Len(b)) :
             (a \o b)[i] = IF i <= Len(a) THEN a[i] ELSE b[i - Len(a)]
    BY <1>2, <1>3, ConcatProperties, Zenon
  <1>6. Len(a) + Len(b) = Len(l) - 1
    BY <1>1, <1>2, <1>3
  <1>7. ASSUME NEW i \in 1..(Len(l) - 1)
        PROVE  (a \o b)[i] = IF i < n THEN l[i] ELSE l[i + 1]
    <2>1. (a \o b)[i] = IF i <= n - 1 THEN a[i] ELSE b[i - (n - 1)]
      BY <1>2, <1>5, <1>6
    <2>2. CASE i < n
      <3>1. i \in 1..(n - 1) /\ i <= n - 1
        BY <1>1, <2>2
      <3> QED BY <1>2, <2>1, <2>2, <3>1
    <2>3. CASE ~(i < n)
      <3>1. i - (n - 1) \in 1..(Len(l) - n) /\ n + (i - (n - 1)) = i + 1 /\ ~(i <= n - 1)
        BY <1>1, <2>3
      <3> QED BY <1>3, <2>1, <2>3, <3>1
    <2> QED BY <2>2, <2>3
  <1> QED BY <1>4, <1>5, <1>6, <1>7

\* Erasing a frame's node leaves the other frames listed and indexed.
LEMMA IndexedRemove ==
  ASSUME NEW l, NEW h, Indexed(l, h), NEW n \in 1..Len(l)
  PROVE  Indexed(RemoveAt(l, n), h \ {l[n]})
  <1> DEFINE m == RemoveAt(l, n)
  <1>1. /\ l \in Seq(Frames) /\ Len(l) \in Nat
        /\ \A i, j \in 1..Len(l) : l[i] = l[j] => i = j
        /\ h = {l[i] : i \in 1..Len(l)}
    BY LenProperties DEF Indexed
  <1>2. /\ m \in Seq(Frames)
        /\ Len(m) = Len(l) - 1
        /\ \A i \in 1..(Len(l) - 1) : m[i] = IF i < n THEN l[i] ELSE l[i + 1]
    BY <1>1, RemoveAtElements
  <1> HIDE DEF m
  <1>3. ASSUME NEW i \in 1..Len(m), NEW j \in 1..Len(m), m[i] = m[j]
        PROVE  i = j
    <2> DEFINE p(k) == IF k < n THEN k ELSE k + 1
    <2>1. \A k \in 1..Len(m) : p(k) \in 1..Len(l) /\ m[k] = l[p(k)]
      BY <1>1, <1>2
    <2>2. p(i) = p(j)
      BY <1>1, <1>3, <2>1
    <2> QED BY <1>1, <2>2
  <1>4. \A i \in 1..Len(m) : m[i] \in h \ {l[n]}
    BY <1>1, <1>2
  <1>5. ASSUME NEW x \in h \ {l[n]}
        PROVE  \E k \in 1..Len(m) : m[k] = x
    <2>1. PICK i \in 1..Len(l) : l[i] = x
      BY <1>1
    <2>2. CASE i < n
      BY <1>1, <1>2, <2>1, <2>2
    <2>3. CASE i > n
      <3>1. i - 1 \in 1..Len(m) /\ m[i - 1] = x
        BY <1>1, <1>2, <2>1, <2>3
      <3> QED BY <3>1
    <2>4. i # n
      BY <2>1
    <2> QED BY <1>1, <2>2, <2>3, <2>4
  <1>6. h \ {l[n]} = {m[i] : i \in 1..Len(m)}
    BY <1>4, <1>5
  <1>7. Indexed(m, h \ {l[n]})
    BY <1>2, <1>3, <1>6 DEF Indexed
  <1> QED BY <1>7 DEF m

\* A frame that is not listed may be put at the front.
LEMMA IndexedPushFront ==
  ASSUME NEW l, NEW h, Indexed(l, h), NEW f \in Frames, f \notin h
  PROVE  /\ Indexed(<<f>> \o l, h \cup {f})
         /\ Len(<<f>> \o l) = Len(l) + 1
         /\ (<<f>> \o l)[1] = f
         /\ \A i \in 1..Len(l) : (<<f>> \o l)[i + 1] = l[i]
  <1> DEFINE m == <<f>> \o l
  <1>1. /\ l \in Seq(Frames) /\ Len(l) \in Nat
        /\ \A i, j \in 1..Len(l) : l[i] = l[j] => i = j
        /\ h = {l[i] : i \in 1..Len(l)}
    BY LenProperties DEF Indexed
  <1>2. /\ m \in Seq(Frames) /\ Len(m) = Len(l) + 1
        /\ m[1] = f /\ \A i \in 2..Len(m) : m[i] = l[i - 1]
    BY <1>1
  <1> HIDE DEF m
  <1>3. \A i \in 1..Len(l) : i + 1 \in 1..Len(m) /\ m[i + 1] = l[i]
    BY <1>1, <1>2
  <1>4. \A i \in 1..Len(m) : i = 1 \/ (i - 1 \in 1..Len(l) /\ m[i] = l[i - 1])
    BY <1>1, <1>2
  <1>5. \A i \in 1..Len(l) : l[i] \in h
    BY <1>1
  <1>6. ASSUME NEW i \in 1..Len(m), NEW j \in 1..Len(m), m[i] = m[j]
        PROVE  i = j
    <2>1. (i = 1) <=> (j = 1)
      BY <1>2, <1>4, <1>5, <1>6
    <2>2. CASE i # 1
      <3>1. l[i - 1] = l[j - 1] /\ i - 1 \in 1..Len(l) /\ j - 1 \in 1..Len(l)
        BY <1>4, <1>6, <2>1, <2>2
      <3>2. i - 1 = j - 1
        BY <1>1, <3>1
      <3> QED BY <1>1, <3>2
    <2> QED BY <2>1, <2>2
  <1>7. \A i \in 1..Len(m) : m[i] \in h \cup {f}
    BY <1>2, <1>4, <1>5
  <1>8. 1 \in 1..Len(m)
    BY <1>1, <1>2
  <1>9. \A x \in h \cup {f} : \E i \in 1..Len(m) : m[i] = x
    <2>1. ASSUME NEW x \in h
          PROVE  \E i \in 1..Len(m) : m[i] = x
      <3>1. PICK i \in 1..Len(l) : l[i] = x
        BY <1>1
      <3> QED BY <1>3, <3>1
    <2> QED BY <1>2, <1>8, <2>1
  <1>10. h \cup {f} = {m[i] : i \in 1..Len(m)}
    BY <1>7, <1>9
  <1>11. Indexed(m, h \cup {f})
    BY <1>2, <1>6, <1>10 DEF Indexed
  <1> QED BY <1>2, <1>3, <1>11 DEF m

\* The list is as long as its set of frames is large.
LEMMA LenIsCardinality ==
  ASSUME NEW l, NEW h, Indexed(l, h)
  PROVE  IsFiniteSet(h) /\ Cardinality(h) = Len(l)
  <1>1. /\ l \in Seq(Frames) /\ Len(l) \in Nat
        /\ \A i, j \in 1..Len(l) : l[i] = l[j] => i = j
        /\ h = {l[i] : i \in 1..Len(l)}
    BY LenProperties DEF Indexed
  <1>2. l \in [1..Len(l) -> h]
    <2>1. l \in [1..Len(l) -> Frames]
      BY <1>1, LenProperties
    <2> QED BY <1>1, <2>1
  <1>3. l \in Bijection(1..Len(l), h)
    <2>1. l \in Injection(1..Len(l), h)
      BY <1>1, <1>2 DEF Injection, IsInjective
    <2>2. l \in Surjection(1..Len(l), h)
      <3>1. \A x \in h : \E i \in 1..Len(l) : l[i] = x
        BY <1>1
      <3> QED BY <1>2, <3>1 DEF Surjection
    <2> QED BY <2>1, <2>2 DEF Bijection
  <1>4. ExistsBijection(1..Len(l), h)
    BY <1>3 DEF ExistsBijection
  <1>5. IsFiniteSet(1..Len(l))
    BY <1>1, FS_Interval
  <1>6. IsFiniteSet(h)
    BY <1>4, <1>5, FS_Bijection
  <1> QED BY <1>1, <1>4, <1>6, FS_CountingElements
-----------------------------------------------------------------------------
(* The methods.                                                            *)

\* Victim takes the back of the list out of both structures.
LEMMA AfterVictimOK ==
  ASSUME NEW r, ReplacerOK(r), r.LRUhash_ # {}
  PROVE  /\ VictimOf(r) = r.LRUlist_[Len(r.LRUlist_)]
         /\ VictimOf(r) \in r.LRUhash_
         /\ ReplacerOK(AfterVictim(r))
         /\ AfterVictim(r).LRUhash_ = r.LRUhash_ \ {VictimOf(r)}
         /\ Len(r.LRUlist_) \in Nat \ {0}
         /\ Len(AfterVictim(r).LRUlist_) = Len(r.LRUlist_) - 1
         /\ \A i \in 1..(Len(r.LRUlist_) - 1) :
              AfterVictim(r).LRUlist_[i] = r.LRUlist_[i]
  <1> DEFINE l == r.LRUlist_
             h == r.LRUhash_
  <1>1. /\ Indexed(l, h) /\ l \in Seq(Frames) /\ Len(l) \in Nat \ {0} /\ l # <<>>
        /\ l[Len(l)] \in h
    <2>1. Indexed(l, h) /\ l \in Seq(Frames) /\ h = {l[i] : i \in 1..Len(l)}
      BY DEF ReplacerOK, Indexed
    <2> HIDE DEF l
    <2>2. Len(l) \in Nat
      BY <2>1, LenProperties
    <2>3. Len(l) # 0 /\ l # <<>>
      BY <2>1, <2>2
    <2> QED BY <2>1, <2>2, <2>3
  <1>2. AfterVictim(r) = [LRUlist_ |-> Front(l), LRUhash_ |-> h \ {Last(l)}]
    BY <1>1 DEF AfterVictim
  <1>3. VictimOf(r) = Last(l)
    BY <1>1 DEF VictimOf
  <1> HIDE DEF l, h
  <1>4. Last(l) = l[Len(l)]
    BY DEF Last
  <1>5. Front(l) = RemoveAt(l, Len(l))
    <2>1. SubSeq(l, Len(l) + 1, Len(l)) = <<>>
      BY <1>1, SubSeqEmpty
    <2>2. SubSeq(l, 1, Len(l) - 1) \in Seq(Frames)
      BY <1>1, SubSeqProperties, ElementOfSeq
    <2> QED BY <2>1, <2>2, ConcatEmptySeq DEF Front, RemoveAt
  <1>6. /\ Indexed(Front(l), h \ {Last(l)})
        /\ Len(Front(l)) = Len(l) - 1
        /\ \A i \in 1..(Len(l) - 1) : Front(l)[i] = l[i]
    <2>1. Len(l) \in 1..Len(l)
      BY <1>1
    <2>2. Indexed(RemoveAt(l, Len(l)), h \ {l[Len(l)]})
      BY <1>1, <2>1, IndexedRemove
    <2>3. /\ Len(RemoveAt(l, Len(l))) = Len(l) - 1
          /\ \A i \in 1..(Len(l) - 1) : RemoveAt(l, Len(l))[i] = l[i]
      BY <1>1, <2>1, RemoveAtElements
    <2> QED BY <1>4, <1>5, <2>2, <2>3
  <1> QED BY <1>1, <1>2, <1>3, <1>4, <1>6 DEF ReplacerOK, l, h

\* An empty replacer yields no victim and stays as it is.
LEMMA NoVictim ==
  ASSUME NEW r, ReplacerOK(r), r.LRUhash_ = {}
  PROVE  r.LRUlist_ = <<>> /\ VictimOf(r) = INVALID_FRAME_ID /\ AfterVictim(r) = r
  <1> DEFINE l == r.LRUlist_
  <1>1. l \in Seq(Frames) /\ {} = {l[i] : i \in 1..Len(l)}
    BY DEF ReplacerOK, Indexed
  <1> HIDE DEF l
  <1>2. l = <<>>
    <2>1. Len(l) \in Nat
      BY <1>1, LenProperties
    <2>2. \A i \in 1..Len(l) : FALSE
      BY <1>1
    <2>3. Len(l) = 0
      BY <2>1, <2>2
    <2> QED BY <1>1, <2>3, EmptySeq
  <1> QED BY <1>2 DEF VictimOf, AfterVictim, l

\* Pin removes the frame, wherever it is in the list, and nothing else.
LEMMA AfterPinOK ==
  ASSUME NEW r, ReplacerOK(r), NEW f
  PROVE  /\ ReplacerOK(AfterPin(r, f))
         /\ AfterPin(r, f).LRUhash_ = r.LRUhash_ \ {f}
         /\ Len(r.LRUlist_) \in Nat
         /\ Len(AfterPin(r, f).LRUlist_) \in 0..Len(r.LRUlist_)
  <1> DEFINE l == r.LRUlist_
             h == r.LRUhash_
             n == Node(l, f)
  <1>0. Indexed(l, h) /\ l \in Seq(Frames) /\ Len(l) \in Nat
    BY LenProperties DEF ReplacerOK, Indexed
  <1>1. CASE f \notin h
    BY <1>0, <1>1 DEF AfterPin
  <1>2. CASE f \in h
    <2>1. AfterPin(r, f) = [LRUlist_ |-> RemoveAt(l, n), LRUhash_ |-> h \ {f}]
      BY <1>2 DEF AfterPin
    <2> HIDE DEF l, h
    <2>2. n \in 1..Len(l) /\ l[n] = f
      BY <1>0, <1>2, NodeFinds
    <2> HIDE DEF n
    <2>3. Indexed(RemoveAt(l, n), h \ {f}) /\ Len(RemoveAt(l, n)) = Len(l) - 1
      BY <1>0, <2>2, IndexedRemove, RemoveAtElements
    <2> QED BY <1>0, <2>1, <2>2, <2>3 DEF ReplacerOK, l, h
  <1> QED BY <1>1, <1>2

\* Unpin puts a frame at the front, unless it is listed or there is no room.
LEMMA AfterUnpinOK ==
  ASSUME NEW r, ReplacerOK(r), NEW f \in Frames
  PROVE  /\ ReplacerOK(AfterUnpin(r, f))
         /\ (Len(r.LRUlist_) < max_size_ \/ f \in r.LRUhash_) =>
              AfterUnpin(r, f).LRUhash_ = r.LRUhash_ \cup {f}
         /\ Len(r.LRUlist_) \in 0..max_size_ =>
              Len(AfterUnpin(r, f).LRUlist_) \in 0..max_size_
  <1> DEFINE l == r.LRUlist_
             h == r.LRUhash_
  <1>0. Indexed(l, h) /\ l \in Seq(Frames) /\ Len(l) \in Nat
    BY LenProperties DEF ReplacerOK, Indexed
  <1>1. CASE f \in h \/ Len(l) >= max_size_
    <2>1. AfterUnpin(r, f) = r
      BY <1>1 DEF AfterUnpin
    <2> QED BY <1>0, <1>1, <2>1, MaxSizeAssumption
  <1>2. CASE ~(f \in h \/ Len(l) >= max_size_)
    <2>1. AfterUnpin(r, f) = [LRUlist_ |-> <<f>> \o l, LRUhash_ |-> h \cup {f}]
      BY <1>2 DEF AfterUnpin
    <2> HIDE DEF l, h
    <2>2. Indexed(<<f>> \o l, h \cup {f}) /\ Len(<<f>> \o l) = Len(l) + 1
      BY <1>0, <1>2, IndexedPushFront
    <2>3. Len(<<f>> \o l) \in 0..max_size_
      BY <1>0, <1>2, <2>2, MaxSizeAssumption
    <2> QED BY <2>1, <2>2, <2>3 DEF ReplacerOK, l, h
  <1> QED BY <1>1, <1>2

-----------------------------------------------------------------------------
(* The replacer on its own.                                                *)

\* Through every sequence of method calls the hash table indexes the list, and
\* the list stays within the capacity.
THEOREM ReplacerSafe == ReplacerSpec => [](HashIndexesList /\ ReplacerTypeOK)
  <1> DEFINE Inv == HashIndexesList /\ ReplacerTypeOK
  <1>1. ReplacerInit => Inv
    <2> SUFFICES ASSUME ReplacerInit PROVE Inv
      OBVIOUS
    <2>1. Indexed(<<>>, {})
      BY DEF Indexed
    <2> QED BY <2>1, MaxSizeAssumption
          DEF ReplacerInit, EmptyReplacer, HashIndexesList, ReplacerOK, ReplacerTypeOK
  <1>2. Inv /\ [ReplacerNext]_replacerVars => Inv'
    <2> SUFFICES ASSUME HashIndexesList, ReplacerTypeOK, [ReplacerNext]_replacerVars PROVE Inv'
      OBVIOUS
    <2>0. ReplacerOK(replacer) /\ Len(replacer.LRUlist_) \in 0..max_size_
      BY DEF HashIndexesList, ReplacerTypeOK
    <2>1. CASE Victim
      <3>1. CASE replacer.LRUhash_ = {}
        BY <2>0, <2>1, <3>1, NoVictim DEF Victim, HashIndexesList, ReplacerTypeOK
      <3>2. CASE replacer.LRUhash_ # {}
        <4>1. /\ ReplacerOK(replacer') /\ victim' \in replacer.LRUhash_
              /\ Len(replacer'.LRUlist_) = Len(replacer.LRUlist_) - 1
              /\ Len(replacer.LRUlist_) \in Nat \ {0}
          BY <2>0, <2>1, <3>2, AfterVictimOK DEF Victim
        <4>2. replacer.LRUhash_ \subseteq Frames
          BY <2>0, ElementOfSeq DEF ReplacerOK, Indexed
        <4> QED BY <2>0, <4>1, <4>2, MaxSizeAssumption DEF HashIndexesList, ReplacerTypeOK
      <3> QED BY <3>1, <3>2
    <2>2. ASSUME NEW f \in Frames, Pin(f)
          PROVE  Inv'
      <3>1. /\ ReplacerOK(replacer')
            /\ Len(replacer'.LRUlist_) \in 0..Len(replacer.LRUlist_)
        BY <2>0, <2>2, AfterPinOK DEF Pin
      <3> QED BY <2>0, <2>2, <3>1, MaxSizeAssumption DEF Pin, HashIndexesList, ReplacerTypeOK
    <2>3. ASSUME NEW f \in Frames, Unpin(f)
          PROVE  Inv'
      <3>1. ReplacerOK(replacer') /\ Len(replacer'.LRUlist_) \in 0..max_size_
        BY <2>0, <2>3, AfterUnpinOK DEF Unpin
      <3> QED BY <2>3, <3>1 DEF Unpin, HashIndexesList, ReplacerTypeOK
    <2>4. CASE UNCHANGED replacerVars
      BY <2>4 DEF replacerVars, HashIndexesList, ReplacerTypeOK
    <2> QED BY <2>1, <2>2, <2>3, <2>4 DEF ReplacerNext
  <1> QED BY <1>1, <1>2, PTL DEF ReplacerSpec

-----------------------------------------------------------------------------
(* The list implements the order "evictable for longer".                   *)

\* Taking a node out of the list drops its frame from the order.
LEMMA OlderRemove ==
  ASSUME NEW l, NEW h, Indexed(l, h), NEW n \in 1..Len(l)
  PROVE  OlderIn(RemoveAt(l, n), h \ {l[n]}) = Order!Dropping(OlderIn(l, h), l[n])
  <1> DEFINE m == RemoveAt(l, n)
             g == h \ {l[n]}
             p(k) == IF k < n THEN k ELSE k + 1
  <1>1. /\ l \in Seq(Frames) /\ Len(l) \in Nat
        /\ \A i, j \in 1..Len(l) : l[i] = l[j] => i = j
        /\ h = {l[i] : i \in 1..Len(l)}
    BY LenProperties DEF Indexed
  <1>2. /\ Len(m) = Len(l) - 1
        /\ \A i \in 1..(Len(l) - 1) : m[i] = IF i < n THEN l[i] ELSE l[i + 1]
    BY <1>1, RemoveAtElements
  <1> HIDE DEF m
  <1>3. \A k \in 1..Len(m) : p(k) \in 1..Len(l) /\ m[k] = l[p(k)] /\ p(k) # n
    BY <1>1, <1>2
  <1>4. \A i \in 1..Len(l) : i # n => \E k \in 1..Len(m) : p(k) = i
    <2> SUFFICES ASSUME NEW i \in 1..Len(l), i # n
                 PROVE  \E k \in 1..Len(m) : p(k) = i
      OBVIOUS
    <2>1. CASE i < n
      BY <1>1, <1>2, <2>1
    <2>2. CASE i > n
      <3>1. i - 1 \in 1..Len(m) /\ p(i - 1) = i
        BY <1>1, <1>2, <2>2
      <3> QED BY <3>1
    <2> QED BY <1>1, <2>1, <2>2
  <1>5. \A k, q \in 1..Len(m) : k < q <=> p(k) < p(q)
    BY <1>1, <1>2
  <1> HIDE DEF p
  <1>6. ASSUME NEW x, x \in OlderIn(m, g)
        PROVE  x \in Order!Dropping(OlderIn(l, h), l[n])
    <2>1. PICK i, j \in 1..Len(m) : j < i /\ x = <<m[i], m[j]>>
      BY <1>6 DEF OlderIn
    <2>2. /\ x = <<l[p(i)], l[p(j)]>> /\ p(j) < p(i)
          /\ p(i) \in 1..Len(l) /\ p(j) \in 1..Len(l)
      BY <1>3, <1>5, <2>1
    <2>3. x \in h \X h /\ x[1] # l[n] /\ x[2] # l[n]
      BY <1>6 DEF OlderIn
    <2>4. x \in OlderIn(l, h)
      BY <2>2, <2>3 DEF OlderIn
    <2> QED BY <2>3, <2>4 DEF Order!Dropping
  <1>7. ASSUME NEW x, x \in Order!Dropping(OlderIn(l, h), l[n])
        PROVE  x \in OlderIn(m, g)
    <2>1. x \in h \X h /\ x[1] # l[n] /\ x[2] # l[n] /\ x \in OlderIn(l, h)
      BY <1>7 DEF Order!Dropping, OlderIn
    <2>2. PICK i, j \in 1..Len(l) : j < i /\ x = <<l[i], l[j]>>
      BY <2>1 DEF OlderIn
    <2>3. i # n /\ j # n
      BY <2>1, <2>2
    <2>4. PICK k \in 1..Len(m) : p(k) = i
      BY <1>4, <2>3
    <2>5. PICK q \in 1..Len(m) : p(q) = j
      BY <1>4, <2>3
    <2>6. q < k /\ x = <<m[k], m[q]>>
      BY <1>3, <1>5, <2>2, <2>4, <2>5
    <2>7. x \in g \X g
      BY <2>1
    <2> QED BY <2>6, <2>7 DEF OlderIn
  <1>8. OlderIn(m, g) = Order!Dropping(OlderIn(l, h), l[n])
    BY <1>6, <1>7
  <1> QED BY <1>8 DEF m

\* A frame that is not listed does not occur in the order.
LEMMA OlderAbsent ==
  ASSUME NEW l, NEW h, NEW f, f \notin h
  PROVE  Order!Dropping(OlderIn(l, h), f) = OlderIn(l, h)
  BY DEF Order!Dropping, OlderIn

\* A frame pushed to the front is younger than every listed frame.
LEMMA OlderPushFront ==
  ASSUME NEW l, NEW h, Indexed(l, h), NEW f \in Frames, f \notin h
  PROVE  OlderIn(<<f>> \o l, h \cup {f}) = OlderIn(l, h) \cup {<<g, f>> : g \in h}
  <1> DEFINE m == <<f>> \o l
             k == h \cup {f}
  <1>1. Len(l) \in Nat /\ h = {l[i] : i \in 1..Len(l)}
    BY LenProperties DEF Indexed
  <1>2. /\ Len(m) = Len(l) + 1 /\ m[1] = f
        /\ \A i \in 1..Len(l) : m[i + 1] = l[i]
    BY IndexedPushFront
  <1> HIDE DEF m
  <1>3. ASSUME NEW x, x \in OlderIn(m, k)
        PROVE  x \in OlderIn(l, h) \cup {<<g, f>> : g \in h}
    <2>1. PICK i, j \in 1..Len(m) : j < i /\ x = <<m[i], m[j]>>
      BY <1>3 DEF OlderIn
    <2>2. i - 1 \in 1..Len(l) /\ m[i] = l[i - 1] /\ l[i - 1] \in h
      <3>1. i - 1 \in 1..Len(l) /\ (i - 1) + 1 = i
        BY <1>1, <1>2, <2>1
      <3> QED BY <1>1, <1>2, <3>1
    <2>3. CASE j = 1
      BY <1>2, <2>1, <2>2, <2>3
    <2>4. CASE j # 1
      <3>1. j - 1 \in 1..Len(l) /\ (j - 1) + 1 = j /\ j - 1 < i - 1
        BY <1>1, <1>2, <2>1, <2>4
      <3>2. m[j] = l[j - 1] /\ l[j - 1] \in h
        BY <1>1, <1>2, <3>1
      <3>3. x \in h \X h /\ x = <<l[i - 1], l[j - 1]>>
        BY <2>1, <2>2, <3>2
      <3>4. x \in OlderIn(l, h)
        BY <2>2, <3>1, <3>3 DEF OlderIn
      <3> QED BY <3>4
    <2> QED BY <2>3, <2>4
  <1>4. ASSUME NEW x, x \in OlderIn(l, h)
        PROVE  x \in OlderIn(m, k)
    <2>1. PICK i, j \in 1..Len(l) : j < i /\ x = <<l[i], l[j]>>
      BY <1>4 DEF OlderIn
    <2>2. /\ i + 1 \in 1..Len(m) /\ j + 1 \in 1..Len(m) /\ j + 1 < i + 1
          /\ x = <<m[i + 1], m[j + 1]>>
      BY <1>1, <1>2, <2>1
    <2>3. x \in k \X k
      BY <1>4 DEF OlderIn
    <2> QED BY <2>2, <2>3 DEF OlderIn
  <1>5. ASSUME NEW g \in h
        PROVE  <<g, f>> \in OlderIn(m, k)
    <2>1. PICK i \in 1..Len(l) : l[i] = g
      BY <1>1
    <2>2. /\ i + 1 \in 1..Len(m) /\ 1 \in 1..Len(m) /\ 1 < i + 1
          /\ <<g, f>> = <<m[i + 1], m[1]>>
      BY <1>1, <1>2, <2>1
    <2>3. <<g, f>> \in k \X k
      OBVIOUS
    <2> QED BY <2>2, <2>3 DEF OlderIn
  <1>6. OlderIn(m, k) = OlderIn(l, h) \cup {<<g, f>> : g \in h}
    BY <1>3, <1>4, <1>5
  <1> QED BY <1>6 DEF m

\* The back of the list is older than every other listed frame.
LEMMA BackIsOldest ==
  ASSUME NEW l, NEW h, Indexed(l, h), Len(l) # 0,
         NEW g \in h \ {l[Len(l)]}
  PROVE  <<l[Len(l)], g>> \in OlderIn(l, h)
  <1>1. Len(l) \in Nat /\ h = {l[i] : i \in 1..Len(l)}
    BY LenProperties DEF Indexed
  <1>2. PICK i \in 1..Len(l) : l[i] = g
    BY <1>1
  <1>3. i < Len(l) /\ Len(l) \in 1..Len(l)
    BY <1>1, <1>2
  <1>4. <<l[Len(l)], g>> \in h \X h
    BY <1>1, <1>3
  <1> QED BY <1>2, <1>3, <1>4 DEF OlderIn

\* LRUReplacer implements ReplacerOrder: for every set of frames and every
\* capacity, the frame Victim hands out is the one whose effective Unpin is the
\* oldest (lru_replacer.cpp:20-23).
THEOREM Refinement == ReplacerSpec => ImplementsOrder
  <1>1. ReplacerInit => Order!Init
    <2> SUFFICES ASSUME ReplacerInit PROVE Order!Init
      OBVIOUS
    <2>1. evictable = {} /\ older = {} /\ victim = INVALID_FRAME_ID
      BY DEF ReplacerInit, EmptyReplacer, evictable, older, OlderIn
    <2> QED BY <2>1 DEF Order!Init
  <1>2. HashIndexesList /\ ReplacerTypeOK /\ [ReplacerNext]_replacerVars => [Order!Next]_(Order!vars)
    <2> SUFFICES ASSUME HashIndexesList, ReplacerTypeOK, [ReplacerNext]_replacerVars
                 PROVE  [Order!Next]_(Order!vars)
      OBVIOUS
    <2> DEFINE l == replacer.LRUlist_
               h == replacer.LRUhash_
    <2>0. /\ ReplacerOK(replacer) /\ Indexed(l, h) /\ Len(l) \in Nat
          /\ l \in Seq(Frames)
          /\ evictable = h /\ older = OlderIn(l, h)
          /\ evictable' = replacer'.LRUhash_
          /\ older' = OlderIn(replacer'.LRUlist_, replacer'.LRUhash_)
      BY LenProperties DEF HashIndexesList, ReplacerOK, Indexed, evictable, older
    <2> HIDE DEF l, h
    <2>1. CASE Victim
      <3>1. CASE h = {}
        BY <2>0, <2>1, <3>1, NoVictim DEF Victim, Order!Next, Order!Victim, l, h
      <3>2. CASE h # {}
        <4>1. /\ victim' = l[Len(l)] /\ Len(l) # 0
              /\ replacer'.LRUlist_ = RemoveAt(l, Len(l))
              /\ replacer'.LRUhash_ = h \ {l[Len(l)]}
              /\ l[Len(l)] \in h
          <5>1. /\ victim' = l[Len(l)] /\ l[Len(l)] \in h
                /\ replacer'.LRUhash_ = h \ {l[Len(l)]}
                /\ Len(l) # 0
            BY <2>0, <2>1, <3>2, AfterVictimOK DEF Victim, l, h
          <5>2. replacer'.LRUlist_ = Front(l)
            BY <2>0, <2>1, <5>1 DEF Victim, AfterVictim, l
          <5>3. Front(l) = RemoveAt(l, Len(l))
            <6>1. SubSeq(l, Len(l) + 1, Len(l)) = <<>>
              BY <2>0, SubSeqEmpty
            <6>2. SubSeq(l, 1, Len(l) - 1) \in Seq(Frames)
              BY <2>0, SubSeqProperties, ElementOfSeq
            <6> QED BY <6>1, <6>2, ConcatEmptySeq DEF Front, RemoveAt
          <5> QED BY <5>1, <5>2, <5>3
        <4>2. Len(l) \in 1..Len(l)
          BY <2>0, <4>1
        <4>3. older' = Order!Dropping(older, l[Len(l)])
          BY <2>0, <4>1, <4>2, OlderRemove
        <4>4. \A g \in h \ {l[Len(l)]} : <<l[Len(l)], g>> \in OlderIn(l, h)
          BY <2>0, <4>1, BackIsOldest
        <4> QED BY <2>0, <4>1, <4>3, <4>4 DEF Order!Next, Order!Victim
      <3> QED BY <3>1, <3>2
    <2>2. ASSUME NEW f \in Frames, Pin(f)
          PROVE  Order!Pin(f)
      <3>1. replacer'.LRUhash_ = h \ {f} /\ victim' = victim
        BY <2>0, <2>2, AfterPinOK DEF Pin, h
      <3>2. CASE f \in h
        <4>1. replacer'.LRUlist_ = RemoveAt(l, Node(l, f))
          BY <2>2, <3>2 DEF Pin, AfterPin, l, h
        <4>2. Node(l, f) \in 1..Len(l) /\ l[Node(l, f)] = f
          BY <2>0, <3>2, NodeFinds
        <4>3. older' = Order!Dropping(older, f)
          BY <2>0, <3>1, <4>1, <4>2, OlderRemove
        <4> QED BY <2>0, <3>1, <4>3 DEF Order!Pin
      <3>3. CASE f \notin h
        <4>1. replacer' = replacer
          BY <2>2, <3>3 DEF Pin, AfterPin, h
        <4>2. older' = older
          BY <2>0, <4>1 DEF l, h
        <4> QED BY <2>0, <3>1, <3>3, <4>2, OlderAbsent DEF Order!Pin
      <3> QED BY <3>2, <3>3
    <2>3. ASSUME NEW f \in Frames, Unpin(f)
          PROVE  [Order!Unpin(f)]_(Order!vars)
      <3>1. CASE f \in h \/ Len(l) >= max_size_
        <4>1. replacer' = replacer /\ victim' = victim
          BY <2>3, <3>1 DEF Unpin, AfterUnpin, l, h
        <4> QED BY <2>0, <4>1 DEF Order!vars, l, h
      <3>2. CASE ~(f \in h \/ Len(l) >= max_size_)
        <4>1. /\ replacer'.LRUlist_ = <<f>> \o l /\ replacer'.LRUhash_ = h \cup {f}
              /\ victim' = victim
          BY <2>3, <3>2 DEF Unpin, AfterUnpin, l, h
        <4>2. older' = older \cup {<<g, f>> : g \in evictable}
          BY <2>0, <3>2, <4>1, OlderPushFront
        <4>3. Cardinality(evictable) < max_size_
          BY <2>0, <3>2, LenIsCardinality, MaxSizeAssumption
        <4>4. Order!Cardinality(evictable) = Cardinality(evictable)
          BY DEF Order!Cardinality, Cardinality
        <4> QED BY <2>0, <3>2, <4>1, <4>2, <4>3, <4>4 DEF Order!Unpin
      <3> QED BY <3>1, <3>2
    <2>4. CASE UNCHANGED replacerVars
      BY <2>0, <2>4 DEF replacerVars, Order!vars, l, h
    <2> QED BY <2>1, <2>2, <2>3, <2>4 DEF ReplacerNext, Order!Next
  <1> QED BY <1>1, <1>2, ReplacerSafe, PTL DEF ReplacerSpec, ImplementsOrder, Order!Spec

-----------------------------------------------------------------------------
(* The disk.                                                               *)

\* Writing a page changes that page, and otherwise only fills holes before it.
LEMMA WritePageFacts ==
  ASSUME NEW dk \in [PageIds -> Contents \cup {EOF}],
         NEW p \in PageIds, NEW d \in Contents
  PROVE  /\ WritePage(dk, p, d) \in [PageIds -> Contents \cup {EOF}]
         /\ WritePage(dk, p, d)[p] = d
         /\ \A q \in PageIds \ {p} :
              \/ WritePage(dk, p, d)[q] = dk[q]
              \/ /\ dk[q] = EOF /\ WritePage(dk, p, d)[q] = Zero
                 /\ q.fd = p.fd /\ Valid(q) /\ q.page_no < p.page_no
  BY DEF WritePage, Contents

-----------------------------------------------------------------------------
(* Victims.                                                                *)

\* The frames in the free list, when its front is taken or a frame is returned.
LEMMA FreeListFacts ==
  ASSUME TypeOK, FramesApart
  PROVE  /\ free_list_ # <<>> =>
              /\ Head(free_list_) \in Listed
              /\ Tail(free_list_) \in Seq(Frames)
              /\ \A i, j \in 1..Len(Tail(free_list_)) :
                   Tail(free_list_)[i] = Tail(free_list_)[j] => i = j
              /\ {Tail(free_list_)[i] : i \in 1..Len(Tail(free_list_))}
                   = Listed \ {Head(free_list_)}
         /\ Listed \subseteq Frames
  <1> DEFINE l == free_list_
             m == Tail(l)
  <1>1. /\ l \in Seq(Frames) /\ Len(l) \in Nat
        /\ \A i, j \in 1..Len(l) : l[i] = l[j] => i = j
        /\ Listed = {l[i] : i \in 1..Len(l)}
    BY LenProperties DEF TypeOK, FramesApart, Listed
  <1>2. Listed \subseteq Frames
    BY <1>1, ElementOfSeq
  <1>3. ASSUME l # <<>>
        PROVE  /\ Head(l) \in Listed
               /\ m \in Seq(Frames)
               /\ \A i, j \in 1..Len(m) : m[i] = m[j] => i = j
               /\ {m[i] : i \in 1..Len(m)} = Listed \ {Head(l)}
    <2>1. Len(l) > 0 /\ Head(l) = l[1]
      BY <1>1, <1>3, EmptySeq
    <2>2. /\ m \in Seq(Frames) /\ Len(m) = Len(l) - 1
          /\ \A i \in 1..Len(m) : m[i] = l[i + 1]
      BY <1>1, <1>3, HeadTailProperties
    <2> HIDE DEF m, l
    <2>3. 1 \in 1..Len(l) /\ l[1] \in Listed
      BY <1>1, <2>1
    <2>4. \A i \in 1..Len(m) : i + 1 \in 1..Len(l) /\ i + 1 # 1
      BY <1>1, <2>2
    <2>5. \A i, j \in 1..Len(m) : m[i] = m[j] => i = j
      <3> SUFFICES ASSUME NEW i \in 1..Len(m), NEW j \in 1..Len(m), m[i] = m[j]
                   PROVE  i = j
        OBVIOUS
      <3>1. i + 1 = j + 1
        BY <1>1, <2>2, <2>4
      <3> QED BY <2>2, <3>1
    <2>6. \A i \in 1..Len(m) : m[i] \in Listed \ {l[1]}
      BY <1>1, <2>2, <2>3, <2>4
    <2>7. ASSUME NEW x \in Listed \ {l[1]}
          PROVE  \E i \in 1..Len(m) : m[i] = x
      <3>1. PICK i \in 1..Len(l) : l[i] = x
        BY <1>1
      <3>2. i - 1 \in 1..Len(m) /\ (i - 1) + 1 = i
        BY <1>1, <2>2, <3>1
      <3> QED BY <2>2, <3>1, <3>2
    <2>8. {m[i] : i \in 1..Len(m)} = Listed \ {l[1]}
      BY <2>6, <2>7
    <2> QED BY <2>1, <2>2, <2>3, <2>5, <2>8
  <1> QED BY <1>2, <1>3

\* A frame returned to the free list.
LEMMA FreeListAppend ==
  ASSUME TypeOK, FramesApart, NEW f \in Frames \ Listed
  PROVE  /\ Append(free_list_, f) \in Seq(Frames)
         /\ \A i, j \in 1..Len(Append(free_list_, f)) :
              Append(free_list_, f)[i] = Append(free_list_, f)[j] => i = j
         /\ {Append(free_list_, f)[i] : i \in 1..Len(Append(free_list_, f))}
              = Listed \cup {f}
  <1> DEFINE l == free_list_
             m == Append(l, f)
  <1>1. /\ l \in Seq(Frames) /\ Len(l) \in Nat
        /\ \A i, j \in 1..Len(l) : l[i] = l[j] => i = j
        /\ Listed = {l[i] : i \in 1..Len(l)}
    BY LenProperties DEF TypeOK, FramesApart, Listed
  <1>2. /\ m \in Seq(Frames) /\ Len(m) = Len(l) + 1
        /\ \A i \in 1..Len(l) : m[i] = l[i]
        /\ m[Len(l) + 1] = f
    BY <1>1, AppendProperties
  <1> HIDE DEF m, l
  <1>3. \A i \in 1..Len(m) : i \in 1..Len(l) \/ i = Len(l) + 1
    BY <1>1, <1>2
  <1>4. \A i \in 1..Len(l) : i \in 1..Len(m) /\ l[i] \in Listed
    BY <1>1, <1>2
  <1>5. Len(l) + 1 \in 1..Len(m)
    BY <1>1, <1>2
  <1>6. \A i, j \in 1..Len(m) : m[i] = m[j] => i = j
    BY <1>1, <1>2, <1>3, <1>4
  <1>7. {m[i] : i \in 1..Len(m)} \subseteq Listed \cup {f}
    BY <1>2, <1>3, <1>4
  <1>8. Listed \cup {f} \subseteq {m[i] : i \in 1..Len(m)}
    BY <1>1, <1>2, <1>4, <1>5
  <1> QED BY <1>2, <1>6, <1>7, <1>8 DEF m, l

\* FindVictimPage hands out a frame that holds no page in use, and takes it out
\* of the free list or of the replacer, whichever had it.
LEMMA VictimFacts ==
  ASSUME TypeOK, FramesApart, VictimFrame # NoFrame,
         TakeVictim \/ TakeVictimOnly
  PROVE  /\ VictimFrame \in Listed \cup Evictable
         /\ VictimFrame \in Frames
         /\ ReplacerOK(lru')
         /\ free_list_' \in Seq(Frames)
         /\ \A i, j \in 1..Len(free_list_') : free_list_'[i] = free_list_'[j] => i = j
         /\ Listed' = Listed \ {VictimFrame}
         /\ Evictable' = Evictable \ {VictimFrame}
  <1>0. ReplacerOK(lru) /\ Evictable \subseteq Frames
    <2>1. ReplacerOK(lru)
      BY DEF TypeOK
    <2> QED BY <2>1, ElementOfSeq DEF ReplacerOK, Indexed, Evictable
  <1>1. CASE free_list_ # <<>>
    <2>1. VictimFrame = Head(free_list_)
      BY <1>1 DEF VictimFrame
    <2>2. VictimFrame \in Listed /\ VictimFrame \in Frames /\ VictimFrame \notin Evictable
      BY <1>1, <2>1, FreeListFacts DEF FramesApart
    <2>3. free_list_' = Tail(free_list_)
      BY <1>1 DEF TakeVictim, TakeVictimOnly
    <2>4. ReplacerOK(lru') /\ Evictable' = Evictable \ {VictimFrame}
      <3>1. CASE lru' = AfterPin(lru, VictimFrame)
        BY <1>0, <3>1, AfterPinOK DEF Evictable
      <3>2. CASE UNCHANGED lru
        BY <1>0, <2>2, <3>2 DEF Evictable
      <3> QED BY <1>1, <3>1, <3>2 DEF TakeVictim, TakeVictimOnly
    <2>5. Listed' = {free_list_'[i] : i \in 1..Len(free_list_')}
      BY DEF Listed
    <2> QED BY <1>1, <2>1, <2>2, <2>3, <2>4, <2>5, FreeListFacts
  <1>2. CASE free_list_ = <<>>
    <2>1. VictimFrame = VictimOf(lru)
      BY <1>2 DEF VictimFrame
    <2>2. Evictable # {}
      BY <1>0, <2>1, NoVictim DEF Evictable, NoFrame
    <2>3. /\ VictimFrame \in Evictable
          /\ ReplacerOK(AfterVictim(lru))
          /\ AfterVictim(lru).LRUhash_ = Evictable \ {VictimFrame}
      BY <1>0, <2>1, <2>2, AfterVictimOK DEF Evictable
    <2>4. ReplacerOK(lru') /\ Evictable' = Evictable \ {VictimFrame}
      <3>1. CASE lru' = AfterPin(AfterVictim(lru), VictimFrame)
        BY <2>3, <3>1, AfterPinOK DEF Evictable
      <3>2. CASE lru' = AfterVictim(lru)
        BY <2>3, <3>2 DEF Evictable
      <3> QED BY <1>2, <3>1, <3>2 DEF TakeVictim, TakeVictimOnly
    <2>5. free_list_' = free_list_ /\ Listed = {} /\ Listed' = {}
      BY <1>2 DEF TakeVictim, TakeVictimOnly, Listed
    <2>6. VictimFrame \in Frames
      BY <1>0, <2>3
    <2> QED BY <2>3, <2>4, <2>5, <2>6 DEF TypeOK, FramesApart
  <1> QED BY <1>1, <1>2

-----------------------------------------------------------------------------
(* Consequences of the invariant.                                          *)

\* A thread that holds a page finds it through the page table too.
LEMMA HeldIsMapped ==
  ASSUME IInv, NEW t \in Threads, NEW p \in PageIds, Holds(t, p)
  PROVE  /\ Valid(p) /\ p.page_no < fd2pageno_[p.fd]
         /\ handle[t][p] \in Frames
         /\ page_table_[p] = handle[t][p]
         /\ pages_[handle[t][p]].id_ = p
  <1>1. handle[t][p] \in Frames
    BY DEF IInv, TypeOK, Holds
  <1>2. pages_[handle[t][p]].id_ = p
    BY DEF IInv, PointersStay
  <1>3. Holders(p) # {}
    BY DEF Holders
  <1>4. Valid(p) /\ p.page_no < fd2pageno_[p.fd]
    BY <1>3 DEF IInv, AllocatedOnly
  <1> QED BY <1>1, <1>2, <1>4 DEF IInv, PageTableConsistent

\* The threads that hold a page are finitely many.
LEMMA HoldersFinite ==
  ASSUME NEW p
  PROVE  IsFiniteSet(Holders(p)) /\ Cardinality(Holders(p)) \in Nat
  <1>1. Holders(p) \in SUBSET Threads
    BY DEF Holders
  <1> QED BY <1>1, ThreadAssumption, FS_Subset, FS_CardinalityType

\* Nobody holds the page of a frame with pin count 0, nor has a pointer to it.
LEMMA UnpinnedIsUnused ==
  ASSUME IInv, NEW f \in Frames, pages_[f].pin_count_ = 0
  PROVE  /\ \A t \in Threads, q \in PageIds : handle[t][q] # f
         /\ Valid(pages_[f].id_) => Holders(pages_[f].id_) = {}
  <1>1. Valid(pages_[f].id_) => Holders(pages_[f].id_) = {}
    <2>1. Valid(pages_[f].id_) => Cardinality(Holders(pages_[f].id_)) = 0
      BY DEF IInv, PinsCounted
    <2> QED BY <2>1, HoldersFinite, FS_EmptySet
  <1>2. ASSUME NEW t \in Threads, NEW q \in PageIds, handle[t][q] = f
        PROVE  FALSE
    <2>1. Holds(t, q)
      BY <1>2, FramesAssumption DEF Holds, NoFrame
    <2>2. pages_[f].id_ = q /\ Valid(q)
      BY <1>2, <2>1, HeldIsMapped
    <2> QED BY <1>1, <2>1, <2>2 DEF Holders
  <1> QED BY <1>1, <1>2

\* A victim's dirty page goes to disk, and nothing else on disk changes except
\* holes that are filled.
LEMMA EvictionFacts ==
  ASSUME IInv, NEW f \in Frames, disk' = DiskAfterEviction(f)
  PROVE  LET old == pages_[f].id_ IN
         /\ disk' \in [PageIds -> Contents \cup {EOF}]
         /\ (Valid(old) /\ pages_[f].is_dirty_) => disk'[old] = pages_[f].data_
         /\ (Valid(old) /\ ~pages_[f].is_dirty_) => disk'[old] = disk[old]
         /\ \A q \in PageIds :
              (Valid(old) => q # old) =>
              \/ disk'[q] = disk[q]
              \/ disk[q] = EOF /\ disk'[q] = Zero
         /\ \A q \in PageIds :
              disk'[q] # EOF => Valid(q) /\ q.page_no < fd2pageno_[q.fd]
  <1> DEFINE old == pages_[f].id_
             d == pages_[f].data_
  <1>1. /\ disk \in [PageIds -> Contents \cup {EOF}]
        /\ old \in PageIds /\ d \in Contents
        /\ fd2pageno_ \in [Fds -> 0..MaxPages]
    BY DEF IInv, TypeOK
  <1>2. \A q \in PageIds : disk[q] # EOF => Valid(q) /\ q.page_no < fd2pageno_[q.fd]
    BY DEF IInv, AllocatedOnly
  <1>3. CASE ~(Valid(old) /\ pages_[f].is_dirty_)
    <2>1. disk' = disk
      BY <1>3 DEF DiskAfterEviction
    <2> QED BY <1>1, <1>2, <1>3, <2>1
  <1>4. CASE Valid(old) /\ pages_[f].is_dirty_
    <2>1. disk' = WritePage(disk, old, d)
      BY <1>4 DEF DiskAfterEviction
    <2>2. old.page_no < fd2pageno_[old.fd]
      <3>1. page_table_[old] # NoFrame
        BY <1>4, FramesAssumption DEF IInv, PageTableConsistent, NoFrame
      <3> QED BY <1>1, <3>1 DEF IInv, AllocatedOnly
    <2> HIDE DEF old, d
    <2>3. /\ disk' \in [PageIds -> Contents \cup {EOF}]
          /\ disk'[old] = d
          /\ \A q \in PageIds \ {old} :
               \/ disk'[q] = disk[q]
               \/ /\ disk[q] = EOF /\ disk'[q] = Zero
                  /\ q.fd = old.fd /\ Valid(q) /\ q.page_no < old.page_no
      BY <1>1, <2>1, WritePageFacts
    <2>4. ASSUME NEW q \in PageIds, disk'[q] # EOF
          PROVE  Valid(q) /\ q.page_no < fd2pageno_[q.fd]
      <3>1. CASE q = old
        BY <1>4, <2>2, <3>1 DEF old
      <3>2. CASE q # old /\ disk'[q] = disk[q]
        BY <1>2, <2>4, <3>2
      <3>3. CASE q # old /\ disk'[q] # disk[q]
        <4>1. q.fd = old.fd /\ Valid(q) /\ q.page_no < old.page_no
          BY <2>3, <3>3
        <4>2. /\ q.page_no \in Int /\ old.page_no \in Int
              /\ fd2pageno_[old.fd] \in Int
          BY <1>1, PageAssumption DEF PageIds, PageNos
        <4> QED BY <2>2, <4>1, <4>2
      <3> QED BY <3>1, <3>2, <3>3
    <2> QED BY <1>4, <2>3, <2>4 DEF old, d
  <1> QED BY <1>3, <1>4

-----------------------------------------------------------------------------
(* Putting a page into a victim frame: the common part of FetchMiss,       *)
(* FetchReadFails and NewPage.  The page is in no frame yet; it arrives    *)
(* with contents d that agree with the disk, pinned by the threads of T.   *)

LEMMA LoadKeepsIInv ==
  ASSUME IInv, VictimFrame # NoFrame,
         TakeVictim \/ TakeVictimOnly,
         NEW p \in PageIds, Valid(p), page_table_[p] = NoFrame,
         NEW d \in Contents, NEW T \in SUBSET Threads,
         NEW n \in Nat, n = Cardinality(T),
         disk' = DiskAfterEviction(VictimFrame),
         page_table_' = TableAfterEviction(VictimFrame, p),
         pages_' = [pages_ EXCEPT ![VictimFrame] = Page(p, d, FALSE, n)],
         disk'[p] = d \/ (disk'[p] = EOF /\ d = Zero),
         handle' = [t \in Threads |-> [q \in PageIds |->
                      IF t \in T /\ q = p THEN VictimFrame ELSE handle[t][q]]],
         wrote' = wrote,
         fd2pageno_' \in [Fds -> 0..MaxPages],
         \A fd \in Fds : fd2pageno_[fd] <= fd2pageno_'[fd],
         p.page_no < fd2pageno_'[p.fd]
  PROVE  IInv'
  <1> DEFINE f == VictimFrame
             old == pages_[f].id_
  <1>1. /\ f \in Listed \cup Evictable /\ f \in Frames
        /\ ReplacerOK(lru')
        /\ free_list_' \in Seq(Frames)
        /\ \A i, j \in 1..Len(free_list_') : free_list_'[i] = free_list_'[j] => i = j
        /\ Listed' = Listed \ {f}
        /\ Evictable' = Evictable \ {f}
    BY VictimFacts DEF IInv
  <1>2. pages_[f].pin_count_ = 0
    BY <1>1 DEF IInv, FramesApart
  <1>3. /\ \A t \in Threads, q \in PageIds : handle[t][q] # f
        /\ Valid(old) => Holders(old) = {}
    BY <1>1, <1>2, UnpinnedIsUnused
  <1>4. \A t \in Threads : ~Holds(t, p) /\ p \notin wrote[t]
    <2>1. \A t \in Threads : ~Holds(t, p)
      BY HeldIsMapped, FramesAssumption DEF NoFrame
    <2> QED BY <2>1 DEF IInv, WritersHold
  <1>5. /\ disk' \in [PageIds -> Contents \cup {EOF}]
        /\ (Valid(old) /\ pages_[f].is_dirty_) => disk'[old] = pages_[f].data_
        /\ (Valid(old) /\ ~pages_[f].is_dirty_) => disk'[old] = disk[old]
        /\ \A q \in PageIds :
             (Valid(old) => q # old) =>
             \/ disk'[q] = disk[q]
             \/ disk[q] = EOF /\ disk'[q] = Zero
        /\ \A q \in PageIds :
             disk'[q] # EOF => Valid(q) /\ q.page_no < fd2pageno_[q.fd]
    BY <1>1, EvictionFacts
  <1>6. /\ pages_ \in [Frames -> [id_ : PageIds, data_ : Contents,
                                  is_dirty_ : BOOLEAN, pin_count_ : Nat]]
        /\ page_table_ \in [PageIds -> Frames \cup {NoFrame}]
        /\ handle \in [Threads -> [PageIds -> Frames \cup {NoFrame}]]
        /\ wrote \in [Threads -> SUBSET PageIds]
        /\ fd2pageno_ \in [Fds -> 0..MaxPages]
    BY DEF IInv, TypeOK
  <1> HIDE DEF f
  <1>7. /\ pages_'[f] = Page(p, d, FALSE, n)
        /\ \A g \in Frames \ {f} : pages_'[g] = pages_[g]
    BY <1>1, <1>6 DEF f
  <1>8. /\ page_table_'[p] = f
        /\ \A q \in PageIds \ {p} :
             page_table_'[q] = IF Valid(old) /\ q = old THEN NoFrame ELSE page_table_[q]
    BY <1>6 DEF f, TableAfterEviction
  <1>9. \A t \in Threads, q \in PageIds :
          handle'[t][q] = IF t \in T /\ q = p THEN f ELSE handle[t][q]
    BY DEF f
  <1>10. f # NoFrame
    BY <1>1, FramesAssumption DEF NoFrame
  <1>a. TypeOK'
    <2>1. Page(p, d, FALSE, n) \in [id_ : PageIds, data_ : Contents,
                                    is_dirty_ : BOOLEAN, pin_count_ : Nat]
      BY DEF Page
    <2>2. pages_' \in [Frames -> [id_ : PageIds, data_ : Contents,
                                  is_dirty_ : BOOLEAN, pin_count_ : Nat]]
      BY <1>1, <1>6, <2>1
    <2>3. page_table_' \in [PageIds -> Frames \cup {NoFrame}]
      BY <1>1, <1>6 DEF TableAfterEviction, f
    <2>4. handle' \in [Threads -> [PageIds -> Frames \cup {NoFrame}]]
      BY <1>1, <1>6 DEF f
    <2> QED BY <1>1, <1>5, <1>6, <2>2, <2>3, <2>4 DEF TypeOK
  <1>b. PageTableConsistent'
    <2>1. ASSUME NEW q \in PageIds, page_table_'[q] # NoFrame
          PROVE  pages_'[page_table_'[q]].id_ = q
      <3>1. CASE q = p
        BY <1>7, <1>8, <3>1 DEF Page
      <3>2. CASE q # p
        <4>1. page_table_'[q] = page_table_[q] /\ page_table_[q] # NoFrame
              /\ ~(Valid(old) /\ q = old)
          BY <1>8, <2>1, <3>2
        <4>2. pages_[page_table_[q]].id_ = q /\ page_table_[q] \in Frames
          BY <1>6, <4>1 DEF IInv, PageTableConsistent
        <4>3. Valid(q)
          BY <4>1 DEF IInv, AllocatedOnly
        <4>4. page_table_[q] # f
          BY <4>1, <4>2, <4>3
        <4> QED BY <1>7, <4>1, <4>2, <4>4
      <3> QED BY <3>1, <3>2
    <2>2. ASSUME NEW g \in Frames, Valid(pages_'[g].id_)
          PROVE  page_table_'[pages_'[g].id_] = g
      <3>1. CASE g = f
        BY <1>7, <1>8, <3>1 DEF Page
      <3>2. CASE g # f
        <4>1. pages_'[g] = pages_[g] /\ page_table_[pages_[g].id_] = g /\ pages_[g].id_ \in PageIds
          BY <1>6, <1>7, <2>2, <3>2 DEF IInv, PageTableConsistent
        <4>2. pages_[g].id_ # p
          BY <4>1, FramesAssumption DEF NoFrame
        <4>3. ~(Valid(old) /\ pages_[g].id_ = old)
          BY <1>1, <3>2, <4>1 DEF IInv, PageTableConsistent
        <4> QED BY <1>8, <4>1, <4>2, <4>3
      <3> QED BY <3>1, <3>2
    <2> QED BY <2>1, <2>2 DEF PageTableConsistent
  <1>c. FramesApart'
    <2>1. \A g \in Listed' : ~Valid(pages_'[g].id_) /\ pages_'[g].pin_count_ = 0
      <3>1. \A g \in Listed' : g \in Listed /\ g \in Frames \ {f}
        BY <1>1, FreeListFacts DEF IInv
      <3> QED BY <1>7, <3>1 DEF IInv, FramesApart
    <2>2. \A g \in Evictable' : Valid(pages_'[g].id_) /\ pages_'[g].pin_count_ = 0
      <3>1. \A g \in Evictable' : g \in Evictable /\ g \in Frames \ {f}
        <4>1. Evictable \subseteq Frames
          BY ElementOfSeq DEF IInv, TypeOK, ReplacerOK, Indexed, Evictable
        <4> QED BY <1>1, <4>1
      <3> QED BY <1>7, <3>1 DEF IInv, FramesApart
    <2>3. Listed' \cap Evictable' = {}
      BY <1>1 DEF IInv, FramesApart
    <2> QED BY <1>1, <2>1, <2>2, <2>3 DEF FramesApart
  <1>d. PinsCounted'
    <2> SUFFICES ASSUME NEW g \in Frames
                 PROVE  (pages_[g].pin_count_ =
                           IF Valid(pages_[g].id_)
                           THEN Cardinality(Holders(pages_[g].id_)) ELSE 0)'
      BY DEF PinsCounted
    <2>1. CASE g = f
      <3>1. pages_'[g].id_ = p /\ pages_'[g].pin_count_ = n
        BY <1>7, <2>1 DEF Page
      <3>2. Holders(pages_[g].id_)' = T
        BY <1>4, <1>9, <1>10, <3>1 DEF Holders, Holds
      <3> QED BY <3>1, <3>2
    <2>2. CASE g # f
      <3>1. pages_'[g] = pages_[g] /\ pages_[g].id_ \in PageIds
        BY <1>6, <1>7, <2>2
      <3>2. CASE ~Valid(pages_[g].id_)
        BY <3>1, <3>2 DEF IInv, PinsCounted, Valid
      <3>3. CASE Valid(pages_[g].id_)
        <4>1. pages_[g].id_ # p
          BY <3>3, FramesAssumption DEF IInv, PageTableConsistent, NoFrame
        <4>2. Holders(pages_[g].id_)' = Holders(pages_[g].id_)
          BY <1>9, <3>1, <4>1 DEF Holders, Holds
        <4> QED BY <3>1, <3>3, <4>2 DEF IInv, PinsCounted, Valid
      <3> QED BY <3>2, <3>3
    <2> QED BY <2>1, <2>2
  <1>e. PointersStay'
    <2> SUFFICES ASSUME NEW t \in Threads, NEW q \in PageIds, handle'[t][q] # NoFrame
                 PROVE  pages_'[handle'[t][q]].id_ = q
      BY DEF PointersStay, Holds
    <2>1. CASE t \in T /\ q = p
      BY <1>7, <1>9, <2>1 DEF Page
    <2>2. CASE ~(t \in T /\ q = p)
      <3>1. handle'[t][q] = handle[t][q] /\ handle[t][q] \in Frames \ {f}
        BY <1>3, <1>6, <1>9, <2>2
      <3>2. pages_[handle[t][q]].id_ = q
        BY <3>1, FramesAssumption DEF IInv, PointersStay, Holds, NoFrame
      <3> QED BY <1>7, <3>1, <3>2
    <2> QED BY <2>1, <2>2
  <1>f. WritersHold'
    BY <1>4, <1>6, <1>9 DEF IInv, WritersHold, Holds
  <1>g. CleanMeansOnDisk'
    <2> SUFFICES ASSUME NEW g \in Frames, Valid(pages_'[g].id_), ~pages_'[g].is_dirty_,
                        \A t \in Threads : pages_'[g].id_ \notin wrote[t]
                 PROVE  \/ disk'[pages_'[g].id_] = pages_'[g].data_
                        \/ disk'[pages_'[g].id_] = EOF /\ pages_'[g].data_ = Zero
      BY DEF CleanMeansOnDisk
    <2>1. CASE g = f
      BY <1>7, <2>1 DEF Page
    <2>2. CASE g # f
      <3>1. /\ pages_'[g] = pages_[g] /\ pages_[g].id_ \in PageIds
            /\ pages_[g].data_ \in Contents
        BY <1>6, <1>7, <2>2
      <3>2. \/ disk[pages_[g].id_] = pages_[g].data_
            \/ disk[pages_[g].id_] = EOF /\ pages_[g].data_ = Zero
        BY <3>1 DEF IInv, CleanMeansOnDisk
      <3>3. Valid(old) => pages_[g].id_ # old
        BY <1>1, <2>2, <3>1 DEF IInv, PageTableConsistent
      <3>4. \/ disk'[pages_[g].id_] = disk[pages_[g].id_]
            \/ disk[pages_[g].id_] = EOF /\ disk'[pages_[g].id_] = Zero
        BY <1>5, <3>1, <3>3
      <3>5. pages_[g].data_ # EOF
        BY <3>1, DataAssumption DEF Contents
      <3> QED BY <3>1, <3>2, <3>4, <3>5
    <2> QED BY <2>1, <2>2
  <1>h. AllocatedOnly'
    <2> SUFFICES ASSUME NEW q \in PageIds,
                        page_table_'[q] # NoFrame \/ disk'[q] # EOF \/ Holders(q)' # {}
                 PROVE  Valid(q) /\ q.page_no < fd2pageno_'[q.fd]
      BY DEF AllocatedOnly
    <2>1. CASE q = p
      BY <2>1
    <2>2. CASE q # p
      <3>1. Holders(q)' = Holders(q)
        BY <1>9, <2>2 DEF Holders, Holds
      <3>2. page_table_'[q] # NoFrame => page_table_[q] # NoFrame
        BY <1>8, <2>2
      <3>3. Valid(q) /\ q.page_no < fd2pageno_[q.fd]
        BY <1>5, <3>1, <3>2 DEF IInv, AllocatedOnly
      <3>4. /\ q.page_no \in Int /\ fd2pageno_[q.fd] \in Int /\ fd2pageno_'[q.fd] \in Int
            /\ fd2pageno_[q.fd] <= fd2pageno_'[q.fd]
        BY <1>6, PageAssumption DEF PageIds, PageNos
      <3> QED BY <3>3, <3>4
    <2> QED BY <2>1, <2>2
  <1> QED BY <1>a, <1>b, <1>c, <1>d, <1>e, <1>f, <1>g, <1>h DEF IInv

\* A pointer given to one thread, in the form LoadKeepsIInv wants.
LEMMA GiveHandleFacts ==
  ASSUME TypeOK, NEW t \in Threads, NEW p \in PageIds, NEW f, GiveHandle(t, p, f)
  PROVE  /\ handle' = [u \in Threads |-> [q \in PageIds |->
                         IF u \in {t} /\ q = p THEN f ELSE handle[u][q]]]
         /\ wrote' = wrote
  BY DEF TypeOK, GiveHandle

LEMMA FetchMissKeepsIInv ==
  ASSUME IInv, WellBehaved, NEW t \in Threads, NEW p \in PageIds, FetchMiss(t, p)
  PROVE  IInv'
  <1>1. Valid(p) /\ p.page_no < fd2pageno_[p.fd]
    BY DEF FetchMiss, Requestable, WellBehaved
  <1>2. VictimFrame \in Frames
    BY VictimFacts DEF FetchMiss, IInv
  <1>3. PICK d \in Contents : disk'[p] = d
    <2>1. disk' \in [PageIds -> Contents \cup {EOF}]
      BY <1>2, EvictionFacts DEF FetchMiss
    <2> QED BY <2>1 DEF FetchMiss, ReadSucceeds
  <1>4. {t} \in SUBSET Threads /\ 1 = Cardinality({t}) /\ 1 \in Nat
    BY FS_Singleton
  <1>5. /\ handle' = [u \in Threads |-> [q \in PageIds |->
                        IF u \in {t} /\ q = p THEN VictimFrame ELSE handle[u][q]]]
        /\ wrote' = wrote
    BY GiveHandleFacts DEF FetchMiss, IInv
  <1>6. /\ fd2pageno_' \in [Fds -> 0..MaxPages]
        /\ \A fd \in Fds : fd2pageno_[fd] <= fd2pageno_'[fd]
        /\ p.page_no < fd2pageno_'[p.fd]
    <2>1. fd2pageno_' = fd2pageno_ /\ fd2pageno_ \in [Fds -> 0..MaxPages]
      BY DEF FetchMiss, IInv, TypeOK
    <2>2. \A fd \in Fds : fd2pageno_[fd] <= fd2pageno_[fd]
      BY <2>1, PageAssumption
    <2> QED BY <1>1, <2>1, <2>2
  <1>7. /\ VictimFrame # NoFrame /\ TakeVictim /\ page_table_[p] = NoFrame
        /\ disk' = DiskAfterEviction(VictimFrame)
        /\ page_table_' = TableAfterEviction(VictimFrame, p)
        /\ pages_' = [pages_ EXCEPT ![VictimFrame] = Page(p, d, FALSE, 1)]
    BY <1>3 DEF FetchMiss
  <1> QED BY <1>1, <1>3, <1>4, <1>5, <1>6, <1>7, LoadKeepsIInv

\* read_page throws only beyond the end of the file: what it leaves behind in the
\* pool is harmless.
LEMMA FetchReadFailsKeepsIInv ==
  ASSUME IInv, WellBehaved, NEW t \in Threads, NEW p \in PageIds, FetchReadFails(t, p)
  PROVE  IInv'
  <1>1. Valid(p) /\ p.page_no < fd2pageno_[p.fd]
    BY DEF FetchReadFails, Requestable, WellBehaved
  <1>2. Zero \in Contents /\ disk'[p] = EOF
    BY DEF FetchReadFails, ReadFails, WellBehaved, Contents
  <1>3. {} \in SUBSET Threads /\ 0 = Cardinality({}) /\ 0 \in Nat
    BY FS_EmptySet
  <1>4. /\ handle' = [u \in Threads |-> [q \in PageIds |->
                        IF u \in {} /\ q = p THEN VictimFrame ELSE handle[u][q]]]
        /\ wrote' = wrote
    <2>1. handle \in [Threads -> [PageIds -> Frames \cup {NoFrame}]]
      BY DEF IInv, TypeOK
    <2>2. handle' = handle /\ wrote' = wrote
      BY DEF FetchReadFails, clientVars
    <2> QED BY <2>1, <2>2
  <1>5. /\ fd2pageno_' \in [Fds -> 0..MaxPages]
        /\ \A fd \in Fds : fd2pageno_[fd] <= fd2pageno_'[fd]
        /\ p.page_no < fd2pageno_'[p.fd]
    <2>1. fd2pageno_' = fd2pageno_ /\ fd2pageno_ \in [Fds -> 0..MaxPages]
      BY DEF FetchReadFails, IInv, TypeOK
    <2>2. \A fd \in Fds : fd2pageno_[fd] <= fd2pageno_[fd]
      BY <2>1, PageAssumption
    <2> QED BY <1>1, <2>1, <2>2
  <1>6. /\ VictimFrame # NoFrame /\ TakeVictimOnly /\ page_table_[p] = NoFrame
        /\ disk' = DiskAfterEviction(VictimFrame)
        /\ page_table_' = TableAfterEviction(VictimFrame, p)
        /\ pages_' = [pages_ EXCEPT ![VictimFrame] = Page(p, Zero, FALSE, 0)]
    BY DEF FetchReadFails
  <1> QED BY <1>1, <1>2, <1>3, <1>4, <1>5, <1>6, LoadKeepsIInv

\* The page number is fresh, so the page is neither in the pool nor on disk, and
\* the eviction before it cannot put it there.
LEMMA NewPageKeepsIInv ==
  ASSUME IInv, NEW t \in Threads, NEW fd \in Fds, NewPage(t, fd)
  PROVE  IInv'
  <1> DEFINE no == fd2pageno_[fd]
             p == PageId(fd, no)
  <1>0. fd2pageno_ \in [Fds -> 0..MaxPages] /\ MaxPages \in Nat /\ no < MaxPages
    BY PageAssumption DEF IInv, TypeOK, NewPage
  <1>1. /\ no \in PageNos /\ p \in PageIds /\ p.page_no = no /\ p.fd = fd /\ Valid(p)
    BY <1>0, PageAssumption DEF PageIds, PageNos, PageId, Valid
  <1>2. ~(p.page_no < fd2pageno_[p.fd])
    BY <1>0, <1>1
  <1>3. VictimFrame \in Frames
    BY VictimFacts DEF NewPage, IInv
  <1>4. Zero \in Contents /\ disk'[p] = EOF
    <2>1. \A q \in PageIds :
             disk'[q] # EOF => Valid(q) /\ q.page_no < fd2pageno_[q.fd]
      BY <1>3, EvictionFacts DEF NewPage
    <2> QED BY <1>1, <1>2, <2>1 DEF Contents
  <1>5. page_table_[p] = NoFrame
    BY <1>1, <1>2 DEF IInv, AllocatedOnly
  <1>6. {t} \in SUBSET Threads /\ 1 = Cardinality({t}) /\ 1 \in Nat
    BY FS_Singleton
  <1>7. /\ VictimFrame # NoFrame /\ TakeVictim
        /\ disk' = DiskAfterEviction(VictimFrame)
        /\ page_table_' = TableAfterEviction(VictimFrame, p)
        /\ pages_' = [pages_ EXCEPT ![VictimFrame] = Page(p, Zero, FALSE, 1)]
        /\ GiveHandle(t, p, VictimFrame)
        /\ fd2pageno_' = [fd2pageno_ EXCEPT ![fd] = @ + 1]
    BY DEF NewPage
  <1>8. /\ fd2pageno_' \in [Fds -> 0..MaxPages]
        /\ \A e \in Fds : fd2pageno_[e] <= fd2pageno_'[e]
        /\ p.page_no < fd2pageno_'[p.fd]
    BY <1>0, <1>1, <1>7
  <1> HIDE DEF p, no
  <1>9. /\ handle' = [u \in Threads |-> [q \in PageIds |->
                        IF u \in {t} /\ q = p THEN VictimFrame ELSE handle[u][q]]]
        /\ wrote' = wrote
    BY <1>1, <1>7, GiveHandleFacts DEF IInv
  <1> QED BY <1>1, <1>4, <1>5, <1>6, <1>7, <1>8, <1>9, LoadKeepsIInv

-----------------------------------------------------------------------------
(* Calls that move no page and no pin.                                     *)

PageType == [id_ : PageIds, data_ : Contents, is_dirty_ : BOOLEAN, pin_count_ : Nat]

\* Writing into frames, or to disk, leaves the structure of the pool alone.
LEMMA StructureStays ==
  ASSUME IInv, UNCHANGED <<page_table_, free_list_, lru, handle>>,
         \A f \in Frames : /\ pages_'[f].id_ = pages_[f].id_
                           /\ pages_'[f].pin_count_ = pages_[f].pin_count_
  PROVE  PageTableConsistent' /\ FramesApart' /\ PinsCounted' /\ PointersStay'
  <1>0. /\ page_table_ \in [PageIds -> Frames \cup {NoFrame}]
        /\ handle \in [Threads -> [PageIds -> Frames \cup {NoFrame}]]
        /\ Listed \subseteq Frames /\ Evictable \subseteq Frames
    BY FreeListFacts, ElementOfSeq DEF IInv, TypeOK, ReplacerOK, Indexed, Evictable
  <1>1. PageTableConsistent'
    BY <1>0 DEF IInv, PageTableConsistent, Valid
  <1>2. FramesApart'
    <2>1. Listed' = Listed /\ Evictable' = Evictable
      BY DEF Listed, Evictable
    <2> QED BY <1>0, <2>1 DEF IInv, FramesApart, Valid
  <1>3. PinsCounted'
    <2> SUFFICES ASSUME NEW f \in Frames
                 PROVE  (pages_[f].pin_count_ =
                           IF Valid(pages_[f].id_)
                           THEN Cardinality(Holders(pages_[f].id_)) ELSE 0)'
      BY DEF PinsCounted
    <2>1. Holders(pages_[f].id_)' = Holders(pages_[f].id_)
      BY DEF Holders, Holds
    <2> QED BY <2>1 DEF IInv, PinsCounted, Valid
  <1>4. PointersStay'
    BY <1>0 DEF IInv, PointersStay, Holds
  <1> QED BY <1>1, <1>2, <1>3, <1>4

LEMMA ModifyKeepsIInv ==
  ASSUME IInv, NEW t \in Threads, NEW p \in PageIds, NEW d \in Data, Modify(t, p, d)
  PROVE  IInv'
  <1> DEFINE f == handle[t][p]
  <1>1. f \in Frames /\ pages_[f].id_ = p
    BY HeldIsMapped DEF Modify
  <1>2. /\ pages_ \in [Frames -> PageType]
        /\ wrote \in [Threads -> SUBSET PageIds]
        /\ d \in Contents
    BY DEF IInv, TypeOK, PageType, Contents
  <1>3. /\ pages_' = [pages_ EXCEPT ![f].data_ = d]
        /\ wrote' = [wrote EXCEPT ![t] = @ \cup {p}]
        /\ UNCHANGED <<page_table_, free_list_, lru, disk, fd2pageno_, handle>>
    BY DEF Modify, diskVars
  <1>4. Holds(t, p)
    BY DEF Modify
  <1> HIDE DEF f
  <1>5. /\ pages_' \in [Frames -> PageType]
        /\ \A g \in Frames : /\ pages_'[g].id_ = pages_[g].id_
                             /\ pages_'[g].pin_count_ = pages_[g].pin_count_
                             /\ g # f => pages_'[g] = pages_[g]
    BY <1>1, <1>2, <1>3 DEF PageType
  <1>6. PageTableConsistent' /\ FramesApart' /\ PinsCounted' /\ PointersStay'
    BY <1>3, <1>5, StructureStays
  <1>7. TypeOK'
    BY <1>2, <1>3, <1>5 DEF IInv, TypeOK, PageType
  <1>8. WritersHold'
    BY <1>2, <1>3, <1>4 DEF IInv, WritersHold, Holds
  <1>9. CleanMeansOnDisk'
    <2> SUFFICES ASSUME NEW g \in Frames, Valid(pages_'[g].id_), ~pages_'[g].is_dirty_,
                        \A u \in Threads : pages_'[g].id_ \notin wrote'[u]
                 PROVE  \/ disk'[pages_'[g].id_] = pages_'[g].data_
                        \/ disk'[pages_'[g].id_] = EOF /\ pages_'[g].data_ = Zero
      BY DEF CleanMeansOnDisk
    <2>1. g # f
      BY <1>1, <1>2, <1>3, <1>5
    <2>2. pages_'[g] = pages_[g]
      BY <1>5, <2>1
    <2>3. \A u \in Threads : pages_[g].id_ \notin wrote[u]
      BY <1>2, <1>3, <2>2
    <2> QED BY <1>3, <2>2, <2>3 DEF IInv, CleanMeansOnDisk
  <1>10. AllocatedOnly'
    BY <1>3 DEF IInv, AllocatedOnly, Holders, Holds
  <1> QED BY <1>6, <1>7, <1>8, <1>9, <1>10 DEF IInv

\* A flush writes every frame of a set F of frames that hold pages, and clears
\* their dirty flags.
LEMMA FlushKeepsIInv ==
  ASSUME IInv, NEW F \in SUBSET Frames,
         \A f \in F : Valid(pages_[f].id_),
         pages_' \in [Frames -> PageType],
         \A f \in F : pages_'[f] = [pages_[f] EXCEPT !.is_dirty_ = FALSE],
         \A f \in Frames \ F : pages_'[f] = pages_[f],
         disk' \in [PageIds -> Contents \cup {EOF}],
         \A f \in F : disk'[pages_[f].id_] = pages_[f].data_,
         \A q \in PageIds : \/ \E f \in F : pages_[f].id_ = q
                            \/ disk'[q] = disk[q]
                            \/ /\ disk[q] = EOF /\ disk'[q] = Zero /\ Valid(q)
                               /\ \E f \in F : /\ q.fd = pages_[f].id_.fd
                                               /\ q.page_no < pages_[f].id_.page_no,
         UNCHANGED <<page_table_, free_list_, lru, fd2pageno_, handle, wrote>>
  PROVE  IInv'
  <1>1. /\ pages_ \in [Frames -> PageType]
        /\ fd2pageno_ \in [Fds -> 0..MaxPages]
    BY DEF IInv, TypeOK, PageType
  <1>2. \A f \in Frames : /\ pages_'[f].id_ = pages_[f].id_
                          /\ pages_'[f].pin_count_ = pages_[f].pin_count_
                          /\ pages_'[f].data_ = pages_[f].data_
                          /\ f \notin F => pages_'[f] = pages_[f]
    <2> SUFFICES ASSUME NEW f \in Frames
                 PROVE  /\ pages_'[f].id_ = pages_[f].id_
                        /\ pages_'[f].pin_count_ = pages_[f].pin_count_
                        /\ pages_'[f].data_ = pages_[f].data_
                        /\ f \notin F => pages_'[f] = pages_[f]
      OBVIOUS
    <2>1. pages_[f] \in PageType
      BY <1>1
    <2>2. CASE f \in F
      BY <2>1, <2>2 DEF PageType
    <2>3. CASE f \notin F
      BY <2>3
    <2> QED BY <2>2, <2>3
  <1>3. PageTableConsistent' /\ FramesApart' /\ PinsCounted' /\ PointersStay'
    BY <1>2, StructureStays
  <1>4. TypeOK'
    BY <1>1 DEF IInv, TypeOK, PageType
  <1>5. WritersHold'
    BY DEF IInv, WritersHold, Holds
  <1>6. CleanMeansOnDisk'
    <2> SUFFICES ASSUME NEW g \in Frames, Valid(pages_[g].id_), ~pages_'[g].is_dirty_,
                        \A u \in Threads : pages_[g].id_ \notin wrote[u]
                 PROVE  \/ disk'[pages_[g].id_] = pages_[g].data_
                        \/ disk'[pages_[g].id_] = EOF /\ pages_[g].data_ = Zero
      BY <1>2 DEF CleanMeansOnDisk, Valid
    <2>1. CASE g \in F
      BY <2>1
    <2>2. CASE g \notin F
      <3>1. /\ pages_[g].id_ \in PageIds /\ pages_[g].data_ \in Contents
            /\ ~pages_[g].is_dirty_
        BY <1>1, <1>2, <2>2 DEF PageType
      <3>2. \/ disk[pages_[g].id_] = pages_[g].data_
            \/ disk[pages_[g].id_] = EOF /\ pages_[g].data_ = Zero
        BY <3>1 DEF IInv, CleanMeansOnDisk
      <3>3. \A f \in F : pages_[f].id_ # pages_[g].id_
        BY <2>2 DEF IInv, PageTableConsistent
      <3>4. \/ disk'[pages_[g].id_] = disk[pages_[g].id_]
            \/ disk[pages_[g].id_] = EOF /\ disk'[pages_[g].id_] = Zero
        BY <3>1, <3>3
      <3>5. pages_[g].data_ # EOF
        BY <3>1, DataAssumption DEF Contents
      <3> QED BY <3>2, <3>4, <3>5
    <2> QED BY <2>1, <2>2
  <1>7. AllocatedOnly'
    <2> SUFFICES ASSUME NEW q \in PageIds,
                        page_table_[q] # NoFrame \/ disk'[q] # EOF \/ Holders(q) # {}
                 PROVE  Valid(q) /\ q.page_no < fd2pageno_[q.fd]
      BY DEF AllocatedOnly, Holders, Holds
    <2>1. \A f \in F : /\ page_table_[pages_[f].id_] # NoFrame
                       /\ pages_[f].id_ \in PageIds
                       /\ pages_[f].id_.page_no < fd2pageno_[pages_[f].id_.fd]
      <3> SUFFICES ASSUME NEW f \in F
                   PROVE  /\ page_table_[pages_[f].id_] # NoFrame
                          /\ pages_[f].id_ \in PageIds
                          /\ pages_[f].id_.page_no < fd2pageno_[pages_[f].id_.fd]
        OBVIOUS
      <3>1. pages_[f].id_ \in PageIds
        BY <1>1 DEF PageType
      <3>2. page_table_[pages_[f].id_] # NoFrame
        BY FramesAssumption DEF IInv, PageTableConsistent, NoFrame
      <3> QED BY <3>1, <3>2 DEF IInv, AllocatedOnly
    <2>2. CASE page_table_[q] # NoFrame \/ disk[q] # EOF \/ Holders(q) # {}
      BY <2>2 DEF IInv, AllocatedOnly
    <2>3. CASE \E f \in F : pages_[f].id_ = q
      BY <2>1, <2>3
    <2>4. CASE /\ Valid(q)
               /\ \E f \in F : /\ q.fd = pages_[f].id_.fd
                               /\ q.page_no < pages_[f].id_.page_no
      <3>1. PICK f \in F : /\ q.fd = pages_[f].id_.fd
                           /\ q.page_no < pages_[f].id_.page_no
        BY <2>4
      <3>2. /\ q.page_no \in Int /\ pages_[f].id_.page_no \in Int
            /\ fd2pageno_[q.fd] \in Int
        BY <1>1, <2>1, PageAssumption DEF PageIds, PageNos
      <3>3. pages_[f].id_.page_no < fd2pageno_[q.fd]
        BY <2>1, <3>1
      <3> QED BY <2>4, <3>1, <3>2, <3>3
    <2> QED BY <2>2, <2>3, <2>4
  <1> QED BY <1>3, <1>4, <1>5, <1>6, <1>7 DEF IInv

LEMMA FlushPageKeepsIInv ==
  ASSUME IInv, NEW p \in PageIds, FlushPage(p)
  PROVE  IInv'
  <1> DEFINE f == page_table_[p]
  <1>1. /\ pages_ \in [Frames -> PageType]
        /\ disk \in [PageIds -> Contents \cup {EOF}]
        /\ f \in Frames /\ f # NoFrame
    BY DEF IInv, TypeOK, PageType, FlushPage
  <1>2. pages_[f].id_ = p /\ Valid(p) /\ pages_[f].data_ \in Contents
    BY <1>1 DEF IInv, PageTableConsistent, AllocatedOnly, PageType
  <1>3. /\ disk' = WritePage(disk, p, pages_[f].data_)
        /\ pages_' = [pages_ EXCEPT ![f].is_dirty_ = FALSE]
        /\ UNCHANGED <<page_table_, free_list_, lru, fd2pageno_, handle, wrote>>
    BY <1>2 DEF FlushPage, clientVars
  <1> HIDE DEF f
  <1>4. /\ disk' \in [PageIds -> Contents \cup {EOF}]
        /\ disk'[p] = pages_[f].data_
        /\ \A q \in PageIds \ {p} :
             \/ disk'[q] = disk[q]
             \/ /\ disk[q] = EOF /\ disk'[q] = Zero
                /\ q.fd = p.fd /\ Valid(q) /\ q.page_no < p.page_no
    BY <1>1, <1>2, <1>3, WritePageFacts
  <1>5. /\ pages_' \in [Frames -> PageType]
        /\ pages_'[f] = [pages_[f] EXCEPT !.is_dirty_ = FALSE]
        /\ \A g \in Frames \ {f} : pages_'[g] = pages_[g]
    BY <1>1, <1>3 DEF PageType
  <1>6. PICK F \in SUBSET Frames : F = {f}
    BY <1>1
  <1>7. \A q \in PageIds : \/ \E g \in F : pages_[g].id_ = q
                           \/ disk'[q] = disk[q]
                           \/ /\ disk[q] = EOF /\ disk'[q] = Zero /\ Valid(q)
                              /\ \E g \in F : /\ q.fd = pages_[g].id_.fd
                                              /\ q.page_no < pages_[g].id_.page_no
    BY <1>2, <1>4, <1>6
  <1>8. /\ \A g \in F : Valid(pages_[g].id_)
        /\ \A g \in F : pages_'[g] = [pages_[g] EXCEPT !.is_dirty_ = FALSE]
        /\ \A g \in Frames \ F : pages_'[g] = pages_[g]
        /\ \A g \in F : disk'[pages_[g].id_] = pages_[g].data_
    BY <1>2, <1>4, <1>5, <1>6
  <1>9. /\ pages_' \in [Frames -> PageType]
        /\ disk' \in [PageIds -> Contents \cup {EOF}]
        /\ UNCHANGED <<page_table_, free_list_, lru, fd2pageno_, handle, wrote>>
    BY <1>3, <1>4, <1>5
  <1>10. F \in SUBSET Frames
    BY <1>6
  <1> QED BY <1>7, <1>8, <1>9, <1>10, FlushKeepsIInv

LEMMA FlushFramesKeepsIInv ==
  ASSUME IInv, NEW fd \in Fds, NEW n, FlushFrames(fd, n)
  PROVE  IInv'
  <1>0. PICK F \in SUBSET Frames : F = FileFrames(fd, n)
    BY DEF FileFrames
  <1>1. /\ pages_ \in [Frames -> PageType]
        /\ disk \in [PageIds -> Contents \cup {EOF}]
    BY DEF IInv, TypeOK, PageType
  <1>2. F \in SUBSET Frames /\ \A f \in F : Valid(pages_[f].id_)
    BY <1>0 DEF FileFrames
  <1>3. /\ disk' = WriteFrames(F)
        /\ pages_' = [f \in Frames |->
                        IF f \in F THEN [pages_[f] EXCEPT !.is_dirty_ = FALSE]
                                   ELSE pages_[f]]
        /\ UNCHANGED <<page_table_, free_list_, lru, fd2pageno_, handle, wrote>>
    BY <1>0 DEF FlushFrames, clientVars
  <1>4. \A f \in F, g \in F : pages_[f].id_ = pages_[g].id_ => f = g
    BY <1>2 DEF IInv, PageTableConsistent
  <1>5. ASSUME NEW f \in F
        PROVE  FrameOf(F, pages_[f].id_) = f
    <2>1. f \in Int
      BY <1>2, PoolAssumption, MaxSizeAssumption
    <2>2. /\ pages_[f].id_ = pages_[f].id_
          /\ \A g \in F : pages_[g].id_ = pages_[f].id_ => g <= f
      BY <1>4, <2>1
    <2>3. \A g \in F : (/\ pages_[g].id_ = pages_[f].id_
                        /\ \A h \in F : pages_[h].id_ = pages_[f].id_ => h <= g) => g = f
      BY <1>4
    <2> QED BY <2>2, <2>3 DEF FrameOf
  <1>6. \A f \in F : disk'[pages_[f].id_] = pages_[f].data_
    <2> SUFFICES ASSUME NEW f \in F PROVE disk'[pages_[f].id_] = pages_[f].data_
      OBVIOUS
    <2>1. pages_[f].id_ \in PageIds
      BY <1>1, <1>2 DEF PageType
    <2> QED BY <1>3, <1>5, <2>1 DEF WriteFrames
  <1>7. \A q \in PageIds : \/ \E f \in F : pages_[f].id_ = q
                           \/ disk'[q] = disk[q]
                           \/ /\ disk[q] = EOF /\ disk'[q] = Zero /\ Valid(q)
                              /\ \E f \in F : /\ q.fd = pages_[f].id_.fd
                                              /\ q.page_no < pages_[f].id_.page_no
    BY <1>3 DEF WriteFrames
  <1>8. disk' \in [PageIds -> Contents \cup {EOF}]
    <2>1. \A q \in PageIds : disk'[q] \in Contents \cup {EOF}
      BY <1>1, <1>2, <1>6, <1>7 DEF PageType, Contents
    <2>2. disk' = [q \in PageIds |-> disk'[q]]
      BY <1>3 DEF WriteFrames
    <2> QED BY <2>1, <2>2
  <1>9. /\ pages_' \in [Frames -> PageType]
        /\ \A f \in F : pages_'[f] = [pages_[f] EXCEPT !.is_dirty_ = FALSE]
        /\ \A f \in Frames \ F : pages_'[f] = pages_[f]
    BY <1>1, <1>2, <1>3 DEF PageType
  <1>10. UNCHANGED <<page_table_, free_list_, lru, fd2pageno_, handle, wrote>>
    BY <1>3
  <1> QED BY <1>2, <1>6, <1>7, <1>8, <1>9, <1>10, FlushKeepsIInv

-----------------------------------------------------------------------------
(* Pins.                                                                   *)

\* The fields of a Page, when a pin count or a dirty flag is assigned.
LEMMA PageFields ==
  ASSUME NEW x \in PageType, NEW n, NEW b
  PROVE  /\ [x EXCEPT !.pin_count_ = n] = Page(x.id_, x.data_, x.is_dirty_, n)
         /\ [x EXCEPT !.pin_count_ = n, !.is_dirty_ = b] = Page(x.id_, x.data_, b, n)
  <1>1. DOMAIN x = {"id_", "data_", "is_dirty_", "pin_count_"}
    BY DEF PageType
  <1>2. x = [z \in DOMAIN x |-> x[z]]
    BY DEF PageType
  <1>3. [x EXCEPT !.pin_count_ = n] = Page(x.id_, x.data_, x.is_dirty_, n)
    BY <1>1, <1>2 DEF Page
  <1>4. [x EXCEPT !.pin_count_ = n, !.is_dirty_ = b] = Page(x.id_, x.data_, b, n)
    <2>1. [x EXCEPT !.pin_count_ = n, !.is_dirty_ = b]
            = [[x EXCEPT !.pin_count_ = n] EXCEPT !.is_dirty_ = b]
      OBVIOUS
    <2>2. [Page(x.id_, x.data_, x.is_dirty_, n) EXCEPT !.is_dirty_ = b]
            = Page(x.id_, x.data_, b, n)
      BY DEF Page
    <2> QED BY <1>3, <2>1, <2>2
  <1> QED BY <1>3, <1>4

\* Frame f and the set of evictable frames, after a call that changed the pins of
\* f's page p: thread t got a pointer to it or gave it back.
LEMMA PinChangeKeepsIInv ==
  ASSUME IInv, NEW t \in Threads, NEW p \in PageIds, NEW f \in Frames,
         page_table_[p] = f,
         NEW h \in {f, NoFrame}, NEW n \in Nat, NEW b \in BOOLEAN,
         pages_' = [pages_ EXCEPT ![f] = Page(p, pages_[f].data_, b, n)],
         handle' = [handle EXCEPT ![t][p] = h],
         n = Cardinality({u \in Threads : handle'[u][p] # NoFrame}),
         ReplacerOK(lru'),
         Evictable' \subseteq Evictable \cup {f},
         f \in Evictable' => n = 0,
         wrote' \in [Threads -> SUBSET PageIds],
         \A u \in Threads : \A q \in wrote'[u] : q \in wrote[u] /\ handle'[u][q] # NoFrame,
         ~b => ~pages_[f].is_dirty_ /\ (\A u \in Threads : p \notin wrote'[u] =>
                                                          p \notin wrote[u]),
         UNCHANGED <<page_table_, free_list_, disk, fd2pageno_>>,
         \A u \in Threads, q \in PageIds \ {p} : q \in wrote[u] => q \in wrote'[u]
  PROVE  IInv'
  <1>1. /\ pages_ \in [Frames -> PageType]
        /\ page_table_ \in [PageIds -> Frames \cup {NoFrame}]
        /\ handle \in [Threads -> [PageIds -> Frames \cup {NoFrame}]]
        /\ wrote \in [Threads -> SUBSET PageIds]
        /\ Evictable \subseteq Frames /\ Listed \subseteq Frames
    BY FreeListFacts, ElementOfSeq
    DEF IInv, TypeOK, PageType, ReplacerOK, Indexed, Evictable
  <1>2. /\ f # NoFrame /\ pages_[f].id_ = p
        /\ Valid(p) /\ p.page_no < fd2pageno_[p.fd]
    <2>1. f # NoFrame
      BY FramesAssumption DEF NoFrame
    <2> QED BY <2>1 DEF IInv, PageTableConsistent, AllocatedOnly
  <1>3. /\ pages_' \in [Frames -> PageType]
        /\ pages_'[f] = Page(p, pages_[f].data_, b, n)
        /\ \A g \in Frames \ {f} : pages_'[g] = pages_[g]
    BY <1>1 DEF PageType, Page
  <1>4. /\ pages_'[f].id_ = p /\ pages_'[f].pin_count_ = n
        /\ pages_'[f].data_ = pages_[f].data_ /\ pages_'[f].is_dirty_ = b
    BY <1>3 DEF Page
  <1>5. \A u \in Threads, q \in PageIds :
          handle'[u][q] = IF u = t /\ q = p THEN h ELSE handle[u][q]
    BY <1>1
  <1>6. \A g \in Frames : pages_'[g].id_ = pages_[g].id_
    BY <1>2, <1>3, <1>4
  <1>a. TypeOK'
    <2>1. handle' \in [Threads -> [PageIds -> Frames \cup {NoFrame}]]
      BY <1>1
    <2> QED BY <1>1, <1>3, <2>1 DEF IInv, TypeOK, PageType
  <1>b. PageTableConsistent'
    BY <1>1, <1>6 DEF IInv, PageTableConsistent, Valid
  <1>c. FramesApart'
    <2>1. Listed' = Listed /\ f \notin Listed
      BY <1>2 DEF Listed, IInv, FramesApart
    <2>2. \A g \in Listed' : ~Valid(pages_'[g].id_) /\ pages_'[g].pin_count_ = 0
      BY <1>1, <1>3, <2>1 DEF IInv, FramesApart
    <2>3. \A g \in Evictable' : Valid(pages_'[g].id_) /\ pages_'[g].pin_count_ = 0
      BY <1>1, <1>2, <1>3, <1>4 DEF IInv, FramesApart
    <2> QED BY <2>1, <2>2, <2>3 DEF IInv, FramesApart
  <1>d. PinsCounted'
    <2> SUFFICES ASSUME NEW g \in Frames
                 PROVE  (pages_[g].pin_count_ =
                           IF Valid(pages_[g].id_)
                           THEN Cardinality(Holders(pages_[g].id_)) ELSE 0)'
      BY DEF PinsCounted
    <2>1. CASE g = f
      <3>1. Holders(pages_[g].id_)' = {u \in Threads : handle'[u][p] # NoFrame}
        BY <1>4, <2>1 DEF Holders, Holds
      <3> QED BY <1>2, <1>4, <2>1, <3>1 DEF Valid
    <2>2. CASE g # f
      <3>1. pages_'[g] = pages_[g] /\ pages_[g].id_ \in PageIds
        BY <1>1, <1>3, <2>2 DEF PageType
      <3>2. CASE ~Valid(pages_[g].id_)
        BY <3>1, <3>2 DEF IInv, PinsCounted, Valid
      <3>3. CASE Valid(pages_[g].id_)
        <4>1. pages_[g].id_ # p
          BY <2>2, <3>3 DEF IInv, PageTableConsistent
        <4>2. \A u \in Threads : handle'[u][pages_[g].id_] = handle[u][pages_[g].id_]
          BY <1>5, <3>1, <4>1
        <4>3. Holders(pages_[g].id_)' = Holders(pages_[g].id_)
          BY <3>1, <4>2 DEF Holders, Holds
        <4> QED BY <3>1, <3>3, <4>3 DEF IInv, PinsCounted, Valid
      <3> QED BY <3>2, <3>3
    <2> QED BY <2>1, <2>2
  <1>e. PointersStay'
    <2> SUFFICES ASSUME NEW u \in Threads, NEW q \in PageIds, handle'[u][q] # NoFrame
                 PROVE  pages_'[handle'[u][q]].id_ = q
      BY DEF PointersStay, Holds
    <2>1. CASE u = t /\ q = p
      BY <1>4, <1>5, <2>1
    <2>2. CASE ~(u = t /\ q = p)
      <3>1. handle'[u][q] = handle[u][q] /\ handle[u][q] \in Frames
        BY <1>1, <1>5, <2>2
      <3>2. pages_[handle[u][q]].id_ = q
        BY <3>1 DEF IInv, PointersStay, Holds
      <3> QED BY <1>6, <3>1, <3>2
    <2> QED BY <2>1, <2>2
  <1>f. WritersHold'
    BY DEF WritersHold, Holds
  <1>g. CleanMeansOnDisk'
    <2> SUFFICES ASSUME NEW g \in Frames, Valid(pages_[g].id_), ~pages_'[g].is_dirty_,
                        \A u \in Threads : pages_[g].id_ \notin wrote'[u]
                 PROVE  \/ disk[pages_[g].id_] = pages_'[g].data_
                        \/ disk[pages_[g].id_] = EOF /\ pages_'[g].data_ = Zero
      BY <1>6 DEF CleanMeansOnDisk, Valid
    <2>1. CASE g = f
      <3>1. ~pages_[f].is_dirty_ /\ \A u \in Threads : p \notin wrote[u]
        BY <1>2, <1>4, <2>1
      <3> QED BY <1>2, <1>4, <2>1, <3>1 DEF IInv, CleanMeansOnDisk
    <2>2. CASE g # f
      <3>1. pages_'[g] = pages_[g] /\ pages_[g].id_ \in PageIds
        BY <1>1, <1>3, <2>2 DEF PageType
      <3>2. pages_[g].id_ # p
        BY <2>2 DEF IInv, PageTableConsistent
      <3>3. \A u \in Threads : pages_[g].id_ \notin wrote[u]
        BY <3>1, <3>2
      <3> QED BY <3>1, <3>3 DEF IInv, CleanMeansOnDisk
    <2> QED BY <2>1, <2>2
  <1>h. AllocatedOnly'
    <2> SUFFICES ASSUME NEW q \in PageIds,
                        page_table_[q] # NoFrame \/ disk[q] # EOF \/ Holders(q)' # {}
                 PROVE  Valid(q) /\ q.page_no < fd2pageno_[q.fd]
      BY DEF AllocatedOnly
    <2>1. CASE q = p
      BY <1>2, <2>1
    <2>2. CASE q # p
      <3>1. Holders(q)' = Holders(q)
        BY <1>5, <2>2 DEF Holders, Holds
      <3> QED BY <3>1 DEF IInv, AllocatedOnly
    <2> QED BY <2>1, <2>2
  <1> QED BY <1>a, <1>b, <1>c, <1>d, <1>e, <1>f, <1>g, <1>h DEF IInv

LEMMA FetchHitKeepsIInv ==
  ASSUME IInv, NEW t \in Threads, NEW p \in PageIds, FetchHit(t, p)
  PROVE  IInv'
  <1>1. PICK f \in Frames : f = page_table_[p]
    BY DEF FetchHit, IInv, TypeOK
  <1>2. /\ pages_ \in [Frames -> PageType]
        /\ handle \in [Threads -> [PageIds -> Frames \cup {NoFrame}]]
        /\ wrote \in [Threads -> SUBSET PageIds]
        /\ ReplacerOK(lru)
    BY DEF IInv, TypeOK, PageType
  <1>3. f # NoFrame /\ pages_[f].id_ = p /\ Valid(p)
    BY <1>1 DEF FetchHit, IInv, PageTableConsistent, AllocatedOnly
  <1>4. /\ pages_' = [pages_ EXCEPT ![f].pin_count_ = @ + 1]
        /\ lru' = AfterPin(lru, f)
        /\ handle' = [handle EXCEPT ![t][p] = f]
        /\ UNCHANGED <<page_table_, free_list_, disk, fd2pageno_, wrote>>
        /\ ~Holds(t, p)
    BY <1>1 DEF FetchHit, GiveHandle, diskVars
  <1>5. PICK n \in Nat : n = pages_[f].pin_count_ + 1
    BY <1>2 DEF PageType
  <1>6. PICK b \in BOOLEAN : b = pages_[f].is_dirty_
    BY <1>2 DEF PageType
  <1>7. pages_' = [pages_ EXCEPT ![f] = Page(p, pages_[f].data_, b, n)]
    <2>1. pages_[f] \in PageType
      BY <1>2
    <2>2. [pages_[f] EXCEPT !.pin_count_ = n] = Page(p, pages_[f].data_, b, n)
      BY <1>3, <1>6, <2>1, PageFields
    <2>3. pages_' = [pages_ EXCEPT ![f] = [pages_[f] EXCEPT !.pin_count_ = n]]
      BY <1>4, <1>5
    <2> QED BY <2>2, <2>3
  <1>8. n = Cardinality({u \in Threads : handle'[u][p] # NoFrame})
    <2>1. {u \in Threads : handle'[u][p] # NoFrame} = Holders(p) \cup {t}
      BY <1>2, <1>3, <1>4 DEF Holders, Holds
    <2>2. t \notin Holders(p) /\ pages_[f].pin_count_ = Cardinality(Holders(p))
      BY <1>3, <1>4 DEF Holders, IInv, PinsCounted
    <2>3. Cardinality(Holders(p) \cup {t}) = Cardinality(Holders(p)) + 1
      BY <2>2, HoldersFinite, FS_AddElement
    <2> QED BY <1>5, <2>1, <2>2, <2>3
  <1>9. ReplacerOK(lru') /\ Evictable' = Evictable \ {f}
    BY <1>2, <1>4, AfterPinOK DEF Evictable
  <1>10. \A u \in Threads : \A q \in wrote'[u] : q \in wrote[u] /\ handle'[u][q] # NoFrame
    BY <1>2, <1>3, <1>4 DEF IInv, WritersHold, Holds
  <1>11. ~b => ~pages_[f].is_dirty_ /\ (\A u \in Threads : p \notin wrote'[u] =>
                                                          p \notin wrote[u])
    BY <1>4, <1>6
  <1>12. /\ n \in Nat /\ b \in BOOLEAN
         /\ f \in {f, NoFrame}
         /\ Evictable' \subseteq Evictable \cup {f}
         /\ f \in Evictable' => n = 0
         /\ wrote' \in [Threads -> SUBSET PageIds]
         /\ \A u \in Threads, q \in PageIds \ {p} : q \in wrote[u] => q \in wrote'[u]
         /\ handle' = [handle EXCEPT ![t][p] = f]
         /\ page_table_[p] = f
         /\ UNCHANGED <<page_table_, free_list_, disk, fd2pageno_>>
    BY <1>1, <1>2, <1>4, <1>5, <1>6, <1>9
  <1> QED BY <1>7, <1>8, <1>9, <1>10, <1>11, <1>12, PinChangeKeepsIInv

LEMMA UnpinPageKeepsIInv ==
  ASSUME IInv, NEW t \in Threads, NEW p \in PageIds, NEW is_dirty \in BOOLEAN,
         UnpinPage(t, p, is_dirty)
  PROVE  IInv'
  <1>1. PICK f \in Frames : f = page_table_[p]
    BY DEF UnpinPage, IInv, TypeOK
  <1>2. /\ pages_ \in [Frames -> PageType]
        /\ handle \in [Threads -> [PageIds -> Frames \cup {NoFrame}]]
        /\ wrote \in [Threads -> SUBSET PageIds]
        /\ ReplacerOK(lru)
    BY DEF IInv, TypeOK, PageType
  <1>3. f # NoFrame /\ pages_[f].id_ = p /\ Valid(p)
    BY <1>1 DEF UnpinPage, IInv, PageTableConsistent, AllocatedOnly
  <1>4. /\ Holds(t, p) /\ (p \in wrote[t] => is_dirty)
        /\ pages_' = [pages_ EXCEPT ![f].pin_count_ = @ - 1,
                                    ![f].is_dirty_ = @ \/ is_dirty]
        /\ lru' = IF pages_[f].pin_count_ = 1 THEN AfterUnpin(lru, f) ELSE lru
        /\ handle' = [handle EXCEPT ![t][p] = NoFrame]
        /\ wrote' = [wrote EXCEPT ![t] = @ \ {p}]
        /\ UNCHANGED <<page_table_, free_list_, disk, fd2pageno_>>
        /\ pages_[f].pin_count_ > 0
    BY <1>1 DEF UnpinPage, diskVars
  <1>5. PICK n \in Nat : n = pages_[f].pin_count_ - 1
    BY <1>2, <1>4 DEF PageType
  <1>6. PICK b \in BOOLEAN : b = (pages_[f].is_dirty_ \/ is_dirty)
    BY <1>2 DEF PageType
  <1>7. pages_' = [pages_ EXCEPT ![f] = Page(p, pages_[f].data_, b, n)]
    <2>1. pages_[f] \in PageType
      BY <1>2
    <2>2. [pages_[f] EXCEPT !.pin_count_ = n, !.is_dirty_ = b]
            = Page(p, pages_[f].data_, b, n)
      BY <1>3, <2>1, PageFields
    <2>3. pages_' = [pages_ EXCEPT ![f] = [pages_[f] EXCEPT !.pin_count_ = n,
                                                            !.is_dirty_ = b]]
      BY <1>2, <1>4, <1>5, <1>6, <2>1 DEF PageType
    <2> QED BY <2>2, <2>3
  <1>8. n = Cardinality({u \in Threads : handle'[u][p] # NoFrame})
    <2>1. {u \in Threads : handle'[u][p] # NoFrame} = Holders(p) \ {t}
      BY <1>2, <1>3, <1>4 DEF Holders, Holds
    <2>2. t \in Holders(p) /\ pages_[f].pin_count_ = Cardinality(Holders(p))
      BY <1>3, <1>4 DEF Holders, IInv, PinsCounted
    <2> QED BY <1>5, <2>1, <2>2, HoldersFinite, FS_RemoveElement
  <1>9. /\ ReplacerOK(lru')
        /\ Evictable' \subseteq Evictable \cup {f}
        /\ f \in Evictable' => n = 0
    <2>1. CASE pages_[f].pin_count_ = 1
      <3>1. lru' = AfterUnpin(lru, f)
        BY <1>4, <2>1
      <3>2. ReplacerOK(lru')
        BY <1>2, <3>1, AfterUnpinOK
      <3>3. Evictable' \subseteq Evictable \cup {f}
        BY <3>1 DEF AfterUnpin, Evictable
      <3> QED BY <1>5, <2>1, <3>2, <3>3
    <2>2. CASE pages_[f].pin_count_ # 1
      <3>1. lru' = lru
        BY <1>4, <2>2
      <3>2. f \notin Evictable
        BY <1>4 DEF IInv, FramesApart
      <3> QED BY <1>2, <3>1, <3>2 DEF Evictable
    <2> QED BY <2>1, <2>2
  <1>10. \A u \in Threads : \A q \in wrote'[u] : q \in wrote[u] /\ handle'[u][q] # NoFrame
    <2> SUFFICES ASSUME NEW u \in Threads, NEW q \in wrote'[u]
                 PROVE  q \in wrote[u] /\ handle'[u][q] # NoFrame
      OBVIOUS
    <2>1. q \in wrote[u] /\ q \in PageIds /\ ~(u = t /\ q = p)
      BY <1>2, <1>4
    <2>2. handle[u][q] # NoFrame
      BY <2>1 DEF IInv, WritersHold, Holds
    <2> QED BY <1>2, <1>4, <2>1, <2>2
  <1>11. ~b => ~pages_[f].is_dirty_ /\ (\A u \in Threads : p \notin wrote'[u] =>
                                                          p \notin wrote[u])
    BY <1>2, <1>4, <1>6 DEF PageType
  <1>12. /\ n \in Nat /\ b \in BOOLEAN
         /\ NoFrame \in {f, NoFrame}
         /\ wrote' \in [Threads -> SUBSET PageIds]
         /\ \A u \in Threads, q \in PageIds \ {p} : q \in wrote[u] => q \in wrote'[u]
         /\ handle' = [handle EXCEPT ![t][p] = NoFrame]
         /\ page_table_[p] = f
         /\ UNCHANGED <<page_table_, free_list_, disk, fd2pageno_>>
    BY <1>1, <1>2, <1>4, <1>5, <1>6
  <1> QED BY <1>7, <1>8, <1>9, <1>10, <1>11, <1>12, PinChangeKeepsIInv

-----------------------------------------------------------------------------
(* Failed evictions and deletions.                                         *)

\* A frame whose dirty page could not be written is lost to the pool, but stays
\* consistent: the page is still found in it.
LEMMA EvictionWriteFailsKeepsIInv ==
  ASSUME IInv, EvictionWriteFails, UNCHANGED <<disk, handle, wrote>>,
         fd2pageno_' \in [Fds -> 0..MaxPages],
         \A fd \in Fds : fd2pageno_[fd] <= fd2pageno_'[fd]
  PROVE  IInv'
  <1>1. /\ ReplacerOK(lru')
        /\ free_list_' \in Seq(Frames)
        /\ \A i, j \in 1..Len(free_list_') : free_list_'[i] = free_list_'[j] => i = j
        /\ Listed' = Listed \ {VictimFrame}
        /\ Evictable' = Evictable \ {VictimFrame}
    BY VictimFacts DEF IInv, EvictionWriteFails
  <1>2. UNCHANGED <<pages_, page_table_>>
    BY DEF EvictionWriteFails
  <1>3. TypeOK'
    BY <1>1, <1>2 DEF IInv, TypeOK
  <1>4. FramesApart'
    BY <1>1, <1>2 DEF IInv, FramesApart
  <1>5. PageTableConsistent' /\ PinsCounted' /\ PointersStay' /\ WritersHold'
        /\ CleanMeansOnDisk'
    BY <1>2 DEF IInv, PageTableConsistent, PinsCounted, PointersStay, WritersHold,
                CleanMeansOnDisk, Holders, Holds
  <1>6. AllocatedOnly'
    <2> SUFFICES ASSUME NEW q \in PageIds,
                        page_table_[q] # NoFrame \/ disk[q] # EOF \/ Holders(q) # {}
                 PROVE  Valid(q) /\ q.page_no < fd2pageno_'[q.fd]
      BY <1>2 DEF AllocatedOnly, Holders, Holds
    <2>1. Valid(q) /\ q.page_no < fd2pageno_[q.fd]
      BY DEF IInv, AllocatedOnly
    <2>2. fd2pageno_ \in [Fds -> 0..MaxPages]
      BY DEF IInv, TypeOK
    <2>3. /\ q.page_no \in Int /\ fd2pageno_[q.fd] \in Int /\ fd2pageno_'[q.fd] \in Int
          /\ fd2pageno_[q.fd] <= fd2pageno_'[q.fd]
      BY <2>2, PageAssumption DEF PageIds, PageNos
    <2> QED BY <2>1, <2>3
  <1> QED BY <1>3, <1>4, <1>5, <1>6 DEF IInv

LEMMA FetchWriteFailsKeepsIInv ==
  ASSUME IInv, NEW t \in Threads, NEW p \in PageIds, FetchWriteFails(t, p)
  PROVE  IInv'
  <1>1. EvictionWriteFails /\ UNCHANGED <<disk, fd2pageno_, handle, wrote>>
    BY DEF FetchWriteFails, diskVars, clientVars
  <1>2. fd2pageno_ \in [Fds -> 0..MaxPages] /\ MaxPages \in Nat
    BY PageAssumption DEF IInv, TypeOK
  <1>3. /\ fd2pageno_' \in [Fds -> 0..MaxPages]
        /\ \A fd \in Fds : fd2pageno_[fd] <= fd2pageno_'[fd]
    BY <1>1, <1>2
  <1> QED BY <1>1, <1>3, EvictionWriteFailsKeepsIInv

LEMMA NewWriteFailsKeepsIInv ==
  ASSUME IInv, NEW t \in Threads, NEW fd \in Fds, NewWriteFails(t, fd)
  PROVE  IInv'
  <1>1. EvictionWriteFails /\ UNCHANGED <<disk, handle, wrote>>
    BY DEF NewWriteFails, clientVars
  <1>2. fd2pageno_ \in [Fds -> 0..MaxPages] /\ MaxPages \in Nat
    BY PageAssumption DEF IInv, TypeOK
  <1>3. /\ fd2pageno_' \in [Fds -> 0..MaxPages]
        /\ \A e \in Fds : fd2pageno_[e] <= fd2pageno_'[e]
    BY <1>2 DEF NewWriteFails
  <1> QED BY <1>1, <1>3, EvictionWriteFailsKeepsIInv

LEMMA DeletePageKeepsIInv ==
  ASSUME IInv, NEW p \in PageIds, DeletePage(p)
  PROVE  IInv'
  <1>1. PICK f \in Frames : f = page_table_[p]
    BY DEF DeletePage, IInv, TypeOK
  <1> DEFINE blank == Page(PageId(p.fd, INVALID_PAGE_ID), Zero, FALSE, 0)
  <1>2. /\ pages_ \in [Frames -> PageType]
        /\ page_table_ \in [PageIds -> Frames \cup {NoFrame}]
        /\ handle \in [Threads -> [PageIds -> Frames \cup {NoFrame}]]
        /\ fd2pageno_ \in [Fds -> 0..MaxPages]
        /\ ReplacerOK(lru)
        /\ Evictable \subseteq Frames /\ Listed \subseteq Frames
    BY FreeListFacts, ElementOfSeq
    DEF IInv, TypeOK, PageType, ReplacerOK, Indexed, Evictable
  <1>3. f # NoFrame /\ pages_[f].id_ = p /\ Valid(p)
    BY <1>1 DEF DeletePage, IInv, PageTableConsistent, AllocatedOnly
  <1>4. /\ pages_[f].pin_count_ <= 0
        /\ disk' = IF pages_[f].is_dirty_ THEN WritePage(disk, p, pages_[f].data_) ELSE disk
        /\ page_table_' = [page_table_ EXCEPT ![p] = NoFrame]
        /\ pages_' = [pages_ EXCEPT ![f] = blank]
        /\ free_list_' = Append(free_list_, f)
        /\ lru' = AfterPin(lru, f)
        /\ UNCHANGED <<fd2pageno_, handle, wrote>>
    BY <1>1, <1>3 DEF DeletePage, clientVars
  <1>5. pages_[f].pin_count_ = 0
    BY <1>2, <1>4 DEF PageType
  <1>6. /\ \A t \in Threads, q \in PageIds : handle[t][q] # f
        /\ Holders(p) = {}
    BY <1>3, <1>5, UnpinnedIsUnused
  <1>7. disk' = DiskAfterEviction(f)
    BY <1>3, <1>4 DEF DiskAfterEviction
  <1>8. /\ disk' \in [PageIds -> Contents \cup {EOF}]
        /\ \A q \in PageIds \ {p} :
             \/ disk'[q] = disk[q]
             \/ disk[q] = EOF /\ disk'[q] = Zero
        /\ \A q \in PageIds :
             disk'[q] # EOF => Valid(q) /\ q.page_no < fd2pageno_[q.fd]
    BY <1>3, <1>7, EvictionFacts
  <1>9. f \notin Listed
    BY <1>3 DEF IInv, FramesApart
  <1>10. /\ free_list_' \in Seq(Frames)
         /\ \A i, j \in 1..Len(free_list_') : free_list_'[i] = free_list_'[j] => i = j
         /\ Listed' = Listed \cup {f}
    <2>1. Listed' = {free_list_'[i] : i \in 1..Len(free_list_')}
      BY DEF Listed
    <2> QED BY <1>4, <1>9, <2>1, FreeListAppend DEF IInv
  <1>11. ReplacerOK(lru') /\ Evictable' = Evictable \ {f}
    BY <1>2, <1>4, AfterPinOK DEF Evictable
  <1>12. blank \in PageType /\ ~Valid(blank.id_) /\ blank.pin_count_ = 0
    BY PageAssumption DEF PageType, Page, PageId, PageIds, Contents, Valid
  <1> HIDE DEF blank
  <1>13. /\ pages_' \in [Frames -> PageType]
         /\ pages_'[f] = blank
         /\ \A g \in Frames \ {f} : pages_'[g] = pages_[g]
    BY <1>2, <1>4, <1>12
  <1>14. /\ page_table_' \in [PageIds -> Frames \cup {NoFrame}]
         /\ page_table_'[p] = NoFrame
         /\ \A q \in PageIds \ {p} : page_table_'[q] = page_table_[q]
    BY <1>2, <1>4
  <1>15. \A g \in Frames : Valid(pages_[g].id_) /\ g # f => pages_[g].id_ # p
    BY <1>1 DEF IInv, PageTableConsistent
  <1>a. TypeOK'
    BY <1>2, <1>4, <1>8, <1>10, <1>11, <1>13, <1>14 DEF IInv, TypeOK, PageType
  <1>b. PageTableConsistent'
    <2>1. ASSUME NEW q \in PageIds, page_table_'[q] # NoFrame
          PROVE  pages_'[page_table_'[q]].id_ = q
      <3>1. q # p /\ page_table_'[q] = page_table_[q] /\ page_table_[q] \in Frames
        BY <1>2, <1>14, <2>1
      <3>2. pages_[page_table_[q]].id_ = q
        BY <2>1, <3>1 DEF IInv, PageTableConsistent
      <3>3. page_table_[q] # f
        BY <1>3, <3>1, <3>2
      <3> QED BY <1>13, <3>1, <3>2, <3>3
    <2>2. ASSUME NEW g \in Frames, Valid(pages_'[g].id_)
          PROVE  page_table_'[pages_'[g].id_] = g
      <3>1. g # f /\ pages_'[g] = pages_[g] /\ pages_[g].id_ \in PageIds
        BY <1>2, <1>12, <1>13, <2>2 DEF PageType
      <3>2. pages_[g].id_ # p
        BY <1>15, <2>2, <3>1
      <3> QED BY <1>14, <2>2, <3>1, <3>2 DEF IInv, PageTableConsistent
    <2> QED BY <2>1, <2>2 DEF PageTableConsistent
  <1>c. FramesApart'
    <2>1. \A g \in Listed' : ~Valid(pages_'[g].id_) /\ pages_'[g].pin_count_ = 0
      BY <1>2, <1>10, <1>12, <1>13 DEF IInv, FramesApart
    <2>2. \A g \in Evictable' : Valid(pages_'[g].id_) /\ pages_'[g].pin_count_ = 0
      BY <1>2, <1>11, <1>13 DEF IInv, FramesApart
    <2>3. Listed' \cap Evictable' = {}
      BY <1>10, <1>11 DEF IInv, FramesApart
    <2> QED BY <1>10, <2>1, <2>2, <2>3 DEF FramesApart
  <1>d. PinsCounted'
    <2> SUFFICES ASSUME NEW g \in Frames
                 PROVE  (pages_[g].pin_count_ =
                           IF Valid(pages_[g].id_)
                           THEN Cardinality(Holders(pages_[g].id_)) ELSE 0)'
      BY DEF PinsCounted
    <2>1. CASE g = f
      BY <1>12, <1>13, <2>1 DEF Valid
    <2>2. CASE g # f
      <3>1. pages_'[g] = pages_[g]
        BY <1>13, <2>2
      <3>2. Holders(pages_[g].id_)' = Holders(pages_[g].id_)
        BY <1>4, <3>1 DEF Holders, Holds
      <3> QED BY <3>1, <3>2 DEF IInv, PinsCounted, Valid
    <2> QED BY <2>1, <2>2
  <1>e. PointersStay' /\ WritersHold'
    BY <1>2, <1>4, <1>6, <1>13 DEF IInv, PointersStay, WritersHold, Holds
  <1>f. CleanMeansOnDisk'
    <2> SUFFICES ASSUME NEW g \in Frames, Valid(pages_'[g].id_), ~pages_'[g].is_dirty_,
                        \A u \in Threads : pages_'[g].id_ \notin wrote[u]
                 PROVE  \/ disk'[pages_'[g].id_] = pages_'[g].data_
                        \/ disk'[pages_'[g].id_] = EOF /\ pages_'[g].data_ = Zero
      BY <1>4 DEF CleanMeansOnDisk
    <2>1. /\ pages_'[g] = pages_[g] /\ g # f
          /\ pages_[g].id_ \in PageIds /\ pages_[g].data_ \in Contents
      BY <1>2, <1>12, <1>13 DEF PageType
    <2>2. \/ disk[pages_[g].id_] = pages_[g].data_
          \/ disk[pages_[g].id_] = EOF /\ pages_[g].data_ = Zero
      BY <2>1 DEF IInv, CleanMeansOnDisk
    <2>3. pages_[g].id_ # p
      BY <1>15, <2>1
    <2>4. \/ disk'[pages_[g].id_] = disk[pages_[g].id_]
          \/ disk[pages_[g].id_] = EOF /\ disk'[pages_[g].id_] = Zero
      BY <1>8, <2>1, <2>3
    <2>5. pages_[g].data_ # EOF
      BY <2>1, DataAssumption DEF Contents
    <2> QED BY <2>1, <2>2, <2>4, <2>5
  <1>g. AllocatedOnly'
    <2> SUFFICES ASSUME NEW q \in PageIds,
                        page_table_'[q] # NoFrame \/ disk'[q] # EOF \/ Holders(q) # {}
                 PROVE  Valid(q) /\ q.page_no < fd2pageno_[q.fd]
      BY <1>4 DEF AllocatedOnly, Holders, Holds
    <2>1. page_table_'[q] # NoFrame => page_table_[q] # NoFrame
      BY <1>14
    <2> QED BY <1>8, <2>1 DEF IInv, AllocatedOnly
  <1> QED BY <1>a, <1>b, <1>c, <1>d, <1>e, <1>f, <1>g DEF IInv

-----------------------------------------------------------------------------
(* The theorems.                                                           *)

LEMMA InitIInv == Init => IInv
  <1> SUFFICES ASSUME Init PROVE IInv
    OBVIOUS
  <1>1. PICK fd \in Fds :
          pages_ = [f \in Frames |-> Page(PageId(fd, INVALID_PAGE_ID), Zero, FALSE, 0)]
    BY DEF Init
  <1>2. PICK d \in Data :
          disk = [p \in PageIds |-> IF Valid(p) /\ p.page_no < OldPages THEN d ELSE EOF]
    BY DEF Init
  <1> DEFINE blank == Page(PageId(fd, INVALID_PAGE_ID), Zero, FALSE, 0)
  <1>3. blank \in PageType /\ ~Valid(blank.id_) /\ blank.pin_count_ = 0
    BY PageAssumption DEF PageType, Page, PageId, PageIds, Contents, Valid
  <1>4. /\ page_table_ = [p \in PageIds |-> NoFrame]
        /\ free_list_ = [i \in 1..max_size_ |-> i - 1]
        /\ lru = EmptyReplacer
        /\ fd2pageno_ = [e \in Fds |-> OldPages]
        /\ handle = [t \in Threads |-> [p \in PageIds |-> NoFrame]]
        /\ wrote = [t \in Threads |-> {}]
    BY DEF Init
  <1>5. pages_ = [f \in Frames |-> blank]
    BY <1>1
  <1> HIDE DEF blank
  <1>6. ReplacerOK(lru) /\ Evictable = {}
    BY <1>4, EmptySeq DEF EmptyReplacer, ReplacerOK, Indexed, Evictable
  <1>7. free_list_ \in Seq(Frames) /\ Len(free_list_) = max_size_
    <2>1. free_list_ \in [1..max_size_ -> Frames]
      BY <1>4, PoolAssumption, MaxSizeAssumption
    <2> QED BY <2>1, MaxSizeAssumption, IsASeq, LenProperties
  <1>8. Listed \subseteq Frames
    BY <1>7, ElementOfSeq DEF Listed
  <1>9. TypeOK
    BY <1>2, <1>3, <1>4, <1>5, <1>6, <1>7, PageAssumption
    DEF TypeOK, PageType, Contents
  <1>10. FramesApart
    <2>1. \A i, j \in 1..Len(free_list_) : free_list_[i] = free_list_[j] => i = j
      BY <1>4, <1>7, MaxSizeAssumption
    <2> QED BY <1>3, <1>5, <1>6, <1>8, <2>1 DEF FramesApart
  <1>11. /\ PageTableConsistent /\ PinsCounted /\ PointersStay /\ WritersHold
         /\ CleanMeansOnDisk
    BY <1>3, <1>4, <1>5
    DEF PageTableConsistent, PinsCounted, PointersStay, WritersHold, CleanMeansOnDisk, Holds
  <1>12. AllocatedOnly
    <2> SUFFICES ASSUME NEW q \in PageIds,
                        page_table_[q] # NoFrame \/ disk[q] # EOF \/ Holders(q) # {}
                 PROVE  Valid(q) /\ q.page_no < fd2pageno_[q.fd]
      BY DEF AllocatedOnly
    <2>1. Holders(q) = {} /\ page_table_[q] = NoFrame
      BY <1>4 DEF Holders, Holds
    <2> QED BY <1>2, <1>4, <2>1 DEF PageIds
  <1> QED BY <1>9, <1>10, <1>11, <1>12 DEF IInv

LEMMA StutterKeepsIInv ==
  ASSUME IInv, UNCHANGED vars
  PROVE  IInv'
  <1>1. UNCHANGED <<pages_, page_table_, free_list_, lru, disk, fd2pageno_, handle, wrote>>
    BY DEF vars, poolVars, diskVars, clientVars
  <1>2. TypeOK'
    BY <1>1 DEF IInv, TypeOK
  <1>3. PageTableConsistent' /\ FramesApart' /\ PinsCounted' /\ PointersStay'
    BY <1>1, StructureStays
  <1>4. WritersHold' /\ CleanMeansOnDisk' /\ AllocatedOnly'
    BY <1>1 DEF IInv, WritersHold, CleanMeansOnDisk, AllocatedOnly, Holders, Holds
  <1> QED BY <1>2, <1>3, <1>4 DEF IInv

LEMMA NextKeepsIInv ==
  ASSUME WellBehaved, IInv, [Next]_vars
  PROVE  IInv'
  <1>1. CASE UNCHANGED vars
    BY <1>1, StutterKeepsIInv
  <1>2. ASSUME NEW t \in Threads, NEW p \in PageIds, FetchPage(t, p)
        PROVE  IInv'
    <2>1. CASE FetchHit(t, p)
      BY <2>1, FetchHitKeepsIInv
    <2>2. CASE FetchNull(t, p)
      BY <2>2, StutterKeepsIInv DEF FetchNull
    <2>3. CASE FetchMiss(t, p)
      BY <2>3, FetchMissKeepsIInv
    <2>4. CASE FetchReadFails(t, p)
      BY <2>4, FetchReadFailsKeepsIInv
    <2>5. CASE FetchWriteFails(t, p)
      BY <2>5, FetchWriteFailsKeepsIInv
    <2> QED BY <1>2, <2>1, <2>2, <2>3, <2>4, <2>5 DEF FetchPage
  <1>3. ASSUME NEW t \in Threads, NEW p \in PageIds, NEW is_dirty \in BOOLEAN,
               UnpinPage(t, p, is_dirty)
        PROVE  IInv'
    BY <1>3, UnpinPageKeepsIInv
  <1>4. ASSUME NEW t \in Threads, NEW p \in PageIds, NEW d \in Data, Modify(t, p, d)
        PROVE  IInv'
    BY <1>4, ModifyKeepsIInv
  <1>5. ASSUME NEW t \in Threads, NEW fd \in Fds,
               NewPage(t, fd) \/ NewNull(t, fd) \/ NewWriteFails(t, fd)
        PROVE  IInv'
    BY <1>5, NewPageKeepsIInv, StutterKeepsIInv, NewWriteFailsKeepsIInv DEF NewNull
  <1>6. ASSUME NEW p \in PageIds, UnpinRefused(p) \/ FlushRefused(p) \/ DeleteRefused(p)
        PROVE  IInv'
    BY <1>6, StutterKeepsIInv DEF UnpinRefused, FlushRefused, DeleteRefused
  <1>7. ASSUME NEW p \in PageIds, FlushPage(p) \/ DeletePage(p)
        PROVE  IInv'
    BY <1>7, FlushPageKeepsIInv, DeletePageKeepsIInv
  <1>8. ASSUME NEW p \in PageIds, DeleteWriteFails(p)
        PROVE  IInv'
    BY <1>8 DEF DeleteWriteFails, WellBehaved
  <1>9. ASSUME NEW fd \in Fds, FlushAllPages(fd) \/ FlushAllFails(fd)
        PROVE  IInv'
    BY <1>9, FlushFramesKeepsIInv DEF FlushAllPages, FlushAllFails
  <1> QED BY <1>1, <1>2, <1>3, <1>4, <1>5, <1>6, <1>7, <1>8, <1>9 DEF Next

\* In every execution of the pool, of any size and with any number of threads and
\* files, in which clients fetch only pages of their file and read(2) does not
\* fail, IInv holds: frames are free, evictable or pinned, pin counts are right,
\* the Page* of a thread stays on its page, and nothing that only memory has can
\* be dropped by UpdatePage (buffer_pool_manager.cpp:8-233).
THEOREM PoolSafe == WellBehaved => (Spec => []IInv)
  <1> SUFFICES ASSUME WellBehaved PROVE Spec => []IInv
    OBVIOUS
  <1>1. Init => IInv
    BY InitIInv
  <1>2. IInv /\ [Next]_vars => IInv'
    BY NextKeepsIInv
  <1> QED BY <1>1, <1>2, PTL DEF Spec

\* Every resident page has one frame, and page_table_ and the frames name each other.
THEOREM PageTableSafe == WellBehaved => (Spec => []PageTableConsistent)
  <1>1. IInv => PageTableConsistent
    BY DEF IInv
  <1> QED BY <1>1, PoolSafe, PTL

\* Page::pin_count_ is the number of threads that hold the page.
THEOREM PinsSafe == WellBehaved => (Spec => []PinsCounted)
  <1>1. IInv => PinsCounted
    BY DEF IInv
  <1> QED BY <1>1, PoolSafe, PTL

\* The Page* that FetchPage or NewPage returned names the same page until it is
\* unpinned, whatever the other threads fetch, flush and delete.
THEOREM PointersSafe == WellBehaved => (Spec => []PointersStay)
  <1>1. IInv => PointersStay
    BY DEF IInv
  <1> QED BY <1>1, PoolSafe, PTL

\* A frame that is not dirty holds what the disk holds: UpdatePage may drop it.
THEOREM CleanSafe == WellBehaved => (Spec => []CleanMeansOnDisk)
  <1>1. IInv => CleanMeansOnDisk
    BY DEF IInv
  <1> QED BY <1>1, PoolSafe, PTL
-----------------------------------------------------------------------------
(* Whatever fails.  FaultInv keeps the frames apart without WellBehaved.   *)

\* Some number of a set of numbers below n is the greatest.
LEMMA GreatestExists ==
  ASSUME NEW n \in Nat, NEW T, T \subseteq 0..(n - 1), T # {}
  PROVE  \E x \in T : \A y \in T : y <= x
  <1> DEFINE R == {ss \in Nat \X Nat : ss[1] < ss[2]}
             U == {n - x : x \in T}
  <1>1. IsWellFoundedOn(R, Nat)
    BY NatLessThanWellFounded DEF OpToRel
  <1>2. U \subseteq Nat /\ U # {}
    <2>1. \A x \in T : x \in Int /\ x <= n - 1 /\ n - x \in Nat
      OBVIOUS
    <2>2. PICK x \in T : TRUE
      OBVIOUS
    <2>3. n - x \in U
      OBVIOUS
    <2> QED BY <2>1, <2>3
  <1>3. PICK u \in U : \A v \in U : ~(<<v, u>> \in R)
    <2> HIDE DEF R, U
    <2> QED BY <1>1, <1>2, WFMin
  <1>4. PICK x \in T : u = n - x
    OBVIOUS
  <1>5. ASSUME NEW y \in T PROVE y <= x
    <2>1. x \in Nat /\ y \in Nat /\ n - x \in Nat /\ n - y \in Nat /\ n - y \in U
      OBVIOUS
    <2>2. ~(<<n - y, n - x>> \in R)
      BY <1>3, <1>4, <2>1
    <2>3. ~(n - y < n - x)
      BY <2>1, <2>2
    <2> QED BY <2>1, <2>3
  <1> QED BY <1>5

\* The structure of the pool after a step that moves no frame: the table, the free
\* list and the replacer stay, and so do the page and the pins of every frame.
LEMMA StillKeepsFaultInv ==
  ASSUME FaultInv, TypeOK', UNCHANGED <<page_table_, free_list_, lru>>,
         \A g \in Frames : /\ pages_'[g].id_ = pages_[g].id_
                           /\ pages_'[g].pin_count_ = pages_[g].pin_count_
  PROVE  FaultInv'
  <1>1. Listed' = Listed /\ Evictable' = Evictable
    BY DEF Listed, Evictable
  <1>2. Listed \subseteq Frames /\ Evictable \subseteq Frames
    BY FreeListFacts, ElementOfSeq
    DEF FaultInv, TypeOK, ReplacerOK, Indexed, Evictable
  <1>3. FramesApart'
    BY <1>1, <1>2 DEF FaultInv, FramesApart, Valid
  <1>4. TableNames'
    BY DEF FaultInv, TypeOK, TableNames
  <1> QED BY <1>3, <1>4 DEF FaultInv

\* FetchMiss, FetchReadFails and NewPage: page p comes into a victim frame.
LEMMA LoadKeepsFaultInv ==
  ASSUME FaultInv, VictimFrame # NoFrame,
         TakeVictim \/ TakeVictimOnly,
         NEW p \in PageIds, Valid(p), NEW d \in Contents, NEW n \in Nat,
         disk' \in [PageIds -> Contents \cup {EOF}],
         page_table_' = TableAfterEviction(VictimFrame, p),
         pages_' = [pages_ EXCEPT ![VictimFrame] = Page(p, d, FALSE, n)],
         handle' \in [Threads -> [PageIds -> Frames \cup {NoFrame}]],
         wrote' = wrote,
         fd2pageno_' \in [Fds -> 0..MaxPages]
  PROVE  FaultInv'
  <1> DEFINE f == VictimFrame
             old == pages_[f].id_
  <1>1. /\ f \in Frames
        /\ ReplacerOK(lru')
        /\ free_list_' \in Seq(Frames)
        /\ \A i, j \in 1..Len(free_list_') : free_list_'[i] = free_list_'[j] => i = j
        /\ Listed' = Listed \ {f}
        /\ Evictable' = Evictable \ {f}
    BY VictimFacts DEF FaultInv
  <1>2. /\ pages_ \in [Frames -> PageType]
        /\ page_table_ \in [PageIds -> Frames \cup {NoFrame}]
        /\ wrote \in [Threads -> SUBSET PageIds]
        /\ Listed \subseteq Frames /\ Evictable \subseteq Frames
    BY FreeListFacts, ElementOfSeq, SMTT(30)
    DEF FaultInv, TypeOK, PageType, ReplacerOK, Indexed, Evictable
  <1> HIDE DEF f
  <1>3. /\ pages_' \in [Frames -> PageType]
        /\ pages_'[f].id_ = p
        /\ \A g \in Frames \ {f} : pages_'[g] = pages_[g]
    <2>1. Page(p, d, FALSE, n) \in PageType /\ Page(p, d, FALSE, n).id_ = p
      BY DEF Page, PageType
    <2> QED BY <1>1, <1>2, <2>1 DEF f
  <1>4. /\ page_table_' \in [PageIds -> Frames \cup {NoFrame}]
        /\ page_table_'[p] = f
        /\ \A q \in PageIds \ {p} :
             page_table_'[q] = IF Valid(old) /\ q = old THEN NoFrame ELSE page_table_[q]
    BY <1>1, <1>2 DEF f, TableAfterEviction
  <1>5. TypeOK'
    BY <1>1, <1>2, <1>3, <1>4 DEF TypeOK, PageType
  <1>6. FramesApart'
    <2>1. \A g \in Listed' : ~Valid(pages_'[g].id_) /\ pages_'[g].pin_count_ = 0
      BY <1>1, <1>2, <1>3 DEF FaultInv, FramesApart
    <2>2. \A g \in Evictable' : Valid(pages_'[g].id_) /\ pages_'[g].pin_count_ = 0
      BY <1>1, <1>2, <1>3 DEF FaultInv, FramesApart
    <2>3. Listed' \cap Evictable' = {}
      BY <1>1 DEF FaultInv, FramesApart
    <2> QED BY <1>1, <2>1, <2>2, <2>3 DEF FramesApart
  <1>7. TableNames'
    <2> SUFFICES ASSUME NEW q \in PageIds, page_table_'[q] # NoFrame
                 PROVE  Valid(q) /\ pages_'[page_table_'[q]].id_ = q
      BY DEF TableNames, Valid
    <2>1. CASE q = p
      BY <1>3, <1>4, <2>1
    <2>2. CASE q # p
      <3>1. /\ page_table_'[q] = page_table_[q] /\ page_table_[q] # NoFrame
            /\ ~(Valid(old) /\ q = old)
        BY <1>4, <2>2
      <3>2. /\ Valid(q) /\ pages_[page_table_[q]].id_ = q
            /\ page_table_[q] \in Frames
        BY <1>2, <3>1 DEF FaultInv, TableNames
      <3>3. page_table_[q] # f
        BY <3>1, <3>2
      <3> QED BY <1>3, <3>1, <3>2, <3>3
    <2> QED BY <2>1, <2>2
  <1> QED BY <1>5, <1>6, <1>7 DEF FaultInv

\* A victim's page may be written to disk, whichever page it is.
LEMMA EvictionType ==
  ASSUME TypeOK, NEW f \in Frames
  PROVE  DiskAfterEviction(f) \in [PageIds -> Contents \cup {EOF}]
  <1>1. /\ disk \in [PageIds -> Contents \cup {EOF}]
        /\ pages_[f].id_ \in PageIds /\ pages_[f].data_ \in Contents
    BY DEF TypeOK
  <1>2. WritePage(disk, pages_[f].id_, pages_[f].data_)
          \in [PageIds -> Contents \cup {EOF}]
    BY <1>1, WritePageFacts
  <1> QED BY <1>1, <1>2 DEF DiskAfterEviction

\* A Page* given to a thread is a frame.
LEMMA GiveHandleType ==
  ASSUME TypeOK, NEW t \in Threads, NEW p \in PageIds, NEW f \in Frames,
         GiveHandle(t, p, f)
  PROVE  /\ handle' \in [Threads -> [PageIds -> Frames \cup {NoFrame}]]
         /\ wrote' = wrote
  BY DEF TypeOK, GiveHandle

LEMMA FetchLoadKeepsFaultInv ==
  ASSUME FaultInv, NEW t \in Threads, NEW p \in PageIds,
         FetchMiss(t, p) \/ FetchReadFails(t, p)
  PROVE  FaultInv'
  <1>1. /\ VictimFrame # NoFrame /\ (TakeVictim \/ TakeVictimOnly) /\ Valid(p)
        /\ disk' = DiskAfterEviction(VictimFrame)
        /\ page_table_' = TableAfterEviction(VictimFrame, p)
        /\ fd2pageno_' = fd2pageno_
    BY DEF FetchMiss, FetchReadFails, Requestable
  <1>2. VictimFrame \in Frames
    BY <1>1, VictimFacts DEF FaultInv
  <1>3. /\ disk' \in [PageIds -> Contents \cup {EOF}]
        /\ fd2pageno_' \in [Fds -> 0..MaxPages]
    BY <1>1, <1>2, EvictionType DEF FaultInv, TypeOK
  <1>4. CASE FetchMiss(t, p)
    <2>1. PICK d \in Contents : disk'[p] = d
      BY <1>3, <1>4 DEF FetchMiss, ReadSucceeds
    <2>2. pages_' = [pages_ EXCEPT ![VictimFrame] = Page(p, d, FALSE, 1)]
      BY <1>4, <2>1 DEF FetchMiss
    <2>3. /\ handle' \in [Threads -> [PageIds -> Frames \cup {NoFrame}]]
          /\ wrote' = wrote
      BY <1>2, <1>4, GiveHandleType DEF FetchMiss, FaultInv
    <2>4. d \in Contents /\ 1 \in Nat
      BY <2>1
    <2> QED BY <1>1, <1>3, <2>2, <2>3, <2>4, LoadKeepsFaultInv
  <1>5. CASE FetchReadFails(t, p)
    <2>1. pages_' = [pages_ EXCEPT ![VictimFrame] = Page(p, Zero, FALSE, 0)]
      BY <1>5 DEF FetchReadFails
    <2>2. /\ handle' \in [Threads -> [PageIds -> Frames \cup {NoFrame}]]
          /\ wrote' = wrote
      BY <1>5 DEF FetchReadFails, FaultInv, TypeOK, clientVars
    <2>3. Zero \in Contents /\ 0 \in Nat
      BY DEF Contents
    <2> QED BY <1>1, <1>3, <2>1, <2>2, <2>3, LoadKeepsFaultInv
  <1> QED BY <1>4, <1>5

LEMMA NewPageKeepsFaultInv ==
  ASSUME FaultInv, NEW t \in Threads, NEW fd \in Fds, NewPage(t, fd)
  PROVE  FaultInv'
  <1> DEFINE no == fd2pageno_[fd]
             p == PageId(fd, no)
  <1>0. fd2pageno_ \in [Fds -> 0..MaxPages] /\ MaxPages \in Nat /\ no < MaxPages
    BY PageAssumption DEF FaultInv, TypeOK, NewPage
  <1>1. p \in PageIds /\ Valid(p) /\ Zero \in Contents /\ 1 \in Nat
    BY <1>0, PageAssumption DEF PageIds, PageNos, PageId, Valid, Contents
  <1>2. /\ VictimFrame # NoFrame /\ TakeVictim
        /\ disk' = DiskAfterEviction(VictimFrame)
        /\ page_table_' = TableAfterEviction(VictimFrame, p)
        /\ pages_' = [pages_ EXCEPT ![VictimFrame] = Page(p, Zero, FALSE, 1)]
        /\ GiveHandle(t, p, VictimFrame)
        /\ fd2pageno_' = [fd2pageno_ EXCEPT ![fd] = @ + 1]
    BY DEF NewPage
  <1>3. fd2pageno_' \in [Fds -> 0..MaxPages]
    BY <1>0, <1>2
  <1> HIDE DEF p, no
  <1>4. VictimFrame \in Frames
    BY <1>2, VictimFacts DEF FaultInv
  <1>5. disk' \in [PageIds -> Contents \cup {EOF}]
    BY <1>2, <1>4, EvictionType DEF FaultInv
  <1>6. /\ handle' \in [Threads -> [PageIds -> Frames \cup {NoFrame}]]
        /\ wrote' = wrote
    BY <1>1, <1>2, <1>4, GiveHandleType DEF FaultInv
  <1> QED BY <1>1, <1>2, <1>3, <1>5, <1>6, LoadKeepsFaultInv

\* FetchWriteFails and NewWriteFails: the victim is in neither list any more.
LEMMA EvictionWriteFailsKeepsFaultInv ==
  ASSUME FaultInv, EvictionWriteFails, UNCHANGED <<disk, handle, wrote>>,
         fd2pageno_' \in [Fds -> 0..MaxPages]
  PROVE  FaultInv'
  <1>1. /\ ReplacerOK(lru')
        /\ free_list_' \in Seq(Frames)
        /\ \A i, j \in 1..Len(free_list_') : free_list_'[i] = free_list_'[j] => i = j
        /\ Listed' = Listed \ {VictimFrame}
        /\ Evictable' = Evictable \ {VictimFrame}
    BY VictimFacts DEF FaultInv, EvictionWriteFails
  <1>2. UNCHANGED <<pages_, page_table_>>
    BY DEF EvictionWriteFails
  <1>3. TypeOK'
    BY <1>1, <1>2 DEF FaultInv, TypeOK
  <1>4. FramesApart'
    BY <1>1, <1>2 DEF FaultInv, FramesApart
  <1>5. TableNames'
    BY <1>2 DEF FaultInv, TableNames
  <1> QED BY <1>3, <1>4, <1>5 DEF FaultInv

\* FetchHit and UnpinPage: the pins of the frame that the table names for p change,
\* and it is evictable afterwards only without pins.
LEMMA PinChangeKeepsFaultInv ==
  ASSUME FaultInv, NEW p \in PageIds, NEW f \in Frames, page_table_[p] = f,
         NEW n \in Nat, NEW b \in BOOLEAN,
         pages_' = [pages_ EXCEPT ![f] = Page(p, pages_[f].data_, b, n)],
         ReplacerOK(lru'),
         Evictable' \subseteq Evictable \cup {f},
         f \in Evictable' => n = 0,
         handle' \in [Threads -> [PageIds -> Frames \cup {NoFrame}]],
         wrote' \in [Threads -> SUBSET PageIds],
         UNCHANGED <<page_table_, free_list_, disk, fd2pageno_>>
  PROVE  FaultInv'
  <1>1. /\ pages_ \in [Frames -> PageType]
        /\ page_table_ \in [PageIds -> Frames \cup {NoFrame}]
        /\ Evictable \subseteq Frames /\ Listed \subseteq Frames
    BY FreeListFacts, ElementOfSeq
    DEF FaultInv, TypeOK, PageType, ReplacerOK, Indexed, Evictable
  <1>2. f # NoFrame /\ pages_[f].id_ = p /\ Valid(p)
    <2>1. f # NoFrame
      BY FramesAssumption DEF NoFrame
    <2> QED BY <2>1 DEF FaultInv, TableNames
  <1>3. /\ pages_' \in [Frames -> PageType]
        /\ pages_'[f].id_ = p /\ pages_'[f].pin_count_ = n
        /\ \A g \in Frames \ {f} : pages_'[g] = pages_[g]
    <2>1. Page(p, pages_[f].data_, b, n) \in PageType
      BY <1>1 DEF PageType, Page
    <2> QED BY <1>1, <2>1 DEF Page
  <1>4. TypeOK'
    BY <1>1, <1>3 DEF FaultInv, TypeOK, PageType
  <1>5. FramesApart'
    <2>1. Listed' = Listed /\ f \notin Listed
      BY <1>2 DEF Listed, FaultInv, FramesApart
    <2>2. \A g \in Listed' : ~Valid(pages_'[g].id_) /\ pages_'[g].pin_count_ = 0
      BY <1>1, <1>3, <2>1 DEF FaultInv, FramesApart
    <2>3. \A g \in Evictable' : Valid(pages_'[g].id_) /\ pages_'[g].pin_count_ = 0
      BY <1>1, <1>2, <1>3 DEF FaultInv, FramesApart
    <2> QED BY <2>1, <2>2, <2>3 DEF FaultInv, FramesApart
  <1>6. TableNames'
    <2>1. \A g \in Frames : pages_'[g].id_ = pages_[g].id_
      BY <1>2, <1>3
    <2> QED BY <1>1, <2>1 DEF FaultInv, TableNames
  <1> QED BY <1>4, <1>5, <1>6 DEF FaultInv

LEMMA FetchHitKeepsFaultInv ==
  ASSUME FaultInv, NEW t \in Threads, NEW p \in PageIds, FetchHit(t, p)
  PROVE  FaultInv'
  <1>1. PICK f \in Frames : f = page_table_[p]
    BY DEF FetchHit, FaultInv, TypeOK
  <1>2. pages_ \in [Frames -> PageType] /\ ReplacerOK(lru)
    BY DEF FaultInv, TypeOK, PageType
  <1>3. f # NoFrame /\ pages_[f].id_ = p
    BY <1>1 DEF FetchHit, FaultInv, TableNames
  <1>4. /\ pages_' = [pages_ EXCEPT ![f].pin_count_ = @ + 1]
        /\ lru' = AfterPin(lru, f)
        /\ GiveHandle(t, p, f)
        /\ UNCHANGED <<page_table_, free_list_, disk, fd2pageno_>>
    BY <1>1 DEF FetchHit, diskVars
  <1>5. PICK n \in Nat : n = pages_[f].pin_count_ + 1
    BY <1>2 DEF PageType
  <1>6. PICK b \in BOOLEAN : b = pages_[f].is_dirty_
    BY <1>2 DEF PageType
  <1>7. pages_' = [pages_ EXCEPT ![f] = Page(p, pages_[f].data_, b, n)]
    <2>1. pages_[f] \in PageType
      BY <1>2
    <2>2. [pages_[f] EXCEPT !.pin_count_ = n] = Page(p, pages_[f].data_, b, n)
      BY <1>3, <1>6, <2>1, PageFields
    <2>3. pages_' = [pages_ EXCEPT ![f] = [pages_[f] EXCEPT !.pin_count_ = n]]
      BY <1>4, <1>5
    <2> QED BY <2>2, <2>3
  <1>8. ReplacerOK(lru') /\ Evictable' = Evictable \ {f}
    BY <1>2, <1>4, AfterPinOK DEF Evictable
  <1>9. /\ handle' \in [Threads -> [PageIds -> Frames \cup {NoFrame}]]
        /\ wrote' \in [Threads -> SUBSET PageIds]
    BY <1>4, GiveHandleType DEF FaultInv, TypeOK
  <1>10. /\ n \in Nat /\ b \in BOOLEAN /\ page_table_[p] = f
         /\ Evictable' \subseteq Evictable \cup {f}
         /\ f \in Evictable' => n = 0
         /\ UNCHANGED <<page_table_, free_list_, disk, fd2pageno_>>
    BY <1>1, <1>4, <1>5, <1>6, <1>8
  <1> QED BY <1>7, <1>8, <1>9, <1>10, PinChangeKeepsFaultInv

LEMMA UnpinPageKeepsFaultInv ==
  ASSUME FaultInv, NEW t \in Threads, NEW p \in PageIds, NEW is_dirty \in BOOLEAN,
         UnpinPage(t, p, is_dirty)
  PROVE  FaultInv'
  <1>1. PICK f \in Frames : f = page_table_[p]
    BY DEF UnpinPage, FaultInv, TypeOK
  <1>2. /\ pages_ \in [Frames -> PageType]
        /\ handle \in [Threads -> [PageIds -> Frames \cup {NoFrame}]]
        /\ wrote \in [Threads -> SUBSET PageIds]
        /\ ReplacerOK(lru)
    BY DEF FaultInv, TypeOK, PageType
  <1>3. f # NoFrame /\ pages_[f].id_ = p
    BY <1>1 DEF UnpinPage, FaultInv, TableNames
  <1>4. /\ pages_' = [pages_ EXCEPT ![f].pin_count_ = @ - 1,
                                    ![f].is_dirty_ = @ \/ is_dirty]
        /\ lru' = IF pages_[f].pin_count_ = 1 THEN AfterUnpin(lru, f) ELSE lru
        /\ handle' = [handle EXCEPT ![t][p] = NoFrame]
        /\ wrote' = [wrote EXCEPT ![t] = @ \ {p}]
        /\ UNCHANGED <<page_table_, free_list_, disk, fd2pageno_>>
        /\ pages_[f].pin_count_ > 0
    BY <1>1 DEF UnpinPage, diskVars
  <1>5. PICK n \in Nat : n = pages_[f].pin_count_ - 1
    BY <1>2, <1>4 DEF PageType
  <1>6. PICK b \in BOOLEAN : b = (pages_[f].is_dirty_ \/ is_dirty)
    BY <1>2 DEF PageType
  <1>7. pages_' = [pages_ EXCEPT ![f] = Page(p, pages_[f].data_, b, n)]
    <2>1. pages_[f] \in PageType
      BY <1>2
    <2>2. [pages_[f] EXCEPT !.pin_count_ = n, !.is_dirty_ = b]
            = Page(p, pages_[f].data_, b, n)
      BY <1>3, <2>1, PageFields
    <2>3. pages_' = [pages_ EXCEPT ![f] = [pages_[f] EXCEPT !.pin_count_ = n,
                                                            !.is_dirty_ = b]]
      BY <1>2, <1>4, <1>5, <1>6, <2>1 DEF PageType
    <2> QED BY <2>2, <2>3
  <1>8. /\ ReplacerOK(lru')
        /\ Evictable' \subseteq Evictable \cup {f}
        /\ f \in Evictable' => n = 0
    <2>1. CASE pages_[f].pin_count_ = 1
      <3>1. lru' = AfterUnpin(lru, f)
        BY <1>4, <2>1
      <3>2. ReplacerOK(lru')
        BY <1>2, <3>1, AfterUnpinOK
      <3>3. Evictable' \subseteq Evictable \cup {f}
        BY <3>1 DEF AfterUnpin, Evictable
      <3> QED BY <1>5, <2>1, <3>2, <3>3
    <2>2. CASE pages_[f].pin_count_ # 1
      <3>1. lru' = lru
        BY <1>4, <2>2
      <3>2. f \notin Evictable
        BY <1>4 DEF FaultInv, FramesApart
      <3> QED BY <1>2, <3>1, <3>2 DEF Evictable
    <2> QED BY <2>1, <2>2
  <1>9. /\ handle' \in [Threads -> [PageIds -> Frames \cup {NoFrame}]]
        /\ wrote' \in [Threads -> SUBSET PageIds]
    BY <1>2, <1>4
  <1>10. /\ n \in Nat /\ b \in BOOLEAN /\ page_table_[p] = f
         /\ UNCHANGED <<page_table_, free_list_, disk, fd2pageno_>>
    BY <1>1, <1>4, <1>5, <1>6
  <1> QED BY <1>7, <1>8, <1>9, <1>10, PinChangeKeepsFaultInv

\* A thread writes through its Page*, even when the frame is no longer its page's.
LEMMA ModifyKeepsFaultInv ==
  ASSUME FaultInv, NEW t \in Threads, NEW p \in PageIds, NEW d \in Data, Modify(t, p, d)
  PROVE  FaultInv'
  <1>1. PICK f \in Frames : f = handle[t][p]
    BY DEF Modify, Holds, FaultInv, TypeOK
  <1>2. /\ pages_ \in [Frames -> PageType]
        /\ wrote \in [Threads -> SUBSET PageIds]
        /\ d \in Contents
    BY DEF FaultInv, TypeOK, PageType, Contents
  <1>3. /\ pages_' = [pages_ EXCEPT ![f].data_ = d]
        /\ wrote' = [wrote EXCEPT ![t] = @ \cup {p}]
        /\ UNCHANGED <<page_table_, free_list_, lru, disk, fd2pageno_, handle>>
    BY <1>1 DEF Modify, diskVars
  <1>4. /\ pages_' \in [Frames -> PageType]
        /\ \A g \in Frames : /\ pages_'[g].id_ = pages_[g].id_
                             /\ pages_'[g].pin_count_ = pages_[g].pin_count_
    BY <1>2, <1>3 DEF PageType
  <1>5. wrote' \in [Threads -> SUBSET PageIds]
    BY <1>2, <1>3
  <1>6. TypeOK'
    BY <1>3, <1>4, <1>5 DEF FaultInv, TypeOK, PageType
  <1> QED BY <1>3, <1>4, <1>6, StillKeepsFaultInv

LEMMA FlushPageKeepsFaultInv ==
  ASSUME FaultInv, NEW p \in PageIds, FlushPage(p)
  PROVE  FaultInv'
  <1>1. PICK f \in Frames : f = page_table_[p]
    BY DEF FlushPage, FaultInv, TypeOK
  <1>2. /\ pages_ \in [Frames -> PageType]
        /\ disk \in [PageIds -> Contents \cup {EOF}]
    BY DEF FaultInv, TypeOK, PageType
  <1>3. /\ disk' = WritePage(disk, pages_[f].id_, pages_[f].data_)
        /\ pages_' = [pages_ EXCEPT ![f].is_dirty_ = FALSE]
        /\ UNCHANGED <<page_table_, free_list_, lru, fd2pageno_, handle, wrote>>
    BY <1>1 DEF FlushPage, clientVars
  <1>4. disk' \in [PageIds -> Contents \cup {EOF}]
    <2>1. pages_[f].id_ \in PageIds /\ pages_[f].data_ \in Contents
      BY <1>2 DEF PageType
    <2> QED BY <1>2, <1>3, <2>1, WritePageFacts
  <1>5. /\ pages_' \in [Frames -> PageType]
        /\ \A g \in Frames : /\ pages_'[g].id_ = pages_[g].id_
                             /\ pages_'[g].pin_count_ = pages_[g].pin_count_
    BY <1>2, <1>3 DEF PageType
  <1>6. TypeOK'
    BY <1>3, <1>4, <1>5 DEF FaultInv, TypeOK, PageType
  <1> QED BY <1>3, <1>5, <1>6, StillKeepsFaultInv

\* A page that is in two frames is written twice, and the last frame wins.
LEMMA FlushFramesKeepsFaultInv ==
  ASSUME FaultInv, NEW fd \in Fds, NEW n, FlushFrames(fd, n)
  PROVE  FaultInv'
  <1>0. PICK F \in SUBSET Frames : F = FileFrames(fd, n)
    BY DEF FileFrames
  <1>1. /\ pages_ \in [Frames -> PageType]
        /\ disk \in [PageIds -> Contents \cup {EOF}]
    BY DEF FaultInv, TypeOK, PageType
  <1>2. /\ disk' = WriteFrames(F)
        /\ pages_' = [f \in Frames |->
                        IF f \in F THEN [pages_[f] EXCEPT !.is_dirty_ = FALSE]
                                   ELSE pages_[f]]
        /\ UNCHANGED <<page_table_, free_list_, lru, fd2pageno_, handle, wrote>>
    BY <1>0 DEF FlushFrames, clientVars
  <1>3. ASSUME NEW q \in PageIds, \E f \in F : pages_[f].id_ = q
        PROVE  FrameOf(F, q) \in F
    <2> DEFINE T == {f \in F : pages_[f].id_ = q}
    <2>1. T # {} /\ T \subseteq 0..(max_size_ - 1) /\ max_size_ \in Nat
      BY <1>3, PoolAssumption, MaxSizeAssumption
    <2>2. PICK f \in T : \A g \in T : g <= f
      <3> HIDE DEF T
      <3> QED BY <2>1, GreatestExists
    <2>3. f \in F /\ pages_[f].id_ = q /\ \A g \in F : pages_[g].id_ = q => g <= f
      BY <2>2
    <2> QED BY <2>3 DEF FrameOf
  <1>4. disk' \in [PageIds -> Contents \cup {EOF}]
    <2>1. ASSUME NEW q \in PageIds
          PROVE  disk'[q] \in Contents \cup {EOF}
      <3>1. CASE \E f \in F : pages_[f].id_ = q
        <4>1. disk'[q] = pages_[FrameOf(F, q)].data_
          BY <1>2, <3>1 DEF WriteFrames
        <4>2. FrameOf(F, q) \in Frames
          BY <1>0, <1>3, <3>1
        <4> QED BY <1>1, <4>1, <4>2 DEF PageType
      <3>2. CASE ~\E f \in F : pages_[f].id_ = q
        <4>1. disk'[q] = Zero \/ disk'[q] = disk[q]
          BY <1>2, <3>2 DEF WriteFrames
        <4> QED BY <1>1, <4>1 DEF Contents
      <3> QED BY <3>1, <3>2
    <2>2. disk' = [q \in PageIds |-> disk'[q]]
      BY <1>2 DEF WriteFrames
    <2> QED BY <2>1, <2>2
  <1>5. /\ pages_' \in [Frames -> PageType]
        /\ \A g \in Frames : /\ pages_'[g].id_ = pages_[g].id_
                             /\ pages_'[g].pin_count_ = pages_[g].pin_count_
    BY <1>1, <1>2 DEF PageType
  <1>6. TypeOK'
    BY <1>2, <1>4, <1>5 DEF FaultInv, TypeOK, PageType
  <1> QED BY <1>2, <1>5, <1>6, StillKeepsFaultInv

LEMMA DeletePageKeepsFaultInv ==
  ASSUME FaultInv, NEW p \in PageIds, DeletePage(p)
  PROVE  FaultInv'
  <1>1. PICK f \in Frames : f = page_table_[p]
    BY DEF DeletePage, FaultInv, TypeOK
  <1> DEFINE blank == Page(PageId(p.fd, INVALID_PAGE_ID), Zero, FALSE, 0)
  <1>2. /\ pages_ \in [Frames -> PageType]
        /\ page_table_ \in [PageIds -> Frames \cup {NoFrame}]
        /\ disk \in [PageIds -> Contents \cup {EOF}]
        /\ ReplacerOK(lru)
        /\ Evictable \subseteq Frames /\ Listed \subseteq Frames
    BY FreeListFacts, ElementOfSeq
    DEF FaultInv, TypeOK, PageType, ReplacerOK, Indexed, Evictable
  <1>3. f # NoFrame /\ pages_[f].id_ = p /\ Valid(p)
    BY <1>1 DEF DeletePage, FaultInv, TableNames
  <1>4. /\ disk' = IF pages_[f].is_dirty_ THEN WritePage(disk, p, pages_[f].data_) ELSE disk
        /\ page_table_' = [page_table_ EXCEPT ![p] = NoFrame]
        /\ pages_' = [pages_ EXCEPT ![f] = blank]
        /\ free_list_' = Append(free_list_, f)
        /\ lru' = AfterPin(lru, f)
        /\ UNCHANGED <<fd2pageno_, handle, wrote>>
    BY <1>1, <1>3 DEF DeletePage, clientVars
  <1>5. disk' \in [PageIds -> Contents \cup {EOF}]
    <2>1. pages_[f].data_ \in Contents
      BY <1>2 DEF PageType
    <2>2. WritePage(disk, p, pages_[f].data_) \in [PageIds -> Contents \cup {EOF}]
      BY <1>2, <2>1, WritePageFacts
    <2> QED BY <1>2, <1>4, <2>2
  <1>6. f \notin Listed
    BY <1>3 DEF FaultInv, FramesApart
  <1>7. /\ free_list_' \in Seq(Frames)
        /\ \A i, j \in 1..Len(free_list_') : free_list_'[i] = free_list_'[j] => i = j
        /\ Listed' = Listed \cup {f}
    <2>1. Listed' = {free_list_'[i] : i \in 1..Len(free_list_')}
      BY DEF Listed
    <2> QED BY <1>4, <1>6, <2>1, FreeListAppend DEF FaultInv
  <1>8. ReplacerOK(lru') /\ Evictable' = Evictable \ {f}
    BY <1>2, <1>4, AfterPinOK DEF Evictable
  <1>9. blank \in PageType /\ ~Valid(blank.id_) /\ blank.pin_count_ = 0
    BY PageAssumption DEF PageType, Page, PageId, PageIds, Contents, Valid
  <1> HIDE DEF blank
  <1>10. /\ pages_' \in [Frames -> PageType]
         /\ pages_'[f] = blank
         /\ \A g \in Frames \ {f} : pages_'[g] = pages_[g]
    BY <1>2, <1>4, <1>9
  <1>11. /\ page_table_' \in [PageIds -> Frames \cup {NoFrame}]
         /\ page_table_'[p] = NoFrame
         /\ \A q \in PageIds \ {p} : page_table_'[q] = page_table_[q]
    BY <1>2, <1>4
  <1>12. TypeOK'
    BY <1>4, <1>5, <1>7, <1>8, <1>10, <1>11 DEF FaultInv, TypeOK, PageType
  <1>13. FramesApart'
    <2>1. \A g \in Listed' : ~Valid(pages_'[g].id_) /\ pages_'[g].pin_count_ = 0
      BY <1>2, <1>7, <1>9, <1>10 DEF FaultInv, FramesApart
    <2>2. \A g \in Evictable' : Valid(pages_'[g].id_) /\ pages_'[g].pin_count_ = 0
      BY <1>2, <1>8, <1>10 DEF FaultInv, FramesApart
    <2>3. Listed' \cap Evictable' = {}
      BY <1>7, <1>8 DEF FaultInv, FramesApart
    <2> QED BY <1>7, <2>1, <2>2, <2>3 DEF FramesApart
  <1>14. TableNames'
    <2> SUFFICES ASSUME NEW q \in PageIds, page_table_'[q] # NoFrame
                 PROVE  Valid(q) /\ pages_'[page_table_'[q]].id_ = q
      BY DEF TableNames, Valid
    <2>1. q # p /\ page_table_'[q] = page_table_[q] /\ page_table_[q] \in Frames
      BY <1>2, <1>11
    <2>2. Valid(q) /\ pages_[page_table_[q]].id_ = q
      BY <2>1 DEF FaultInv, TableNames
    <2>3. page_table_[q] # f
      BY <1>3, <2>1, <2>2
    <2> QED BY <1>10, <2>1, <2>2, <2>3
  <1> QED BY <1>12, <1>13, <1>14 DEF FaultInv

\* The page has left the table, and its frame keeps its id: it may still be evicted.
LEMMA DeleteWriteFailsKeepsFaultInv ==
  ASSUME FaultInv, NEW p \in PageIds, DeleteWriteFails(p)
  PROVE  FaultInv'
  <1>1. /\ page_table_' = [page_table_ EXCEPT ![p] = NoFrame]
        /\ UNCHANGED <<pages_, free_list_, lru, disk, fd2pageno_, handle, wrote>>
    BY DEF DeleteWriteFails, diskVars, clientVars
  <1>2. page_table_ \in [PageIds -> Frames \cup {NoFrame}]
    BY DEF FaultInv, TypeOK
  <1>3. TypeOK'
    BY <1>1, <1>2 DEF FaultInv, TypeOK
  <1>4. FramesApart'
    BY <1>1 DEF FaultInv, FramesApart, Listed, Evictable
  <1>5. TableNames'
    BY <1>1, <1>2 DEF FaultInv, TableNames
  <1> QED BY <1>3, <1>4, <1>5 DEF FaultInv

LEMMA StutterKeepsFaultInv ==
  ASSUME FaultInv, UNCHANGED vars
  PROVE  FaultInv'
  <1>1. UNCHANGED <<pages_, page_table_, free_list_, lru, disk, fd2pageno_, handle, wrote>>
    BY DEF vars, poolVars, diskVars, clientVars
  <1>2. TypeOK'
    BY <1>1 DEF FaultInv, TypeOK
  <1> QED BY <1>1, <1>2, StillKeepsFaultInv

LEMMA NextKeepsFaultInv ==
  ASSUME FaultInv, [Next]_vars
  PROVE  FaultInv'
  <1>0. fd2pageno_ \in [Fds -> 0..MaxPages] /\ MaxPages \in Nat
    BY PageAssumption DEF FaultInv, TypeOK
  <1>1. CASE UNCHANGED vars
    BY <1>1, StutterKeepsFaultInv
  <1>2. ASSUME NEW t \in Threads, NEW p \in PageIds, FetchPage(t, p)
        PROVE  FaultInv'
    <2>1. CASE FetchHit(t, p)
      BY <2>1, FetchHitKeepsFaultInv
    <2>2. CASE FetchNull(t, p)
      BY <2>2, StutterKeepsFaultInv DEF FetchNull
    <2>3. CASE FetchMiss(t, p) \/ FetchReadFails(t, p)
      BY <2>3, FetchLoadKeepsFaultInv
    <2>4. CASE FetchWriteFails(t, p)
      <3>1. EvictionWriteFails /\ UNCHANGED <<disk, fd2pageno_, handle, wrote>>
        BY <2>4 DEF FetchWriteFails, diskVars, clientVars
      <3> QED BY <1>0, <3>1, EvictionWriteFailsKeepsFaultInv
    <2> QED BY <1>2, <2>1, <2>2, <2>3, <2>4 DEF FetchPage
  <1>3. ASSUME NEW t \in Threads, NEW p \in PageIds, NEW is_dirty \in BOOLEAN,
               UnpinPage(t, p, is_dirty)
        PROVE  FaultInv'
    BY <1>3, UnpinPageKeepsFaultInv
  <1>4. ASSUME NEW t \in Threads, NEW p \in PageIds, NEW d \in Data, Modify(t, p, d)
        PROVE  FaultInv'
    BY <1>4, ModifyKeepsFaultInv
  <1>5. ASSUME NEW t \in Threads, NEW fd \in Fds, NewPage(t, fd) \/ NewNull(t, fd)
        PROVE  FaultInv'
    BY <1>5, NewPageKeepsFaultInv, StutterKeepsFaultInv DEF NewNull
  <1>6. ASSUME NEW t \in Threads, NEW fd \in Fds, NewWriteFails(t, fd)
        PROVE  FaultInv'
    <2>1. EvictionWriteFails /\ UNCHANGED <<disk, handle, wrote>>
      BY <1>6 DEF NewWriteFails, clientVars
    <2>2. fd2pageno_' \in [Fds -> 0..MaxPages]
      BY <1>0, <1>6 DEF NewWriteFails
    <2> QED BY <2>1, <2>2, EvictionWriteFailsKeepsFaultInv
  <1>7. ASSUME NEW p \in PageIds, UnpinRefused(p) \/ FlushRefused(p) \/ DeleteRefused(p)
        PROVE  FaultInv'
    BY <1>7, StutterKeepsFaultInv DEF UnpinRefused, FlushRefused, DeleteRefused
  <1>8. ASSUME NEW p \in PageIds, FlushPage(p) \/ DeletePage(p) \/ DeleteWriteFails(p)
        PROVE  FaultInv'
    BY <1>8, FlushPageKeepsFaultInv, DeletePageKeepsFaultInv, DeleteWriteFailsKeepsFaultInv
  <1>9. ASSUME NEW fd \in Fds, FlushAllPages(fd) \/ FlushAllFails(fd)
        PROVE  FaultInv'
    BY <1>9, FlushFramesKeepsFaultInv DEF FlushAllPages, FlushAllFails
  <1> QED BY <1>1, <1>2, <1>3, <1>4, <1>5, <1>6, <1>7, <1>8, <1>9 DEF Next

\* A frame that FindVictimPage may take is free or evictable, never both and never
\* pinned: the pool gives away no frame that has a pin count, whichever read or
\* write of whichever call fails (buffer_pool_manager.cpp:8-17).  That the pin count
\* is the number of holders is PinsSafe, which needs WellBehaved.
THEOREM FramesSafe == Spec => []FramesApart
  <1>1. Init => FaultInv
    <2>1. IInv => FaultInv
      BY DEF IInv, FaultInv, PageTableConsistent, AllocatedOnly, TableNames
    <2> QED BY <2>1, InitIInv
  <1>2. FaultInv /\ [Next]_vars => FaultInv'
    BY NextKeepsFaultInv
  <1>3. FaultInv => FramesApart
    BY DEF FaultInv
  <1> QED BY <1>1, <1>2, <1>3, PTL DEF Spec

-----------------------------------------------------------------------------
(* The pool implements PageStore.  The refinement mapping takes a page's   *)
(* contents from its frame when it has one, and from its file otherwise.   *)

\* The mapping, page by page.
LEMMA StoreValue ==
  ASSUME NEW q \in PageIds
  PROVE  /\ store[q] = IF page_table_[q] # NoFrame
                       THEN pages_[page_table_[q]].data_ ELSE disk[q]
         /\ store'[q] = IF page_table_'[q] # NoFrame
                        THEN pages_'[page_table_'[q]].data_ ELSE disk'[q]
         /\ pinned[q] = Holders(q)
         /\ pinned'[q] = Holders(q)'
  BY DEF store, pinned

\* A page that is in no frame is pinned by nobody.
LEMMA UnmappedIsUnpinned ==
  ASSUME IInv, NEW q \in PageIds, page_table_[q] = NoFrame
  PROVE  Holders(q) = {}
  <1> SUFFICES ASSUME NEW t \in Threads, Holds(t, q) PROVE FALSE
    BY DEF Holders
  <1> QED BY HeldIsMapped, FramesAssumption DEF NoFrame

\* What an eviction and a load do to the store: the page evicted is on disk as it
\* was in memory, the page loaded is in memory as it was on disk, and the hole that
\* the write may have filled belongs to a page nobody has.
LEMMA LoadKeepsStore ==
  ASSUME IInv, VictimFrame # NoFrame,
         TakeVictim \/ TakeVictimOnly,
         NEW p \in PageIds, page_table_[p] = NoFrame,
         NEW d \in Contents, NEW n,
         disk' = DiskAfterEviction(VictimFrame),
         page_table_' = TableAfterEviction(VictimFrame, p),
         pages_' = [pages_ EXCEPT ![VictimFrame] = Page(p, d, FALSE, n)],
         disk'[p] = d \/ (disk'[p] = EOF /\ d = Zero)
  PROVE  store'[p] # EOF /\ \A q \in PageIds : Store!Kept(q)
  <1> DEFINE f == VictimFrame
             old == pages_[f].id_
  <1>1. f \in Frames /\ pages_[f].pin_count_ = 0
    BY VictimFacts DEF IInv, FramesApart
  <1>2. Valid(old) => Holders(old) = {}
    BY <1>1, UnpinnedIsUnused
  <1>3. /\ (Valid(old) /\ pages_[f].is_dirty_) => disk'[old] = pages_[f].data_
        /\ (Valid(old) /\ ~pages_[f].is_dirty_) => disk'[old] = disk[old]
        /\ \A q \in PageIds :
             (Valid(old) => q # old) =>
             \/ disk'[q] = disk[q]
             \/ disk[q] = EOF /\ disk'[q] = Zero
    BY <1>1, EvictionFacts
  <1>4. /\ pages_ \in [Frames -> PageType]
        /\ page_table_ \in [PageIds -> Frames \cup {NoFrame}]
    BY DEF IInv, TypeOK, PageType
  <1>5. f # NoFrame
    OBVIOUS
  <1> HIDE DEF f
  <1>6. /\ pages_'[f] = Page(p, d, FALSE, n)
        /\ \A g \in Frames \ {f} : pages_'[g] = pages_[g]
    BY <1>1, <1>4 DEF f
  <1>7. /\ page_table_'[p] = f
        /\ \A q \in PageIds \ {p} :
             page_table_'[q] = IF Valid(old) /\ q = old THEN NoFrame ELSE page_table_[q]
    BY DEF f, TableAfterEviction
  <1>8. store'[p] = d /\ store[p] = disk[p]
    BY <1>5, <1>6, <1>7, StoreValue DEF Page
  <1>9. d # EOF
    BY DataAssumption DEF Contents
  <1>10. ASSUME NEW q \in PageIds
         PROVE  Store!Kept(q)
    <2> SUFFICES \/ store'[q] = store[q]
                 \/ Holders(q) = {} /\ {store[q], store'[q]} \subseteq {Zero, EOF}
      BY StoreValue DEF Store!Kept
    <2>1. CASE q = p
      <3>1. Holders(p) = {}
        BY UnmappedIsUnpinned
      <3>2. Valid(old) => p # old
        BY <1>1, <1>5 DEF IInv, PageTableConsistent
      <3>3. disk'[p] = disk[p] \/ (disk[p] = EOF /\ disk'[p] = Zero)
        BY <1>3, <3>2
      <3> QED BY <1>8, <2>1, <3>1, <3>3
    <2>2. CASE q # p /\ Valid(old) /\ q = old
      <3>1. page_table_[q] = f
        BY <1>1, <2>2 DEF IInv, PageTableConsistent
      <3>2. store[q] = pages_[f].data_ /\ store'[q] = disk'[q]
        BY <1>5, <1>7, <2>2, <3>1, StoreValue
      <3>3. CASE pages_[f].is_dirty_
        BY <1>3, <2>2, <3>2, <3>3
      <3>4. CASE ~pages_[f].is_dirty_
        <4>1. \A t \in Threads : q \notin wrote[t]
          BY <1>2, <2>2 DEF IInv, WritersHold, Holders
        <4>2. disk[q] = pages_[f].data_ \/ (disk[q] = EOF /\ pages_[f].data_ = Zero)
          BY <1>1, <2>2, <3>4, <4>1 DEF IInv, CleanMeansOnDisk
        <4> QED BY <1>2, <1>3, <2>2, <3>2, <3>4, <4>2
      <3> QED BY <3>3, <3>4
    <2>3. CASE q # p /\ ~(Valid(old) /\ q = old)
      <3>1. page_table_'[q] = page_table_[q]
        BY <1>7, <2>3
      <3>2. CASE page_table_[q] # NoFrame
        <4>1. page_table_[q] \in Frames /\ pages_[page_table_[q]].id_ = q /\ Valid(q)
          BY <1>4, <3>2 DEF IInv, PageTableConsistent, AllocatedOnly
        <4>2. page_table_[q] # f
          BY <2>3, <4>1
        <4>3. pages_'[page_table_[q]] = pages_[page_table_[q]]
          BY <1>6, <4>1, <4>2
        <4>4. /\ store[q] = pages_[page_table_[q]].data_
              /\ store'[q] = pages_'[page_table_[q]].data_
          BY <3>1, <3>2, StoreValue
        <4> QED BY <4>3, <4>4
      <3>3. CASE page_table_[q] = NoFrame
        <4>1. Holders(q) = {}
          BY <3>3, UnmappedIsUnpinned
        <4>2. store[q] = disk[q] /\ store'[q] = disk'[q]
          BY <3>1, <3>3, StoreValue
        <4>3. disk'[q] = disk[q] \/ (disk[q] = EOF /\ disk'[q] = Zero)
          BY <1>3, <2>3
        <4> QED BY <4>1, <4>2, <4>3
      <3> QED BY <3>2, <3>3
    <2> QED BY <2>1, <2>2, <2>3
  <1> QED BY <1>8, <1>9, <1>10

\* A thread that gets a pointer joins the holders of that page and of no other.
LEMMA PinnedAfterGive ==
  ASSUME IInv, NEW t \in Threads, NEW p \in PageIds, NEW f \in Frames,
         handle' = [handle EXCEPT ![t][p] = f]
  PROVE  pinned' = [pinned EXCEPT ![p] = @ \cup {t}]
  <1>1. handle \in [Threads -> [PageIds -> Frames \cup {NoFrame}]] /\ f # NoFrame
    BY FramesAssumption DEF IInv, TypeOK, NoFrame
  <1>2. \A q \in PageIds : Holders(q)' = IF q = p THEN Holders(q) \cup {t} ELSE Holders(q)
    BY <1>1 DEF Holders, Holds
  <1>3. /\ pinned = [q \in PageIds |-> Holders(q)]
        /\ pinned' = [q \in PageIds |-> Holders(q)']
    BY DEF pinned
  <1> QED BY <1>2, <1>3

\* A step that changes no pointer changes no pins.
LEMMA PinnedStays ==
  ASSUME UNCHANGED handle
  PROVE  UNCHANGED pinned
  BY DEF pinned, Holders, Holds

\* The four kinds of steps that a pool step can be to its users.
LEMMA IsPin ==
  ASSUME NEW t \in Threads, NEW p \in PageIds, Store!Pin(t, p)
  PROVE  Store!Next
  BY DEF Store!Next

LEMMA IsMove ==
  ASSUME \A q \in PageIds : Store!Kept(q), UNCHANGED pinned
  PROVE  Store!Next
  BY DEF Store!Next, Store!Move

-----------------------------------------------------------------------------
(* The actions.                                                            *)

LEMMA FetchMissRefines ==
  ASSUME IInv, NEW t \in Threads, NEW p \in PageIds, FetchMiss(t, p)
  PROVE  Store!Next
  <1>1. VictimFrame \in Frames
    BY VictimFacts DEF FetchMiss, IInv
  <1>2. PICK d \in Contents : disk'[p] = d
    <2>1. disk' \in [PageIds -> Contents \cup {EOF}]
      BY <1>1, EvictionFacts DEF FetchMiss
    <2> QED BY <2>1 DEF FetchMiss, ReadSucceeds
  <1>3. /\ VictimFrame # NoFrame /\ TakeVictim /\ page_table_[p] = NoFrame
        /\ disk' = DiskAfterEviction(VictimFrame)
        /\ page_table_' = TableAfterEviction(VictimFrame, p)
        /\ pages_' = [pages_ EXCEPT ![VictimFrame] = Page(p, d, FALSE, 1)]
    BY <1>2 DEF FetchMiss
  <1>4. store'[p] # EOF /\ \A q \in PageIds : Store!Kept(q)
    BY <1>2, <1>3, LoadKeepsStore
  <1>5. handle' = [handle EXCEPT ![t][p] = VictimFrame] /\ t \notin Holders(p)
    BY DEF FetchMiss, GiveHandle, Holders
  <1>6. pinned' = [pinned EXCEPT ![p] = @ \cup {t}] /\ t \notin pinned[p]
    BY <1>1, <1>5, PinnedAfterGive, StoreValue
  <1> QED BY <1>4, <1>6, IsPin DEF Store!Pin

LEMMA FetchReadFailsRefines ==
  ASSUME IInv, WellBehaved, NEW t \in Threads, NEW p \in PageIds, FetchReadFails(t, p)
  PROVE  Store!Next
  <1>1. Zero \in Contents /\ disk'[p] = EOF
    BY DEF FetchReadFails, ReadFails, WellBehaved, Contents
  <1>2. /\ VictimFrame # NoFrame /\ TakeVictimOnly /\ page_table_[p] = NoFrame
        /\ disk' = DiskAfterEviction(VictimFrame)
        /\ page_table_' = TableAfterEviction(VictimFrame, p)
        /\ pages_' = [pages_ EXCEPT ![VictimFrame] = Page(p, Zero, FALSE, 0)]
    BY DEF FetchReadFails
  <1>3. \A q \in PageIds : Store!Kept(q)
    BY <1>1, <1>2, LoadKeepsStore
  <1>4. UNCHANGED pinned
    BY PinnedStays DEF FetchReadFails, clientVars
  <1> QED BY <1>3, <1>4, IsMove

LEMMA NewPageRefines ==
  ASSUME IInv, NEW t \in Threads, NEW fd \in Fds, NewPage(t, fd)
  PROVE  Store!Next
  <1>0. fd2pageno_ \in [Fds -> 0..MaxPages] /\ MaxPages \in Nat /\ fd2pageno_[fd] < MaxPages
    BY PageAssumption DEF IInv, TypeOK, NewPage
  <1>1. PICK p \in PageIds : p = PageId(fd, fd2pageno_[fd])
    <2>1. fd2pageno_[fd] \in PageNos
      BY <1>0 DEF PageNos
    <2>2. PageId(fd, fd2pageno_[fd]) \in PageIds
      BY <2>1 DEF PageIds, PageId
    <2> QED BY <2>2
  <1>2. ~(p.page_no < fd2pageno_[p.fd])
    BY <1>0, <1>1 DEF PageId
  <1>3. VictimFrame \in Frames
    BY VictimFacts DEF NewPage, IInv
  <1>4. Zero \in Contents /\ disk'[p] = EOF
    <2>1. \A q \in PageIds :
             disk'[q] # EOF => Valid(q) /\ q.page_no < fd2pageno_[q.fd]
      BY <1>3, EvictionFacts DEF NewPage
    <2> QED BY <1>2, <2>1 DEF Contents
  <1>5. page_table_[p] = NoFrame /\ Holders(p) = {}
    BY <1>2 DEF IInv, AllocatedOnly
  <1>6. /\ VictimFrame # NoFrame /\ TakeVictim
        /\ disk' = DiskAfterEviction(VictimFrame)
        /\ page_table_' = TableAfterEviction(VictimFrame, p)
        /\ pages_' = [pages_ EXCEPT ![VictimFrame] = Page(p, Zero, FALSE, 1)]
        /\ handle' = [handle EXCEPT ![t][p] = VictimFrame]
    BY <1>1 DEF NewPage, GiveHandle
  <1>7. store'[p] # EOF /\ \A q \in PageIds : Store!Kept(q)
    BY <1>4, <1>5, <1>6, LoadKeepsStore
  <1>8. pinned' = [pinned EXCEPT ![p] = @ \cup {t}] /\ t \notin pinned[p]
    BY <1>3, <1>5, <1>6, PinnedAfterGive, StoreValue
  <1> QED BY <1>7, <1>8, IsPin DEF Store!Pin

\* Steps that leave every page where it is, with the contents it has.
LEMMA StoreStays ==
  ASSUME IInv, UNCHANGED <<page_table_, disk>>,
         \A f \in Frames : pages_'[f].data_ = pages_[f].data_
  PROVE  UNCHANGED store
  <1>1. page_table_ \in [PageIds -> Frames \cup {NoFrame}]
    BY DEF IInv, TypeOK
  <1>2. \A q \in PageIds : store'[q] = store[q]
    BY <1>1, StoreValue
  <1>3. /\ store = [q \in PageIds |-> store[q]]
        /\ store' = [q \in PageIds |-> store'[q]]
    BY DEF store
  <1> QED BY <1>2, <1>3

LEMMA SameStoreKept ==
  ASSUME UNCHANGED store
  PROVE  \A q \in PageIds : Store!Kept(q)
  BY DEF Store!Kept

LEMMA FetchHitRefines ==
  ASSUME IInv, NEW t \in Threads, NEW p \in PageIds, FetchHit(t, p)
  PROVE  Store!Next
  <1>1. PICK f \in Frames : f = page_table_[p]
    BY DEF FetchHit, IInv, TypeOK
  <1>2. /\ pages_ \in [Frames -> PageType]
        /\ pages_' = [pages_ EXCEPT ![f].pin_count_ = @ + 1]
        /\ handle' = [handle EXCEPT ![t][p] = f]
        /\ UNCHANGED <<page_table_, disk>>
        /\ t \notin Holders(p)
    BY <1>1 DEF FetchHit, GiveHandle, diskVars, Holders, IInv, TypeOK, PageType
  <1>3. \A g \in Frames : pages_'[g].data_ = pages_[g].data_
    BY <1>2 DEF PageType
  <1>4. UNCHANGED store /\ \A q \in PageIds : Store!Kept(q)
    BY <1>2, <1>3, StoreStays, SameStoreKept
  <1>5. store[p] # EOF
    <2>1. pages_[f].data_ \in Contents
      BY <1>2 DEF PageType
    <2>2. store[p] = pages_[f].data_
      BY <1>1, StoreValue DEF FetchHit
    <2> QED BY <2>1, <2>2, DataAssumption DEF Contents
  <1>6. pinned' = [pinned EXCEPT ![p] = @ \cup {t}] /\ t \notin pinned[p]
    BY <1>2, PinnedAfterGive, StoreValue
  <1> QED BY <1>4, <1>5, <1>6, IsPin DEF Store!Pin

LEMMA UnpinPageRefines ==
  ASSUME IInv, NEW t \in Threads, NEW p \in PageIds, NEW is_dirty \in BOOLEAN,
         UnpinPage(t, p, is_dirty)
  PROVE  Store!Next
  <1>1. PICK f \in Frames : f = page_table_[p]
    BY DEF UnpinPage, IInv, TypeOK
  <1>2. /\ pages_ \in [Frames -> PageType]
        /\ handle \in [Threads -> [PageIds -> Frames \cup {NoFrame}]]
        /\ pages_' = [pages_ EXCEPT ![f].pin_count_ = @ - 1,
                                    ![f].is_dirty_ = @ \/ is_dirty]
        /\ handle' = [handle EXCEPT ![t][p] = NoFrame]
        /\ UNCHANGED <<page_table_, disk>>
        /\ t \in Holders(p)
    BY <1>1 DEF UnpinPage, diskVars, Holders, IInv, TypeOK, PageType
  <1>3. \A g \in Frames : pages_'[g].data_ = pages_[g].data_
    BY <1>2 DEF PageType
  <1>4. UNCHANGED store
    BY <1>2, <1>3, StoreStays
  <1>5. pinned' = [pinned EXCEPT ![p] = @ \ {t}] /\ t \in pinned[p]
    <2>1. \A q \in PageIds : Holders(q)' = IF q = p THEN Holders(q) \ {t} ELSE Holders(q)
      BY <1>2 DEF Holders, Holds
    <2>2. /\ pinned = [q \in PageIds |-> Holders(q)]
          /\ pinned' = [q \in PageIds |-> Holders(q)']
      BY DEF pinned
    <2> QED BY <1>2, <2>1, <2>2
  <1>6. Store!Unpin(t, p)
    BY <1>4, <1>5 DEF Store!Unpin
  <1> QED BY <1>6 DEF Store!Next

LEMMA ModifyRefines ==
  ASSUME IInv, NEW t \in Threads, NEW p \in PageIds, NEW d \in Data, Modify(t, p, d)
  PROVE  Store!Next
  <1>1. PICK f \in Frames : f = handle[t][p]
    BY HeldIsMapped DEF Modify
  <1>2. /\ page_table_[p] = f /\ pages_[f].id_ = p /\ f # NoFrame
    BY <1>1, HeldIsMapped, FramesAssumption DEF Modify, NoFrame
  <1>3. /\ pages_ \in [Frames -> PageType]
        /\ page_table_ \in [PageIds -> Frames \cup {NoFrame}]
        /\ pages_' = [pages_ EXCEPT ![f].data_ = d]
        /\ UNCHANGED <<page_table_, disk, handle>>
        /\ t \in Holders(p)
    BY <1>1 DEF Modify, diskVars, Holders, IInv, TypeOK, PageType
  <1>4. \A q \in PageIds : store'[q] = IF q = p THEN d ELSE store[q]
    <2> SUFFICES ASSUME NEW q \in PageIds
                 PROVE  store'[q] = IF q = p THEN d ELSE store[q]
      OBVIOUS
    <2>1. CASE q = p
      <3>1. pages_'[f].data_ = d
        BY <1>3 DEF PageType
      <3> QED BY <1>2, <1>3, <2>1, <3>1, StoreValue
    <2>2. CASE q # p /\ page_table_[q] # NoFrame
      <3>1. page_table_[q] \in Frames \ {f}
        BY <1>2, <1>3, <2>2 DEF IInv, PageTableConsistent
      <3>2. pages_'[page_table_[q]] = pages_[page_table_[q]]
        BY <1>3, <3>1
      <3> QED BY <1>3, <2>2, <3>2, StoreValue
    <2>3. CASE q # p /\ page_table_[q] = NoFrame
      BY <1>3, <2>3, StoreValue
    <2> QED BY <2>1, <2>2, <2>3
  <1>5. store' = [store EXCEPT ![p] = d]
    <2>1. /\ store = [q \in PageIds |-> store[q]]
          /\ store' = [q \in PageIds |-> store'[q]]
      BY DEF store
    <2> QED BY <1>4, <2>1
  <1>6. UNCHANGED pinned /\ t \in pinned[p]
    BY <1>3, PinnedStays, StoreValue
  <1>7. Store!Write(t, p, d)
    BY <1>5, <1>6 DEF Store!Write
  <1> QED BY <1>7 DEF Store!Next

\* Steps that leave pages where they are and write some of them to disk.
LEMMA FlushRefines ==
  ASSUME IInv, UNCHANGED <<page_table_, handle>>,
         \A f \in Frames : pages_'[f].data_ = pages_[f].data_,
         \A q \in PageIds : \/ page_table_[q] # NoFrame
                            \/ disk'[q] = disk[q]
                            \/ disk[q] = EOF /\ disk'[q] = Zero
  PROVE  Store!Next
  <1>1. page_table_ \in [PageIds -> Frames \cup {NoFrame}]
    BY DEF IInv, TypeOK
  <1>2. ASSUME NEW q \in PageIds
        PROVE  Store!Kept(q)
    <2> SUFFICES \/ store'[q] = store[q]
                 \/ Holders(q) = {} /\ {store[q], store'[q]} \subseteq {Zero, EOF}
      BY StoreValue DEF Store!Kept
    <2>1. CASE page_table_[q] # NoFrame
      BY <1>1, <2>1, StoreValue
    <2>2. CASE page_table_[q] = NoFrame
      <3>1. store[q] = disk[q] /\ store'[q] = disk'[q]
        BY <2>2, StoreValue
      <3> QED BY <2>2, <3>1, UnmappedIsUnpinned
    <2> QED BY <2>1, <2>2
  <1>3. UNCHANGED pinned
    BY PinnedStays
  <1> QED BY <1>2, <1>3, IsMove

LEMMA FlushPageRefines ==
  ASSUME IInv, NEW p \in PageIds, FlushPage(p)
  PROVE  Store!Next
  <1>1. PICK f \in Frames : f = page_table_[p] /\ f # NoFrame
    BY DEF FlushPage, IInv, TypeOK
  <1>2. /\ pages_ \in [Frames -> PageType]
        /\ disk \in [PageIds -> Contents \cup {EOF}]
        /\ pages_[f].id_ = p
    BY <1>1 DEF IInv, TypeOK, PageType, PageTableConsistent
  <1>3. /\ pages_' = [pages_ EXCEPT ![f].is_dirty_ = FALSE]
        /\ disk' = WritePage(disk, p, pages_[f].data_)
        /\ UNCHANGED <<page_table_, handle>>
        /\ pages_[f].data_ \in Contents
    BY <1>1, <1>2 DEF FlushPage, clientVars, PageType
  <1>4. \A g \in Frames : pages_'[g].data_ = pages_[g].data_
    BY <1>2, <1>3 DEF PageType
  <1>5. \A q \in PageIds : \/ page_table_[q] # NoFrame
                           \/ disk'[q] = disk[q]
                           \/ disk[q] = EOF /\ disk'[q] = Zero
    <2>1. \A q \in PageIds \ {p} :
            disk'[q] = disk[q] \/ (disk[q] = EOF /\ disk'[q] = Zero)
      BY <1>2, <1>3, WritePageFacts
    <2> QED BY <1>1, <2>1
  <1> QED BY <1>3, <1>4, <1>5, FlushRefines

LEMMA FlushFramesRefines ==
  ASSUME IInv, NEW fd \in Fds, NEW n, FlushFrames(fd, n)
  PROVE  Store!Next
  <1>1. PICK F \in SUBSET Frames : F = FileFrames(fd, n)
    BY DEF FileFrames
  <1>2. /\ pages_ \in [Frames -> PageType]
        /\ \A f \in F : page_table_[pages_[f].id_] # NoFrame
    BY <1>1, FramesAssumption
    DEF IInv, TypeOK, PageType, FileFrames, PageTableConsistent, NoFrame
  <1>3. /\ disk' = WriteFrames(F)
        /\ pages_' = [f \in Frames |->
                        IF f \in F THEN [pages_[f] EXCEPT !.is_dirty_ = FALSE]
                                   ELSE pages_[f]]
        /\ UNCHANGED <<page_table_, handle>>
    BY <1>1 DEF FlushFrames, clientVars
  <1>4. \A g \in Frames : pages_'[g].data_ = pages_[g].data_
    <2> SUFFICES ASSUME NEW g \in Frames PROVE pages_'[g].data_ = pages_[g].data_
      OBVIOUS
    <2>1. pages_[g] \in PageType
      BY <1>2
    <2>2. CASE g \in F
      BY <1>3, <2>1, <2>2 DEF PageType
    <2>3. CASE g \notin F
      BY <1>3, <2>3
    <2> QED BY <2>2, <2>3
  <1>5. \A q \in PageIds : \/ page_table_[q] # NoFrame
                           \/ disk'[q] = disk[q]
                           \/ disk[q] = EOF /\ disk'[q] = Zero
    BY <1>2, <1>3 DEF WriteFrames
  <1> QED BY <1>3, <1>4, <1>5, FlushRefines

LEMMA DeletePageRefines ==
  ASSUME IInv, NEW p \in PageIds, DeletePage(p)
  PROVE  Store!Next
  <1>1. PICK f \in Frames : f = page_table_[p] /\ f # NoFrame
    BY DEF DeletePage, IInv, TypeOK
  <1>2. /\ pages_ \in [Frames -> PageType]
        /\ page_table_ \in [PageIds -> Frames \cup {NoFrame}]
        /\ pages_[f].id_ = p /\ Valid(p)
    BY <1>1 DEF IInv, TypeOK, PageType, PageTableConsistent, AllocatedOnly
  <1>3. /\ pages_[f].pin_count_ = 0
        /\ page_table_' = [page_table_ EXCEPT ![p] = NoFrame]
        /\ pages_' = [pages_ EXCEPT ![f] =
                        Page(PageId(p.fd, INVALID_PAGE_ID), Zero, FALSE, 0)]
        /\ disk' = DiskAfterEviction(f)
        /\ UNCHANGED handle
    BY <1>1, <1>2 DEF DeletePage, clientVars, PageType, DiskAfterEviction
  <1>4. Holders(p) = {}
    BY <1>2, <1>3, UnpinnedIsUnused
  <1>5. /\ pages_[f].is_dirty_ => disk'[p] = pages_[f].data_
        /\ ~pages_[f].is_dirty_ => disk'[p] = disk[p]
        /\ \A q \in PageIds \ {p} :
             disk'[q] = disk[q] \/ (disk[q] = EOF /\ disk'[q] = Zero)
    BY <1>2, <1>3, EvictionFacts
  <1>6. ASSUME NEW q \in PageIds
        PROVE  Store!Kept(q)
    <2> SUFFICES \/ store'[q] = store[q]
                 \/ Holders(q) = {} /\ {store[q], store'[q]} \subseteq {Zero, EOF}
      BY StoreValue DEF Store!Kept
    <2>1. CASE q = p
      <3>1. store[q] = pages_[f].data_ /\ store'[q] = disk'[p]
        BY <1>1, <1>2, <1>3, <2>1, StoreValue
      <3>2. \A t \in Threads : p \notin wrote[t]
        BY <1>4 DEF IInv, WritersHold, Holders
      <3>3. ~pages_[f].is_dirty_ =>
              disk[p] = pages_[f].data_ \/ (disk[p] = EOF /\ pages_[f].data_ = Zero)
        BY <1>2, <3>2 DEF IInv, CleanMeansOnDisk
      <3> QED BY <1>4, <1>5, <2>1, <3>1, <3>3
    <2>2. CASE q # p /\ page_table_[q] # NoFrame
      <3>1. page_table_'[q] = page_table_[q] /\ page_table_[q] \in Frames \ {f}
        BY <1>1, <1>2, <1>3, <2>2 DEF IInv, PageTableConsistent
      <3>2. pages_'[page_table_[q]] = pages_[page_table_[q]]
        BY <1>2, <1>3, <3>1
      <3> QED BY <2>2, <3>1, <3>2, StoreValue
    <2>3. CASE q # p /\ page_table_[q] = NoFrame
      <3>1. store[q] = disk[q] /\ store'[q] = disk'[q]
        BY <1>2, <1>3, <2>3, StoreValue
      <3> QED BY <1>5, <2>3, <3>1, UnmappedIsUnpinned
    <2> QED BY <2>1, <2>2, <2>3
  <1>7. UNCHANGED pinned
    BY <1>3, PinnedStays
  <1> QED BY <1>6, <1>7, IsMove

\* Steps that change nothing a user can see.
LEMMA SilentRefines ==
  ASSUME UNCHANGED <<pages_, page_table_, disk, handle>>
  PROVE  UNCHANGED Store!vars
  BY DEF Store!vars, store, pinned, Holders, Holds

-----------------------------------------------------------------------------
(* The theorem.                                                            *)

LEMMA NextRefines ==
  ASSUME WellBehaved, IInv, [Next]_vars
  PROVE  [Store!Next]_(Store!vars)
  <1>1. CASE UNCHANGED vars
    BY <1>1, SilentRefines DEF vars, poolVars, diskVars, clientVars
  <1>2. ASSUME NEW t \in Threads, NEW p \in PageIds, FetchPage(t, p)
        PROVE  [Store!Next]_(Store!vars)
    <2>1. CASE FetchHit(t, p)
      BY <2>1, FetchHitRefines
    <2>2. CASE FetchNull(t, p)
      BY <1>1, <2>2 DEF FetchNull
    <2>3. CASE FetchMiss(t, p)
      BY <2>3, FetchMissRefines
    <2>4. CASE FetchReadFails(t, p)
      BY <2>4, FetchReadFailsRefines
    <2>5. CASE FetchWriteFails(t, p)
      BY <2>5, SilentRefines DEF FetchWriteFails, EvictionWriteFails, diskVars, clientVars
    <2> QED BY <1>2, <2>1, <2>2, <2>3, <2>4, <2>5 DEF FetchPage
  <1>3. ASSUME NEW t \in Threads, NEW p \in PageIds, NEW is_dirty \in BOOLEAN,
               UnpinPage(t, p, is_dirty)
        PROVE  [Store!Next]_(Store!vars)
    BY <1>3, UnpinPageRefines
  <1>4. ASSUME NEW t \in Threads, NEW p \in PageIds, NEW d \in Data, Modify(t, p, d)
        PROVE  [Store!Next]_(Store!vars)
    BY <1>4, ModifyRefines
  <1>5. ASSUME NEW t \in Threads, NEW fd \in Fds,
               NewPage(t, fd) \/ NewNull(t, fd) \/ NewWriteFails(t, fd)
        PROVE  [Store!Next]_(Store!vars)
    <2>1. CASE NewPage(t, fd)
      BY <2>1, NewPageRefines
    <2>2. CASE NewNull(t, fd)
      BY <1>1, <2>2 DEF NewNull
    <2>3. CASE NewWriteFails(t, fd)
      BY <2>3, SilentRefines DEF NewWriteFails, EvictionWriteFails, clientVars
    <2> QED BY <1>5, <2>1, <2>2, <2>3
  <1>6. ASSUME NEW p \in PageIds, UnpinRefused(p) \/ FlushRefused(p) \/ DeleteRefused(p)
        PROVE  [Store!Next]_(Store!vars)
    BY <1>1, <1>6 DEF UnpinRefused, FlushRefused, DeleteRefused
  <1>7. ASSUME NEW p \in PageIds, FlushPage(p) \/ DeletePage(p)
        PROVE  [Store!Next]_(Store!vars)
    BY <1>7, FlushPageRefines, DeletePageRefines
  <1>8. ASSUME NEW p \in PageIds, DeleteWriteFails(p)
        PROVE  [Store!Next]_(Store!vars)
    BY <1>8 DEF DeleteWriteFails, WellBehaved
  <1>9. ASSUME NEW fd \in Fds, FlushAllPages(fd) \/ FlushAllFails(fd)
        PROVE  [Store!Next]_(Store!vars)
    BY <1>9, FlushFramesRefines DEF FlushAllPages, FlushAllFails
  <1> QED BY <1>1, <1>2, <1>3, <1>4, <1>5, <1>6, <1>7, <1>8, <1>9 DEF Next

\* The buffer pool is a faithful store of pages: no eviction, flush, deletion or
\* failed write of any thread's calls changes what a page holds, and a thread that
\* has a page pinned reads exactly what was last written to it
\* (buffer_pool_manager.cpp:8-233).
THEOREM PoolRefinement == WellBehaved => (Spec => ImplementsPageStore)
  <1> SUFFICES ASSUME WellBehaved PROVE Spec => ImplementsPageStore
    OBVIOUS
  <1>1. Init => Store!Init
    <2> SUFFICES ASSUME Init PROVE Store!Init
      OBVIOUS
    <2>1. IInv /\ page_table_ = [p \in PageIds |-> NoFrame]
          /\ handle = [t \in Threads |-> [p \in PageIds |-> NoFrame]]
      BY InitIInv DEF Init
    <2>2. store \in [PageIds -> Data \cup {Zero, EOF}]
      BY <2>1 DEF store, IInv, TypeOK, Contents
    <2>3. pinned = [p \in PageIds |-> {}]
      BY <2>1 DEF pinned, Holders, Holds
    <2> QED BY <2>2, <2>3 DEF Store!Init
  <1>2. IInv /\ [Next]_vars => [Store!Next]_(Store!vars)
    BY NextRefines
  <1>3. Spec => []IInv
    BY PoolSafe
  <1> QED BY <1>1, <1>2, <1>3, PTL DEF Spec, ImplementsPageStore, Store!Spec
==============================================================================
