--------------------------- MODULE BPlusTreeProofs ---------------------------
(***************************************************************************)
(* The index's invariant, for every btree_order above 2, every number of   *)
(* pages, every set of keys, as the code descends: the nodes are a tree    *)
(* between two calls and what a call has made of it so far inside one,     *)
(* sizes, page count, pins and leaf list included.  What recursive         *)
(* functions return (searches, descents, heights, first leaves) is shown   *)
(* by induction over the rank of their argument, as a least counterexample.*)
(***************************************************************************)
EXTENDS BPlusTree, SequenceTheorems, FiniteSetTheorems, WellFoundedInduction, TLAPS

-----------------------------------------------------------------------------
(* Nodes, and the sequences of their pairs.                                *)

Pages == IX_INIT_ROOT_PAGE..MaxPage

Links == {0} \cup Pages

Slots == Vals \cup Pages

NodeRecords ==
  [leaf : BOOLEAN, parent : {IX_NO_PAGE} \cup Pages, prev : 0..MaxPage, next : 0..MaxPage,
   keys : Seq(Keys), vals : Seq(Slots), past : Seq(Links)]

NodeOK(n) ==
  /\ n \in NodeRecords
  /\ Len(n.vals) = Len(n.keys)
  /\ ~n.leaf => n.vals \in Seq(Pages)
  /\ ~n.leaf => Len(n.vals) + Len(n.past) = MaxSize

Elems(s) == {s[i] : i \in 1..Len(s)}

Distinct(s) == \A i, j \in 1..Len(s) : s[i] = s[j] => i = j

\* The pages that the slots past num_key of an internal node still name.
Gone(n) == IF n.leaf THEN {} ELSE Elems(n.past)

-----------------------------------------------------------------------------
\* A sequence with another put in after its first pos members.
LEMMA SpliceIs ==
  \A S, s, t, pos :
    s \in Seq(S) /\ t \in Seq(S) /\ pos \in 0..Len(s) =>
      /\ Splice(s, pos, t) \in Seq(S)
      /\ Len(Splice(s, pos, t)) = Len(s) + Len(t)
      /\ \A i \in 1..(Len(s) + Len(t)) :
           Splice(s, pos, t)[i] = IF i <= pos THEN s[i]
                                  ELSE IF i <= pos + Len(t) THEN t[i - pos] ELSE s[i - Len(t)]
  <1> SUFFICES ASSUME NEW S, NEW s, NEW t, NEW pos,
                      s \in Seq(S), t \in Seq(S), pos \in 0..Len(s)
               PROVE  /\ Splice(s, pos, t) \in Seq(S)
                      /\ Len(Splice(s, pos, t)) = Len(s) + Len(t)
                      /\ \A i \in 1..(Len(s) + Len(t)) :
                           Splice(s, pos, t)[i] = IF i <= pos THEN s[i]
                             ELSE IF i <= pos + Len(t) THEN t[i - pos] ELSE s[i - Len(t)]
    OBVIOUS
  <1> DEFINE a == SubSeq(s, 1, pos)
             b == SubSeq(s, pos + 1, Len(s))
  <1>0. Len(s) \in Nat /\ Len(t) \in Nat /\ \A i \in 1..Len(s) : s[i] \in S
    BY LenProperties, ElementOfSeq
  <1>1. a \in Seq(S) /\ Len(a) = pos /\ \A i \in 1..pos : a[i] = s[i]
    BY <1>0, SubSeqProperties
  <1>2. /\ b \in Seq(S) /\ Len(b) = Len(s) - pos
        /\ \A i \in 1..(Len(s) - pos) : b[i] = s[pos + i]
    <2>1. \A i \in (pos + 1)..Len(s) : s[i] \in S
      BY <1>0
    <2>2. /\ b \in Seq(S) /\ Len(b) = IF pos + 1 <= Len(s) THEN Len(s) - (pos + 1) + 1 ELSE 0
          /\ \A i \in 1..(Len(s) - (pos + 1) + 1) : b[i] = s[(pos + 1) + i - 1]
      BY <1>0, <2>1, SubSeqProperties
    <2> HIDE DEF b
    <2> QED BY <1>0, <2>2
  <1> HIDE DEF a, b
  <1>3. /\ a \o t \in Seq(S) /\ Len(a \o t) = pos + Len(t)
        /\ \A i \in 1..(pos + Len(t)) : (a \o t)[i] = IF i <= pos THEN a[i] ELSE t[i - pos]
    BY <1>1, ConcatProperties
  <1>4. /\ (a \o t) \o b \in Seq(S) /\ Len((a \o t) \o b) = Len(s) + Len(t)
        /\ \A i \in 1..(Len(s) + Len(t)) :
             ((a \o t) \o b)[i] = IF i <= pos + Len(t) THEN (a \o t)[i]
                                  ELSE b[i - (pos + Len(t))]
    <2> DEFINE c == a \o t
    <2>1. c \in Seq(S) /\ Len(c) = pos + Len(t)
      BY <1>3
    <2> HIDE DEF c
    <2>2. /\ c \o b \in Seq(S) /\ Len(c \o b) = Len(c) + Len(b)
          /\ \A i \in 1..(Len(c) + Len(b)) :
               (c \o b)[i] = IF i <= Len(c) THEN c[i] ELSE b[i - Len(c)]
      BY <1>2, <2>1, ConcatProperties
    <2>3. Len(c) + Len(b) = Len(s) + Len(t)
      BY <1>0, <1>2, <2>1
    <2>4. /\ c \o b \in Seq(S) /\ Len(c \o b) = Len(s) + Len(t)
          /\ \A i \in 1..(Len(s) + Len(t)) :
               (c \o b)[i] = IF i <= pos + Len(t) THEN c[i] ELSE b[i - (pos + Len(t))]
      BY <2>1, <2>2, <2>3
    <2> QED BY <2>4 DEF c
  <1>5. Splice(s, pos, t) = (a \o t) \o b
    BY DEF Splice, a, b
  <1>6. ASSUME NEW i \in 1..(Len(s) + Len(t))
        PROVE  Splice(s, pos, t)[i] = IF i <= pos THEN s[i]
                 ELSE IF i <= pos + Len(t) THEN t[i - pos] ELSE s[i - Len(t)]
    <2>1. CASE i <= pos
      BY <1>0, <1>1, <1>3, <1>4, <1>5, <2>1
    <2>2. CASE pos < i /\ i <= pos + Len(t)
      BY <1>0, <1>1, <1>3, <1>4, <1>5, <2>2
    <2>3. CASE i > pos + Len(t)
      <3>1. i - (pos + Len(t)) \in 1..(Len(s) - pos) /\ pos + (i - (pos + Len(t))) = i - Len(t)
        BY <1>0, <2>3
      <3>2. b[i - (pos + Len(t))] = s[i - Len(t)]
        BY <1>2, <3>1
      <3> QED BY <1>0, <1>4, <1>5, <2>3, <3>2, SMTT(30)
    <2> QED BY <1>0, <2>1, <2>2, <2>3
  <1> QED BY <1>0, <1>4, <1>5, <1>6

\* A sequence without its member of index pos.
LEMMA WithoutIs ==
  \A S, s, pos :
    s \in Seq(S) /\ pos \in 0..(Len(s) - 1) =>
      /\ Without(s, pos) \in Seq(S)
      /\ Len(Without(s, pos)) = Len(s) - 1
      /\ \A i \in 1..(Len(s) - 1) : Without(s, pos)[i] = IF i <= pos THEN s[i] ELSE s[i + 1]
  <1> SUFFICES ASSUME NEW S, NEW s, NEW pos, s \in Seq(S), pos \in 0..(Len(s) - 1)
               PROVE  /\ Without(s, pos) \in Seq(S)
                      /\ Len(Without(s, pos)) = Len(s) - 1
                      /\ \A i \in 1..(Len(s) - 1) :
                           Without(s, pos)[i] = IF i <= pos THEN s[i] ELSE s[i + 1]
    OBVIOUS
  <1> DEFINE a == SubSeq(s, 1, pos)
             b == SubSeq(s, pos + 2, Len(s))
  <1>0. Len(s) \in Nat /\ \A i \in 1..Len(s) : s[i] \in S
    BY LenProperties, ElementOfSeq
  <1>1. a \in Seq(S) /\ Len(a) = pos /\ \A i \in 1..pos : a[i] = s[i]
    BY <1>0, SubSeqProperties
  <1>2. /\ b \in Seq(S) /\ Len(b) = Len(s) - pos - 1
        /\ \A i \in 1..(Len(s) - pos - 1) : b[i] = s[pos + 1 + i]
    <2>1. \A i \in (pos + 2)..Len(s) : s[i] \in S
      BY <1>0
    <2>2. /\ b \in Seq(S) /\ Len(b) = IF pos + 2 <= Len(s) THEN Len(s) - (pos + 2) + 1 ELSE 0
          /\ \A i \in 1..(Len(s) - (pos + 2) + 1) : b[i] = s[(pos + 2) + i - 1]
      BY <1>0, <2>1, SubSeqProperties
    <2>3. Len(s) - (pos + 2) + 1 = Len(s) - pos - 1
      BY <1>0
    <2>4. \A i \in 1..(Len(s) - pos - 1) : (pos + 2) + i - 1 = pos + 1 + i
      BY <1>0
    <2>5. pos + 2 <= Len(s) \/ Len(s) - pos - 1 = 0
      BY <1>0
    <2> HIDE DEF b
    <2> QED BY <1>0, <2>2, <2>3, <2>4, <2>5
  <1> HIDE DEF a, b
  <1>3. /\ a \o b \in Seq(S) /\ Len(a \o b) = Len(s) - 1
        /\ \A i \in 1..(Len(s) - 1) : (a \o b)[i] = IF i <= pos THEN a[i] ELSE b[i - pos]
    <2>1. /\ a \o b \in Seq(S) /\ Len(a \o b) = Len(a) + Len(b)
          /\ \A i \in 1..(Len(a) + Len(b)) :
               (a \o b)[i] = IF i <= Len(a) THEN a[i] ELSE b[i - Len(a)]
      BY <1>1, <1>2, ConcatProperties
    <2>2. Len(a) + Len(b) = Len(s) - 1
      BY <1>0, <1>1, <1>2
    <2> QED BY <1>1, <2>1, <2>2
  <1>4. Without(s, pos) = a \o b
    BY DEF Without, a, b
  <1>5. ASSUME NEW i \in 1..(Len(s) - 1)
        PROVE  Without(s, pos)[i] = IF i <= pos THEN s[i] ELSE s[i + 1]
    <2>1. CASE i <= pos
      BY <1>0, <1>1, <1>3, <1>4, <2>1
    <2>2. CASE pos < i
      <3>1. b[i - pos] = s[pos + 1 + (i - pos)] /\ pos + 1 + (i - pos) = i + 1
        BY <1>0, <1>2, <2>2
      <3> QED BY <1>0, <1>3, <1>4, <2>2, <3>1
    <2> QED BY <1>0, <2>1, <2>2
  <1> QED BY <1>0, <1>3, <1>4, <1>5

\* A stretch of a sequence.
LEMMA CutIs ==
  \A S, s, m, n :
    s \in Seq(S) /\ m \in 1..(Len(s) + 1) /\ n \in (m - 1)..Len(s) =>
      /\ SubSeq(s, m, n) \in Seq(S)
      /\ Len(SubSeq(s, m, n)) = n - m + 1
      /\ \A i \in 1..(n - m + 1) : SubSeq(s, m, n)[i] = s[m + i - 1]
  <1> SUFFICES ASSUME NEW S, NEW s, NEW m, NEW n,
                      s \in Seq(S), m \in 1..(Len(s) + 1), n \in (m - 1)..Len(s)
               PROVE  /\ SubSeq(s, m, n) \in Seq(S)
                      /\ Len(SubSeq(s, m, n)) = n - m + 1
                      /\ \A i \in 1..(n - m + 1) : SubSeq(s, m, n)[i] = s[m + i - 1]
    OBVIOUS
  <1>0. Len(s) \in Nat /\ \A i \in 1..Len(s) : s[i] \in S
    BY LenProperties, ElementOfSeq
  <1>1. m \in Int /\ n \in Int /\ (m <= n \/ n - m + 1 = 0)
    BY <1>0
  <1>2. \A i \in m..n : s[i] \in S
    BY <1>0
  <1> QED BY <1>0, <1>1, <1>2, SubSeqProperties

\* Two sequences joined.
LEMMA ConcatIs ==
  \A S, s, t :
    s \in Seq(S) /\ t \in Seq(S) =>
      /\ s \o t \in Seq(S)
      /\ Len(s \o t) = Len(s) + Len(t)
      /\ \A i \in 1..(Len(s) + Len(t)) : (s \o t)[i] = IF i <= Len(s) THEN s[i] ELSE t[i - Len(s)]
  BY ConcatProperties

\* What a sequence over S holds.
LEMMA SeqIs ==
  \A S, s : s \in Seq(S) => /\ Len(s) \in Nat
                            /\ \A i \in 1..Len(s) : s[i] \in S
  BY LenProperties, ElementOfSeq

\* A sequence over S is one over every larger set.
LEMMA SeqWider ==
  \A S, T, s : s \in Seq(S) /\ S \subseteq T => s \in Seq(T)
  BY SeqMonotonic

\* The members of a sequence.
LEMMA ElemIs == \A s, x : x \in Elems(s) <=> \E i \in 1..Len(s) : x = s[i]
  BY DEF Elems

\* What a splice holds; no member comes twice if none did.
LEMMA SpliceElems ==
  \A S, s, t, pos :
    s \in Seq(S) /\ t \in Seq(S) /\ pos \in 0..Len(s) =>
      /\ Elems(Splice(s, pos, t)) = Elems(s) \cup Elems(t)
      /\ Distinct(s) /\ Distinct(t) /\ Elems(s) \cap Elems(t) = {} => Distinct(Splice(s, pos, t))
  <1> SUFFICES ASSUME NEW S, NEW s, NEW t, NEW pos,
                      s \in Seq(S), t \in Seq(S), pos \in 0..Len(s)
               PROVE  /\ Elems(Splice(s, pos, t)) = Elems(s) \cup Elems(t)
                      /\ Distinct(s) /\ Distinct(t) /\ Elems(s) \cap Elems(t) = {}
                           => Distinct(Splice(s, pos, t))
    OBVIOUS
  <1> DEFINE u == Splice(s, pos, t)
             at(i) == IF i <= pos THEN s[i] ELSE IF i <= pos + Len(t) THEN t[i - pos] ELSE s[i - Len(t)]
  <1>0. Len(s) \in Nat /\ Len(t) \in Nat
    BY SeqIs
  <1>1. Len(u) = Len(s) + Len(t) /\ \A i \in 1..(Len(s) + Len(t)) : u[i] = at(i)
    BY SpliceIs
  <1> HIDE DEF u
  <1>2. ASSUME NEW x \in Elems(u) PROVE x \in Elems(s) \cup Elems(t)
    <2>1. PICK i \in 1..Len(u) : x = u[i]
      BY <1>2, ElemIs
    <2>2. CASE i <= pos
      BY <1>0, <1>1, <2>1, <2>2, ElemIs
    <2>3. CASE pos < i /\ i <= pos + Len(t)
      <3>1. i - pos \in 1..Len(t) /\ x = t[i - pos]
        BY <1>0, <1>1, <2>1, <2>3
      <3> QED BY <3>1, ElemIs
    <2>4. CASE pos + Len(t) < i
      <3>1. i - Len(t) \in 1..Len(s) /\ x = s[i - Len(t)]
        BY <1>0, <1>1, <2>1, <2>4
      <3> QED BY <3>1, ElemIs
    <2> QED BY <1>0, <1>1, <2>1, <2>2, <2>3, <2>4
  <1>3. ASSUME NEW x \in Elems(s) PROVE x \in Elems(u)
    <2>1. PICK i \in 1..Len(s) : x = s[i]
      BY <1>3, ElemIs
    <2>2. CASE i <= pos
      <3>1. i \in 1..Len(u) /\ u[i] = x
        BY <1>0, <1>1, <2>1, <2>2
      <3> QED BY <3>1, ElemIs
    <2>3. CASE pos < i
      <3>1. /\ i + Len(t) \in 1..Len(u) /\ i + Len(t) \in 1..(Len(s) + Len(t))
            /\ ~(i + Len(t) <= pos) /\ ~(i + Len(t) <= pos + Len(t)) /\ i + Len(t) - Len(t) = i
        BY <1>0, <1>1, <2>1, <2>3
      <3>2. u[i + Len(t)] = x
        BY <1>1, <2>1, <3>1
      <3> QED BY <3>1, <3>2, ElemIs
    <2> QED BY <1>0, <2>1, <2>2, <2>3
  <1>4. ASSUME NEW x \in Elems(t) PROVE x \in Elems(u)
    <2>1. PICK i \in 1..Len(t) : x = t[i]
      BY <1>4, ElemIs
    <2>2. /\ pos + i \in 1..Len(u) /\ pos + i \in 1..(Len(s) + Len(t))
          /\ ~(pos + i <= pos) /\ pos + i <= pos + Len(t) /\ pos + i - pos = i
      BY <1>0, <1>1, <2>1
    <2>3. u[pos + i] = x
      BY <1>1, <2>1, <2>2
    <2> QED BY <2>2, <2>3, ElemIs
  <1>5. ASSUME Distinct(s), Distinct(t), Elems(s) \cap Elems(t) = {},
               NEW i \in 1..Len(u), NEW j \in 1..Len(u), u[i] = u[j]
        PROVE  i = j
    <2>1. i \in 1..(Len(s) + Len(t)) /\ j \in 1..(Len(s) + Len(t)) /\ at(i) = at(j)
      BY <1>1, <1>5
    <2> DEFINE InT(k) == pos < k /\ k <= pos + Len(t)
               Ps(k) == IF k <= pos THEN k ELSE k - Len(t)
    <2>2. ASSUME NEW k \in 1..(Len(s) + Len(t)), InT(k)
          PROVE  k - pos \in 1..Len(t) /\ at(k) = t[k - pos] /\ at(k) \in Elems(t)
      <3>1. k - pos \in 1..Len(t) /\ at(k) = t[k - pos]
        BY <1>0, <2>2
      <3> HIDE DEF at
      <3> QED BY <3>1, ElemIs
    <2>3. ASSUME NEW k \in 1..(Len(s) + Len(t)), ~InT(k)
          PROVE  Ps(k) \in 1..Len(s) /\ at(k) = s[Ps(k)] /\ at(k) \in Elems(s)
      <3>1. Ps(k) \in 1..Len(s) /\ at(k) = s[Ps(k)]
        BY <1>0, <2>3
      <3> HIDE DEF at, Ps
      <3> QED BY <3>1, ElemIs
    <2> HIDE DEF at
    <2>4. CASE InT(i) /\ InT(j)
      <3>1. i - pos = j - pos
        BY <1>5, <2>1, <2>2, <2>4 DEF Distinct
      <3> QED BY <1>0, <2>1, <3>1
    <2>5. CASE ~InT(i) /\ ~InT(j)
      <3>1. Ps(i) = Ps(j)
        <4> HIDE DEF Ps
        <4> QED BY <1>5, <2>1, <2>3, <2>5 DEF Distinct
      <3> QED BY <1>0, <2>1, <2>5, <3>1
    <2>6. CASE InT(i) /\ ~InT(j)
      BY <1>5, <2>1, <2>2, <2>3, <2>6
    <2>7. CASE ~InT(i) /\ InT(j)
      BY <1>5, <2>1, <2>2, <2>3, <2>7
    <2> QED BY <2>4, <2>5, <2>6, <2>7
  <1>6. Elems(u) = Elems(s) \cup Elems(t)
    BY <1>2, <1>3, <1>4
  <1>7. Distinct(s) /\ Distinct(t) /\ Elems(s) \cap Elems(t) = {} => Distinct(u)
    BY <1>5 DEF Distinct
  <1> QED BY <1>6, <1>7 DEF u

\* What is left when a member of a sequence without repetition goes.
LEMMA WithoutElems ==
  \A S, s, pos :
    s \in Seq(S) /\ pos \in 0..(Len(s) - 1) /\ Distinct(s) =>
      /\ Elems(Without(s, pos)) = Elems(s) \ {s[pos + 1]}
      /\ Distinct(Without(s, pos))
  <1> SUFFICES ASSUME NEW S, NEW s, NEW pos,
                      s \in Seq(S), pos \in 0..(Len(s) - 1), Distinct(s)
               PROVE  /\ Elems(Without(s, pos)) = Elems(s) \ {s[pos + 1]}
                      /\ Distinct(Without(s, pos))
    OBVIOUS
  <1> DEFINE u == Without(s, pos)
             Ps(i) == IF i <= pos THEN i ELSE i + 1
  <1>0. Len(s) \in Nat /\ pos + 1 \in 1..Len(s)
    BY SeqIs
  <1>1. Len(u) = Len(s) - 1 /\ \A i \in 1..(Len(s) - 1) : u[i] = s[Ps(i)]
    BY WithoutIs
  <1> HIDE DEF u
  <1>2. \A i \in 1..Len(u) : Ps(i) \in 1..Len(s) /\ Ps(i) # pos + 1 /\ u[i] = s[Ps(i)]
    BY <1>0, <1>1
  <1>3. \A i, j \in 1..Len(u) : Ps(i) = Ps(j) => i = j
    BY <1>0, <1>1
  <1>4. \A k \in 1..Len(s) : k # pos + 1 => \E i \in 1..Len(u) : k = Ps(i)
    <2> SUFFICES ASSUME NEW k \in 1..Len(s), k # pos + 1 PROVE \E i \in 1..Len(u) : k = Ps(i)
      OBVIOUS
    <2>1. CASE k <= pos
      <3>1. k \in 1..Len(u) /\ k = Ps(k)
        BY <1>0, <1>1, <2>1
      <3> QED BY <3>1
    <2>2. CASE k > pos
      <3>1. k - 1 \in 1..Len(u) /\ k = Ps(k - 1)
        BY <1>0, <1>1, <2>2
      <3> QED BY <3>1
    <2> QED BY <1>0, <2>1, <2>2
  <1> HIDE DEF Ps
  <1>5. Distinct(u)
    BY <1>2, <1>3 DEF Distinct
  <1>6. ASSUME NEW x PROVE x \in Elems(u) <=> x \in Elems(s) /\ x # s[pos + 1]
    <2>1. ASSUME x \in Elems(u) PROVE x \in Elems(s) /\ x # s[pos + 1]
      <3>1. PICK i \in 1..Len(u) : x = u[i]
        BY <2>1, ElemIs
      <3>2. Ps(i) \in 1..Len(s) /\ Ps(i) # pos + 1 /\ x = s[Ps(i)]
        BY <1>2, <3>1
      <3> QED BY <1>0, <3>2, ElemIs DEF Distinct
    <2>2. ASSUME x \in Elems(s), x # s[pos + 1] PROVE x \in Elems(u)
      <3>1. PICK k \in 1..Len(s) : x = s[k]
        BY <2>2, ElemIs
      <3>2. PICK i \in 1..Len(u) : k = Ps(i)
        BY <1>4, <2>2, <3>1
      <3> QED BY <1>2, <3>1, <3>2, ElemIs
    <2> QED BY <2>1, <2>2
  <1> QED BY <1>5, <1>6 DEF u

\* The two halves of a sequence share it out.
LEMMA HalvesElems ==
  \A S, s, m :
    s \in Seq(S) /\ m \in 0..Len(s) =>
      /\ Elems(SubSeq(s, 1, m)) \cup Elems(SubSeq(s, m + 1, Len(s))) = Elems(s)
      /\ Distinct(s) => /\ Distinct(SubSeq(s, 1, m))
                        /\ Distinct(SubSeq(s, m + 1, Len(s)))
                        /\ Elems(SubSeq(s, 1, m)) \cap Elems(SubSeq(s, m + 1, Len(s))) = {}
  <1> SUFFICES ASSUME NEW S, NEW s, NEW m, s \in Seq(S), m \in 0..Len(s)
               PROVE  /\ Elems(SubSeq(s, 1, m)) \cup Elems(SubSeq(s, m + 1, Len(s))) = Elems(s)
                      /\ Distinct(s) =>
                           /\ Distinct(SubSeq(s, 1, m))
                           /\ Distinct(SubSeq(s, m + 1, Len(s)))
                           /\ Elems(SubSeq(s, 1, m)) \cap Elems(SubSeq(s, m + 1, Len(s))) = {}
    OBVIOUS
  <1> DEFINE a == SubSeq(s, 1, m)
             b == SubSeq(s, m + 1, Len(s))
  <1>0. Len(s) \in Nat
    BY SeqIs
  <1>1. Len(a) = m /\ \A i \in 1..m : a[i] = s[i]
    <2>1. 1 \in 1..(Len(s) + 1) /\ m \in (1 - 1)..Len(s) /\ m - 1 + 1 = m
      BY <1>0
    <2>2. \A i \in 1..m : 1 + i - 1 = i
      BY <1>0
    <2>3. Len(a) = m - 1 + 1 /\ \A i \in 1..(m - 1 + 1) : a[i] = s[1 + i - 1]
      BY <2>1, CutIs
    <2> HIDE DEF a
    <2> QED BY <2>1, <2>2, <2>3
  <1>2. Len(b) = Len(s) - m /\ \A i \in 1..(Len(s) - m) : b[i] = s[m + i]
    <2>1. m + 1 \in 1..(Len(s) + 1) /\ Len(s) \in (m + 1 - 1)..Len(s)
      BY <1>0
    <2>2. Len(s) - (m + 1) + 1 = Len(s) - m /\ \A i \in 1..(Len(s) - m) : (m + 1) + i - 1 = m + i
      BY <1>0
    <2>3. /\ Len(b) = Len(s) - (m + 1) + 1
          /\ \A i \in 1..(Len(s) - (m + 1) + 1) : b[i] = s[(m + 1) + i - 1]
      BY <2>1, CutIs
    <2> HIDE DEF b
    <2> QED BY <2>2, <2>3
  <1> HIDE DEF a, b
  <1>3. ASSUME NEW x \in Elems(s) PROVE x \in Elems(a) \/ x \in Elems(b)
    <2>1. PICK i \in 1..Len(s) : x = s[i]
      BY <1>3, ElemIs
    <2>2. CASE i <= m
      BY <1>0, <1>1, <2>1, <2>2, ElemIs
    <2>3. CASE m < i
      <3>1. i - m \in 1..Len(b) /\ m + (i - m) = i
        BY <1>0, <1>2, <2>1, <2>3
      <3> QED BY <1>2, <2>1, <3>1, ElemIs
    <2> QED BY <1>0, <2>1, <2>2, <2>3
  <1>4. ASSUME NEW x \in Elems(a) PROVE \E i \in 1..m : i \in 1..Len(s) /\ x = s[i]
    BY <1>0, <1>1, <1>4, ElemIs
  <1>5. ASSUME NEW x \in Elems(b) PROVE \E i \in (m + 1)..Len(s) : i \in 1..Len(s) /\ x = s[i]
    <2>1. PICK i \in 1..Len(b) : x = b[i]
      BY <1>5, ElemIs
    <2>2. m + i \in (m + 1)..Len(s) /\ m + i \in 1..Len(s) /\ x = s[m + i]
      BY <1>0, <1>2, <2>1
    <2> QED BY <2>2
  <1>6. Elems(a) \cup Elems(b) = Elems(s)
    BY <1>3, <1>4, <1>5, ElemIs
  <1>7. ASSUME Distinct(s)
        PROVE  Distinct(a) /\ Distinct(b) /\ Elems(a) \cap Elems(b) = {}
    <2>1. Distinct(a)
      BY <1>0, <1>1, <1>7 DEF Distinct
    <2>2. Distinct(b)
      <3> SUFFICES ASSUME NEW i \in 1..Len(b), NEW j \in 1..Len(b), b[i] = b[j] PROVE i = j
        BY DEF Distinct
      <3>1. m + i \in 1..Len(s) /\ m + j \in 1..Len(s) /\ s[m + i] = s[m + j]
        BY <1>0, <1>2
      <3>2. m + i = m + j
        BY <1>7, <3>1 DEF Distinct
      <3> QED BY <1>0, <1>2, <3>2
    <2>3. ASSUME NEW x \in Elems(a), x \in Elems(b) PROVE FALSE
      <3>1. PICK i \in 1..m : i \in 1..Len(s) /\ x = s[i]
        BY <1>4, <2>3
      <3>2. PICK j \in (m + 1)..Len(s) : j \in 1..Len(s) /\ x = s[j]
        BY <1>5, <2>3
      <3>3. i = j
        BY <1>7, <3>1, <3>2 DEF Distinct
      <3> QED BY <1>0, <3>1, <3>2, <3>3
    <2> QED BY <2>1, <2>2, <2>3
  <1> QED BY <1>6, <1>7 DEF a, b

\* What two joined sequences hold.
LEMMA ConcatElems ==
  \A S, s, t : s \in Seq(S) /\ t \in Seq(S) => Elems(s \o t) \subseteq Elems(s) \cup Elems(t)
  <1> SUFFICES ASSUME NEW S, NEW s, NEW t, s \in Seq(S), t \in Seq(S), NEW x \in Elems(s \o t)
               PROVE  x \in Elems(s) \cup Elems(t)
    OBVIOUS
  <1>0. Len(s) \in Nat /\ Len(t) \in Nat
    BY SeqIs
  <1>1. PICK i \in 1..(Len(s) + Len(t)) : x = (s \o t)[i]
    <2>1. Len(s \o t) = Len(s) + Len(t)
      BY ConcatIs
    <2> QED BY <2>1, ElemIs
  <1>2. CASE i <= Len(s)
    <2>1. i \in 1..Len(s) /\ x = s[i]
      BY <1>0, <1>1, <1>2, ConcatIs
    <2> QED BY <2>1, ElemIs
  <1>3. CASE ~(i <= Len(s))
    <2>1. i - Len(s) \in 1..Len(t) /\ x = t[i - Len(s)]
      BY <1>0, <1>1, <1>3, ConcatIs
    <2> QED BY <2>1, ElemIs
  <1> QED BY <1>0, <1>1, <1>2, <1>3

\* A stretch up to the end, wherever it begins.
LEMMA RestIs ==
  \A S, s, k :
    s \in Seq(S) /\ k \in Nat =>
      /\ SubSeq(s, k + 1, Len(s)) \in Seq(S)
      /\ k <= Len(s) => Len(SubSeq(s, k + 1, Len(s))) = Len(s) - k
      /\ Elems(SubSeq(s, k + 1, Len(s))) \subseteq Elems(s)
  <1> SUFFICES ASSUME NEW S, NEW s, NEW k, s \in Seq(S), k \in Nat
               PROVE  /\ SubSeq(s, k + 1, Len(s)) \in Seq(S)
                      /\ k <= Len(s) => Len(SubSeq(s, k + 1, Len(s))) = Len(s) - k
                      /\ Elems(SubSeq(s, k + 1, Len(s))) \subseteq Elems(s)
    OBVIOUS
  <1>0. Len(s) \in Nat
    BY SeqIs
  <1>1. CASE k <= Len(s)
    <2>1. k + 1 \in 1..(Len(s) + 1) /\ Len(s) \in (k + 1 - 1)..Len(s) /\ k \in 0..Len(s)
      BY <1>0, <1>1
    <2>2. SubSeq(s, k + 1, Len(s)) \in Seq(S) /\ Len(SubSeq(s, k + 1, Len(s))) = Len(s) - (k + 1) + 1
      BY <2>1, CutIs
    <2>3. Len(s) - (k + 1) + 1 = Len(s) - k
      BY <1>0
    <2>4. Elems(SubSeq(s, 1, k)) \cup Elems(SubSeq(s, k + 1, Len(s))) = Elems(s)
      BY <2>1, HalvesElems
    <2> QED BY <2>2, <2>3, <2>4
  <1>2. CASE ~(k <= Len(s))
    <2>1. k + 1 \in Int /\ Len(s) \in Int /\ Len(s) < k + 1
      BY <1>0, <1>2
    <2>2. SubSeq(s, k + 1, Len(s)) = <<>>
      BY <2>1, SubSeqEmpty
    <2>3. <<>> \in Seq(S) /\ Len(<<>>) = 0
      BY EmptySeq
    <2>4. Elems(<<>>) = {}
      BY <2>3, ElemIs
    <2> QED BY <1>2, <2>2, <2>3, <2>4
  <1> QED BY <1>1, <1>2

-----------------------------------------------------------------------------
(* The operations of IxNodeHandle.                                         *)

\* m differs from n in its pairs at most.
SameLinks(m, n) ==
  (m.leaf <=> n.leaf) /\ m.parent = n.parent /\ m.prev = n.prev /\ m.next = n.next

\* The sizes of a node, as create_index and SetSize use them.
LEMMA Sizes == /\ MaxSize \in Nat /\ MinSize \in Nat /\ MaxSize >= 4 /\ MinSize >= 2
               /\ 2 * MinSize <= MaxSize /\ MaxSize <= 2 * MinSize + 1
               /\ MaxPage \in Nat /\ MaxPage >= 2 /\ MaxSize = Order + 1
  BY OrderAssumption, MaxPageAssumption DEF MaxSize, MinSize

\* What NodeOK says of the fields of a node.
LEMMA NodeIs ==
  \A n : NodeOK(n) =>
    /\ n.leaf \in BOOLEAN /\ n.parent \in {IX_NO_PAGE} \cup Pages
    /\ n.prev \in 0..MaxPage /\ n.next \in 0..MaxPage
    /\ n.keys \in Seq(Keys) /\ n.vals \in Seq(Slots) /\ n.past \in Seq(Links)
    /\ Size(n) \in Nat /\ Len(n.vals) = Size(n) /\ Len(n.keys) = Size(n) /\ Len(n.past) \in Nat
    /\ ~n.leaf => n.vals \in Seq(Pages)
    /\ ~n.leaf => Len(n.vals) + Len(n.past) = MaxSize
  <1> SUFFICES ASSUME NEW n, NodeOK(n)
               PROVE  /\ n.leaf \in BOOLEAN /\ n.parent \in {IX_NO_PAGE} \cup Pages
                      /\ n.prev \in 0..MaxPage /\ n.next \in 0..MaxPage
                      /\ n.keys \in Seq(Keys) /\ n.vals \in Seq(Slots) /\ n.past \in Seq(Links)
                      /\ Size(n) \in Nat /\ Len(n.vals) = Size(n) /\ Len(n.keys) = Size(n)
                      /\ Len(n.past) \in Nat
                      /\ ~n.leaf => n.vals \in Seq(Pages)
                      /\ ~n.leaf => Len(n.vals) + Len(n.past) = MaxSize
    OBVIOUS
  <1>1. /\ n.leaf \in BOOLEAN /\ n.parent \in {IX_NO_PAGE} \cup Pages
        /\ n.prev \in 0..MaxPage /\ n.next \in 0..MaxPage
        /\ n.keys \in Seq(Keys) /\ n.vals \in Seq(Slots) /\ n.past \in Seq(Links)
    BY DEF NodeOK, NodeRecords
  <1>2. Len(n.keys) \in Nat /\ Len(n.past) \in Nat
    BY <1>1, SeqIs
  <1>3. Size(n) = Len(n.keys)
    BY DEF Size
  <1>4. /\ Len(n.vals) = Len(n.keys)
        /\ ~n.leaf => n.vals \in Seq(Pages)
        /\ ~n.leaf => Len(n.vals) + Len(n.past) = MaxSize
    BY DEF NodeOK
  <1> QED BY <1>1, <1>2, <1>3, <1>4

\* The pairs of a node replaced.
Repaired(n, ks, vs, ps) == [n EXCEPT !.keys = ks, !.vals = vs, !.past = ps]

\* A node whose pairs are replaced keeps its links.
LEMMA FieldsIs ==
  \A n, ks, vs, ps, m :
    (/\ NodeOK(n) /\ ks \in Seq(Keys) /\ vs \in Seq(Slots) /\ ps \in Seq(Links)
     /\ m = Repaired(n, ks, vs, ps))
      => /\ m \in NodeRecords /\ SameLinks(m, n)
         /\ m.keys = ks /\ m.vals = vs /\ m.past = ps
  <1> SUFFICES ASSUME NEW n, NEW ks, NEW vs, NEW ps, NEW m, NodeOK(n),
                      ks \in Seq(Keys), vs \in Seq(Slots), ps \in Seq(Links),
                      m = Repaired(n, ks, vs, ps)
               PROVE  /\ m \in NodeRecords /\ SameLinks(m, n)
                      /\ m.keys = ks /\ m.vals = vs /\ m.past = ps
    OBVIOUS
  <1>1. n \in NodeRecords
    BY DEF NodeOK
  <1>2. m \in NodeRecords
    BY <1>1 DEF NodeRecords, Repaired
  <1>3. m.keys = ks /\ m.vals = vs /\ m.past = ps
    BY <1>1 DEF NodeRecords, Repaired
  <1>4. m.leaf = n.leaf /\ m.parent = n.parent /\ m.prev = n.prev /\ m.next = n.next
    BY <1>1 DEF NodeRecords, Repaired
  <1> QED BY <1>2, <1>3, <1>4 DEF SameLinks

\* m is n with the values vs put in before index pos.
IsInsert(m, n, pos, ks, vs) ==
  /\ NodeOK(m) /\ SameLinks(m, n)
  /\ m.keys = Splice(n.keys, pos, ks) /\ m.vals = Splice(n.vals, pos, vs)
  /\ Size(m) = Size(n) + Len(vs)
  /\ Gone(m) \subseteq Gone(n)
  /\ Children(m) = Children(n) \cup (IF n.leaf THEN {} ELSE Elems(vs))
  /\ Distinct(n.vals) /\ Distinct(vs) /\ Elems(n.vals) \cap Elems(vs) = {} => Distinct(m.vals)

\* Children, in terms of Elems.
LEMMA ChildrenIs == \A n : Children(n) = IF n.leaf THEN {} ELSE Elems(n.vals)
  BY DEF Children, Elems

\* The children of an internal node stay page numbers.
LEMMA SplicePages ==
  \A n, pos, vs :
     n.vals \in Seq(Pages) /\ vs \in Seq(Pages) /\ pos \in 0..Len(n.vals)
       => Splice(n.vals, pos, vs) \in Seq(Pages)
  BY SpliceIs

\* What insert_pairs makes of a node it does not overfill.
LEMMA InsertPairsIs ==
  \A n, pos, ks, vs :
    (/\ NodeOK(n) /\ pos \in 0..Size(n) /\ ks \in Seq(Keys) /\ vs \in Seq(Slots)
     /\ Len(ks) = Len(vs) /\ Size(n) + Len(vs) <= MaxSize /\ (~n.leaf => vs \in Seq(Pages)))
      => IsInsert(insert_pairs(n, pos, ks, vs), n, pos, ks, vs)
  <1> SUFFICES ASSUME NEW n, NEW pos, NEW ks, NEW vs,
                      NodeOK(n), pos \in 0..Size(n), ks \in Seq(Keys), vs \in Seq(Slots),
                      Len(ks) = Len(vs), Size(n) + Len(vs) <= MaxSize, ~n.leaf => vs \in Seq(Pages)
               PROVE  IsInsert(insert_pairs(n, pos, ks, vs), n, pos, ks, vs)
    OBVIOUS
  <1> DEFINE m == insert_pairs(n, pos, ks, vs)
             K == Splice(n.keys, pos, ks)
             V == Splice(n.vals, pos, vs)
             P == SubSeq(n.past, Len(vs) + 1, Len(n.past))
  <1>1. /\ n.keys \in Seq(Keys) /\ n.vals \in Seq(Slots) /\ n.past \in Seq(Links)
        /\ Size(n) \in Nat /\ Len(n.vals) = Size(n) /\ Len(n.keys) = Size(n) /\ Len(n.past) \in Nat
    BY NodeIs
  <1>2. Len(ks) \in Nat /\ Len(vs) \in Nat
    BY SeqIs
  <1>3. K \in Seq(Keys) /\ Len(K) = Size(n) + Len(ks)
    BY <1>1, SpliceIs
  <1>4. V \in Seq(Slots) /\ Len(V) = Size(n) + Len(vs) /\ Elems(V) = Elems(n.vals) \cup Elems(vs)
    <2>1. V \in Seq(Slots) /\ Len(V) = Size(n) + Len(vs)
      BY <1>1, SpliceIs
    <2>2. Elems(V) = Elems(n.vals) \cup Elems(vs)
      BY <1>1, SpliceElems
    <2> QED BY <2>1, <2>2
  <1>5. /\ P \in Seq(Links) /\ Elems(P) \subseteq Elems(n.past)
        /\ Len(vs) <= Len(n.past) => Len(P) = Len(n.past) - Len(vs)
    <2> DEFINE past == n.past
               k == Len(vs)
    <2>1. past \in Seq(Links) /\ k \in Nat
      BY <1>1, <1>2
    <2> HIDE DEF past, k
    <2>2. /\ SubSeq(past, k + 1, Len(past)) \in Seq(Links)
          /\ Elems(SubSeq(past, k + 1, Len(past))) \subseteq Elems(past)
          /\ k <= Len(past) => Len(SubSeq(past, k + 1, Len(past))) = Len(past) - k
      BY <2>1, RestIs
    <2> QED BY <2>2 DEF past, k
  <1>6. m = Repaired(n, K, V, P)
    BY DEF insert_pairs, Repaired
  <1>7. ~n.leaf => V \in Seq(Pages)
    BY <1>1, NodeIs, SplicePages
  <1>10. Distinct(n.vals) /\ Distinct(vs) /\ Elems(n.vals) \cap Elems(vs) = {} => Distinct(V)
    BY <1>1, SpliceElems
  <1> HIDE DEF m, K, V, P
  <1>8. m \in NodeRecords /\ SameLinks(m, n) /\ m.keys = K /\ m.vals = V /\ m.past = P
    BY <1>3, <1>4, <1>5, <1>6, FieldsIs
  <1>9. m.leaf <=> n.leaf
    BY <1>8 DEF SameLinks
  <1>11. NodeOK(m)
    <2>1. Len(m.vals) = Len(m.keys)
      BY <1>3, <1>4, <1>8
    <2>2. ~m.leaf => m.vals \in Seq(Pages)
      BY <1>7, <1>8, <1>9
    <2>3. ASSUME ~m.leaf PROVE Len(m.vals) + Len(m.past) = MaxSize
      <3>1. Len(n.vals) + Len(n.past) = MaxSize
        BY <1>9, <2>3, NodeIs
      <3>2. Len(vs) <= Len(n.past)
        BY <1>1, <1>2, <3>1, Sizes
      <3>3. Len(m.past) = Len(n.past) - Len(vs)
        BY <1>5, <1>8, <3>2
      <3>4. Len(m.vals) = Len(n.vals) + Len(vs)
        BY <1>1, <1>4, <1>8
      <3> QED BY <1>1, <1>2, <3>1, <3>3, <3>4, Sizes
    <2> QED BY <1>8, <2>1, <2>2, <2>3 DEF NodeOK
  <1>12. Size(m) = Size(n) + Len(vs)
    BY <1>3, <1>8 DEF Size
  <1>13. Gone(m) \subseteq Gone(n)
    BY <1>5, <1>8, <1>9 DEF Gone
  <1>14. Children(m) = Children(n) \cup (IF n.leaf THEN {} ELSE Elems(vs))
    BY <1>4, <1>8, <1>9, ChildrenIs
  <1>15. m.keys = Splice(n.keys, pos, ks) /\ m.vals = Splice(n.vals, pos, vs)
    BY <1>8 DEF K, V
  <1>16. Distinct(n.vals) /\ Distinct(vs) /\ Elems(n.vals) \cap Elems(vs) = {} => Distinct(m.vals)
    BY <1>8, <1>10
  <1> QED BY <1>8, <1>11, <1>12, <1>13, <1>14, <1>15, <1>16 DEF m, IsInsert

\* A sequence of one member.
LEMMA OneIs ==
  \A S, x : x \in S => <<x>> \in Seq(S) /\ Len(<<x>>) = 1 /\ Elems(<<x>>) = {x} /\ Distinct(<<x>>)
  <1> SUFFICES ASSUME NEW S, NEW x, x \in S
               PROVE <<x>> \in Seq(S) /\ Len(<<x>>) = 1 /\ Elems(<<x>>) = {x} /\ Distinct(<<x>>)
    OBVIOUS
  <1>1. <<x>> \in Seq(S) /\ Len(<<x>>) = 1 /\ <<x>>[1] = x
    OBVIOUS
  <1>2. \A i : i \in 1..1 <=> i = 1
    OBVIOUS
  <1>3. \A i : i \in 1..Len(<<x>>) <=> i = 1
    BY <1>1, <1>2
  <1>4. Elems(<<x>>) = {x}
    BY <1>1, <1>3, ElemIs
  <1> QED BY <1>1, <1>3, <1>4 DEF Distinct

\* One pair.
LEMMA InsertPairIs ==
  \A n, pos, key, val :
    (/\ NodeOK(n) /\ pos \in 0..Size(n) /\ key \in Keys /\ val \in Slots
     /\ Size(n) < MaxSize /\ (~n.leaf => val \in Pages))
      => /\ IsInsert(insert_pair(n, pos, key, val), n, pos, <<key>>, <<val>>)
         /\ Size(insert_pair(n, pos, key, val)) = Size(n) + 1
         /\ Children(insert_pair(n, pos, key, val))
              = Children(n) \cup (IF n.leaf THEN {} ELSE {val})
         /\ Distinct(n.vals) /\ val \notin Elems(n.vals) => Distinct(insert_pair(n, pos, key, val).vals)
  <1> SUFFICES ASSUME NEW n, NEW pos, NEW key, NEW val,
                      NodeOK(n), pos \in 0..Size(n), key \in Keys, val \in Slots,
                      Size(n) < MaxSize, ~n.leaf => val \in Pages
               PROVE  /\ IsInsert(insert_pair(n, pos, key, val), n, pos, <<key>>, <<val>>)
                      /\ Size(insert_pair(n, pos, key, val)) = Size(n) + 1
                      /\ Children(insert_pair(n, pos, key, val))
                           = Children(n) \cup (IF n.leaf THEN {} ELSE {val})
                      /\ Distinct(n.vals) /\ val \notin Elems(n.vals)
                           => Distinct(insert_pair(n, pos, key, val).vals)
    OBVIOUS
  <1>1. <<key>> \in Seq(Keys) /\ Len(<<key>>) = 1
    BY OneIs
  <1>2. /\ <<val>> \in Seq(Slots) /\ Len(<<val>>) = 1 /\ Elems(<<val>>) = {val} /\ Distinct(<<val>>)
        /\ ~n.leaf => <<val>> \in Seq(Pages)
    BY OneIs
  <1>3. Size(n) + Len(<<val>>) <= MaxSize
    <2>1. Size(n) \in Nat
      BY NodeIs
    <2> QED BY <1>2, <2>1, Sizes
  <1>4. IsInsert(insert_pair(n, pos, key, val), n, pos, <<key>>, <<val>>)
    BY <1>1, <1>2, <1>3, InsertPairsIs DEF insert_pair
  <1> HIDE DEF insert_pair
  <1> DEFINE m == insert_pair(n, pos, key, val)
             v == <<val>>
  <1>5. /\ Size(m) = Size(n) + Len(v) /\ Children(m) = Children(n) \cup (IF n.leaf THEN {} ELSE Elems(v))
        /\ Distinct(n.vals) /\ Distinct(v) /\ Elems(n.vals) \cap Elems(v) = {} => Distinct(m.vals)
    BY <1>4 DEF IsInsert
  <1>6. Len(v) = 1 /\ Elems(v) = {val} /\ Distinct(v)
    BY <1>2
  <1> HIDE DEF m, v
  <1>7. /\ Size(m) = Size(n) + 1 /\ Children(m) = Children(n) \cup (IF n.leaf THEN {} ELSE {val})
        /\ Distinct(n.vals) /\ val \notin Elems(n.vals) => Distinct(m.vals)
    BY <1>5, <1>6
  <1> QED BY <1>4, <1>7 DEF m

\* m is n without the pair at index pos.
IsErase(m, n, pos) ==
  /\ NodeOK(m) /\ SameLinks(m, n)
  /\ m.keys = Without(n.keys, pos) /\ m.vals = Without(n.vals, pos)
  /\ Size(m) = Size(n) - 1
  /\ Gone(m) \subseteq Gone(n) \cup Children(n)
  /\ Distinct(n.vals) => /\ Distinct(m.vals)
                         /\ Children(m) = Children(n) \ {n.vals[pos + 1]}

\* What erase_pair makes of a node.
LEMMA ErasePairIs ==
  \A n, pos : NodeOK(n) /\ pos \in 0..(Size(n) - 1) => IsErase(erase_pair(n, pos), n, pos)
  <1> SUFFICES ASSUME NEW n, NEW pos, NodeOK(n), pos \in 0..(Size(n) - 1)
               PROVE  IsErase(erase_pair(n, pos), n, pos)
    OBVIOUS
  <1> DEFINE m == erase_pair(n, pos)
             K == Without(n.keys, pos)
             V == Without(n.vals, pos)
             last == n.vals[Size(n)]
             P == IF n.leaf THEN n.past ELSE <<last>> \o n.past
  <1>1. /\ n.keys \in Seq(Keys) /\ n.vals \in Seq(Slots) /\ n.past \in Seq(Links)
        /\ Size(n) \in Nat /\ Len(n.vals) = Size(n) /\ Len(n.keys) = Size(n) /\ Len(n.past) \in Nat
    BY NodeIs
  <1>2. Size(n) \in 1..Len(n.vals)
    BY <1>1
  <1>3. K \in Seq(Keys) /\ Len(K) = Size(n) - 1
    BY <1>1, WithoutIs
  <1>4. /\ V \in Seq(Slots) /\ Len(V) = Size(n) - 1
        /\ Distinct(n.vals) => Distinct(V) /\ Elems(V) = Elems(n.vals) \ {n.vals[pos + 1]}
    BY <1>1, WithoutIs, WithoutElems
  <1>5. /\ P \in Seq(Links) /\ (~n.leaf => Elems(P) \subseteq Elems(n.past) \cup Elems(n.vals))
        /\ ~n.leaf => Len(P) = Len(n.past) + 1
    <2>1. CASE ~n.leaf
      <3>1. last \in Pages /\ last \in Elems(n.vals)
        BY <1>2, <2>1, NodeIs, SeqIs, ElemIs
      <3>2. last \in Links
        BY <3>1 DEF Links
      <3> HIDE DEF last
      <3>3. <<last>> \in Seq(Links) /\ Len(<<last>>) = 1 /\ Elems(<<last>>) = {last}
        BY <3>2, OneIs
      <3>4. <<last>> \o n.past \in Seq(Links) /\ Len(<<last>> \o n.past) = Len(<<last>>) + Len(n.past)
        BY <1>1, <3>3, ConcatIs
      <3>5. Elems(<<last>> \o n.past) \subseteq Elems(<<last>>) \cup Elems(n.past)
        BY <1>1, <3>3, ConcatElems
      <3>6. Len(<<last>>) + Len(n.past) = Len(n.past) + 1
        BY <1>1, <3>3
      <3> QED BY <2>1, <3>1, <3>3, <3>4, <3>5, <3>6
    <2>2. CASE n.leaf
      BY <1>1, <2>2
    <2> QED BY <2>1, <2>2
  <1>6. m = Repaired(n, K, V, P)
    BY DEF erase_pair, Repaired
  <1>7. ~n.leaf => V \in Seq(Pages)
    BY <1>1, NodeIs, WithoutIs
  <1> HIDE DEF m, K, V, P, last
  <1>8. m \in NodeRecords /\ SameLinks(m, n) /\ m.keys = K /\ m.vals = V /\ m.past = P
    BY <1>3, <1>4, <1>5, <1>6, FieldsIs
  <1>9. m.leaf <=> n.leaf
    BY <1>8 DEF SameLinks
  <1>11. NodeOK(m)
    <2>1. Len(m.vals) = Len(m.keys)
      BY <1>3, <1>4, <1>8
    <2>2. ~m.leaf => m.vals \in Seq(Pages)
      BY <1>7, <1>8, <1>9
    <2>3. ASSUME ~m.leaf PROVE Len(m.vals) + Len(m.past) = MaxSize
      <3>1. Len(n.vals) + Len(n.past) = MaxSize
        BY <1>9, <2>3, NodeIs
      <3>3. Len(m.past) = Len(n.past) + 1
        BY <1>5, <1>8, <1>9, <2>3
      <3> QED BY <1>1, <1>4, <1>8, <3>1, <3>3, Sizes
    <2> QED BY <1>8, <2>1, <2>2, <2>3 DEF NodeOK
  <1>12. Size(m) = Size(n) - 1
    BY <1>3, <1>8 DEF Size
  <1>13. Gone(m) \subseteq Gone(n) \cup Children(n)
    BY <1>5, <1>8, <1>9, ChildrenIs DEF Gone
  <1>14. Distinct(n.vals) => Distinct(m.vals) /\ Children(m) = Children(n) \ {n.vals[pos + 1]}
    BY <1>4, <1>8, <1>9, ChildrenIs
  <1>15. m.keys = Without(n.keys, pos) /\ m.vals = Without(n.vals, pos)
    BY <1>8 DEF K, V
  <1> QED BY <1>8, <1>11, <1>12, <1>13, <1>14, <1>15 DEF m, IsErase

-----------------------------------------------------------------------------
(* Loops and binary searches.                                              *)

\* A set of numbers that is not empty has a least one.
LEMMA LeastExists ==
  ASSUME NEW T, T \subseteq Nat, T # {}
  PROVE  \E x \in T : \A y \in T : x <= y
  <1> DEFINE R == {ss \in Nat \X Nat : ss[1] < ss[2]}
  <1>1. IsWellFoundedOn(R, Nat)
    BY NatLessThanWellFounded DEF OpToRel
  <1>2. \E x \in T : \A y \in T : ~(<<y, x>> \in R)
    <2> HIDE DEF R
    <2> QED BY <1>1, WFMin
  <1>3. PICK x \in T : \A y \in T : ~(<<y, x>> \in R)
    BY <1>2
  <1>4. ASSUME NEW y \in T PROVE x <= y
    <2>1. x \in Nat /\ y \in Nat
      BY <1>4
    <2>2. ~(<<y, x>> \in R)
      BY <1>3, <1>4
    <2>3. ~(y < x)
      BY <2>1, <2>2
    <2> QED BY <2>1, <2>3
  <1> QED BY <1>4

\* Induction over the rank of the members of a set.
LEMMA RankInduction ==
  ASSUME NEW D, NEW rank, \A x \in D : rank[x] \in Nat, NEW P,
         \A x \in D : (\A y \in D : rank[y] < rank[x] => y \in P) => x \in P
  PROVE  D \subseteq P
  <1> DEFINE T == {rank[x] : x \in D \ P}
  <1> SUFFICES ASSUME D \ P # {} PROVE FALSE
    OBVIOUS
  <1>1. T \subseteq Nat /\ T # {}
    OBVIOUS
  <1>2. PICK k \in T : \A y \in T : k <= y
    <2> HIDE DEF T
    <2> QED BY <1>1, LeastExists
  <1>3. PICK x \in D \ P : k = rank[x]
    BY <1>2
  <1>4. ASSUME NEW y \in D, rank[y] < rank[x], y \notin P PROVE FALSE
    <2>1. rank[y] \in T /\ rank[y] \in Nat /\ rank[x] \in Nat
      BY <1>4
    <2> HIDE DEF T
    <2> QED BY <1>2, <1>3, <1>4, <2>1
  <1> QED BY <1>3, <1>4

\* f repeats step until it is done, and returns out.
TailEq(f, D, done, out, step) ==
  \A x \in D : f[x] = IF x \in done THEN out[x] ELSE f[step[x]]

Loop(D, R, done, out, step, rank) ==
  /\ \A x \in D : out[x] \in R /\ step[x] \in D /\ rank[x] \in Nat
  /\ \A x \in D : x \notin done => rank[step[x]] < rank[x]

\* A loop whose rank falls returns something of R.
LEMMA TailRange ==
  \A f, D, R, done, out, step, rank :
    Loop(D, R, done, out, step, rank) /\ TailEq(f, D, done, out, step)
      => \A x \in D : f[x] \in R
  <1> SUFFICES ASSUME NEW f, NEW D, NEW R, NEW done, NEW out, NEW step, NEW rank,
                      Loop(D, R, done, out, step, rank), TailEq(f, D, done, out, step)
               PROVE  \A x \in D : f[x] \in R
    OBVIOUS
  <1> DEFINE P == {x \in D : f[x] \in R}
  <1>1. \A x \in D : rank[x] \in Nat
    BY DEF Loop
  <1>2. ASSUME NEW x \in D, \A y \in D : rank[y] < rank[x] => y \in P PROVE x \in P
    <2>1. CASE x \in done
      BY <2>1 DEF Loop, TailEq
    <2>2. CASE x \notin done
      <3>1. step[x] \in D /\ rank[step[x]] < rank[x] /\ f[x] = f[step[x]]
        BY <2>2 DEF Loop, TailEq
      <3>2. step[x] \in P
        BY <1>2, <3>1
      <3> QED BY <3>1, <3>2
    <2> QED BY <2>1, <2>2
  <1> HIDE DEF P
  <1>3. D \subseteq P
    BY <1>1, <1>2, RankInduction
  <1> QED BY <1>3 DEF P

\* There is such an f when the ranks are bounded.
LEMMA TailExists ==
  \A D, R, done, out, step, rank, n :
    Loop(D, R, done, out, step, rank) /\ n \in Nat /\ (\A x \in D : rank[x] <= n)
      => \E f \in [D -> R] : TailEq(f, D, done, out, step)
  <1> SUFFICES ASSUME NEW D, NEW R, NEW done, NEW out, NEW step, NEW rank, NEW n,
                      Loop(D, R, done, out, step, rank), n \in Nat, \A x \in D : rank[x] <= n
               PROVE  \E f \in [D -> R] : TailEq(f, D, done, out, step)
    OBVIOUS
  <1> DEFINE Upto(f, k) ==
               \A x \in D : rank[x] < k => f[x] = IF x \in done THEN out[x] ELSE f[step[x]]
             P == {k \in Nat : \E f \in [D -> R] : Upto(f, k)}
             rk == [k \in Nat |-> k]
  <1>1. ASSUME NEW k \in Nat, \A j \in Nat : rk[j] < rk[k] => j \in P PROVE k \in P
    <2>1. CASE k = 0
      <3>1. [x \in D |-> out[x]] \in [D -> R]
        BY DEF Loop
      <3>2. \A x \in D : ~(rank[x] < 0)
        BY DEF Loop
      <3>3. Upto([x \in D |-> out[x]], 0)
        BY <3>2
      <3>4. \E f \in [D -> R] : Upto(f, 0)
        <4> HIDE DEF Upto
        <4> QED BY <3>1, <3>3
      <3> HIDE DEF Upto
      <3> QED BY <2>1, <3>4
    <2>2. CASE k # 0
      <3>1. k - 1 \in P
        BY <1>1, <2>2
      <3>2. PICK f \in [D -> R] : Upto(f, k - 1)
        <4> HIDE DEF Upto
        <4> QED BY <3>1
      <3> DEFINE g == [x \in D |-> IF x \in done THEN out[x] ELSE f[step[x]]]
      <3>3. g \in [D -> R]
        BY <3>2 DEF Loop
      <3>4. ASSUME NEW x \in D, rank[x] < k
            PROVE  g[x] = IF x \in done THEN out[x] ELSE g[step[x]]
        <4>1. CASE x \in done
          BY <4>1
        <4>2. CASE x \notin done
          <5>1. /\ step[x] \in D /\ rank[step[x]] < rank[x]
                /\ rank[x] \in Nat /\ rank[step[x]] \in Nat
            BY <4>2 DEF Loop
          <5>2. rank[step[x]] < k - 1
            BY <3>4, <5>1
          <5>3. f[step[x]] = g[step[x]]
            BY <3>2, <5>1, <5>2
          <5> QED BY <4>2, <5>3
        <4> QED BY <4>1, <4>2
      <3> HIDE DEF g
      <3>5. Upto(g, k)
        BY <3>4
      <3> HIDE DEF Upto
      <3> QED BY <3>3, <3>5
    <2> QED BY <2>1, <2>2
  <1>2. Nat \subseteq P
    <2>1. \A k \in Nat : rk[k] \in Nat
      OBVIOUS
    <2> DEFINE D0 == Nat
    <2>2. /\ \A k \in D0 : rk[k] \in Nat
          /\ \A k \in D0 : (\A j \in D0 : rk[j] < rk[k] => j \in P) => k \in P
      BY <1>1, <2>1
    <2> HIDE DEF P, rk, D0
    <2>3. D0 \subseteq P
      BY <2>2, RankInduction
    <2> QED BY <2>3 DEF D0
  <1>3. PICK f \in [D -> R] : Upto(f, n + 1)
    <2>1. n + 1 \in P
      BY <1>2
    <2> HIDE DEF Upto
    <2> QED BY <2>1
  <1>4. \A x \in D : rank[x] < n + 1
    BY DEF Loop
  <1> QED BY <1>3, <1>4 DEF TailEq

-----------------------------------------------------------------------------
\* f is the binary search over n keys, of which the ones at the indices in less
\* send it to the right.
IsSearch(f, n, less) ==
  f = [w \in (0..n) \X (0..n) |->
         IF w[1] >= w[2] THEN w[1]
         ELSE IF (w[1] + w[2]) \div 2 \in less THEN f[<<(w[1] + w[2]) \div 2 + 1, w[2]>>]
                                               ELSE f[<<w[1], (w[1] + w[2]) \div 2>>]]

\* There is one binary search, and it ends inside [0, n].
LEMMA SearchIs ==
  \A n, less :
    n \in Nat => /\ \E f : IsSearch(f, n, less)
                 /\ \A f : IsSearch(f, n, less) => f[<<0, n>>] \in 0..n
  <1> SUFFICES ASSUME NEW n, NEW less, n \in Nat
               PROVE  /\ \E f : IsSearch(f, n, less)
                      /\ \A f : IsSearch(f, n, less) => f[<<0, n>>] \in 0..n
    OBVIOUS
  <1> DEFINE D == (0..n) \X (0..n)
             mid(w) == (w[1] + w[2]) \div 2
             done == {w \in D : w[1] >= w[2]}
             out == [w \in D |-> w[1]]
             step == [w \in D |-> IF w[1] >= w[2] THEN w
                                  ELSE IF mid(w) \in less THEN <<mid(w) + 1, w[2]>>
                                                          ELSE <<w[1], mid(w)>>]
             rank == [w \in D |-> IF w[1] >= w[2] THEN 0 ELSE w[2] - w[1]]
             R == 0..n
             Eq(f, w) == f[w] = IF w[1] >= w[2] THEN w[1]
                                ELSE IF mid(w) \in less THEN f[<<mid(w) + 1, w[2]>>]
                                                        ELSE f[<<w[1], mid(w)>>]
  <1>0. ASSUME NEW w \in D
        PROVE  /\ out[w] \in R /\ step[w] \in D /\ rank[w] \in Nat /\ rank[w] <= n
               /\ w \notin done => rank[step[w]] < rank[w]
    <2>1. PICK l \in 0..n : \E r \in 0..n : w = <<l, r>>
      BY <1>0
    <2>2. PICK r \in 0..n : w = <<l, r>>
      BY <2>1
    <2>3. w[1] = l /\ w[2] = r /\ mid(w) = (l + r) \div 2
      BY <2>2
    <2>4. CASE l >= r
      BY <2>2, <2>3, <2>4
    <2>5. CASE l < r
      <3> DEFINE m == (l + r) \div 2
      <3>1. m \in 0..n /\ m + 1 \in 0..n /\ l <= m /\ m < r
        BY <2>5
      <3>2. <<m + 1, r>> \in D /\ <<l, m>> \in D
        BY <3>1
      <3>3. rank[w] = r - l /\ w \notin done /\ out[w] = l
        BY <2>2, <2>3, <2>5
      <3>4. step[w] = IF m \in less THEN <<m + 1, r>> ELSE <<l, m>>
        BY <2>2, <2>3, <2>5
      <3> HIDE DEF m
      <3>5. rank[<<m + 1, r>>] = IF m + 1 >= r THEN 0 ELSE r - (m + 1)
        BY <3>2
      <3>6. rank[<<l, m>>] = IF l >= m THEN 0 ELSE m - l
        BY <3>2
      <3> HIDE DEF rank, step, out, done, D
      <3>7. CASE m \in less
        BY <2>5, <3>1, <3>2, <3>3, <3>4, <3>5, <3>7
      <3>8. CASE m \notin less
        BY <2>5, <3>1, <3>2, <3>3, <3>4, <3>6, <3>8
      <3> QED BY <3>7, <3>8
    <2> QED BY <2>4, <2>5
  <1>1. Loop(D, R, done, out, step, rank)
    <2> HIDE DEF D, R, done, out, step, rank
    <2> QED BY <1>0 DEF Loop
  <1>2. ASSUME NEW f PROVE (\A w \in D : Eq(f, w)) <=> TailEq(f, D, done, out, step)
    <2>1. ASSUME NEW w \in D
          PROVE  Eq(f, w) <=> (f[w] = IF w \in done THEN out[w] ELSE f[step[w]])
      <3>1. CASE w[1] >= w[2]
        BY <3>1
      <3>2. CASE ~(w[1] >= w[2]) /\ mid(w) \in less
        BY <3>2
      <3>3. CASE ~(w[1] >= w[2]) /\ mid(w) \notin less
        BY <3>3
      <3> QED BY <3>1, <3>2, <3>3
    <2> HIDE DEF D, R, done, out, step, rank, Eq
    <2> QED BY <2>1 DEF TailEq
  <1>3. ASSUME NEW f, IsSearch(f, n, less) PROVE f[<<0, n>>] \in 0..n
    <2>1. \A w \in D : Eq(f, w)
      BY <1>3 DEF IsSearch
    <2>2. TailEq(f, D, done, out, step)
      BY <1>2, <2>1
    <2>3. <<0, n>> \in D
      OBVIOUS
    <2> HIDE DEF D, R, done, out, step, rank
    <2>4. f[<<0, n>>] \in R
      BY <1>1, <2>2, <2>3, TailRange
    <2> QED BY <2>4 DEF R
  <1>4. \E f : IsSearch(f, n, less)
    <2>1. \E f \in [D -> R] : TailEq(f, D, done, out, step)
      <3> HIDE DEF D, R, done, out, step, rank
      <3> QED BY <1>0, <1>1, TailExists
    <2>2. PICK f \in [D -> R] : TailEq(f, D, done, out, step)
      BY <2>1
    <2>3. \A w \in D : Eq(f, w)
      BY <1>2, <2>2
    <2>4. f = [w \in D |-> f[w]]
      OBVIOUS
    <2>5. IsSearch(f, n, less)
      BY <2>3, <2>4 DEF IsSearch
    <2> QED BY <2>5
  <1> QED BY <1>3, <1>4

\* lower_bound returns an index of the node or its size.
LEMMA LowerBoundIs ==
  \A n, target : Size(n) \in Nat => lower_bound(n, target) \in 0..Size(n)
  <1> SUFFICES ASSUME NEW n, NEW target, Size(n) \in Nat
               PROVE  lower_bound(n, target) \in 0..Size(n)
    OBVIOUS
  <1> DEFINE less == {m \in 0..Size(n) : KeyAt(n, m) < target}
             Eq(f) == f = [w \in (0..Size(n)) \X (0..Size(n)) |->
                             IF w[1] >= w[2] THEN w[1]
                             ELSE IF KeyAt(n, (w[1] + w[2]) \div 2) < target
                                  THEN f[<<(w[1] + w[2]) \div 2 + 1, w[2]>>]
                                  ELSE f[<<w[1], (w[1] + w[2]) \div 2>>]]
             s == CHOOSE f : Eq(f)
  <1>1. \A w \in (0..Size(n)) \X (0..Size(n)) :
          (KeyAt(n, (w[1] + w[2]) \div 2) < target) <=> (w[1] + w[2]) \div 2 \in less
    <2> SUFFICES ASSUME NEW w \in (0..Size(n)) \X (0..Size(n))
                 PROVE  (w[1] + w[2]) \div 2 \in 0..Size(n)
      OBVIOUS
    <2>1. w[1] \in 0..Size(n) /\ w[2] \in 0..Size(n)
      OBVIOUS
    <2> QED BY <2>1
  <1>2. ASSUME NEW f PROVE Eq(f) <=> IsSearch(f, Size(n), less)
    <2> HIDE DEF less
    <2> QED BY <1>1 DEF IsSearch
  <1>3. \E f : Eq(f)
    <2> HIDE DEF Eq, less
    <2> QED BY <1>2, SearchIs
  <1>4. Eq(s)
    <2> HIDE DEF Eq
    <2> QED BY <1>3
  <1>5. s[<<0, Size(n)>>] \in 0..Size(n)
    <2> HIDE DEF Eq, less, s
    <2> QED BY <1>2, <1>4, SearchIs
  <1>6. lower_bound(n, target) = s[<<0, Size(n)>>]
    BY DEF lower_bound
  <1> QED BY <1>5, <1>6

\* upper_bound does too.
LEMMA UpperBoundIs ==
  \A n, target : Size(n) \in Nat => upper_bound(n, target) \in 0..Size(n)
  <1> SUFFICES ASSUME NEW n, NEW target, Size(n) \in Nat
               PROVE  upper_bound(n, target) \in 0..Size(n)
    OBVIOUS
  <1> DEFINE less == {m \in 0..Size(n) : KeyAt(n, m) <= target}
             Eq(f) == f = [w \in (0..Size(n)) \X (0..Size(n)) |->
                             IF w[1] >= w[2] THEN w[1]
                             ELSE IF KeyAt(n, (w[1] + w[2]) \div 2) <= target
                                  THEN f[<<(w[1] + w[2]) \div 2 + 1, w[2]>>]
                                  ELSE f[<<w[1], (w[1] + w[2]) \div 2>>]]
             s == CHOOSE f : Eq(f)
  <1>1. \A w \in (0..Size(n)) \X (0..Size(n)) :
          (KeyAt(n, (w[1] + w[2]) \div 2) <= target) <=> (w[1] + w[2]) \div 2 \in less
    <2> SUFFICES ASSUME NEW w \in (0..Size(n)) \X (0..Size(n))
                 PROVE  (w[1] + w[2]) \div 2 \in 0..Size(n)
      OBVIOUS
    <2>1. w[1] \in 0..Size(n) /\ w[2] \in 0..Size(n)
      OBVIOUS
    <2> QED BY <2>1
  <1>2. ASSUME NEW f PROVE Eq(f) <=> IsSearch(f, Size(n), less)
    <2> HIDE DEF less
    <2> QED BY <1>1 DEF IsSearch
  <1>3. \E f : Eq(f)
    <2> HIDE DEF Eq, less
    <2> QED BY <1>2, SearchIs
  <1>4. Eq(s)
    <2> HIDE DEF Eq
    <2> QED BY <1>3
  <1>5. s[<<0, Size(n)>>] \in 0..Size(n)
    <2> HIDE DEF Eq, less, s
    <2> QED BY <1>2, <1>4, SearchIs
  <1>6. upper_bound(n, target) = s[<<0, Size(n)>>]
    BY DEF upper_bound
  <1> QED BY <1>5, <1>6

\* What the slot of index i of a node holds, past num_key too.
LEMMA ValueAtIs ==
  \A n, i :
    NodeOK(n) =>
      /\ i \in 0..(Size(n) - 1) => ValueAt(n, i) = n.vals[i + 1]
      /\ i = Size(n) /\ Len(n.past) > 0 => ValueAt(n, i) = n.past[1]
  <1> SUFFICES ASSUME NEW n, NEW i, NodeOK(n)
               PROVE  /\ i \in 0..(Size(n) - 1) => ValueAt(n, i) = n.vals[i + 1]
                      /\ i = Size(n) /\ Len(n.past) > 0 => ValueAt(n, i) = n.past[1]
    OBVIOUS
  <1> DEFINE S == Slots \cup Links
  <1>1. /\ n.vals \in Seq(Slots) /\ n.past \in Seq(Links) /\ Len(n.vals) = Size(n)
        /\ Size(n) \in Nat /\ Len(n.past) \in Nat
    BY NodeIs
  <1>2. n.vals \in Seq(S) /\ n.past \in Seq(S)
    <2>1. Slots \subseteq S /\ Links \subseteq S
      OBVIOUS
    <2> HIDE DEF S
    <2> QED BY <1>1, <2>1, SeqWider
  <1> HIDE DEF S
  <1>3. \A k \in 1..(Size(n) + Len(n.past)) :
          (n.vals \o n.past)[k] = IF k <= Size(n) THEN n.vals[k] ELSE n.past[k - Size(n)]
    <2>1. \A k \in 1..(Len(n.vals) + Len(n.past)) :
            (n.vals \o n.past)[k] = IF k <= Len(n.vals) THEN n.vals[k] ELSE n.past[k - Len(n.vals)]
      BY <1>2, ConcatIs
    <2> QED BY <1>1, <2>1
  <1>4. ASSUME i \in 0..(Size(n) - 1) PROVE ValueAt(n, i) = n.vals[i + 1]
    <2>1. i + 1 \in 1..(Size(n) + Len(n.past)) /\ i + 1 <= Size(n)
      BY <1>1, <1>4
    <2> QED BY <1>3, <2>1 DEF ValueAt
  <1>5. ASSUME i = Size(n), Len(n.past) > 0 PROVE ValueAt(n, i) = n.past[1]
    <2> DEFINE k == i + 1
    <2>2. k \in 1..(Size(n) + Len(n.past)) /\ ~(k <= Size(n)) /\ k - Size(n) = 1
      BY <1>1, <1>5
    <2> HIDE DEF k
    <2>3. (n.vals \o n.past)[k] = n.past[1]
      BY <1>3, <2>2
    <2> QED BY <2>3 DEF ValueAt, k
  <1> QED BY <1>4, <1>5

\* find_child finds a child that is listed once.
LEMMA FindChildIs ==
  \A n, i :
    NodeOK(n) /\ Distinct(n.vals) /\ i \in 1..Size(n) => find_child(n, n.vals[i]) = i - 1
  <1> SUFFICES ASSUME NEW n, NEW i, NodeOK(n), Distinct(n.vals), i \in 1..Size(n)
               PROVE  find_child(n, n.vals[i]) = i - 1
    OBVIOUS
  <1> DEFINE c == n.vals[i]
             Is(j) == ValueAt(n, j) = c /\ \A k \in 0..(j - 1) : ValueAt(n, k) # c
  <1>0. Size(n) \in Nat /\ Len(n.vals) = Size(n)
    BY NodeIs
  <1>1. \A j \in 0..(Size(n) - 1) : ValueAt(n, j) = n.vals[j + 1]
    BY ValueAtIs
  <1>2. \A j \in 0..(Size(n) - 1) : ValueAt(n, j) = c <=> j = i - 1
    <2> SUFFICES ASSUME NEW j \in 0..(Size(n) - 1) PROVE n.vals[j + 1] = n.vals[i] <=> j = i - 1
      BY <1>1
    <2>1. j + 1 \in 1..Len(n.vals) /\ i \in 1..Len(n.vals) /\ (j + 1 = i <=> j = i - 1)
      BY <1>0
    <2> QED BY <2>1 DEF Distinct
  <1> HIDE DEF c
  <1>3. i - 1 \in 0..(Size(n) - 1) /\ Is(i - 1)
    <2>1. i - 1 \in 0..(Size(n) - 1) /\ \A k \in 0..(i - 1 - 1) : k \in 0..(Size(n) - 1) /\ k # i - 1
      BY <1>0
    <2> QED BY <1>2, <2>1
  <1>4. \A j \in 0..(Size(n) - 1) : Is(j) => j = i - 1
    BY <1>2
  <1>5. find_child(n, c) = CHOOSE j \in 0..(Size(n) - 1) : Is(j)
    BY DEF find_child
  <1> HIDE DEF Is
  <1>6. find_child(n, c) = i - 1
    BY <1>3, <1>4, <1>5
  <1> QED BY <1>6 DEF c

\* A node from CreateNode is empty, and names no page.
LEMMA NewNodeIs ==
  \A is_leaf, parent, prev, next :
    (/\ is_leaf \in BOOLEAN /\ parent \in {IX_NO_PAGE} \cup Pages
     /\ prev \in 0..MaxPage /\ next \in 0..MaxPage)
      => LET n == NewNode(is_leaf, parent, prev, next)
         IN  /\ NodeOK(n) /\ Size(n) = 0 /\ n.leaf = is_leaf /\ n.parent = parent
             /\ n.prev = prev /\ n.next = next /\ n.keys = <<>> /\ n.vals = <<>>
             /\ Gone(n) \subseteq {0}
  <1> SUFFICES ASSUME NEW is_leaf, NEW parent, NEW prev, NEW next,
                      is_leaf \in BOOLEAN, parent \in {IX_NO_PAGE} \cup Pages,
                      prev \in 0..MaxPage, next \in 0..MaxPage
               PROVE  LET n == NewNode(is_leaf, parent, prev, next)
                      IN  /\ NodeOK(n) /\ Size(n) = 0 /\ n.leaf = is_leaf /\ n.parent = parent
                          /\ n.prev = prev /\ n.next = next /\ n.keys = <<>> /\ n.vals = <<>>
                          /\ Gone(n) \subseteq {0}
    OBVIOUS
  <1> DEFINE zeros == [i \in 1..MaxSize |-> 0]
             ps == IF is_leaf THEN <<>> ELSE zeros
             n == NewNode(is_leaf, parent, prev, next)
  <1>1. zeros \in Seq({0}) /\ Len(zeros) = MaxSize
    BY Sizes
  <1>2. ps \in Seq({0}) /\ (~is_leaf => Len(ps) = MaxSize)
    <2> HIDE DEF zeros
    <2>1. CASE ~is_leaf
      BY <1>1, <2>1
    <2>2. CASE is_leaf
      BY <2>2
    <2> QED BY <2>1, <2>2
  <1>3. n = [leaf |-> is_leaf, parent |-> parent, prev |-> prev, next |-> next,
             keys |-> <<>>, vals |-> <<>>, past |-> ps]
    BY DEF NewNode
  <1> HIDE DEF n, ps
  <1>4. ps \in Seq(Links)
    <2>1. {0} \subseteq Links
      BY DEF Links
    <2> QED BY <1>2, <2>1, SeqWider
  <1>5. n \in NodeRecords
    BY <1>3, <1>4 DEF NodeRecords
  <1>6. n.parent = parent /\ n.prev = prev /\ n.next = next
        /\ n.keys = <<>> /\ n.vals = <<>> /\ n.past = ps
    BY <1>3
  <1>7. n.leaf = is_leaf
    BY <1>3
  <1>8. <<>> \in Seq(Pages) /\ Len(<<>>) = 0
    BY EmptySeq
  <1>9. NodeOK(n)
    <2>1. Len(n.vals) = Len(n.keys) /\ n.vals \in Seq(Pages)
      BY <1>6, <1>8
    <2>2. ~n.leaf => Len(n.vals) + Len(n.past) = MaxSize
      BY <1>2, <1>6, <1>7, <1>8, Sizes
    <2> QED BY <1>5, <2>1, <2>2 DEF NodeOK
  <1>10. Size(n) = 0
    BY <1>6, <1>8 DEF Size
  <1>11. Gone(n) \subseteq {0}
    <2>1. \A i \in 1..Len(ps) : ps[i] \in {0}
      BY <1>2, SeqIs
    <2>2. Elems(ps) \subseteq {0}
      BY <2>1, ElemIs
    <2> QED BY <1>6, <2>2 DEF Gone
  <1> QED BY <1>6, <1>7, <1>9, <1>10, <1>11 DEF n

\* l and r are the halves of n.
IsHalves(l, r, n) ==
  LET mid == (Size(n) + 1) \div 2
  IN  /\ NodeOK(l) /\ SameLinks(l, n) /\ Size(l) = mid
      /\ l.keys = SubSeq(n.keys, 1, mid) /\ l.vals = SubSeq(n.vals, 1, mid)
      /\ NodeOK(r) /\ (r.leaf <=> n.leaf) /\ r.parent = n.parent /\ Size(r) = Size(n) - mid
      /\ r.keys = SubSeq(n.keys, mid + 1, Size(n)) /\ r.vals = SubSeq(n.vals, mid + 1, Size(n))
      /\ Gone(l) \subseteq Gone(n) \cup Children(r) /\ Gone(r) \subseteq {0}
      /\ Children(l) \cup Children(r) = Children(n)
      /\ Distinct(n.vals) => /\ Distinct(l.vals) /\ Distinct(r.vals)
                             /\ Children(l) \cap Children(r) = {}

\* A sequence put into the empty one.
LEMMA SpliceEmpty == \A S, t : t \in Seq(S) => Splice(<<>>, 0, t) = t
  <1> SUFFICES ASSUME NEW S, NEW t, t \in Seq(S) PROVE Splice(<<>>, 0, t) = t
    OBVIOUS
  <1>1. Len(<<>>) = 0 /\ SubSeq(<<>>, 1, 0) = <<>>
    BY EmptySeq, SubSeqEmpty
  <1>2. Splice(<<>>, 0, t) = (<<>> \o t) \o <<>>
    BY <1>1 DEF Splice
  <1> QED BY <1>2, ConcatEmptySeq

\* Split shares the pairs of a node out between its two halves.
LEMMA HalvesIs ==
  \A n : NodeOK(n) /\ Size(n) <= MaxSize => IsHalves(LeftHalf(n), RightHalf(n), n)
  <1> SUFFICES ASSUME NEW n, NodeOK(n), Size(n) <= MaxSize
               PROVE  IsHalves(LeftHalf(n), RightHalf(n), n)
    OBVIOUS
  <1> DEFINE s == Size(n)
             mid == (s + 1) \div 2
             l == LeftHalf(n)
             r == RightHalf(n)
             K1 == SubSeq(n.keys, 1, mid)
             V1 == SubSeq(n.vals, 1, mid)
             K2 == SubSeq(n.keys, mid + 1, s)
             V2 == SubSeq(n.vals, mid + 1, s)
             P1 == IF n.leaf THEN n.past ELSE V2 \o n.past
             blank == NewNode(n.leaf, n.parent, 0, 0)
  <1>1. /\ n.keys \in Seq(Keys) /\ n.vals \in Seq(Slots) /\ n.past \in Seq(Links)
        /\ s \in Nat /\ Len(n.vals) = s /\ Len(n.keys) = s /\ Len(n.past) \in Nat
        /\ n.leaf \in BOOLEAN /\ n.parent \in {IX_NO_PAGE} \cup Pages
    BY NodeIs
  <1>2. mid \in Nat /\ mid <= s /\ mid \in 0..s
    BY <1>1
  <1> HIDE DEF mid, s
  <1>3. /\ 1 \in 1..(s + 1) /\ mid \in (1 - 1)..s /\ mid - 1 + 1 = mid
        /\ mid + 1 \in 1..(s + 1) /\ s \in (mid + 1 - 1)..s /\ s - (mid + 1) + 1 = s - mid
    BY <1>1, <1>2
  <1>4. K1 \in Seq(Keys) /\ Len(K1) = mid
    BY <1>1, <1>3, CutIs
  <1>5. V1 \in Seq(Slots) /\ Len(V1) = mid /\ (~n.leaf => V1 \in Seq(Pages))
    <2>1. V1 \in Seq(Slots) /\ Len(V1) = mid
      BY <1>1, <1>3, CutIs
    <2>2. ~n.leaf => V1 \in Seq(Pages)
      BY <1>1, <1>3, CutIs, NodeIs
    <2> QED BY <2>1, <2>2
  <1>6. K2 \in Seq(Keys) /\ Len(K2) = s - mid
    BY <1>1, <1>3, CutIs
  <1>7. V2 \in Seq(Slots) /\ Len(V2) = s - mid /\ (~n.leaf => V2 \in Seq(Pages))
    <2>1. V2 \in Seq(Slots) /\ Len(V2) = s - mid
      BY <1>1, <1>3, CutIs
    <2>2. ASSUME ~n.leaf PROVE V2 \in Seq(Pages)
      <3>1. n.vals \in Seq(Pages)
        BY <2>2, NodeIs
      <3> QED BY <1>1, <1>3, <3>1, CutIs
    <2> QED BY <2>1, <2>2
  <1>8. /\ Elems(V1) \cup Elems(V2) = Elems(n.vals)
        /\ Distinct(n.vals) => Distinct(V1) /\ Distinct(V2) /\ Elems(V1) \cap Elems(V2) = {}
    <2>1. mid \in 0..Len(n.vals) /\ V2 = SubSeq(n.vals, mid + 1, Len(n.vals))
      BY <1>1, <1>2
    <2> HIDE DEF V2
    <2> QED BY <1>1, <2>1, HalvesElems
  <1>9. l = Repaired(n, K1, V1, P1)
    BY DEF LeftHalf, SetSize, Repaired, s, mid
  <1>10. r = insert_pairs(blank, 0, K2, V2)
    BY DEF RightHalf, s, mid
  <1> HIDE DEF l, r, K1, V1, K2, V2
  <1>11. /\ P1 \in Seq(Links)
         /\ ~n.leaf => Elems(P1) \subseteq Elems(n.past) \cup Elems(V2)
         /\ ~n.leaf => Len(P1) = Len(n.past) + (s - mid)
    <2>1. CASE ~n.leaf
      <3>2. V2 \in Seq(Links)
        <4>1. Pages \subseteq Links
          BY DEF Links
        <4> QED BY <1>7, <2>1, <4>1, SeqWider
      <3>3. V2 \o n.past \in Seq(Links) /\ Len(V2 \o n.past) = Len(V2) + Len(n.past)
        BY <1>1, <3>2, ConcatIs
      <3>4. Elems(V2 \o n.past) \subseteq Elems(V2) \cup Elems(n.past)
        BY <1>1, <3>2, ConcatElems
      <3>5. Len(V2) + Len(n.past) = Len(n.past) + (s - mid)
        BY <1>1, <1>2, <1>7
      <3> QED BY <2>1, <3>3, <3>4, <3>5
    <2>2. CASE n.leaf
      BY <1>1, <2>2
    <2> QED BY <2>1, <2>2
  <1> HIDE DEF P1
  <1>12. l \in NodeRecords /\ SameLinks(l, n) /\ l.keys = K1 /\ l.vals = V1 /\ l.past = P1
    BY <1>1, <1>4, <1>5, <1>9, <1>11, FieldsIs
  <1>13. l.leaf <=> n.leaf
    BY <1>12 DEF SameLinks
  <1>14. NodeOK(l)
    <2>1. Len(l.vals) = Len(l.keys) /\ (~l.leaf => l.vals \in Seq(Pages))
      BY <1>4, <1>5, <1>12, <1>13
    <2>2. ASSUME ~l.leaf PROVE Len(l.vals) + Len(l.past) = MaxSize
      <3>1. s + Len(n.past) = MaxSize
        BY <1>1, <1>13, <2>2, NodeIs
      <3>2. Len(l.past) = Len(n.past) + (s - mid) /\ Len(l.vals) = mid
        BY <1>5, <1>11, <1>12, <1>13, <2>2
      <3> QED BY <1>1, <1>2, <3>1, <3>2, Sizes
    <2> QED BY <1>12, <2>1, <2>2 DEF NodeOK
  <1>15. Size(l) = mid
    BY <1>4, <1>12 DEF Size
  <1>16. /\ NodeOK(blank) /\ Size(blank) = 0 /\ blank.leaf = n.leaf /\ blank.parent = n.parent
         /\ blank.keys = <<>> /\ blank.vals = <<>> /\ Gone(blank) \subseteq {0}
    <2>1. 0 \in 0..MaxPage
      BY Sizes
    <2> QED BY <1>1, <2>1, NewNodeIs
  <1> HIDE DEF blank
  <1>17. IsInsert(r, blank, 0, K2, V2)
    <2>1. 0 \in 0..Size(blank) /\ Size(blank) + Len(V2) <= MaxSize
      BY <1>1, <1>2, <1>7, <1>16, Sizes DEF s
    <2>2. Len(K2) = Len(V2) /\ (~blank.leaf => V2 \in Seq(Pages))
      BY <1>6, <1>7, <1>16
    <2> QED BY <1>6, <1>7, <1>10, <1>16, <2>1, <2>2, InsertPairsIs
  <1>18. /\ NodeOK(r) /\ (r.leaf <=> n.leaf) /\ r.parent = n.parent /\ Gone(r) \subseteq {0}
         /\ r.keys = K2 /\ r.vals = V2
    <2>1. NodeOK(r) /\ SameLinks(r, blank) /\ Gone(r) \subseteq Gone(blank)
          /\ r.keys = Splice(blank.keys, 0, K2) /\ r.vals = Splice(blank.vals, 0, V2)
      BY <1>17 DEF IsInsert
    <2>2. (r.leaf <=> blank.leaf) /\ r.parent = blank.parent
      BY <2>1 DEF SameLinks
    <2>3. r.keys = K2 /\ r.vals = V2
      BY <1>6, <1>7, <1>16, <2>1, SpliceEmpty
    <2> QED BY <1>16, <2>1, <2>2, <2>3
  <1>19. Size(r) = s - mid
    BY <1>6, <1>18 DEF Size
  <1>20. Children(l) = (IF n.leaf THEN {} ELSE Elems(V1)) /\ Children(r) = (IF n.leaf THEN {} ELSE Elems(V2))
    BY <1>12, <1>13, <1>18, ChildrenIs
  <1>21. Children(l) \cup Children(r) = Children(n)
    BY <1>8, <1>20, ChildrenIs
  <1>22. Distinct(n.vals) => /\ Distinct(l.vals) /\ Distinct(r.vals)
                             /\ Children(l) \cap Children(r) = {}
    BY <1>8, <1>12, <1>18, <1>20
  <1>23. Gone(l) \subseteq Gone(n) \cup Children(r)
    BY <1>11, <1>12, <1>13, <1>20 DEF Gone
  <1>24. /\ l.keys = SubSeq(n.keys, 1, mid) /\ l.vals = SubSeq(n.vals, 1, mid)
         /\ r.keys = SubSeq(n.keys, mid + 1, s) /\ r.vals = SubSeq(n.vals, mid + 1, s)
    BY <1>12, <1>18 DEF K1, V1, K2, V2
  <1> QED BY <1>12, <1>14, <1>15, <1>18, <1>19, <1>21, <1>22, <1>23, <1>24 DEF IsHalves, l, r, s, mid

\* The key of a pair replaced: nothing else changes.
LEMMA SetKeyIs ==
  \A n, i, key :
    NodeOK(n) /\ i \in 0..(Size(n) - 1) /\ key \in Keys =>
      /\ NodeOK(SetKey(n, i, key)) /\ SameLinks(SetKey(n, i, key), n)
      /\ SetKey(n, i, key).vals = n.vals /\ SetKey(n, i, key).past = n.past
      /\ Size(SetKey(n, i, key)) = Size(n)
  <1> SUFFICES ASSUME NEW n, NEW i, NEW key, NodeOK(n), i \in 0..(Size(n) - 1), key \in Keys
               PROVE  /\ NodeOK(SetKey(n, i, key)) /\ SameLinks(SetKey(n, i, key), n)
                      /\ SetKey(n, i, key).vals = n.vals /\ SetKey(n, i, key).past = n.past
                      /\ Size(SetKey(n, i, key)) = Size(n)
    OBVIOUS
  <1> DEFINE m == SetKey(n, i, key)
             K == [n.keys EXCEPT ![i + 1] = key]
  <1>1. n \in NodeRecords /\ n.keys \in Seq(Keys) /\ Len(n.keys) = Size(n) /\ Size(n) \in Nat
    BY NodeIs DEF NodeOK
  <1>2. K \in Seq(Keys) /\ Len(K) = Len(n.keys)
    <2>1. i + 1 \in 1..Len(n.keys)
      BY <1>1
    <2> QED BY <1>1, <2>1, ExceptSeq
  <1>3. m = [n EXCEPT !.keys = K]
    BY DEF SetKey
  <1> HIDE DEF m, K
  <1>4. m \in NodeRecords
    BY <1>1, <1>2, <1>3 DEF NodeRecords
  <1>5. m.keys = K /\ m.vals = n.vals /\ m.past = n.past
    BY <1>1, <1>3 DEF NodeRecords
  <1>6. m.leaf = n.leaf /\ m.parent = n.parent /\ m.prev = n.prev /\ m.next = n.next
    BY <1>1, <1>3 DEF NodeRecords
  <1>7. NodeOK(m)
    BY <1>2, <1>4, <1>5, <1>6 DEF NodeOK
  <1>8. Size(m) = Size(n)
    BY <1>2, <1>5 DEF Size
  <1> QED BY <1>5, <1>6, <1>7, <1>8 DEF SameLinks, m

\* A leaf after Insert, and after Remove.
LEMMA InsertIs ==
  \A n, key, val :
    NodeOK(n) /\ n.leaf /\ key \in Keys /\ val \in Vals /\ Size(n) < MaxSize =>
      /\ NodeOK(Insert(n, key, val)) /\ SameLinks(Insert(n, key, val), n)
      /\ Size(Insert(n, key, val)) \in {Size(n), Size(n) + 1}
  <1> SUFFICES ASSUME NEW n, NEW key, NEW val,
                      NodeOK(n), n.leaf, key \in Keys, val \in Vals, Size(n) < MaxSize
               PROVE  /\ NodeOK(Insert(n, key, val)) /\ SameLinks(Insert(n, key, val), n)
                      /\ Size(Insert(n, key, val)) \in {Size(n), Size(n) + 1}
    OBVIOUS
  <1> DEFINE pos == lower_bound(n, key)
  <1>1. pos \in 0..Size(n) /\ val \in Slots
    BY LowerBoundIs, NodeIs DEF Slots
  <1>2. Insert(n, key, val) = IF HasKey(n, pos, key) THEN n ELSE insert_pair(n, pos, key, val)
    BY DEF Insert
  <1> HIDE DEF pos
  <1>3. CASE HasKey(n, pos, key)
    BY <1>2, <1>3 DEF SameLinks
  <1>4. CASE ~HasKey(n, pos, key)
    <2> DEFINE m == insert_pair(n, pos, key, val)
    <2>1. IsInsert(m, n, pos, <<key>>, <<val>>) /\ Size(m) = Size(n) + 1
      BY <1>1, InsertPairIs
    <2>2. NodeOK(m) /\ SameLinks(m, n)
      BY <2>1 DEF IsInsert
    <2> QED BY <1>2, <1>4, <2>1, <2>2
  <1> QED BY <1>3, <1>4

\* Remove takes out one pair or none.
LEMMA RemoveIs ==
  \A n, key :
    NodeOK(n) =>
      /\ NodeOK(Remove(n, key)) /\ SameLinks(Remove(n, key), n)
      /\ \/ Size(Remove(n, key)) = Size(n)
         \/ Size(n) > 0 /\ Size(Remove(n, key)) = Size(n) - 1
  <1> SUFFICES ASSUME NEW n, NEW key, NodeOK(n)
               PROVE  /\ NodeOK(Remove(n, key)) /\ SameLinks(Remove(n, key), n)
                      /\ \/ Size(Remove(n, key)) = Size(n)
                         \/ Size(n) > 0 /\ Size(Remove(n, key)) = Size(n) - 1
    OBVIOUS
  <1> DEFINE pos == lower_bound(n, key)
  <1>1. pos \in 0..Size(n) /\ Size(n) \in Nat
    BY LowerBoundIs, NodeIs
  <1>2. Remove(n, key) = IF HasKey(n, pos, key) THEN erase_pair(n, pos) ELSE n
    BY DEF Remove
  <1> HIDE DEF pos
  <1>3. CASE ~HasKey(n, pos, key)
    BY <1>2, <1>3 DEF SameLinks
  <1>4. CASE HasKey(n, pos, key)
    <2>1. pos \in 0..(Size(n) - 1) /\ Size(n) > 0
      BY <1>1, <1>4 DEF HasKey
    <2>2. IsErase(erase_pair(n, pos), n, pos)
      BY <2>1, ErasePairIs
    <2>3. /\ NodeOK(erase_pair(n, pos)) /\ SameLinks(erase_pair(n, pos), n)
          /\ Size(erase_pair(n, pos)) = Size(n) - 1
      BY <2>2 DEF IsErase
    <2> QED BY <1>2, <1>4, <2>1, <2>3
  <1> QED BY <1>3, <1>4

-----------------------------------------------------------------------------
(* The tree, and what the steps of the calls do to it.                     *)

Nds(ns) == DOMAIN ns \ {IX_LEAF_HEADER_PAGE}

Store(ns) ==
  /\ IX_LEAF_HEADER_PAGE \in DOMAIN ns
  /\ DOMAIN ns \subseteq {IX_LEAF_HEADER_PAGE} \cup Pages
  /\ \A p \in DOMAIN ns : NodeOK(ns[p])
  /\ ns[IX_LEAF_HEADER_PAGE].leaf

\* Heights.
Levels(ns, h) == \A p \in Nds(ns) : h[p] \in Nat /\ (ns[p].leaf <=> h[p] = 0)

\* Down: the children of a node are nodes, one level below, and name it as their parent.
Down(ns, h) ==
  \A p \in Nds(ns) : \A c \in Children(ns[p]) :
    c \in Nds(ns) /\ ns[c].parent = p /\ h[p] = h[c] + 1

Once(ns) == \A p \in Nds(ns) : ~ns[p].leaf => Distinct(ns[p].vals)

\* What a stale slot names is not above the node.
StaleDown(ns, h) ==
  \A p \in Nds(ns) : \A c \in Gone(ns[p]) : c \in Nds(ns) => h[c] < h[p]

\* Up: all nodes but the ones in T are children, of their parent.
Up(ns, T) ==
  /\ \A p \in Nds(ns) : p \notin T =>
       ns[p].parent \in Nds(ns) /\ p \in Children(ns[ns[p].parent])
  /\ \A p \in T : p \in Nds(ns) /\ \A q \in Nds(ns) : p \notin Children(ns[q])

Tree(ns, T, h) == Levels(ns, h) /\ Down(ns, h) /\ Once(ns) /\ StaleDown(ns, h) /\ Up(ns, T)

\* m lists what n lists.
SameList(m, n) ==
  /\ (m.leaf <=> n.leaf) /\ Children(m) = Children(n) /\ Gone(m) \subseteq Gone(n)
  /\ Distinct(n.vals) => Distinct(m.vals)

\* Nodes that list what they listed.
LEMMA TreeSame ==
  \A ns, ms, T, h :
    (/\ Tree(ns, T, h) /\ Nds(ms) = Nds(ns)
     /\ \A q \in Nds(ns) :
          /\ (ms[q].leaf <=> ns[q].leaf) /\ ms[q].parent = ns[q].parent
          /\ ~ns[q].leaf => SameList(ms[q], ns[q]))
      => Tree(ms, T, h)
  <1> SUFFICES ASSUME NEW ns, NEW ms, NEW T, NEW h, Tree(ns, T, h), Nds(ms) = Nds(ns),
                      \A q \in Nds(ns) :
                        /\ (ms[q].leaf <=> ns[q].leaf) /\ ms[q].parent = ns[q].parent
                        /\ ~ns[q].leaf => SameList(ms[q], ns[q])
               PROVE  Tree(ms, T, h)
    OBVIOUS
  <1>1. ASSUME NEW q \in Nds(ns)
        PROVE  /\ (ms[q].leaf <=> ns[q].leaf) /\ ms[q].parent = ns[q].parent
               /\ Children(ms[q]) = Children(ns[q]) /\ Gone(ms[q]) \subseteq Gone(ns[q])
               /\ ~ns[q].leaf /\ Distinct(ns[q].vals) => Distinct(ms[q].vals)
    <2>1. CASE ns[q].leaf
      BY <2>1, ChildrenIs DEF Gone
    <2>2. CASE ~ns[q].leaf
      BY <2>2 DEF SameList
    <2> QED BY <2>1, <2>2
  <1>2. Levels(ms, h)
    BY <1>1 DEF Tree, Levels
  <1>3. Down(ms, h)
    BY <1>1 DEF Tree, Down
  <1>4. Once(ms)
    BY <1>1 DEF Tree, Once
  <1>5. StaleDown(ms, h)
    BY <1>1 DEF Tree, StaleDown
  <1>6. Up(ms, T)
    BY <1>1 DEF Tree, Up
  <1> QED BY <1>2, <1>3, <1>4, <1>5, <1>6 DEF Tree

\* A node p split in two, p and new: the children that go to new have it as parent.
SplitOf(ms, ns, p, new) ==
  /\ p \in Nds(ns) /\ new \notin Nds(ns) /\ Nds(ms) = Nds(ns) \cup {new}
  /\ \A q \in Nds(ns) : new \notin Gone(ns[q])
  /\ \A q \in Nds(ns) : /\ (ms[q].leaf <=> ns[q].leaf)
                        /\ ms[q].parent = IF q \in Children(ms[new]) THEN new ELSE ns[q].parent
                        /\ q # p => SameList(ms[q], ns[q])
  /\ (ms[new].leaf <=> ns[p].leaf)
  /\ Children(ms[p]) \cup Children(ms[new]) = Children(ns[p])
  /\ Children(ms[p]) \cap Children(ms[new]) = {}
  /\ Gone(ms[p]) \subseteq Gone(ns[p]) \cup Children(ns[p])
  /\ Gone(ms[new]) \cap Nds(ms) = {}
  /\ ~ns[p].leaf => Distinct(ms[p].vals) /\ Distinct(ms[new].vals)

\* A split leaves a tree and, beside its tops, the new half.
LEMMA TreeSplit ==
  \A ns, ms, T, h, g, p, new :
    Tree(ns, T, h) /\ SplitOf(ms, ns, p, new) /\ g[new] = h[p] /\ (\A q \in Nds(ns) : g[q] = h[q])
      => Tree(ms, T \cup {new}, g)
  <1> SUFFICES ASSUME NEW ns, NEW ms, NEW T, NEW h, NEW g, NEW p, NEW new,
                      Tree(ns, T, h), SplitOf(ms, ns, p, new),
                      g[new] = h[p], \A q \in Nds(ns) : g[q] = h[q]
               PROVE  Tree(ms, T \cup {new}, g)
    OBVIOUS
  <1>1. /\ p \in Nds(ns) /\ new \notin Nds(ns) /\ Nds(ms) = Nds(ns) \cup {new}
        /\ \A q \in Nds(ns) : new \notin Gone(ns[q])
    BY DEF SplitOf
  <1>2. \A q \in Nds(ns) : /\ (ms[q].leaf <=> ns[q].leaf)
                           /\ ms[q].parent = IF q \in Children(ms[new]) THEN new ELSE ns[q].parent
    BY DEF SplitOf
  <1>3. \A q \in Nds(ns) : q # p => /\ Children(ms[q]) = Children(ns[q])
                                    /\ Gone(ms[q]) \subseteq Gone(ns[q])
                                    /\ Distinct(ns[q].vals) => Distinct(ms[q].vals)
    BY DEF SplitOf, SameList
  <1>4. /\ (ms[new].leaf <=> ns[p].leaf)
        /\ Children(ms[p]) \cup Children(ms[new]) = Children(ns[p])
        /\ Children(ms[p]) \cap Children(ms[new]) = {}
        /\ Gone(ms[p]) \subseteq Gone(ns[p]) \cup Children(ns[p])
        /\ Gone(ms[new]) \cap Nds(ms) = {}
        /\ ~ns[p].leaf => Distinct(ms[p].vals) /\ Distinct(ms[new].vals)
    BY DEF SplitOf
  <1>5. Levels(ns, h) /\ Down(ns, h) /\ Once(ns) /\ StaleDown(ns, h) /\ Up(ns, T)
    BY DEF Tree
  <1>6. Levels(ms, g)
    BY <1>1, <1>2, <1>4, <1>5 DEF Levels
  <1>7. Down(ms, g)
    <2> SUFFICES ASSUME NEW q \in Nds(ms), NEW c \in Children(ms[q])
                 PROVE  c \in Nds(ms) /\ ms[c].parent = q /\ g[q] = g[c] + 1
      BY DEF Down
    <2>1. CASE q = new
      <3>1. c \in Nds(ns) /\ h[p] = h[c] + 1
        BY <1>1, <1>4, <1>5, <2>1 DEF Down
      <3> QED BY <1>1, <1>2, <2>1, <3>1
    <2>2. CASE q = p
      <3>1. c \in Nds(ns) /\ h[p] = h[c] + 1 /\ ns[c].parent = p /\ c \notin Children(ms[new])
        BY <1>1, <1>4, <1>5, <2>2 DEF Down
      <3> QED BY <1>1, <1>2, <2>2, <3>1
    <2>3. CASE q # p /\ q # new
      <3>1. q \in Nds(ns) /\ c \in Children(ns[q])
        BY <1>1, <1>3, <2>3
      <3>2. c \in Nds(ns) /\ h[q] = h[c] + 1 /\ ns[c].parent = q
        BY <1>5, <3>1 DEF Down
      <3>3. c \notin Children(ms[new])
        <4>1. c \notin Children(ns[p])
          BY <1>1, <1>5, <2>3, <3>2 DEF Down
        <4> QED BY <1>4, <4>1
      <3> QED BY <1>1, <1>2, <3>1, <3>2, <3>3
    <2> QED BY <2>1, <2>2, <2>3
  <1>8. Once(ms)
    BY <1>1, <1>2, <1>3, <1>4, <1>5 DEF Once
  <1>9. StaleDown(ms, g)
    <2> SUFFICES ASSUME NEW q \in Nds(ms), NEW c \in Gone(ms[q]), c \in Nds(ms) PROVE g[c] < g[q]
      BY DEF StaleDown
    <2>1. q # new
      BY <1>4
    <2>2. CASE q = p /\ c \in Children(ns[p])
      <3>1. c \in Nds(ns) /\ h[p] = h[c] + 1 /\ h[c] \in Nat
        BY <1>1, <1>5, <2>2 DEF Down, Levels
      <3> QED BY <1>1, <2>2, <3>1
    <2>3. CASE ~(q = p /\ c \in Children(ns[p]))
      <3>1. q \in Nds(ns) /\ c \in Gone(ns[q])
        BY <1>1, <1>3, <1>4, <2>1, <2>3
      <3>2. c \in Nds(ns)
        BY <1>1, <3>1
      <3> QED BY <1>5, <3>1, <3>2 DEF StaleDown
    <2> QED BY <2>2, <2>3
  <1>10. Up(ms, T \cup {new})
    <2>1. ASSUME NEW q \in Nds(ms), q \notin T \cup {new}
          PROVE  ms[q].parent \in Nds(ms) /\ q \in Children(ms[ms[q].parent])
      <3>1. q \in Nds(ns) /\ ns[q].parent \in Nds(ns) /\ q \in Children(ns[ns[q].parent])
        BY <1>1, <1>5, <2>1 DEF Up
      <3>2. CASE q \in Children(ms[new])
        BY <1>1, <1>2, <3>1, <3>2
      <3>3. CASE q \notin Children(ms[new])
        <4>1. ms[q].parent = ns[q].parent
          BY <1>2, <3>1, <3>3
        <4>2. q \in Children(ms[ns[q].parent])
          BY <1>3, <1>4, <3>1, <3>3
        <4> QED BY <1>1, <3>1, <4>1, <4>2
      <3> QED BY <3>2, <3>3
    <2>2. ASSUME NEW q \in Nds(ms) PROVE Children(ms[q]) \subseteq Nds(ns)
      <3>1. CASE q = new \/ q = p
        BY <1>1, <1>4, <1>5, <3>1 DEF Down
      <3>2. CASE q # new /\ q # p
        BY <1>1, <1>3, <1>5, <3>2 DEF Down
      <3> QED BY <3>1, <3>2
    <2>3. ASSUME NEW t \in T \cup {new}
          PROVE  t \in Nds(ms) /\ \A q \in Nds(ms) : t \notin Children(ms[q])
      <3>1. CASE t = new
        BY <1>1, <2>2, <3>1
      <3>2. CASE t \in T
        <4>1. t \in Nds(ns) /\ \A q \in Nds(ns) : t \notin Children(ns[q])
          BY <1>5, <3>2 DEF Up
        <4>2. ASSUME NEW q \in Nds(ms) PROVE t \notin Children(ms[q])
          <5>1. CASE q = new \/ q = p
            BY <1>1, <1>4, <4>1, <5>1
          <5>2. CASE q # new /\ q # p
            BY <1>1, <1>3, <4>1, <5>2
          <5> QED BY <5>1, <5>2
        <4> QED BY <1>1, <4>1, <4>2
      <3> QED BY <3>1, <3>2
    <2> QED BY <2>1, <2>3 DEF Up
  <1> QED BY <1>6, <1>7, <1>8, <1>9, <1>10 DEF Tree

\* A root r above the nodes old and new.
RootAbove(ms, ns, old, new, r) ==
  /\ old \in Nds(ns) /\ new \in Nds(ns) /\ r \notin Nds(ns) /\ Nds(ms) = Nds(ns) \cup {r}
  /\ \A q \in Nds(ns) : r \notin Gone(ns[q])
  /\ \A q \in Nds(ns) : /\ SameList(ms[q], ns[q])
                        /\ ms[q].parent = IF q \in {old, new} THEN r ELSE ns[q].parent
  /\ ~ms[r].leaf /\ Children(ms[r]) = {old, new} /\ Distinct(ms[r].vals)
  /\ Gone(ms[r]) \cap Nds(ms) = {}

\* A new root above the two halves leaves one tree.
LEMMA TreeNewRoot ==
  \A ns, ms, h, g, old, new, r :
    (/\ Tree(ns, {old, new}, h) /\ RootAbove(ms, ns, old, new, r)
     /\ h[old] = h[new] /\ g[r] = h[old] + 1 /\ \A q \in Nds(ns) : g[q] = h[q])
      => Tree(ms, {r}, g)
  <1> SUFFICES ASSUME NEW ns, NEW ms, NEW h, NEW g, NEW old, NEW new, NEW r,
                      Tree(ns, {old, new}, h), RootAbove(ms, ns, old, new, r),
                      h[old] = h[new], g[r] = h[old] + 1, \A q \in Nds(ns) : g[q] = h[q]
               PROVE  Tree(ms, {r}, g)
    OBVIOUS
  <1>1. /\ old \in Nds(ns) /\ new \in Nds(ns) /\ r \notin Nds(ns) /\ Nds(ms) = Nds(ns) \cup {r}
        /\ \A q \in Nds(ns) : r \notin Gone(ns[q])
        /\ ~ms[r].leaf /\ Children(ms[r]) = {old, new} /\ Distinct(ms[r].vals)
        /\ Gone(ms[r]) \cap Nds(ms) = {}
    BY DEF RootAbove
  <1>2. \A q \in Nds(ns) : /\ (ms[q].leaf <=> ns[q].leaf) /\ Children(ms[q]) = Children(ns[q])
                           /\ Gone(ms[q]) \subseteq Gone(ns[q])
                           /\ Distinct(ns[q].vals) => Distinct(ms[q].vals)
                           /\ ms[q].parent = IF q \in {old, new} THEN r ELSE ns[q].parent
    BY DEF RootAbove, SameList
  <1>3. Levels(ns, h) /\ Down(ns, h) /\ Once(ns) /\ StaleDown(ns, h) /\ Up(ns, {old, new})
    BY DEF Tree
  <1>4. Levels(ms, g)
    <2>1. h[old] \in Nat
      BY <1>1, <1>3 DEF Levels
    <2> QED BY <1>1, <1>2, <1>3, <2>1 DEF Levels
  <1>5. Down(ms, g)
    <2> SUFFICES ASSUME NEW q \in Nds(ms), NEW c \in Children(ms[q])
                 PROVE  c \in Nds(ms) /\ ms[c].parent = q /\ g[q] = g[c] + 1
      BY DEF Down
    <2>1. CASE q = r
      BY <1>1, <1>2, <2>1
    <2>2. CASE q # r
      <3>1. q \in Nds(ns) /\ c \in Children(ns[q])
        BY <1>1, <1>2, <2>2
      <3>2. c \in Nds(ns) /\ ns[c].parent = q /\ h[q] = h[c] + 1
        BY <1>3, <3>1 DEF Down
      <3>3. c # old /\ c # new
        BY <1>3, <3>1 DEF Up
      <3> QED BY <1>1, <1>2, <3>1, <3>2, <3>3
    <2> QED BY <2>1, <2>2
  <1>6. Once(ms)
    BY <1>1, <1>2, <1>3 DEF Once
  <1>7. StaleDown(ms, g)
    BY <1>1, <1>2, <1>3 DEF StaleDown
  <1>8. Up(ms, {r})
    <2>1. ASSUME NEW q \in Nds(ms), q # r
          PROVE  ms[q].parent \in Nds(ms) /\ q \in Children(ms[ms[q].parent])
      <3>1. CASE q \in {old, new}
        BY <1>1, <1>2, <3>1
      <3>2. CASE q \notin {old, new}
        BY <1>1, <1>2, <1>3, <2>1, <3>2 DEF Up
      <3> QED BY <3>1, <3>2
    <2>2. ASSUME NEW q \in Nds(ms) PROVE r \notin Children(ms[q])
      BY <1>1, <1>2, <1>3 DEF Down
    <2> QED BY <1>1, <2>1, <2>2 DEF Up
  <1> QED BY <1>4, <1>5, <1>6, <1>7, <1>8 DEF Tree

\* The node new as a child of p.
ChildAdded(ms, ns, p, new) ==
  /\ p \in Nds(ns) /\ new \in Nds(ns) /\ p # new /\ ~ns[p].leaf /\ Nds(ms) = Nds(ns)
  /\ \A q \in Nds(ns) : /\ (ms[q].leaf <=> ns[q].leaf)
                        /\ ms[q].parent = IF q = new THEN p ELSE ns[q].parent
                        /\ q # p => SameList(ms[q], ns[q])
  /\ Children(ms[p]) = Children(ns[p]) \cup {new} /\ Gone(ms[p]) \subseteq Gone(ns[p])
  /\ Distinct(ms[p].vals)

\* The new half put below a node is a top no more.
LEMMA TreeAdd ==
  \A ns, ms, T, h, p, new :
    Tree(ns, T \cup {new}, h) /\ new \notin T /\ ChildAdded(ms, ns, p, new) /\ h[p] = h[new] + 1
      => Tree(ms, T, h)
  <1> SUFFICES ASSUME NEW ns, NEW ms, NEW T, NEW h, NEW p, NEW new,
                      Tree(ns, T \cup {new}, h), new \notin T, ChildAdded(ms, ns, p, new),
                      h[p] = h[new] + 1
               PROVE  Tree(ms, T, h)
    OBVIOUS
  <1>1. /\ p \in Nds(ns) /\ new \in Nds(ns) /\ p # new /\ ~ns[p].leaf /\ Nds(ms) = Nds(ns)
        /\ Children(ms[p]) = Children(ns[p]) \cup {new} /\ Gone(ms[p]) \subseteq Gone(ns[p])
        /\ Distinct(ms[p].vals)
    BY DEF ChildAdded
  <1>2. \A q \in Nds(ns) : /\ (ms[q].leaf <=> ns[q].leaf)
                           /\ ms[q].parent = IF q = new THEN p ELSE ns[q].parent
    BY DEF ChildAdded
  <1>3. \A q \in Nds(ns) : q # p => /\ Children(ms[q]) = Children(ns[q])
                                    /\ Gone(ms[q]) \subseteq Gone(ns[q])
                                    /\ Distinct(ns[q].vals) => Distinct(ms[q].vals)
    BY DEF ChildAdded, SameList
  <1>4. Levels(ns, h) /\ Down(ns, h) /\ Once(ns) /\ StaleDown(ns, h) /\ Up(ns, T \cup {new})
    BY DEF Tree
  <1>5. Levels(ms, h)
    BY <1>1, <1>2, <1>4 DEF Levels
  <1>6. Down(ms, h)
    <2> SUFFICES ASSUME NEW q \in Nds(ms), NEW c \in Children(ms[q])
                 PROVE  c \in Nds(ms) /\ ms[c].parent = q /\ h[q] = h[c] + 1
      BY DEF Down
    <2>1. CASE q = p /\ c = new
      BY <1>1, <1>2, <2>1
    <2>2. CASE ~(q = p /\ c = new)
      <3>1. c \in Children(ns[q])
        BY <1>1, <1>3, <2>2
      <3>2. c \in Nds(ns) /\ ns[c].parent = q /\ h[q] = h[c] + 1
        BY <1>1, <1>4, <3>1 DEF Down
      <3>3. c # new
        BY <1>1, <1>4, <3>1 DEF Up
      <3> QED BY <1>1, <1>2, <3>2, <3>3
    <2> QED BY <2>1, <2>2
  <1>7. Once(ms)
    BY <1>1, <1>2, <1>3, <1>4 DEF Once
  <1>8. StaleDown(ms, h)
    <2> SUFFICES ASSUME NEW q \in Nds(ms), NEW c \in Gone(ms[q]), c \in Nds(ms) PROVE h[c] < h[q]
      BY DEF StaleDown
    <2>1. c \in Gone(ns[q])
      BY <1>1, <1>3
    <2> QED BY <1>1, <1>4, <2>1 DEF StaleDown
  <1>9. Up(ms, T)
    <2>1. ASSUME NEW q \in Nds(ms), q \notin T
          PROVE  ms[q].parent \in Nds(ms) /\ q \in Children(ms[ms[q].parent])
      <3>1. CASE q = new
        BY <1>1, <1>2, <3>1
      <3>2. CASE q # new
        <4>1. ns[q].parent \in Nds(ns) /\ q \in Children(ns[ns[q].parent])
          BY <1>1, <1>4, <2>1, <3>2 DEF Up
        <4>2. ms[q].parent = ns[q].parent
          BY <1>1, <1>2, <3>2
        <4>3. q \in Children(ms[ns[q].parent])
          BY <1>1, <1>3, <4>1
        <4> QED BY <1>1, <4>1, <4>2, <4>3
      <3> QED BY <3>1, <3>2
    <2>2. ASSUME NEW t \in T PROVE t \in Nds(ms) /\ \A q \in Nds(ms) : t \notin Children(ms[q])
      <3>1. t \in Nds(ns) /\ t # new /\ \A q \in Nds(ns) : t \notin Children(ns[q])
        BY <1>4, <2>2 DEF Up
      <3> QED BY <1>1, <1>3, <3>1
    <2> QED BY <2>1, <2>2 DEF Up
  <1> QED BY <1>5, <1>6, <1>7, <1>8, <1>9 DEF Tree

\* The root r dropped, its only child in its place.
RootDropped(ms, ns, r, only) ==
  /\ r \in Nds(ns) /\ Nds(ms) = Nds(ns) \ {r} /\ Children(ns[r]) = {only}
  /\ \A q \in Nds(ms) : SameList(ms[q], ns[q]) /\ (q # only => ms[q].parent = ns[q].parent)

\* The only child of the root is the root of what it leaves.
LEMMA TreeDrop ==
  \A ns, ms, h, r, only :
    Tree(ns, {r}, h) /\ RootDropped(ms, ns, r, only) => Tree(ms, {only}, h) /\ only \in Nds(ns)
  <1> SUFFICES ASSUME NEW ns, NEW ms, NEW h, NEW r, NEW only,
                      Tree(ns, {r}, h), RootDropped(ms, ns, r, only)
               PROVE  Tree(ms, {only}, h) /\ only \in Nds(ns)
    OBVIOUS
  <1>1. r \in Nds(ns) /\ Nds(ms) = Nds(ns) \ {r} /\ Children(ns[r]) = {only}
    BY DEF RootDropped
  <1>2. \A q \in Nds(ms) : /\ (ms[q].leaf <=> ns[q].leaf) /\ Children(ms[q]) = Children(ns[q])
                           /\ Gone(ms[q]) \subseteq Gone(ns[q])
                           /\ Distinct(ns[q].vals) => Distinct(ms[q].vals)
                           /\ q # only => ms[q].parent = ns[q].parent
    BY DEF RootDropped, SameList
  <1>3. Levels(ns, h) /\ Down(ns, h) /\ Once(ns) /\ StaleDown(ns, h) /\ Up(ns, {r})
    BY DEF Tree
  <1>4. only \in Nds(ns) /\ only # r /\ ns[only].parent = r
    BY <1>1, <1>3 DEF Down, Up
  <1>5. Levels(ms, h)
    BY <1>1, <1>2, <1>3 DEF Levels
  <1>6. Down(ms, h)
    <2> SUFFICES ASSUME NEW q \in Nds(ms), NEW c \in Children(ms[q])
                 PROVE  c \in Nds(ms) /\ ms[c].parent = q /\ h[q] = h[c] + 1
      BY DEF Down
    <2>1. q \in Nds(ns) /\ q # r /\ c \in Children(ns[q])
      BY <1>1, <1>2
    <2>2. c \in Nds(ns) /\ ns[c].parent = q /\ h[q] = h[c] + 1 /\ c # r
      BY <1>3, <2>1 DEF Down, Up
    <2>3. c # only
      BY <1>4, <2>1, <2>2
    <2> QED BY <1>1, <1>2, <2>2, <2>3
  <1>7. Once(ms)
    BY <1>1, <1>2, <1>3 DEF Once
  <1>8. StaleDown(ms, h)
    BY <1>1, <1>2, <1>3 DEF StaleDown
  <1>9. Up(ms, {only})
    <2>1. ASSUME NEW q \in Nds(ms), q # only
          PROVE  ms[q].parent \in Nds(ms) /\ q \in Children(ms[ms[q].parent])
      <3>1. q \in Nds(ns) /\ ns[q].parent \in Nds(ns) /\ q \in Children(ns[ns[q].parent])
        BY <1>1, <1>3 DEF Up
      <3>2. ns[q].parent # r
        BY <1>1, <2>1, <3>1
      <3> QED BY <1>1, <1>2, <2>1, <3>1, <3>2
    <2>2. ASSUME NEW q \in Nds(ms) PROVE only \notin Children(ms[q])
      BY <1>1, <1>2, <1>3, <1>4 DEF Down
    <2> QED BY <1>1, <1>4, <2>1, <2>2 DEF Up
  <1> QED BY <1>4, <1>5, <1>6, <1>7, <1>8, <1>9 DEF Tree

\* A child v of y, moved over to x.
ChildMoved(ms, ns, x, y, v) ==
  /\ x \in Nds(ns) /\ y \in Nds(ns) /\ x # y /\ Nds(ms) = Nds(ns) /\ v \in Children(ns[y])
  /\ ~ns[x].leaf
  /\ \A q \in Nds(ns) : /\ (ms[q].leaf <=> ns[q].leaf)
                        /\ ms[q].parent = IF q = v THEN x ELSE ns[q].parent
                        /\ q \notin {x, y} => SameList(ms[q], ns[q])
  /\ Children(ms[x]) = Children(ns[x]) \cup {v} /\ Children(ms[y]) = Children(ns[y]) \ {v}
  /\ Gone(ms[x]) \subseteq Gone(ns[x]) /\ Gone(ms[y]) \subseteq Gone(ns[y]) \cup Children(ns[y])
  /\ Distinct(ms[x].vals) /\ Distinct(ms[y].vals)

\* A child that changes its parent for a node of the same level.
LEMMA TreeMove ==
  \A ns, ms, T, h, x, y, v :
    Tree(ns, T, h) /\ ChildMoved(ms, ns, x, y, v) /\ h[x] = h[y] => Tree(ms, T, h)
  <1> SUFFICES ASSUME NEW ns, NEW ms, NEW T, NEW h, NEW x, NEW y, NEW v,
                      Tree(ns, T, h), ChildMoved(ms, ns, x, y, v), h[x] = h[y]
               PROVE  Tree(ms, T, h)
    OBVIOUS
  <1>1. /\ x \in Nds(ns) /\ y \in Nds(ns) /\ x # y /\ Nds(ms) = Nds(ns) /\ v \in Children(ns[y])
        /\ Children(ms[x]) = Children(ns[x]) \cup {v} /\ Children(ms[y]) = Children(ns[y]) \ {v}
        /\ Gone(ms[x]) \subseteq Gone(ns[x]) /\ Gone(ms[y]) \subseteq Gone(ns[y]) \cup Children(ns[y])
        /\ Distinct(ms[x].vals) /\ Distinct(ms[y].vals)
    BY DEF ChildMoved
  <1>2. \A q \in Nds(ns) : /\ (ms[q].leaf <=> ns[q].leaf)
                           /\ ms[q].parent = IF q = v THEN x ELSE ns[q].parent
    BY DEF ChildMoved
  <1>3. \A q \in Nds(ns) : q # x /\ q # y => /\ Children(ms[q]) = Children(ns[q])
                                             /\ Gone(ms[q]) \subseteq Gone(ns[q])
                                             /\ Distinct(ns[q].vals) => Distinct(ms[q].vals)
    BY DEF ChildMoved, SameList
  <1>4. Levels(ns, h) /\ Down(ns, h) /\ Once(ns) /\ StaleDown(ns, h) /\ Up(ns, T)
    BY DEF Tree
  <1>5. Levels(ms, h)
    BY <1>1, <1>2, <1>4 DEF Levels
  <1>0. v \in Nds(ns) /\ ns[v].parent = y /\ h[y] = h[v] + 1
    BY <1>1, <1>4 DEF Down
  <1>6. Down(ms, h)
    <2> SUFFICES ASSUME NEW q \in Nds(ms), NEW c \in Children(ms[q])
                 PROVE  c \in Nds(ms) /\ ms[c].parent = q /\ h[q] = h[c] + 1
      BY DEF Down
    <2>1. CASE q = x /\ c = v
      BY <1>0, <1>1, <1>2, <2>1
    <2>2. CASE ~(q = x /\ c = v)
      <3>1. c \in Children(ns[q]) /\ (q = y => c # v)
        BY <1>1, <1>3, <2>2
      <3>2. c \in Nds(ns) /\ ns[c].parent = q /\ h[q] = h[c] + 1
        BY <1>1, <1>4, <3>1 DEF Down
      <3>3. c # v
        BY <1>0, <3>1, <3>2
      <3> QED BY <1>1, <1>2, <3>2, <3>3
    <2> QED BY <2>1, <2>2
  <1>7. Once(ms)
    BY <1>1, <1>2, <1>3, <1>4 DEF Once
  <1>8. StaleDown(ms, h)
    <2> SUFFICES ASSUME NEW q \in Nds(ms), NEW c \in Gone(ms[q]), c \in Nds(ms) PROVE h[c] < h[q]
      BY DEF StaleDown
    <2>1. CASE c \in Gone(ns[q])
      BY <1>1, <1>4, <2>1 DEF StaleDown
    <2>2. CASE q = y /\ c \in Children(ns[y])
      <3>1. h[y] = h[c] + 1 /\ h[c] \in Nat
        BY <1>1, <1>4, <2>2 DEF Down, Levels
      <3> QED BY <2>2, <3>1
    <2> QED BY <1>1, <1>3, <2>1, <2>2
  <1>9. Up(ms, T)
    <2>1. ASSUME NEW q \in Nds(ms), q \notin T
          PROVE  ms[q].parent \in Nds(ms) /\ q \in Children(ms[ms[q].parent])
      <3>1. CASE q = v
        BY <1>0, <1>1, <1>2, <3>1
      <3>2. CASE q # v
        <4>1. ns[q].parent \in Nds(ns) /\ q \in Children(ns[ns[q].parent])
          BY <1>1, <1>4, <2>1, <3>2 DEF Up
        <4>2. ms[q].parent = ns[q].parent
          BY <1>1, <1>2, <3>2
        <4>3. q \in Children(ms[ns[q].parent])
          BY <1>1, <1>3, <3>2, <4>1
        <4> QED BY <1>1, <4>1, <4>2, <4>3
      <3> QED BY <3>1, <3>2
    <2>2. ASSUME NEW t \in T PROVE t \in Nds(ms) /\ \A q \in Nds(ms) : t \notin Children(ms[q])
      <3>1. t \in Nds(ns) /\ \A q \in Nds(ns) : t \notin Children(ns[q])
        BY <1>4, <2>2 DEF Up
      <3> QED BY <1>1, <1>3, <3>1
    <2> QED BY <2>1, <2>2 DEF Up
  <1> QED BY <1>5, <1>6, <1>7, <1>8, <1>9 DEF Tree

\* The node right merged into left, both children of p.
Merged(ms, ns, left, right, p) ==
  /\ left \in Nds(ns) /\ right \in Nds(ns) /\ p \in Nds(ns) /\ left # right /\ p # left /\ p # right
  /\ Nds(ms) = Nds(ns) \ {right}
  /\ right \in Children(ns[p])
  /\ \A q \in Nds(ms) : /\ (ms[q].leaf <=> ns[q].leaf)
                        /\ ms[q].parent = IF q \in Children(ns[right]) THEN left ELSE ns[q].parent
                        /\ q \notin {left, p} => SameList(ms[q], ns[q])
  /\ Children(ms[left]) = Children(ns[left]) \cup Children(ns[right])
  /\ Children(ms[p]) = Children(ns[p]) \ {right}
  /\ Gone(ms[left]) \subseteq Gone(ns[left])
  /\ Gone(ms[p]) \subseteq Gone(ns[p]) \cup Children(ns[p])
  /\ Distinct(ms[p].vals) /\ (~ns[left].leaf => Distinct(ms[left].vals))

\* A node merged into another one of the same level.
LEMMA TreeMerge ==
  \A ns, ms, T, h, left, right, p :
    Tree(ns, T, h) /\ Merged(ms, ns, left, right, p) /\ h[left] = h[right] => Tree(ms, T, h)
  <1> SUFFICES ASSUME NEW ns, NEW ms, NEW T, NEW h, NEW left, NEW right, NEW p,
                      Tree(ns, T, h), Merged(ms, ns, left, right, p), h[left] = h[right]
               PROVE  Tree(ms, T, h)
    OBVIOUS
  <1>1. /\ left \in Nds(ns) /\ right \in Nds(ns) /\ p \in Nds(ns)
        /\ left # right /\ p # left /\ p # right
        /\ Nds(ms) = Nds(ns) \ {right} /\ right \in Children(ns[p])
        /\ Children(ms[left]) = Children(ns[left]) \cup Children(ns[right])
        /\ Children(ms[p]) = Children(ns[p]) \ {right}
        /\ Gone(ms[left]) \subseteq Gone(ns[left])
        /\ Gone(ms[p]) \subseteq Gone(ns[p]) \cup Children(ns[p])
        /\ Distinct(ms[p].vals) /\ (~ns[left].leaf => Distinct(ms[left].vals))
    BY DEF Merged
  <1>2. \A q \in Nds(ms) :
          /\ (ms[q].leaf <=> ns[q].leaf)
          /\ ms[q].parent = IF q \in Children(ns[right]) THEN left ELSE ns[q].parent
    BY DEF Merged
  <1>3. \A q \in Nds(ms) : q # left /\ q # p => /\ Children(ms[q]) = Children(ns[q])
                                                /\ Gone(ms[q]) \subseteq Gone(ns[q])
                                                /\ Distinct(ns[q].vals) => Distinct(ms[q].vals)
    BY DEF Merged, SameList
  <1>4. Levels(ns, h) /\ Down(ns, h) /\ Once(ns) /\ StaleDown(ns, h) /\ Up(ns, T)
    BY DEF Tree
  <1>5. Levels(ms, h)
    BY <1>1, <1>2, <1>4 DEF Levels
  <1>0. ns[right].parent = p
    BY <1>1, <1>4 DEF Down
  <1>6. Down(ms, h)
    <2> SUFFICES ASSUME NEW q \in Nds(ms), NEW c \in Children(ms[q])
                 PROVE  c \in Nds(ms) /\ ms[c].parent = q /\ h[q] = h[c] + 1
      BY DEF Down
    <2>1. CASE q = left /\ c \in Children(ns[right])
      <3>1. c \in Nds(ns) /\ ns[c].parent = right /\ h[right] = h[c] + 1
        BY <1>1, <1>4, <2>1 DEF Down
      <3>2. c # right
        BY <1>0, <1>1, <3>1
      <3> QED BY <1>1, <1>2, <2>1, <3>1, <3>2
    <2>2. CASE ~(q = left /\ c \in Children(ns[right]))
      <3>1. c \in Children(ns[q]) /\ (q = p => c # right) /\ q \in Nds(ns) /\ q # right
        BY <1>1, <1>3, <2>2
      <3>2. c \in Nds(ns) /\ ns[c].parent = q /\ h[q] = h[c] + 1
        BY <1>1, <1>4, <3>1 DEF Down
      <3>3. c # right
        BY <1>0, <3>1, <3>2
      <3>4. c \notin Children(ns[right])
        BY <1>1, <1>4, <3>1, <3>2 DEF Down
      <3> QED BY <1>1, <1>2, <3>2, <3>3, <3>4
    <2> QED BY <2>1, <2>2
  <1>7. Once(ms)
    BY <1>1, <1>2, <1>3, <1>4 DEF Once
  <1>8. StaleDown(ms, h)
    <2> SUFFICES ASSUME NEW q \in Nds(ms), NEW c \in Gone(ms[q]), c \in Nds(ms) PROVE h[c] < h[q]
      BY DEF StaleDown
    <2>1. CASE c \in Gone(ns[q])
      BY <1>1, <1>4, <2>1 DEF StaleDown
    <2>2. CASE q = p /\ c \in Children(ns[p])
      <3>1. h[p] = h[c] + 1 /\ h[c] \in Nat
        BY <1>1, <1>4, <2>2 DEF Down, Levels
      <3> QED BY <2>2, <3>1
    <2> QED BY <1>1, <1>3, <2>1, <2>2
  <1>9. Up(ms, T)
    <2>1. ASSUME NEW q \in Nds(ms), q \notin T
          PROVE  ms[q].parent \in Nds(ms) /\ q \in Children(ms[ms[q].parent])
      <3>1. CASE q \in Children(ns[right])
        BY <1>1, <1>2, <3>1
      <3>2. CASE q \notin Children(ns[right])
        <4>1. q \in Nds(ns) /\ ns[q].parent \in Nds(ns) /\ q \in Children(ns[ns[q].parent]) /\ q # right
          BY <1>1, <1>4, <2>1 DEF Up
        <4>2. ms[q].parent = ns[q].parent /\ ns[q].parent # right
          BY <1>1, <1>2, <3>2, <4>1
        <4>3. q \in Children(ms[ns[q].parent])
          BY <1>1, <1>3, <4>1, <4>2
        <4> QED BY <1>1, <4>1, <4>2, <4>3
      <3> QED BY <3>1, <3>2
    <2>2. ASSUME NEW t \in T PROVE t \in Nds(ms) /\ \A q \in Nds(ms) : t \notin Children(ms[q])
      <3>1. t \in Nds(ns) /\ \A q \in Nds(ns) : t \notin Children(ns[q])
        BY <1>4, <2>2 DEF Up
      <3> QED BY <1>1, <1>3, <3>1
    <2> QED BY <2>1, <2>2 DEF Up
  <1> QED BY <1>5, <1>6, <1>7, <1>8, <1>9 DEF Tree

-----------------------------------------------------------------------------
(* The leaf list and the parent pointers.                                  *)

\* m has the pairs of n.
SamePairs(m, n) ==
  (m.leaf <=> n.leaf) /\ m.keys = n.keys /\ m.vals = n.vals /\ m.past = n.past

\* The same pairs are the same children.
LEMMA SamePairsIs ==
  \A m, n : SamePairs(m, n) =>
    SameList(m, n) /\ Size(m) = Size(n) /\ Children(m) = Children(n) /\ Gone(m) = Gone(n)
  BY ChildrenIs DEF SamePairs, SameList, Size, Gone

\* A record with the pairs of a node is a node.
LEMMA SamePairsOK ==
  \A m, n : SamePairs(m, n) /\ NodeOK(n) /\ m \in NodeRecords => NodeOK(m)
  BY DEF SamePairs, NodeOK

Reparented(n, p) == [n EXCEPT !.parent = p]

\* SetParentPageNo changes nothing else.
LEMMA ReparentIs ==
  \A n, p : NodeOK(n) /\ p \in {IX_NO_PAGE} \cup Pages =>
    /\ NodeOK(Reparented(n, p)) /\ SamePairs(Reparented(n, p), n)
    /\ Reparented(n, p).parent = p
    /\ Reparented(n, p).prev = n.prev /\ Reparented(n, p).next = n.next
  <1> SUFFICES ASSUME NEW n, NEW p, NodeOK(n), p \in {IX_NO_PAGE} \cup Pages
               PROVE  /\ NodeOK(Reparented(n, p)) /\ SamePairs(Reparented(n, p), n)
                      /\ Reparented(n, p).parent = p
                      /\ Reparented(n, p).prev = n.prev /\ Reparented(n, p).next = n.next
    OBVIOUS
  <1> DEFINE m == Reparented(n, p)
  <1>1. n \in NodeRecords /\ m = [n EXCEPT !.parent = p]
    BY DEF NodeOK, Reparented
  <1> HIDE DEF m
  <1>2. m \in NodeRecords
    BY <1>1 DEF NodeRecords
  <1>3. m.parent = p /\ m.prev = n.prev /\ m.next = n.next
    BY <1>1 DEF NodeRecords
  <1>4. m.leaf = n.leaf /\ m.keys = n.keys /\ m.vals = n.vals /\ m.past = n.past
    BY <1>1 DEF NodeRecords
  <1>5. SamePairs(m, n)
    BY <1>4 DEF SamePairs
  <1>6. NodeOK(m)
    BY <1>2, <1>5, SamePairsOK
  <1> QED BY <1>3, <1>5, <1>6 DEF m

Relinked(n, prev, next) == [n EXCEPT !.prev = prev, !.next = next]

\* SetPrevLeaf and SetNextLeaf change nothing else.
LEMMA RelinkIs ==
  \A n, prev, next : NodeOK(n) /\ prev \in 0..MaxPage /\ next \in 0..MaxPage =>
    /\ NodeOK(Relinked(n, prev, next)) /\ SamePairs(Relinked(n, prev, next), n)
    /\ Relinked(n, prev, next).parent = n.parent
    /\ Relinked(n, prev, next).prev = prev /\ Relinked(n, prev, next).next = next
  <1> SUFFICES ASSUME NEW n, NEW prev, NEW next,
                      NodeOK(n), prev \in 0..MaxPage, next \in 0..MaxPage
               PROVE  /\ NodeOK(Relinked(n, prev, next)) /\ SamePairs(Relinked(n, prev, next), n)
                      /\ Relinked(n, prev, next).parent = n.parent
                      /\ Relinked(n, prev, next).prev = prev
                      /\ Relinked(n, prev, next).next = next
    OBVIOUS
  <1> DEFINE m == Relinked(n, prev, next)
  <1>1. n \in NodeRecords /\ m = [n EXCEPT !.prev = prev, !.next = next]
    BY DEF NodeOK, Relinked
  <1> HIDE DEF m
  <1>2. m \in NodeRecords
    BY <1>1 DEF NodeRecords
  <1>3. m.parent = n.parent /\ m.prev = prev /\ m.next = next
    BY <1>1 DEF NodeRecords
  <1>4. m.leaf = n.leaf /\ m.keys = n.keys /\ m.vals = n.vals /\ m.past = n.past
    BY <1>1 DEF NodeRecords
  <1>5. SamePairs(m, n)
    BY <1>4 DEF SamePairs
  <1>6. NodeOK(m)
    BY <1>2, <1>5, SamePairsOK
  <1> QED BY <1>3, <1>5, <1>6 DEF m

\* The nodes after CreateNode.
LEMMA WithNodeIs ==
  \A ns, p, n : /\ DOMAIN WithNode(ns, p, n) = DOMAIN ns \cup {p}
                /\ \A q \in DOMAIN ns \cup {p} : WithNode(ns, p, n)[q] = IF q = p THEN n ELSE ns[q]
  BY DEF WithNode

\* The nodes after maintain_child.
LEMMA AdoptIs ==
  \A ns, kids, p : /\ DOMAIN Adopt(ns, kids, p) = DOMAIN ns
                   /\ \A q \in DOMAIN ns : Adopt(ns, kids, p)[q] = IF q \in kids THEN Reparented(ns[q], p)
                                                                   ELSE ns[q]
  BY DEF Adopt, Reparented

\* The leaf list with new put in after p, node by node.
LinkedAs(m, n, q, p, new, next) ==
  /\ NodeOK(m) /\ SamePairs(m, n) /\ m.parent = n.parent
  /\ m.next = IF q = p THEN new ELSE IF q = new THEN next ELSE n.next
  /\ m.prev = IF q = next THEN new ELSE IF q = new THEN p ELSE n.prev

\* What the leaf list part of Split does to every node.
LEMMA LinkLeafIs ==
  \A ns, p, new :
    (/\ \A q \in DOMAIN ns : NodeOK(ns[q])
     /\ p \in DOMAIN ns /\ new \in DOMAIN ns /\ p # new /\ p \in Pages /\ new \in Pages)
      => /\ DOMAIN LinkLeaf(ns, p, new) = DOMAIN ns
         /\ \A q \in DOMAIN ns : LinkedAs(LinkLeaf(ns, p, new)[q], ns[q], q, p, new, ns[p].next)
  <1> SUFFICES ASSUME NEW ns, NEW p, NEW new, \A q \in DOMAIN ns : NodeOK(ns[q]),
                      p \in DOMAIN ns, new \in DOMAIN ns, p # new, p \in Pages, new \in Pages
               PROVE  /\ DOMAIN LinkLeaf(ns, p, new) = DOMAIN ns
                      /\ \A q \in DOMAIN ns : LinkedAs(LinkLeaf(ns, p, new)[q], ns[q], q, p, new, ns[p].next)
    OBVIOUS
  <1> DEFINE next == ns[p].next
             a == [ns EXCEPT ![new].next = next]
             b == [a EXCEPT ![new].prev = p]
             c == [b EXCEPT ![next].prev = new]
             d == [c EXCEPT ![p].next = new]
  <1>1. LinkLeaf(ns, p, new) = d
    BY DEF LinkLeaf
  <1>2. next \in 0..MaxPage /\ p \in 0..MaxPage /\ new \in 0..MaxPage
    <2>1. next \in 0..MaxPage
      BY NodeIs
    <2>2. p \in 0..MaxPage /\ new \in 0..MaxPage
      BY Sizes DEF Pages, IX_INIT_ROOT_PAGE
    <2> QED BY <2>1, <2>2
  <1> HIDE DEF next
  <1>3. DOMAIN a = DOMAIN ns /\ \A q \in DOMAIN ns :
          a[q] = IF q = new THEN [ns[q] EXCEPT !.next = next] ELSE ns[q]
    OBVIOUS
  <1> HIDE DEF a
  <1>4. DOMAIN b = DOMAIN ns /\ \A q \in DOMAIN ns :
          b[q] = IF q = new THEN [a[q] EXCEPT !.prev = p] ELSE a[q]
    BY <1>3
  <1> HIDE DEF b
  <1>5. DOMAIN c = DOMAIN ns /\ \A q \in DOMAIN ns :
          c[q] = IF q = next THEN [b[q] EXCEPT !.prev = new] ELSE b[q]
    BY <1>4
  <1> HIDE DEF c
  <1>6. DOMAIN d = DOMAIN ns /\ \A q \in DOMAIN ns :
          d[q] = IF q = p THEN [c[q] EXCEPT !.next = new] ELSE c[q]
    BY <1>5
  <1> HIDE DEF d
  <1>7. ASSUME NEW q \in DOMAIN ns
        PROVE  LinkedAs(d[q], ns[q], q, p, new, next)
    <2> DEFINE n == ns[q]
               nx == IF q = p THEN new ELSE IF q = new THEN next ELSE n.next
               pv == IF q = next THEN new ELSE IF q = new THEN p ELSE n.prev
    <2>1. NodeOK(n) /\ n \in NodeRecords /\ n.next \in 0..MaxPage /\ n.prev \in 0..MaxPage
      BY NodeIs DEF NodeOK
    <2>2. nx \in 0..MaxPage /\ pv \in 0..MaxPage
      BY <1>2, <2>1
    <2>3. d[q] = Relinked(n, pv, nx)
      <3>1. a[q] = IF q = new THEN [n EXCEPT !.next = next] ELSE n
        BY <1>3
      <3>2. b[q] = IF q = new THEN [a[q] EXCEPT !.prev = p] ELSE a[q]
        BY <1>4
      <3>3. c[q] = IF q = next THEN [b[q] EXCEPT !.prev = new] ELSE b[q]
        BY <1>5
      <3>4. d[q] = IF q = p THEN [c[q] EXCEPT !.next = new] ELSE c[q]
        BY <1>6
      <3> HIDE DEF n
      <3>5. CASE q = new /\ q = next
        <4>1. b[q] = [n EXCEPT !.next = next, !.prev = p]
          BY <3>1, <3>2, <3>5
        <4>2. d[q] = [b[q] EXCEPT !.prev = new]
          BY <3>3, <3>4, <3>5
        <4>3. d[q] = [n EXCEPT !.next = next, !.prev = new]
          BY <2>1, <4>1, <4>2 DEF NodeRecords
        <4>4. d[q] = [n EXCEPT !.prev = new, !.next = next]
          BY <2>1, <4>3 DEF NodeRecords
        <4> QED BY <3>5, <4>4 DEF Relinked
      <3>6. CASE q = new /\ q # next
        BY <2>1, <3>1, <3>2, <3>3, <3>4, <3>6 DEF Relinked, NodeRecords
      <3>7. CASE q # new /\ q = p /\ q = next
        <4>1. d[q] = [n EXCEPT !.prev = new, !.next = new]
          BY <3>1, <3>2, <3>3, <3>4, <3>7
        <4> QED BY <3>7, <4>1 DEF Relinked
      <3>8. CASE q # new /\ q = p /\ q # next
        <4>1. d[q] = [n EXCEPT !.next = new]
          BY <3>1, <3>2, <3>3, <3>4, <3>8
        <4>2. d[q] = [n EXCEPT !.prev = n.prev, !.next = new]
          BY <2>1, <4>1 DEF NodeRecords
        <4> QED BY <3>8, <4>2 DEF Relinked
      <3>9. CASE q # new /\ q # p /\ q = next
        <4>1. d[q] = [n EXCEPT !.prev = new]
          BY <3>1, <3>2, <3>3, <3>4, <3>9
        <4>2. d[q] = [n EXCEPT !.prev = new, !.next = n.next]
          BY <2>1, <4>1 DEF NodeRecords
        <4> QED BY <3>9, <4>2 DEF Relinked
      <3>10. CASE q # new /\ q # p /\ q # next
        <4>1. d[q] = n
          BY <3>1, <3>2, <3>3, <3>4, <3>10
        <4>2. d[q] = [n EXCEPT !.prev = n.prev, !.next = n.next]
          BY <2>1, <4>1 DEF NodeRecords
        <4> QED BY <3>10, <4>2 DEF Relinked
      <3> QED BY <3>5, <3>6, <3>7, <3>8, <3>9, <3>10
    <2> HIDE DEF n, nx, pv
    <2>4. /\ NodeOK(d[q]) /\ SamePairs(d[q], n) /\ d[q].parent = n.parent
          /\ d[q].prev = pv /\ d[q].next = nx
      BY <2>1, <2>2, <2>3, RelinkIs
    <2> QED BY <2>4 DEF LinkedAs, n, nx, pv
  <1> QED BY <1>1, <1>6, <1>7 DEF next

\* The leaf list without leaf, node by node.
UnlinkedAs(m, n, q, prev, next) ==
  /\ NodeOK(m) /\ SamePairs(m, n) /\ m.parent = n.parent
  /\ m.next = IF q = prev THEN next ELSE n.next
  /\ m.prev = IF q = next THEN prev ELSE n.prev

\* What erase_leaf does to every node.
LEMMA UnlinkLeafIs ==
  \A ns, leaf :
    (\A q \in DOMAIN ns : NodeOK(ns[q])) /\ leaf \in DOMAIN ns
      => /\ DOMAIN UnlinkLeaf(ns, leaf) = DOMAIN ns
         /\ \A q \in DOMAIN ns :
              UnlinkedAs(UnlinkLeaf(ns, leaf)[q], ns[q], q, ns[leaf].prev, ns[leaf].next)
  <1> SUFFICES ASSUME NEW ns, NEW leaf, \A q \in DOMAIN ns : NodeOK(ns[q]), leaf \in DOMAIN ns
               PROVE  /\ DOMAIN UnlinkLeaf(ns, leaf) = DOMAIN ns
                      /\ \A q \in DOMAIN ns :
                           UnlinkedAs(UnlinkLeaf(ns, leaf)[q], ns[q], q, ns[leaf].prev, ns[leaf].next)
    OBVIOUS
  <1> DEFINE prev == ns[leaf].prev
             next == ns[leaf].next
             a == [ns EXCEPT ![prev].next = next]
             b == [a EXCEPT ![next].prev = prev]
  <1>1. UnlinkLeaf(ns, leaf) = b
    BY DEF UnlinkLeaf
  <1>2. next \in 0..MaxPage /\ prev \in 0..MaxPage
    BY NodeIs
  <1> HIDE DEF next, prev
  <1>3. DOMAIN a = DOMAIN ns /\ \A q \in DOMAIN ns :
          a[q] = IF q = prev THEN [ns[q] EXCEPT !.next = next] ELSE ns[q]
    OBVIOUS
  <1> HIDE DEF a
  <1>4. DOMAIN b = DOMAIN ns /\ \A q \in DOMAIN ns :
          b[q] = IF q = next THEN [a[q] EXCEPT !.prev = prev] ELSE a[q]
    BY <1>3
  <1> HIDE DEF b
  <1>5. ASSUME NEW q \in DOMAIN ns PROVE UnlinkedAs(b[q], ns[q], q, prev, next)
    <2> DEFINE n == ns[q]
               nx == IF q = prev THEN next ELSE n.next
               pv == IF q = next THEN prev ELSE n.prev
    <2>1. NodeOK(n) /\ n \in NodeRecords /\ n.next \in 0..MaxPage /\ n.prev \in 0..MaxPage
      BY NodeIs DEF NodeOK
    <2>2. nx \in 0..MaxPage /\ pv \in 0..MaxPage
      BY <1>2, <2>1
    <2>3. b[q] = Relinked(n, pv, nx)
      <3>1. a[q] = IF q = prev THEN [n EXCEPT !.next = next] ELSE n
        BY <1>3
      <3>2. b[q] = IF q = next THEN [a[q] EXCEPT !.prev = prev] ELSE a[q]
        BY <1>4
      <3> HIDE DEF n
      <3>5. CASE q = prev /\ q = next
        BY <2>1, <3>1, <3>2, <3>5 DEF Relinked, NodeRecords
      <3>6. CASE q = prev /\ q # next
        BY <2>1, <3>1, <3>2, <3>6 DEF Relinked, NodeRecords
      <3>7. CASE q # prev /\ q = next
        BY <2>1, <3>1, <3>2, <3>7 DEF Relinked, NodeRecords
      <3>8. CASE q # prev /\ q # next
        BY <2>1, <3>1, <3>2, <3>8 DEF Relinked, NodeRecords
      <3> QED BY <3>5, <3>6, <3>7, <3>8
    <2> HIDE DEF n, nx, pv
    <2>4. /\ NodeOK(b[q]) /\ SamePairs(b[q], n) /\ b[q].parent = n.parent
          /\ b[q].prev = pv /\ b[q].next = nx
      BY <2>1, <2>2, <2>3, RelinkIs
    <2> QED BY <2>4 DEF UnlinkedAs, n, nx, pv
  <1> QED BY <1>1, <1>4, <1>5 DEF next, prev

\* What CreateNode returns is new to the tree.
LEMMA FreshIs ==
  HasPage => /\ FreshPage \in Pages /\ FreshPage \notin DOMAIN node
             /\ \A q \in Nds(node) : FreshPage \notin Children(node[q]) \cup Gone(node[q])
  <1> SUFFICES ASSUME HasPage
               PROVE  /\ FreshPage \in Pages /\ FreshPage \notin DOMAIN node
                      /\ \A q \in Nds(node) : FreshPage \notin Children(node[q]) \cup Gone(node[q])
    OBVIOUS
  <1>1. Unallocated \subseteq Nat /\ Unallocated # {}
    BY Sizes DEF HasPage, Unallocated, IX_INIT_ROOT_PAGE
  <1>2. \E p \in Unallocated : \A q \in Unallocated : p <= q
    <2> DEFINE U == Unallocated
    <2>1. U \subseteq Nat /\ U # {}
      BY <1>1
    <2> HIDE DEF U
    <2>2. \E p \in U : \A q \in U : p <= q
      BY <2>1, LeastExists
    <2> QED BY <2>2 DEF U
  <1>3. FreshPage \in Unallocated
    BY <1>2 DEF FreshPage
  <1>4. FreshPage \in Pages /\ FreshPage \notin DOMAIN node /\ FreshPage \notin Named
    BY <1>3 DEF Unallocated, Pages
  <1>5. ASSUME NEW q \in Nds(node), FreshPage \in Children(node[q]) \cup Gone(node[q]) PROVE FALSE
    <2>1. ~node[q].leaf /\ q \in DOMAIN node
      BY <1>5, ChildrenIs DEF Gone, Nds
    <2>2. FreshPage \in Elems(node[q].vals) \cup Elems(node[q].past)
      BY <1>5, <2>1, ChildrenIs DEF Gone
    <2>3. Elems(node[q].vals) \cup Elems(node[q].past) \subseteq Named
      BY <2>1 DEF Named, Elems
    <2> QED BY <1>4, <2>2, <2>3
  <1> QED BY <1>4, <1>5

-----------------------------------------------------------------------------
(* The descent.                                                            *)

\* InternalLookup reads a child of the node, or a slot past num_key.
LEMMA LookupIs ==
  \A n, key : NodeOK(n) /\ ~n.leaf /\ 0 < Size(n) /\ Size(n) < MaxSize =>
    /\ InternalLookup(n, key) \in Children(n) \cup Gone(n)
    /\ InternalLookup(n, key) \in Links
  <1> SUFFICES ASSUME NEW n, NEW key, NodeOK(n), ~n.leaf, 0 < Size(n), Size(n) < MaxSize
               PROVE  /\ InternalLookup(n, key) \in Children(n) \cup Gone(n)
                      /\ InternalLookup(n, key) \in Links
    OBVIOUS
  <1> DEFINE i == upper_bound(n, key)
  <1>1. /\ Size(n) \in Nat /\ Len(n.vals) = Size(n) /\ n.vals \in Seq(Pages)
        /\ n.past \in Seq(Links) /\ Len(n.past) \in Nat
        /\ Size(n) + Len(n.past) = MaxSize
    BY NodeIs
  <1>2. i \in 0..Size(n)
    BY <1>1, UpperBoundIs
  <1>3. InternalLookup(n, key) = ValueAt(n, i)
    BY DEF InternalLookup
  <1> HIDE DEF i
  <1>4. i \in 0..(Size(n) - 1) \/ i = Size(n)
    BY <1>1, <1>2
  <1>5. CASE i \in 0..(Size(n) - 1)
    <2>1. ValueAt(n, i) = n.vals[i + 1] /\ i + 1 \in 1..Len(n.vals)
      BY <1>1, <1>5, ValueAtIs
    <2>2. n.vals[i + 1] \in Elems(n.vals) /\ n.vals[i + 1] \in Pages
      BY <1>1, <2>1, SeqIs, ElemIs
    <2> QED BY <1>3, <2>1, <2>2, ChildrenIs DEF Links
  <1>6. CASE i = Size(n)
    <2>1. Len(n.past) > 0 /\ 1 \in 1..Len(n.past)
      BY <1>1, <1>6, Sizes
    <2>2. ValueAt(n, i) = n.past[1]
      BY <1>6, <2>1, ValueAtIs
    <2>3. n.past[1] \in Elems(n.past) /\ n.past[1] \in Links
      BY <1>1, <2>1, SeqIs, ElemIs
    <2> QED BY <1>3, <2>2, <2>3 DEF Gone
  <1> QED BY <1>4, <1>5, <1>6

\* The levels of the tree are bounded.
LEMMA BoundExists ==
  \A h : h \in [Pages -> Nat] => \E n \in Nat : \A p \in Pages : h[p] <= n
  <1> SUFFICES ASSUME NEW h, h \in [Pages -> Nat] PROVE \E n \in Nat : \A p \in Pages : h[p] <= n
    OBVIOUS
  <1>0. MaxPage \in Nat /\ \A p \in Pages : p \in Nat /\ p > 0 /\ p <= MaxPage /\ h[p] \in Nat
    BY Sizes DEF Pages, IX_INIT_ROOT_PAGE
  <1> DEFINE Bounds(k, n) == \A p \in Pages : p <= k => h[p] <= n
             D == Nat
             P == {k \in D : \E n \in Nat : Bounds(k, n)}
             rk == [k \in D |-> k]
  <1>1. ASSUME NEW k \in D, \A j \in D : rk[j] < rk[k] => j \in P PROVE k \in P
    <2>1. CASE k = 0
      <3>1. Bounds(0, 0)
        BY <1>0
      <3> HIDE DEF Bounds
      <3> QED BY <2>1, <3>1
    <2>2. CASE k # 0
      <3>1. k - 1 \in P
        BY <1>1, <2>2
      <3>2. PICK n \in Nat : Bounds(k - 1, n)
        <4> HIDE DEF Bounds
        <4> QED BY <3>1
      <3> DEFINE m == IF k \in Pages /\ h[k] > n THEN h[k] ELSE n
      <3>3. m \in Nat /\ n <= m /\ (k \in Pages => h[k] <= m)
        BY <1>0, <3>2
      <3> HIDE DEF m
      <3>4. ASSUME NEW p \in Pages, p <= k PROVE h[p] <= m
        <4>1. p = k \/ p <= k - 1
          BY <1>0, <3>4
        <4>2. CASE p = k
          BY <3>3, <4>2
        <4>3. CASE p <= k - 1
          <5>1. h[p] <= n /\ h[p] \in Nat
            BY <1>0, <3>2, <4>3
          <5> QED BY <3>2, <3>3, <5>1
        <4> QED BY <4>1, <4>2, <4>3
      <3>5. Bounds(k, m)
        BY <3>4
      <3> HIDE DEF Bounds
      <3> QED BY <3>3, <3>5
    <2> QED BY <2>1, <2>2
  <1>2. D \subseteq P
    <2>1. \A k \in D : rk[k] \in Nat
      OBVIOUS
    <2> HIDE DEF P, rk, D
    <2> QED BY <1>1, <2>1, RankInduction
  <1>3. PICK n \in Nat : Bounds(MaxPage, n)
    <2>1. MaxPage \in P
      BY <1>0, <1>2
    <2> HIDE DEF Bounds
    <2> QED BY <2>1
  <1> QED BY <1>0, <1>3

\* The function FindLeafPage follows, from page to page.
DownFrom(down, p, key) ==
  down[p] = IF p \notin DOMAIN node THEN Lost
            ELSE IF node[p].leaf THEN p ELSE down[InternalLookup(node[p], key)]

\* The lookup in an internal node is a level down, or out of the tree.
StepsDown(key, h) ==
  \A p \in PageNos : p \in DOMAIN node /\ ~node[p].leaf =>
    /\ p \in Nds(node) /\ InternalLookup(node[p], key) \in Links
    /\ InternalLookup(node[p], key) \in Nds(node) => h[InternalLookup(node[p], key)] < h[p]

\* There is such a function: every descent ends.
LEMMA DownIs ==
  ASSUME NEW h, NEW T, h \in [Pages -> Nat], Store(node), Tree(node, T, h), hdr.root \in Pages,
         \A p \in Nds(node) : ~node[p].leaf => 0 < Size(node[p]) /\ Size(node[p]) < MaxSize,
         NEW key
  PROVE  /\ StepsDown(key, h)
         /\ \E down : FindLeafPage(key) = down[hdr.root] /\ \A p \in PageNos : DownFrom(down, p, key)
  <1> DEFINE Eq(f) == f = [p \in PageNos |-> CASE p \notin DOMAIN node -> Lost
                                               [] p \in DOMAIN node /\ node[p].leaf -> p
                                               [] OTHER -> f[InternalLookup(node[p], key)]]
             down == CHOOSE f : Eq(f)
             done == {p \in PageNos : p \notin DOMAIN node \/ node[p].leaf}
             out == [p \in PageNos |-> IF p \notin DOMAIN node THEN Lost ELSE p]
             step == [p \in PageNos |-> IF p \in done THEN p ELSE InternalLookup(node[p], key)]
             rank == [p \in PageNos |-> IF p \in Nds(node) THEN h[p] + 1 ELSE 0]
             R1 == {Lost} \cup {p \in DOMAIN node : p \in PageNos}
  <1>1. /\ Pages \subseteq PageNos /\ Links \subseteq PageNos
        /\ Nds(node) \subseteq Pages /\ 0 \in PageNos /\ 0 \notin Nds(node)
        /\ IX_LEAF_HEADER_PAGE \notin Links
    BY Sizes DEF Pages, Links, PageNos, IX_INIT_ROOT_PAGE, IX_LEAF_HEADER_PAGE, Store, Nds
  <1>2. ASSUME NEW p \in PageNos, p \notin done
        PROVE  /\ p \in Nds(node) /\ p \in Pages
               /\ InternalLookup(node[p], key) \in Links
               /\ InternalLookup(node[p], key) \in Nds(node) => h[InternalLookup(node[p], key)] < h[p]
    <2>1. p \in DOMAIN node /\ ~node[p].leaf
      BY <1>2
    <2>2. p \in Nds(node) /\ NodeOK(node[p])
      BY <2>1 DEF Store, Nds
    <2>3. 0 < Size(node[p]) /\ Size(node[p]) < MaxSize
      BY <2>1, <2>2
    <2> DEFINE c == InternalLookup(node[p], key)
    <2>4. c \in Children(node[p]) \cup Gone(node[p]) /\ c \in Links
      BY <2>1, <2>2, <2>3, LookupIs
    <2> HIDE DEF c
    <2>5. c \in Nds(node) => h[c] < h[p]
      <3>1. CASE c \in Children(node[p])
        <4>1. c \in Nds(node) /\ h[p] = h[c] + 1 /\ h[c] \in Nat
          BY <2>2, <3>1 DEF Tree, Down, Levels
        <4> QED BY <4>1
      <3>2. CASE c \in Gone(node[p])
        BY <2>2, <3>2 DEF Tree, StaleDown
      <3> QED BY <2>4, <3>1, <3>2
    <2> QED BY <1>1, <2>2, <2>4, <2>5 DEF c
  <1>3. ASSUME NEW p \in PageNos
        PROVE  /\ out[p] \in R1 /\ step[p] \in PageNos /\ rank[p] \in Nat
               /\ p \notin done => rank[step[p]] < rank[p]
    <2>1. out[p] \in R1
      OBVIOUS
    <2>2. rank[p] \in Nat
      BY <1>1
    <2>3. step[p] \in PageNos
      BY <1>1, <1>2
    <2>4. ASSUME p \notin done PROVE rank[step[p]] < rank[p]
      <3> DEFINE c == InternalLookup(node[p], key)
      <3>1. p \in Nds(node) /\ p \in Pages /\ c \in Links /\ (c \in Nds(node) => h[c] < h[p])
        BY <1>2, <2>4
      <3>2. step[p] = c
        BY <2>4
      <3> HIDE DEF c, done, step
      <3>3. c \in PageNos
        BY <1>1, <3>1
      <3>4. rank[c] = (IF c \in Nds(node) THEN h[c] + 1 ELSE 0) /\ rank[p] = h[p] + 1
        BY <3>1, <3>3
      <3>5. h[p] \in Nat /\ (c \in Nds(node) => h[c] \in Nat)
        BY <1>1, <3>1
      <3> HIDE DEF rank
      <3> QED BY <3>1, <3>2, <3>4, <3>5
    <2> QED BY <2>1, <2>2, <2>3, <2>4
  <1>4. Loop(PageNos, R1, done, out, step, rank)
    <2> HIDE DEF done, out, step, rank, R1
    <2> QED BY <1>3 DEF Loop
  <1>5. \E n \in Nat : \A p \in PageNos : rank[p] <= n
    <2>1. PICK n \in Nat : \A p \in Pages : h[p] <= n
      BY BoundExists
    <2>2. n + 1 \in Nat /\ \A p \in PageNos : rank[p] <= n + 1
      BY <1>1, <2>1
    <2> HIDE DEF rank
    <2> QED BY <2>2
  <1>6. ASSUME NEW f
        PROVE  (\A p \in PageNos : f[p] = CASE p \notin DOMAIN node -> Lost
                                            [] p \in DOMAIN node /\ node[p].leaf -> p
                                            [] OTHER -> f[InternalLookup(node[p], key)])
                 <=> TailEq(f, PageNos, done, out, step)
    <2>1. ASSUME NEW p \in PageNos
          PROVE  (CASE p \notin DOMAIN node -> Lost
                    [] p \in DOMAIN node /\ node[p].leaf -> p
                    [] OTHER -> f[InternalLookup(node[p], key)])
                   = IF p \in done THEN out[p] ELSE f[step[p]]
      <3>1. CASE p \notin DOMAIN node
        BY <3>1
      <3>2. CASE p \in DOMAIN node /\ node[p].leaf
        BY <3>2
      <3>3. CASE p \in DOMAIN node /\ ~node[p].leaf
        BY <3>3
      <3> QED BY <3>1, <3>2, <3>3
    <2> HIDE DEF done, out, step
    <2> QED BY <2>1 DEF TailEq
  <1>7. \E f : Eq(f)
    <2>1. \E f \in [PageNos -> R1] : TailEq(f, PageNos, done, out, step)
      <3>1. PICK n \in Nat : \A p \in PageNos : rank[p] <= n
        BY <1>5
      <3> HIDE DEF done, out, step, rank, R1
      <3> QED BY <1>4, <3>1, TailExists
    <2>2. PICK f \in [PageNos -> R1] : TailEq(f, PageNos, done, out, step)
      BY <2>1
    <2>3. f = [p \in PageNos |-> f[p]]
      BY <2>2
    <2> HIDE DEF done, out, step, rank, R1
    <2>4. Eq(f)
      BY <1>6, <2>2, <2>3
    <2> HIDE DEF Eq
    <2> QED BY <2>4
  <1>8. Eq(down)
    <2> HIDE DEF Eq
    <2> QED BY <1>7
  <1>9. TailEq(down, PageNos, done, out, step)
    <2> HIDE DEF down, done, out, step
    <2> QED BY <1>6, <1>8
  <1>10. StepsDown(key, h)
    BY <1>2 DEF StepsDown
  <1>11. FindLeafPage(key) = down[hdr.root]
    BY DEF FindLeafPage
  <1>12. ASSUME NEW p \in PageNos PROVE DownFrom(down, p, key)
    <2>1. p \in done <=> (p \notin DOMAIN node \/ node[p].leaf)
      OBVIOUS
    <2>2. /\ p \in done => out[p] = IF p \notin DOMAIN node THEN Lost ELSE p
          /\ p \notin done => step[p] = InternalLookup(node[p], key)
      OBVIOUS
    <2> HIDE DEF down, done, out, step
    <2> QED BY <1>9, <2>1, <2>2 DEF TailEq, DownFrom
  <1> HIDE DEF down
  <1> QED BY <1>10, <1>11, <1>12

\* A descent ends outside the tree, or at a leaf of it.
LEMMA FindLeafIs ==
  ASSUME NEW h, NEW T, h \in [Pages -> Nat], Store(node), Tree(node, T, h), hdr.root \in Pages,
         \A p \in Nds(node) : ~node[p].leaf => 0 < Size(node[p]) /\ Size(node[p]) < MaxSize,
         NEW key
  PROVE  \/ FindLeafPage(key) = Lost
         \/ FindLeafPage(key) \in Nds(node) /\ node[FindLeafPage(key)].leaf
  <1>1. PICK down : FindLeafPage(key) = down[hdr.root] /\ \A p \in PageNos : DownFrom(down, p, key)
    BY DownIs
  <1>2. StepsDown(key, h)
    BY DownIs
  <1> DEFINE rank == [p \in Links |-> IF p \in Nds(node) THEN h[p] + 1 ELSE 0]
             AtLeaf(q) == q = Lost \/ (q \in Nds(node) /\ node[q].leaf)
             P == {p \in Links : AtLeaf(down[p])}
  <1>3. /\ Pages \subseteq Links /\ Links \subseteq PageNos /\ Nds(node) \subseteq Pages
        /\ IX_LEAF_HEADER_PAGE \notin Links
    BY Sizes DEF Pages, Links, PageNos, IX_INIT_ROOT_PAGE, IX_LEAF_HEADER_PAGE, Store, Nds
  <1>4. ASSUME NEW p \in Links PROVE rank[p] \in Nat
    BY <1>3
  <1>5. ASSUME NEW p \in Links, \A q \in Links : rank[q] < rank[p] => q \in P PROVE p \in P
    <2>1. DownFrom(down, p, key) /\ p \in PageNos
      BY <1>1, <1>3
    <2>2. CASE p \notin DOMAIN node
      BY <2>1, <2>2 DEF DownFrom
    <2>3. CASE p \in DOMAIN node /\ node[p].leaf
      BY <1>3, <2>1, <2>3 DEF DownFrom, Nds
    <2>4. CASE p \in DOMAIN node /\ ~node[p].leaf
      <3>1. PICK c : c = InternalLookup(node[p], key)
        OBVIOUS
      <3>2. p \in Nds(node) /\ c \in Links /\ (c \in Nds(node) => h[c] < h[p]) /\ down[p] = down[c]
        BY <1>2, <2>1, <2>4, <3>1 DEF StepsDown, DownFrom
      <3>3. h[p] \in Nat /\ (c \in Nds(node) => h[c] \in Nat)
        BY <1>3, <3>2
      <3>4. rank[c] < rank[p]
        BY <3>2, <3>3
      <3> HIDE DEF rank, AtLeaf
      <3> QED BY <1>5, <3>2, <3>4
    <2> QED BY <2>2, <2>3, <2>4
  <1>6. Links \subseteq P
    <2> HIDE DEF P, rank
    <2> QED BY <1>4, <1>5, RankInduction
  <1> QED BY <1>1, <1>3, <1>6

-----------------------------------------------------------------------------
(* The invariant.                                                          *)

PCs == {"idle", "split", "parent", "return", "fix", "up"}

\* A frame of the insertion: the two halves of a node, at level k - 1.
FrameAt(f, k, ns, h) ==
  /\ Len(f) = 2 /\ f[1] # f[2]
  /\ f[1] \in Nds(ns) /\ h[f[1]] = k - 1
  /\ f[2] \in Nds(ns) /\ h[f[2]] = k - 1

OpType == op \in [pc : PCs, page : {IX_NO_PAGE} \cup Pages, stack : Seq(Seq(Pages))]

FramesInv(h) == \A k \in 1..Len(op.stack) : FrameAt(op.stack[k], k, node, h)

SplitInv(h) == /\ op.page \in Nds(node) /\ h[op.page] = Len(op.stack)
               /\ Size(node[op.page]) = MaxSize
               /\ FramesInv(h)

ParentInv(h) == /\ Len(op.stack) > 0 /\ FramesInv(h)
                /\ op.page = Frame[1] /\ Frame[2] # hdr.root
                /\ Size(node[Frame[1]]) >= MinSize

ReturnInv(h) == Len(op.stack) > 0 /\ FramesInv(h)

FixInv == op.page \in Nds(node) /\ op.stack = <<>>

UpInv == /\ op.page \in Nds(node)
         /\ Len(op.stack) = 1 /\ Len(op.stack[1]) = 3 /\ Distinct(op.stack[1])

OpInv(h) ==
  /\ OpType
  /\ op.pc = "idle" => op = Idle
  /\ op.pc = "split" => SplitInv(h)
  /\ op.pc = "parent" => ParentInv(h)
  /\ op.pc = "return" => ReturnInv(h)
  /\ op.pc = "fix" => FixInv
  /\ op.pc = "up" => UpInv

\* The sizes of the nodes: only the node at work may be out of bounds.
SizeOK(p, s) ==
  /\ s < MaxSize \/ (op.pc = "split" /\ p = op.page /\ s = MaxSize)
  /\ \/ p = hdr.root
     \/ s >= MinSize
     \/ op.pc = "fix" /\ p = op.page /\ s >= MinSize - 1
  /\ p = hdr.root /\ ~node[p].leaf => s >= 2 \/ (op.pc = "fix" /\ p = op.page /\ s >= 1)

SizesInv == \A p \in Nds(node) : SizeOK(p, Size(node[p]))

HdrType == hdr \in [root : {IX_NO_PAGE} \cup Pages, num_pages : Int, last_leaf : {IX_NO_PAGE} \cup Pages]

Tops == IF op.pc = "parent" THEN {hdr.root, Frame[2]} ELSE {hdr.root}

HdrInv == /\ hdr.root \in Pages
          /\ hdr.num_pages = 2 + Cardinality(Nds(node))
          /\ node[hdr.root].parent = IX_NO_PAGE

TreeInv(h) == OpInv(h) /\ Store(node) /\ Tree(node, Tops, h) /\ SizesInv /\ HdrInv

Held == {q \in Pages : \/ \E k \in 1..Len(op.stack) : q \in Elems(op.stack[k])
                       \/ op.pc \in {"split", "fix"} /\ q = op.page}

PinsInv == /\ pins \in [PageNos -> Int]
           /\ \A q \in PageNos : pins[q] = IF q \in Held THEN 1 ELSE 0

IInv == /\ HdrType /\ PinsInv
        /\ hdr.root = IX_NO_PAGE => op = Idle
        /\ hdr.root # IX_NO_PAGE => \E h \in [Pages -> Nat] : TreeInv(h)

-----------------------------------------------------------------------------
\* The nodes are finitely many, and well formed.
LEMMA NdsIs ==
  \A ns : Store(ns) => /\ Nds(ns) \subseteq Pages /\ IsFiniteSet(Nds(ns))
                       /\ \A p \in Nds(ns) : p \in DOMAIN ns /\ NodeOK(ns[p])
  <1> SUFFICES ASSUME NEW ns, Store(ns)
               PROVE  /\ Nds(ns) \subseteq Pages /\ IsFiniteSet(Nds(ns))
                      /\ \A p \in Nds(ns) : p \in DOMAIN ns /\ NodeOK(ns[p])
    OBVIOUS
  <1>1. Nds(ns) \subseteq Pages
    BY DEF Store, Nds
  <1>2. IsFiniteSet(Pages)
    BY MaxPageAssumption, FS_Interval DEF Pages, IX_INIT_ROOT_PAGE
  <1>3. IsFiniteSet(Nds(ns))
    BY <1>1, <1>2, FS_Subset
  <1> QED BY <1>1, <1>3 DEF Store, Nds

\* Counting the nodes.
LEMMA CardIs ==
  \A S : IsFiniteSet(S) => /\ Cardinality(S) \in Nat
                           /\ \A x : x \notin S => Cardinality(S \cup {x}) = Cardinality(S) + 1
                           /\ \A x : x \in S => Cardinality(S \ {x}) = Cardinality(S) - 1
  BY FS_CardinalityType, FS_AddElement, FS_RemoveElement

\* The page numbers of nodes, and the ones that are none.
LEMMA PagesIs == Pages \subseteq Nat /\ Pages \subseteq PageNos /\ IX_NO_PAGE \notin Pages
                 /\ IX_LEAF_HEADER_PAGE \notin Pages /\ 0 \notin Pages /\ IX_INIT_ROOT_PAGE \in Pages
  BY MaxPageAssumption
     DEF Pages, PageNos, IX_NO_PAGE, IX_LEAF_HEADER_PAGE, IX_INIT_ROOT_PAGE

\* A node without a parent is the root, or the new half of a node just split.
LEMMA RootIs ==
  ASSUME NEW h, TreeInv(h), NEW p \in Nds(node), op.pc = "parent" => p # Frame[2]
  PROVE  /\ IsRoot(p) <=> p = hdr.root
         /\ ~IsRoot(p) => /\ node[p].parent \in Nds(node) /\ p \in Children(node[node[p].parent])
                          /\ h[node[p].parent] = h[p] + 1 /\ h[p] \in Nat
                          /\ ~node[node[p].parent].leaf
  <1>1. CASE p = hdr.root
    BY <1>1 DEF TreeInv, HdrInv, IsRoot
  <1>2. CASE p # hdr.root
    <2>1. p \notin Tops
      BY <1>2 DEF Tops
    <2>2. node[p].parent \in Nds(node) /\ p \in Children(node[node[p].parent])
      BY <2>1 DEF TreeInv, Tree, Up
    <2>3. node[p].parent # IX_NO_PAGE
      BY <2>2, NdsIs, PagesIs DEF TreeInv
    <2>4. h[node[p].parent] = h[p] + 1 /\ h[p] \in Nat
      BY <2>2 DEF TreeInv, Tree, Down, Levels
    <2>5. ~node[node[p].parent].leaf
      BY <2>2 DEF Children
    <2> QED BY <1>2, <2>2, <2>3, <2>4, <2>5 DEF IsRoot
  <1> QED BY <1>1, <1>2

\* The nodes, with n for the node p.
Replaced(ns, p, n) == [ns EXCEPT ![p] = n]

\* The nodes when the node p is replaced.
LEMMA ReplacedIs ==
  \A ns, p, n : /\ DOMAIN Replaced(ns, p, n) = DOMAIN ns /\ Nds(Replaced(ns, p, n)) = Nds(ns)
                /\ \A q \in DOMAIN ns : Replaced(ns, p, n)[q] = IF q = p THEN n ELSE ns[q]
  BY DEF Replaced, Nds

\* A node replaced by one that lists the same children.
LEMMA ReplacedTree ==
  \A ns, p, n, T, h :
    (/\ Store(ns) /\ Tree(ns, T, h) /\ p \in Nds(ns) /\ NodeOK(n) /\ SameLinks(n, ns[p])
     /\ ~n.leaf => SameList(n, ns[p]))
      => Store(Replaced(ns, p, n)) /\ Tree(Replaced(ns, p, n), T, h)
  <1> SUFFICES ASSUME NEW ns, NEW p, NEW n, NEW T, NEW h, Store(ns), Tree(ns, T, h), p \in Nds(ns),
                      NodeOK(n), SameLinks(n, ns[p]), ~n.leaf => SameList(n, ns[p])
               PROVE  Store(Replaced(ns, p, n)) /\ Tree(Replaced(ns, p, n), T, h)
    OBVIOUS
  <1>1. PICK ms : ms = Replaced(ns, p, n)
    OBVIOUS
  <1>2. /\ DOMAIN ms = DOMAIN ns /\ Nds(ms) = Nds(ns)
        /\ \A q \in DOMAIN ns : ms[q] = IF q = p THEN n ELSE ns[q]
    BY <1>1, ReplacedIs
  <1>3. p # IX_LEAF_HEADER_PAGE
    BY DEF Nds
  <1>4. Store(ms)
    BY <1>2, <1>3 DEF Store
  <1>5. ASSUME NEW q \in Nds(ns)
        PROVE  /\ (ms[q].leaf <=> ns[q].leaf) /\ ms[q].parent = ns[q].parent
               /\ ~ns[q].leaf => SameList(ms[q], ns[q])
    <2>1. q \in DOMAIN ns
      BY DEF Nds
    <2>2. CASE q = p
      BY <1>2, <2>1, <2>2 DEF SameLinks
    <2>3. CASE q # p
      BY <1>2, <2>1, <2>3 DEF SameList
    <2> QED BY <2>2, <2>3
  <1>6. Tree(ms, T, h)
    BY <1>2, <1>5, TreeSame
  <1> QED BY <1>1, <1>4, <1>6

\* Pages pinned, and unpinned.
LEMMA PinStep ==
  \A S : PinsInv /\ pins' = Pin(S) /\ Held' = Held \cup S /\ S \cap Held = {} => PinsInv'
  BY DEF PinsInv, Pin

\* The pages of S are unpinned by the one who held them.
LEMMA UnpinStep ==
  \A S : PinsInv /\ pins' = Unpin(S) /\ Held' = Held \ S /\ S \subseteq Held => PinsInv'
  BY DEF PinsInv, Unpin

\* Nothing is pinned or unpinned.
LEMMA PinSame == PinsInv /\ pins' = pins /\ Held' = Held => PinsInv'
  BY DEF PinsInv

\* Between two calls, and in all calls the nodes that are not at work.
LEMMA QuietSizes ==
  ASSUME NEW h, TreeInv(h), op = Idle
  PROVE  /\ Tops = {hdr.root} /\ hdr.root \in Nds(node) /\ Held = {}
         /\ \A p \in Nds(node) :
              /\ Size(node[p]) \in Nat /\ Size(node[p]) < MaxSize
              /\ p # hdr.root => Size(node[p]) >= MinSize
              /\ ~node[p].leaf => Size(node[p]) >= 2
  <1>1. op.pc = "idle" /\ op.stack = <<>>
    BY DEF Idle, Op
  <1>2. Tops = {hdr.root} /\ hdr.root \in Nds(node)
    BY <1>1 DEF Tops, TreeInv, Tree, Up
  <1>3. Held = {}
    BY <1>1 DEF Held
  <1>4. ASSUME NEW p \in Nds(node)
        PROVE  /\ Size(node[p]) \in Nat /\ Size(node[p]) < MaxSize
               /\ p # hdr.root => Size(node[p]) >= MinSize
               /\ ~node[p].leaf => Size(node[p]) >= 2
    <2>1. Size(node[p]) \in Nat
      BY NdsIs, NodeIs DEF TreeInv
    <2>2. SizeOK(p, Size(node[p]))
      BY DEF TreeInv, SizesInv
    <2> QED BY <1>1, <2>1, <2>2, Sizes DEF SizeOK
  <1> QED BY <1>2, <1>3, <1>4

-----------------------------------------------------------------------------
(* The calls begin.                                                        *)

\* A call descends to a leaf of the tree, or gets lost.
LEMMA BeginsIs ==
  ASSUME NEW h, h \in [Pages -> Nat], TreeInv(h), Begins, NEW key
  PROVE  FindLeafPage(key) # Lost =>
           /\ FindLeafPage(key) \in Nds(node) /\ FindLeafPage(key) \in Pages
           /\ node[FindLeafPage(key)].leaf /\ h[FindLeafPage(key)] = 0
  <1>1. op = Idle
    BY DEF Begins
  <1>2. \A p \in Nds(node) : ~node[p].leaf => 0 < Size(node[p]) /\ Size(node[p]) < MaxSize
    BY <1>1, QuietSizes
  <1>3. \/ FindLeafPage(key) = Lost
        \/ FindLeafPage(key) \in Nds(node) /\ node[FindLeafPage(key)].leaf
    <2>1. Store(node) /\ Tree(node, {hdr.root}, h) /\ hdr.root \in Pages
      BY <1>1, QuietSizes DEF TreeInv, HdrInv
    <2> QED BY <1>2, <2>1, FindLeafIs
  <1>4. Nds(node) \subseteq Pages
    BY NdsIs DEF TreeInv
  <1>5. Levels(node, h)
    BY DEF TreeInv, Tree
  <1> QED BY <1>3, <1>4, <1>5 DEF Levels

\* What a leaf that a call has changed makes of the rest of the state.
LEMMA LeafChanged ==
  ASSUME NEW h, TreeInv(h), op = Idle, NEW leaf \in Nds(node), node[leaf].leaf,
         NEW n, NodeOK(n), SameLinks(n, node[leaf]), node' = Replaced(node, leaf, n), hdr' = hdr,
         op'.pc # "parent"
  PROVE  /\ Store(node)' /\ Tree(node, Tops, h)' /\ HdrInv' /\ Nds(node)' = Nds(node)
         /\ n.leaf
         /\ \A q \in Nds(node) : /\ node'[q] = IF q = leaf THEN n ELSE node[q]
                                 /\ (node'[q].leaf <=> node[q].leaf)
  <1>1. Nds(node') = Nds(node) /\ n.leaf
        /\ \A q \in Nds(node) : node'[q] = IF q = leaf THEN n ELSE node[q]
    BY ReplacedIs DEF SameLinks, Nds
  <1>2. Tops = {hdr.root} /\ Tops' = {hdr.root} /\ hdr.root \in Nds(node)
    BY QuietSizes DEF Tops
  <1>3. Store(node') /\ Tree(node', {hdr.root}, h)
    BY <1>1, <1>2, ReplacedTree DEF TreeInv
  <1>4. HdrInv'
    BY <1>1, <1>2 DEF TreeInv, HdrInv, SameLinks
  <1> QED BY <1>1, <1>2, <1>3, <1>4 DEF SameLinks

\* insert_entry up to the split.
LEMMA InsertEntryStep ==
  ASSUME NEW h, h \in [Pages -> Nat], TreeInv(h), PinsInv,
         NEW key \in Keys, NEW val \in Vals, InsertEntry(key, val)
  PROVE  TreeInv(h)' /\ PinsInv'
  <1>1. op = Idle /\ Begins /\ hdr' = hdr /\ FindLeafPage(key) # Lost
    BY DEF InsertEntry, Begins
  <1>2. PICK leaf : leaf = FindLeafPage(key)
    OBVIOUS
  <1>3. PICK n : n = Insert(node[leaf], key, val)
    OBVIOUS
  <1>4. /\ node' = Replaced(node, leaf, n)
        /\ IF Size(n) = MaxSize THEN op' = Op("split", leaf, <<>>) /\ pins' = Pin({leaf})
                                ELSE op' = op /\ pins' = pins
    BY <1>2, <1>3 DEF InsertEntry, Replaced
  <1>5. leaf \in Nds(node) /\ leaf \in Pages /\ node[leaf].leaf /\ h[leaf] = 0
    BY <1>1, <1>2, BeginsIs
  <1>6. NodeOK(node[leaf]) /\ Size(node[leaf]) < MaxSize /\ Size(node[leaf]) \in Nat
    BY <1>1, <1>5, NdsIs, QuietSizes DEF TreeInv
  <1>7. NodeOK(n) /\ SameLinks(n, node[leaf]) /\ Size(n) \in {Size(node[leaf]), Size(node[leaf]) + 1}
    BY <1>3, <1>5, <1>6, InsertIs
  <1>8. op'.pc \in {"idle", "split"}
    BY <1>1, <1>4 DEF Op, Idle
  <1>9. /\ Store(node)' /\ Tree(node, Tops, h)' /\ HdrInv' /\ Nds(node)' = Nds(node)
        /\ n.leaf
        /\ \A q \in Nds(node) : /\ node'[q] = IF q = leaf THEN n ELSE node[q]
                                /\ (node'[q].leaf <=> node[q].leaf)
    BY <1>1, <1>4, <1>5, <1>7, <1>8, LeafChanged
  <1>10. OpInv(h)'
    <2>1. CASE Size(n) = MaxSize
      <3>1. op'.pc = "split" /\ op'.page = leaf /\ op'.stack = <<>> /\ op' = Op("split", leaf, <<>>)
        BY <1>4, <2>1 DEF Op
      <3>2. OpType'
        BY <1>5, <3>1 DEF OpType, Op, PCs
      <3>3. SplitInv(h)'
        BY <1>5, <1>9, <2>1, <3>1 DEF SplitInv, FramesInv
      <3> QED BY <3>1, <3>2, <3>3 DEF OpInv
    <2>2. CASE Size(n) # MaxSize
      <3>1. op' = Idle /\ op'.pc = "idle" /\ op' = op
        BY <1>1, <1>4, <2>2 DEF Idle, Op
      <3>2. OpType'
        BY <3>1 DEF TreeInv, OpInv, OpType
      <3> QED BY <3>1, <3>2 DEF OpInv
    <2> QED BY <2>1, <2>2
  <1>11. SizesInv'
    <2> SUFFICES ASSUME NEW p \in Nds(node) PROVE SizeOK(p, Size(node[p]))'
      BY <1>9 DEF SizesInv
    <2>1. /\ Size(node[p]) \in Nat /\ Size(node[p]) < MaxSize
          /\ p # hdr.root => Size(node[p]) >= MinSize
          /\ ~node[p].leaf => Size(node[p]) >= 2
      BY <1>1, QuietSizes
    <2>2. CASE p # leaf
      BY <1>1, <1>9, <2>1, <2>2 DEF SizeOK
    <2>3. CASE p = leaf
      <3>1. node'[p] = n /\ n.leaf /\ Size(n) \in Nat /\ Size(n) >= Size(node[p]) /\ Size(n) <= MaxSize
        BY <1>6, <1>7, <1>9, <2>3, Sizes
      <3>2. CASE Size(n) = MaxSize
        <4>1. op'.pc = "split" /\ op'.page = p
          BY <1>4, <2>3, <3>2 DEF Op
        <4> QED BY <1>1, <2>1, <2>3, <3>1, <3>2, <4>1, Sizes DEF SizeOK
      <3>3. CASE Size(n) # MaxSize
        BY <1>1, <2>1, <2>3, <3>1, <3>3, Sizes DEF SizeOK
      <3> QED BY <3>2, <3>3
    <2> QED BY <2>2, <2>3
  <1>12. PinsInv'
    <2>1. Held = {}
      BY <1>1, QuietSizes
    <2>2. CASE Size(n) = MaxSize
      <3>1. Held' = {leaf}
        BY <1>4, <1>5, <2>2 DEF Held, Op
      <3> QED BY <1>4, <2>1, <2>2, <3>1, PinStep
    <2>3. CASE Size(n) # MaxSize
      BY <1>4, <2>3, PinSame DEF Held
    <2> QED BY <2>2, <2>3
  <1> QED BY <1>9, <1>10, <1>11, <1>12 DEF TreeInv

\* delete_entry up to CoalesceOrRedistribute.
LEMMA DeleteEntryStep ==
  ASSUME NEW h, h \in [Pages -> Nat], TreeInv(h), PinsInv, NEW key \in Keys, DeleteEntry(key)
  PROVE  TreeInv(h)' /\ PinsInv'
  <1>1. op = Idle /\ Begins /\ hdr' = hdr /\ FindLeafPage(key) # Lost
    BY DEF DeleteEntry, Begins
  <1>2. PICK leaf : leaf = FindLeafPage(key)
    OBVIOUS
  <1>3. PICK n : n = Remove(node[leaf], key)
    OBVIOUS
  <1>4. IF Size(n) = Size(node[leaf])
        THEN node' = node /\ op' = op /\ pins' = pins
        ELSE /\ node' = Replaced(node, leaf, n)
             /\ op' = Op("fix", leaf, <<>>)
             /\ pins' = Pin({leaf})
    BY <1>2, <1>3 DEF DeleteEntry, Replaced
  <1>5. leaf \in Nds(node) /\ leaf \in Pages /\ node[leaf].leaf /\ h[leaf] = 0
    BY <1>1, <1>2, BeginsIs
  <1>6. CASE Size(n) = Size(node[leaf])
    <2>1. TreeInv(h)'
      BY <1>1, <1>4, <1>6 DEF TreeInv, OpInv, OpType, SplitInv, ParentInv, ReturnInv, FramesInv, FixInv, UpInv,
                              Frame, Tops, SizesInv, SizeOK, HdrInv
    <2>2. PinsInv'
      BY <1>4, <1>6, PinSame DEF Held
    <2> QED BY <2>1, <2>2
  <1>7. CASE Size(n) # Size(node[leaf])
    <2>1. NodeOK(node[leaf]) /\ Size(node[leaf]) < MaxSize /\ Size(node[leaf]) \in Nat
      BY <1>1, <1>5, NdsIs, QuietSizes DEF TreeInv
    <2>2. NodeOK(n) /\ SameLinks(n, node[leaf]) /\ Size(n) = Size(node[leaf]) - 1 /\ Size(node[leaf]) > 0
      BY <1>3, <1>7, <2>1, RemoveIs
    <2>3. op' = Op("fix", leaf, <<>>) /\ op'.pc = "fix" /\ op'.page = leaf /\ op'.stack = <<>>
      BY <1>4, <1>7 DEF Op
    <2>4. /\ Store(node)' /\ Tree(node, Tops, h)' /\ HdrInv' /\ Nds(node)' = Nds(node)
          /\ n.leaf
          /\ \A q \in Nds(node) : /\ node'[q] = IF q = leaf THEN n ELSE node[q]
                                  /\ (node'[q].leaf <=> node[q].leaf)
      BY <1>1, <1>4, <1>5, <1>7, <2>2, <2>3, LeafChanged
    <2>5. OpInv(h)'
      <3>1. OpType'
        BY <1>5, <2>3 DEF OpType, Op, PCs
      <3>2. FixInv'
        BY <1>5, <2>3, <2>4 DEF FixInv
      <3> QED BY <2>3, <3>1, <3>2 DEF OpInv
    <2>6. SizesInv'
      <3> SUFFICES ASSUME NEW p \in Nds(node) PROVE SizeOK(p, Size(node[p]))'
        BY <2>4 DEF SizesInv
      <3>1. /\ Size(node[p]) \in Nat /\ Size(node[p]) < MaxSize
            /\ p # hdr.root => Size(node[p]) >= MinSize
            /\ ~node[p].leaf => Size(node[p]) >= 2
        BY <1>1, QuietSizes
      <3>2. CASE p # leaf
        BY <1>1, <2>4, <3>1, <3>2 DEF SizeOK
      <3>3. CASE p = leaf
        <4>1. node'[p] = n /\ n.leaf /\ Size(n) = Size(node[p]) - 1
          BY <2>2, <2>4, <3>3
        <4> QED BY <1>1, <2>3, <3>1, <3>3, <4>1, Sizes DEF SizeOK
      <3> QED BY <3>2, <3>3
    <2>7. PinsInv'
      <3>1. Held = {}
        BY <1>1, QuietSizes
      <3>2. Held' = {leaf}
        BY <1>5, <2>3 DEF Held
      <3> QED BY <1>4, <1>7, <3>1, <3>2, PinStep
    <2> QED BY <2>4, <2>5, <2>6, <2>7 DEF TreeInv
  <1> QED BY <1>6, <1>7

-----------------------------------------------------------------------------
(* The calls return.                                                       *)

\* The pages of a frame.
LEMMA FrameElems ==
  \A f, k, ns, h : FrameAt(f, k, ns, h) => Elems(f) = {f[1], f[2]}
  BY DEF FrameAt, Elems

\* c is a child in the node n, and find_child finds it.
ListedAt(n, c) == \E i \in 1..Size(n) : n.vals[i] = c /\ find_child(n, c) = i - 1

\* find_child finds every child of every node.
LEMMA ChildIndex ==
  \A ns, T, h, p, c :
    Store(ns) /\ Tree(ns, T, h) /\ p \in Nds(ns) /\ c \in Children(ns[p])
      => ListedAt(ns[p], c)
  <1> SUFFICES ASSUME NEW ns, NEW T, NEW h, NEW p, NEW c,
                      Store(ns), Tree(ns, T, h), p \in Nds(ns), c \in Children(ns[p])
               PROVE  ListedAt(ns[p], c)
    OBVIOUS
  <1>1. NodeOK(ns[p]) /\ Len(ns[p].vals) = Size(ns[p])
    BY NdsIs, NodeIs
  <1>2. ~ns[p].leaf /\ c \in Elems(ns[p].vals)
    BY ChildrenIs
  <1>3. Distinct(ns[p].vals)
    BY <1>2 DEF Tree, Once
  <1>4. PICK i \in 1..Size(ns[p]) : c = ns[p].vals[i]
    BY <1>1, <1>2, ElemIs
  <1>5. find_child(ns[p], c) = i - 1
    BY <1>1, <1>3, <1>4, FindChildIs
  <1> QED BY <1>4, <1>5 DEF ListedAt

\* The last step of a call: the nodes stay, and nobody is at work any more.
LEMMA CallEnds ==
  ASSUME NEW h, TreeInv(h), op.pc \in {"return", "fix", "up"},
         \A p \in Nds(node) : /\ p # hdr.root => Size(node[p]) >= MinSize
                              /\ p = hdr.root /\ ~node[p].leaf => Size(node[p]) >= 2,
         node' = node, hdr'.root = hdr.root, hdr'.num_pages = hdr.num_pages, op' = Idle
  PROVE  TreeInv(h)'
  <1>1. op'.pc = "idle" /\ op'.page = IX_NO_PAGE /\ op'.stack = <<>>
    BY DEF Idle, Op
  <1>2. OpInv(h)'
    <2>1. OpType'
      BY DEF OpType, Idle, Op, PCs
    <2> QED BY <1>1, <2>1 DEF OpInv
  <1>3. Tops' = Tops
    BY <1>1 DEF Tops
  <1>4. SizesInv'
    BY <1>1 DEF TreeInv, SizesInv, SizeOK
  <1>5. HdrInv'
    BY DEF TreeInv, HdrInv
  <1> QED BY <1>2, <1>3, <1>4, <1>5 DEF TreeInv

\* CoalesceOrRedistribute stops at a node that is big enough.
LEMMA BigEnoughStep ==
  ASSUME NEW h, TreeInv(h), PinsInv, BigEnough
  PROVE  TreeInv(h)' /\ PinsInv' /\ hdr' = hdr
  <1>1. /\ op.pc = "fix" /\ Size(node[op.page]) >= MinSize /\ op' = Idle /\ node' = node
        /\ pins' = Unpin({op.page}) /\ hdr' = hdr
    <2>1. op.pc = "fix" /\ op' = Idle /\ node' = node /\ pins' = Unpin({op.page}) /\ hdr' = hdr
          /\ ~(Size(node[op.page]) < MinSize)
      BY DEF BigEnough, Underflows
    <2>2. Size(node[op.page]) \in Nat
      BY <2>1, NdsIs, NodeIs DEF TreeInv, OpInv, FixInv
    <2> QED BY <2>1, <2>2, Sizes
  <1>2. FixInv
    BY <1>1 DEF TreeInv, OpInv
  <1>3. ASSUME NEW p \in Nds(node)
        PROVE  /\ p # hdr.root => Size(node[p]) >= MinSize
               /\ p = hdr.root /\ ~node[p].leaf => Size(node[p]) >= 2
    <2>1. SizeOK(p, Size(node[p])) /\ Size(node[p]) \in Nat
      BY NdsIs, NodeIs DEF TreeInv, SizesInv
    <2> QED BY <1>1, <2>1, Sizes DEF SizeOK
  <1>4. TreeInv(h)'
    BY <1>1, <1>3, CallEnds
  <1>5. PinsInv'
    <2>1. Held = {op.page}
      <3>1. op.page \in Pages
        BY <1>2, NdsIs DEF TreeInv, FixInv
      <3> QED BY <1>1, <1>2, <3>1 DEF Held, FixInv
    <2>2. Held' = {}
      BY <1>1 DEF Held, Idle, Op
    <2> QED BY <1>1, <2>1, <2>2, UnpinStep
  <1> QED BY <1>1, <1>4, <1>5

\* The frames of a call that returns from its innermost frame.
Rest(st) == SubSeq(st, 1, Len(st) - 1)

\* The frames of the callers.
LEMMA RestOf ==
  \A S, st :
    st \in Seq(S) /\ Len(st) > 0
      => /\ Rest(st) \in Seq(S) /\ Len(Rest(st)) = Len(st) - 1
         /\ \A k \in 1..(Len(st) - 1) : Rest(st)[k] = st[k]
  <1> SUFFICES ASSUME NEW S, NEW st, st \in Seq(S), Len(st) > 0
               PROVE  /\ Rest(st) \in Seq(S) /\ Len(Rest(st)) = Len(st) - 1
                      /\ \A k \in 1..(Len(st) - 1) : Rest(st)[k] = st[k]
    OBVIOUS
  <1>1. Len(st) \in Nat
    BY SeqIs
  <1>2. PICK m : m = Len(st) - 1
    OBVIOUS
  <1>3. 1 \in 1..(Len(st) + 1) /\ m \in (1 - 1)..Len(st) /\ m \in Nat
    BY <1>1, <1>2
  <1>4. /\ SubSeq(st, 1, m) \in Seq(S)
        /\ Len(SubSeq(st, 1, m)) = m - 1 + 1
        /\ \A i \in 1..(m - 1 + 1) : SubSeq(st, 1, m)[i] = st[1 + i - 1]
    BY <1>3, CutIs
  <1>5. Rest(st) = SubSeq(st, 1, m)
    BY <1>2 DEF Rest
  <1>6. m - 1 + 1 = m /\ \A i \in 1..m : 1 + i - 1 = i
    BY <1>3
  <1> QED BY <1>2, <1>4, <1>5, <1>6

\* A call of the insertion returns.
LEMMA InsertReturnsStep ==
  ASSUME NEW h, TreeInv(h), HdrType, PinsInv, InsertReturns
  PROVE  TreeInv(h)' /\ PinsInv' /\ HdrType'
  <1>1. PICK rest : rest = SubSeq(op.stack, 1, Len(op.stack) - 1)
    OBVIOUS
  <1>2. /\ op.pc = "return" /\ node' = node /\ pins' = Unpin({Frame[1], Frame[2]})
        /\ op' = IF rest = <<>> THEN Idle ELSE [op EXCEPT !.stack = rest]
        /\ hdr' = IF rest = <<>> /\ Frame[1] = hdr.last_leaf
                  THEN [hdr EXCEPT !.last_leaf = Frame[2]] ELSE hdr
    BY <1>1 DEF InsertReturns
  <1>3. OpType /\ Len(op.stack) > 0 /\ FramesInv(h)
    BY <1>2 DEF TreeInv, OpInv, ReturnInv
  <1>4. op.stack \in Seq(Seq(Pages)) /\ Len(op.stack) \in Nat
    BY <1>3, SeqIs DEF OpType
  <1>5. /\ rest \in Seq(Seq(Pages)) /\ Len(rest) = Len(op.stack) - 1
        /\ \A k \in 1..(Len(op.stack) - 1) : rest[k] = op.stack[k]
    BY <1>1, <1>3, <1>4, RestOf DEF Rest
  <1>6. FrameAt(Frame, Len(op.stack), node, h) /\ Frame[1] \in Pages /\ Frame[2] \in Pages
    <2>1. FrameAt(Frame, Len(op.stack), node, h)
      BY <1>3, <1>4 DEF FramesInv, Frame
    <2> QED BY <2>1, NdsIs DEF FrameAt, TreeInv
  <1>7. HdrType' /\ hdr'.root = hdr.root /\ hdr'.num_pages = hdr.num_pages
    BY <1>2, <1>6 DEF HdrType
  <1>8. ASSUME NEW p \in Nds(node)
        PROVE  /\ p # hdr.root => Size(node[p]) >= MinSize
               /\ p = hdr.root /\ ~node[p].leaf => Size(node[p]) >= 2
    BY <1>2 DEF TreeInv, SizesInv, SizeOK
  <1>9. TreeInv(h)'
    <2>1. CASE rest = <<>>
      BY <1>2, <1>7, <1>8, <2>1, CallEnds
    <2>2. CASE rest # <<>>
      <3>1. op' = [op EXCEPT !.stack = rest]
        BY <1>2, <2>2
      <3>2. OpType' /\ op'.pc = "return" /\ op'.stack = rest
        BY <1>2, <1>3, <1>5, <3>1 DEF OpType, PCs
      <3>3. Len(rest) > 0
        BY <1>4, <1>5, <2>2, EmptySeq
      <3>4. FramesInv(h)'
        <4> SUFFICES ASSUME NEW k \in 1..Len(rest) PROVE FrameAt(rest[k], k, node', h)
          BY <3>2 DEF FramesInv
        <4>1. k \in 1..Len(op.stack) /\ rest[k] = op.stack[k]
          BY <1>4, <1>5
        <4> QED BY <1>2, <1>3, <4>1 DEF FramesInv
      <3>5. OpInv(h)'
        BY <3>2, <3>3, <3>4 DEF OpInv, ReturnInv
      <3>6. Tops' = Tops
        BY <1>2, <1>7, <3>2 DEF Tops
      <3>7. SizesInv'
        BY <1>2, <1>7, <3>2 DEF TreeInv, SizesInv, SizeOK
      <3>8. HdrInv'
        BY <1>2, <1>7 DEF TreeInv, HdrInv
      <3> QED BY <1>2, <3>5, <3>6, <3>7, <3>8 DEF TreeInv
    <2> QED BY <2>1, <2>2
  <1>10. PinsInv'
    <2>1. {Frame[1], Frame[2]} = Elems(Frame)
      BY <1>6, FrameElems
    <2>2. Elems(Frame) \subseteq Held
      <3>1. Len(op.stack) \in 1..Len(op.stack) /\ Frame = op.stack[Len(op.stack)]
        BY <1>3, <1>4 DEF Frame
      <3>2. Elems(Frame) \subseteq Pages
        BY <1>6, <2>1
      <3> QED BY <3>1, <3>2 DEF Held
    <2>3. op'.stack = rest /\ op'.pc \in {"idle", "return"}
      BY <1>2, <1>3 DEF Idle, Op, OpType
    <2>4. \A k \in 1..(Len(op.stack) - 1) : Elems(op.stack[k]) \cap Elems(Frame) = {}
      <3> SUFFICES ASSUME NEW k \in 1..(Len(op.stack) - 1), NEW x,
                          x \in Elems(op.stack[k]), x \in Elems(Frame)
                   PROVE  FALSE
        OBVIOUS
      <3>1. FrameAt(op.stack[k], k, node, h)
        BY <1>3, <1>4 DEF FramesInv
      <3>2. h[x] = k - 1
        BY <3>1, FrameElems DEF FrameAt
      <3>3. h[x] = Len(op.stack) - 1
        BY <1>6, <2>1 DEF FrameAt
      <3> QED BY <1>4, <3>2, <3>3
    <2>5. Held' = Held \ Elems(Frame)
      <3>1. ASSUME NEW q \in Pages
            PROVE  q \in Held' <=> q \in Held /\ q \notin Elems(Frame)
        <4>1. q \in Held' <=> \E k \in 1..(Len(op.stack) - 1) : q \in Elems(op.stack[k])
          BY <1>5, <2>3 DEF Held
        <4>2. q \in Held <=> \E k \in 1..Len(op.stack) : q \in Elems(op.stack[k])
          BY <1>2 DEF Held
        <4>3. q \in Held => q \in Elems(Frame) \/ \E k \in 1..(Len(op.stack) - 1) : q \in Elems(op.stack[k])
          <5> SUFFICES ASSUME q \in Held, q \notin Elems(Frame)
                       PROVE  \E k \in 1..(Len(op.stack) - 1) : q \in Elems(op.stack[k])
            OBVIOUS
          <5>1. PICK k \in 1..Len(op.stack) : q \in Elems(op.stack[k])
            BY <4>2
          <5>2. k # Len(op.stack)
            BY <5>1 DEF Frame
          <5> QED BY <1>4, <5>1, <5>2
        <4>4. (\E k \in 1..(Len(op.stack) - 1) : q \in Elems(op.stack[k]))
                => q \in Held /\ q \notin Elems(Frame)
          BY <1>4, <2>4, <4>2
        <4> QED BY <4>1, <4>3, <4>4
      <3>2. Held' \subseteq Pages /\ Held \subseteq Pages
        BY DEF Held
      <3> QED BY <3>1, <3>2
    <2> QED BY <1>2, <2>1, <2>2, <2>5, UnpinStep
  <1> QED BY <1>7, <1>9, <1>10

\* maintain_parent changes one key, or ends.
LEMMA MaintainParentStep ==
  ASSUME NEW h, TreeInv(h), PinsInv, MaintainParent
  PROVE  TreeInv(h)' /\ PinsInv' /\ hdr' = hdr
  <1>1. op.pc = "up" /\ hdr' = hdr
    BY DEF MaintainParent
  <1>2. UpInv /\ OpType
    BY <1>1 DEF TreeInv, OpInv
  <1>3. PICK c : c = op.page
    OBVIOUS
  <1>4. PICK p : p = node[c].parent
    OBVIOUS
  <1>5. PICK idx : idx = find_child(node[p], c)
    OBVIOUS
  <1>6. Parent = p /\ Index = idx
    BY <1>3, <1>4, <1>5 DEF Parent, Index
  <1>7. \A q \in Nds(node) : SizeOK(q, Size(node[q])) /\ Size(node[q]) \in Nat
    BY NdsIs, NodeIs DEF TreeInv, SizesInv
  <1>8. ASSUME NEW q \in Nds(node)
        PROVE  /\ q # hdr.root => Size(node[q]) >= MinSize
               /\ q = hdr.root /\ ~node[q].leaf => Size(node[q]) >= 2
    BY <1>1, <1>7 DEF SizeOK
  <1>9. CASE IsRoot(c) \/ KeyAt(node[p], idx) = KeyAt(node[c], 0)
    <2>1. pins' = Unpin({Frame[i] : i \in 1..3}) /\ op' = Idle /\ node' = node
      BY <1>3, <1>6, <1>9 DEF MaintainParent
    <2>2. TreeInv(h)'
      BY <1>1, <1>8, <2>1, CallEnds
    <2>3. PinsInv'
      <3>1. Held' = {}
        BY <2>1 DEF Held, Idle, Op
      <3>2. Frame = op.stack[1] /\ {Frame[i] : i \in 1..3} = Elems(op.stack[1])
        BY <1>2 DEF UpInv, Frame, Elems
      <3>3. Elems(op.stack[1]) \subseteq Pages
        <4>1. op.stack[1] \in Seq(Pages)
          BY <1>2, SeqIs DEF OpType, UpInv
        <4> QED BY <4>1, SeqIs DEF Elems
      <3>4. Held = Elems(op.stack[1])
        BY <1>1, <1>2, <3>3 DEF Held, UpInv
      <3> QED BY <2>1, <3>1, <3>2, <3>4, UnpinStep
    <2> QED BY <1>1, <2>2, <2>3
  <1>10. CASE ~(IsRoot(c) \/ KeyAt(node[p], idx) = KeyAt(node[c], 0))
    <2>1. PICK key : key = KeyAt(node[c], 0)
      OBVIOUS
    <2>2. PICK n : n = SetKey(node[p], idx, key)
      OBVIOUS
    <2>3. node' = Replaced(node, p, n) /\ op' = [op EXCEPT !.page = p] /\ pins' = pins
      BY <1>3, <1>6, <1>10, <2>1, <2>2 DEF MaintainParent, Replaced
    <2>4. c \in Nds(node) /\ p \in Nds(node) /\ c \in Children(node[p]) /\ ~node[p].leaf /\ p \in Pages
      <3>1. c \in Nds(node)
        BY <1>2, <1>3 DEF UpInv
      <3>2. p \in Nds(node) /\ c \in Children(node[p]) /\ ~node[p].leaf
        BY <1>1, <1>4, <1>10, <3>1, RootIs
      <3> QED BY <3>1, <3>2, NdsIs DEF TreeInv
    <2>5. idx \in 0..(Size(node[p]) - 1)
      <3>1. \E i \in 1..Size(node[p]) : node[p].vals[i] = c /\ find_child(node[p], c) = i - 1
        <4>1. ListedAt(node[p], c)
          BY <2>4, ChildIndex DEF TreeInv
        <4> QED BY <4>1 DEF ListedAt
      <3> QED BY <1>5, <1>7, <2>4, <3>1
    <2>6. NodeOK(node[p]) /\ NodeOK(node[c])
      BY <2>4, NdsIs DEF TreeInv
    <2>7. key \in Keys
      <3>1. c # hdr.root
        BY <1>1, <1>10, <2>4, RootIs
      <3>2. Size(node[c]) >= 1
        BY <1>7, <1>8, <2>4, <3>1, Sizes
      <3>3. node[c].keys \in Seq(Keys) /\ Len(node[c].keys) = Size(node[c]) /\ Size(node[c]) \in Nat
        BY <2>6, NodeIs
      <3>4. node[c].keys[1] \in Keys
        BY <3>2, <3>3, SeqIs
      <3> QED BY <2>1, <3>4 DEF KeyAt
    <2>8. NodeOK(n) /\ SameLinks(n, node[p]) /\ n.vals = node[p].vals /\ n.past = node[p].past
          /\ Size(n) = Size(node[p])
      BY <2>2, <2>5, <2>6, <2>7, SetKeyIs
    <2>9. SameList(n, node[p])
      BY <2>8 DEF SameList, SameLinks, Children, Gone
    <2>10. Tops = {hdr.root} /\ hdr.root \in Nds(node)
      BY <1>1 DEF Tops, TreeInv, Tree, Up
    <2>11. op'.pc = "up" /\ op'.page = p /\ op'.stack = op.stack /\ OpType'
      BY <1>1, <1>2, <2>3, <2>4 DEF OpType
    <2>12. Tops' = {hdr.root}
      BY <1>1, <2>11 DEF Tops
    <2>13. Store(node') /\ Tree(node', {hdr.root}, h)
      BY <2>3, <2>4, <2>8, <2>9, <2>10, ReplacedTree DEF TreeInv
    <2>14. Nds(node') = Nds(node) /\ \A q \in Nds(node) : node'[q] = IF q = p THEN n ELSE node[q]
      BY <2>3, ReplacedIs DEF Nds
    <2>15. OpInv(h)'
      BY <1>2, <2>4, <2>11, <2>14 DEF OpInv, UpInv
    <2>16. SizesInv'
      <3> SUFFICES ASSUME NEW q \in Nds(node) PROVE SizeOK(q, Size(node[q]))'
        BY <2>14 DEF SizesInv
      <3>1. Size(node'[q]) = Size(node[q]) /\ (node'[q].leaf <=> node[q].leaf)
        BY <2>8, <2>14 DEF SameLinks
      <3> QED BY <1>1, <1>7, <2>11, <3>1 DEF SizeOK
    <2>17. HdrInv'
      BY <1>1, <2>8, <2>10, <2>14 DEF TreeInv, HdrInv, SameLinks
    <2>18. PinsInv'
      BY <1>1, <2>3, <2>11, PinSame DEF Held
    <2> QED BY <1>1, <2>12, <2>13, <2>15, <2>16, <2>17, <2>18 DEF TreeInv
  <1> QED BY <1>9, <1>10

-----------------------------------------------------------------------------
(* Split.                                                                  *)

\* The node p of ns split into l and r = ms[new], node by node.
HalvedAs(ms, ns, p, new, l, r) ==
  /\ DOMAIN ms = DOMAIN ns \cup {new}
  /\ \A q \in DOMAIN ms :
       LET n == IF q = new THEN r ELSE IF q = p THEN l ELSE ns[q]
       IN  /\ NodeOK(ms[q]) /\ SamePairs(ms[q], n)
           /\ ms[q].parent = IF q \in Children(r) THEN new ELSE n.parent

\* The leaf list when p is split: new comes after a leaf p, and a split higher up
\* leaves the list alone.
PutAfter(ms, ns, p, new) ==
  IF ns[p].leaf
  THEN \A q \in DOMAIN ns \cup {new} :
         /\ ms[q].next = IF q = p THEN new ELSE IF q = new THEN ns[p].next ELSE ns[q].next
         /\ ms[q].prev = IF q = ns[p].next THEN new ELSE IF q = new THEN p ELSE ns[q].prev
  ELSE \A q \in DOMAIN ns : ms[q].next = ns[q].next /\ ms[q].prev = ns[q].prev

\* What Split does to the nodes.
LEMMA SplitNodes ==
  ASSUME NEW h, TreeInv(h), Split,
         NEW p, p = op.page, NEW new, new = FreshPage,
         NEW l, l = LeftHalf(node[p]), NEW r, r = RightHalf(node[p])
  PROVE  /\ p \in Nds(node) /\ new \in Pages /\ new \notin DOMAIN node
         /\ IsHalves(l, r, node[p]) /\ HalvedAs(node', node, p, new, l, r)
         /\ PutAfter(node', node, p, new)
  <1>1. op.pc = "split" /\ HasPage
    BY DEF Split
  <1>2. p \in Nds(node) /\ p \in DOMAIN node /\ p \in Pages /\ NodeOK(node[p]) /\ Size(node[p]) = MaxSize
    <2>1. p \in Nds(node) /\ Size(node[p]) = MaxSize
      BY <1>1 DEF TreeInv, OpInv, SplitInv
    <2> QED BY <2>1, NdsIs DEF TreeInv
  <1>3. new \in Pages /\ new \notin DOMAIN node
    BY <1>1, FreshIs
  <1>4. IsHalves(l, r, node[p])
    BY <1>2, HalvesIs, Sizes
  <1>5. /\ NodeOK(l) /\ NodeOK(r) /\ (r.leaf <=> node[p].leaf) /\ l.parent = node[p].parent
        /\ l.next = node[p].next /\ l.prev = node[p].prev
        /\ Children(r) \subseteq Children(node[p])
    BY <1>4 DEF IsHalves, SameLinks
  <1>6. PICK hs : hs = WithNode(Replaced(node, p, l), new, r)
    OBVIOUS
  <1>7. node' = IF node[p].leaf THEN LinkLeaf(hs, p, new) ELSE Adopt(hs, Children(r), new)
    BY <1>6 DEF Split, Replaced
  <1>8. /\ DOMAIN hs = DOMAIN node \cup {new}
        /\ \A q \in DOMAIN hs : hs[q] = IF q = new THEN r ELSE IF q = p THEN l ELSE node[q]
    <2>1. PICK ms : ms = Replaced(node, p, l)
      OBVIOUS
    <2>2. DOMAIN ms = DOMAIN node /\ \A q \in DOMAIN node : ms[q] = IF q = p THEN l ELSE node[q]
      BY <2>1, ReplacedIs
    <2>3. /\ DOMAIN hs = DOMAIN ms \cup {new}
          /\ \A q \in DOMAIN ms \cup {new} : hs[q] = IF q = new THEN r ELSE ms[q]
      <3>1. hs = WithNode(ms, new, r)
        BY <1>6, <2>1
      <3>2. /\ DOMAIN WithNode(ms, new, r) = DOMAIN ms \cup {new}
            /\ \A q \in DOMAIN ms \cup {new} : WithNode(ms, new, r)[q] = IF q = new THEN r ELSE ms[q]
        BY DEF WithNode
      <3> QED BY <3>1, <3>2
    <2> QED BY <2>2, <2>3
  <1>9. \A q \in DOMAIN hs : NodeOK(hs[q])
    <2>1. \A q \in DOMAIN node : NodeOK(node[q])
      BY DEF TreeInv, Store
    <2> QED BY <1>5, <1>8, <2>1
  <1>10. CASE node[p].leaf
    <2>1. node' = LinkLeaf(hs, p, new)
      BY <1>7, <1>10
    <2>2. p \in DOMAIN hs /\ new \in DOMAIN hs /\ p # new
      BY <1>2, <1>3, <1>8
    <2>3. /\ DOMAIN node' = DOMAIN hs
          /\ \A q \in DOMAIN hs : LinkedAs(node'[q], hs[q], q, p, new, hs[p].next)
      BY <1>2, <1>3, <1>9, <2>1, <2>2, LinkLeafIs
    <2>4. Children(r) = {}
      BY <1>5, <1>10, ChildrenIs
    <2>5. HalvedAs(node', node, p, new, l, r)
      BY <1>8, <2>3, <2>4 DEF HalvedAs, LinkedAs
    <2>6. hs[p].next = node[p].next
      BY <1>5, <1>8, <2>2
    <2>7. ASSUME NEW q \in DOMAIN node \cup {new}
          PROVE  /\ node'[q].next = IF q = p THEN new ELSE IF q = new THEN node[p].next ELSE node[q].next
                 /\ node'[q].prev = IF q = node[p].next THEN new ELSE IF q = new THEN p ELSE node[q].prev
      <3>1. LinkedAs(node'[q], hs[q], q, p, new, node[p].next) /\ q \in DOMAIN hs
        BY <1>8, <2>3, <2>6
      <3>2. q # new => hs[q].next = node[q].next /\ hs[q].prev = node[q].prev
        BY <1>5, <1>8, <3>1
      <3> QED BY <3>1, <3>2 DEF LinkedAs
    <2>8. PutAfter(node', node, p, new)
      BY <1>10, <2>7 DEF PutAfter
    <2> QED BY <1>2, <1>3, <1>4, <2>5, <2>8
  <1>11. CASE ~node[p].leaf
    <2>1. node' = Adopt(hs, Children(r), new)
      BY <1>7, <1>11
    <2>2. /\ DOMAIN node' = DOMAIN hs
          /\ \A q \in DOMAIN hs : node'[q] = IF q \in Children(r) THEN Reparented(hs[q], new) ELSE hs[q]
      BY <2>1, AdoptIs
    <2>3. ASSUME NEW q \in DOMAIN hs
          PROVE  /\ NodeOK(node'[q]) /\ SamePairs(node'[q], hs[q])
                 /\ node'[q].parent = IF q \in Children(r) THEN new ELSE hs[q].parent
                 /\ node'[q].next = hs[q].next /\ node'[q].prev = hs[q].prev
      <3>1. CASE q \in Children(r)
        BY <1>3, <1>9, <2>2, <3>1, ReparentIs
      <3>2. CASE q \notin Children(r)
        BY <1>9, <2>2, <3>2 DEF SamePairs
      <3> QED BY <3>1, <3>2
    <2>5. HalvedAs(node', node, p, new, l, r)
      BY <1>8, <2>2, <2>3 DEF HalvedAs
    <2>6. ASSUME NEW q \in DOMAIN node
          PROVE  node'[q].next = node[q].next /\ node'[q].prev = node[q].prev
      <3>1. q \in DOMAIN hs /\ hs[q].next = node[q].next /\ hs[q].prev = node[q].prev
        BY <1>3, <1>5, <1>8
      <3> QED BY <2>3, <3>1
    <2>7. PutAfter(node', node, p, new)
      BY <1>11, <2>6 DEF PutAfter
    <2> QED BY <1>2, <1>3, <1>4, <2>5, <2>7
  <1> QED BY <1>10, <1>11

\* A node halved is a node split, whatever its level.
LEMMA SplitTree ==
  \A ns, ms, T, h, p, new, l, r :
    (/\ Store(ns) /\ Tree(ns, T, h) /\ p \in Nds(ns) /\ new \in Pages /\ new \notin DOMAIN ns
     /\ \A q \in Nds(ns) : new \notin Gone(ns[q])
     /\ IsHalves(l, r, ns[p]) /\ HalvedAs(ms, ns, p, new, l, r))
      => Store(ms) /\ SplitOf(ms, ns, p, new)
  <1> SUFFICES ASSUME NEW ns, NEW ms, NEW T, NEW h, NEW p, NEW new, NEW l, NEW r,
                      Store(ns), Tree(ns, T, h), p \in Nds(ns), new \in Pages, new \notin DOMAIN ns,
                      \A q \in Nds(ns) : new \notin Gone(ns[q]),
                      IsHalves(l, r, ns[p]), HalvedAs(ms, ns, p, new, l, r)
               PROVE  Store(ms) /\ SplitOf(ms, ns, p, new)
    OBVIOUS
  <1>1. DOMAIN ms = DOMAIN ns \cup {new} /\ new # IX_LEAF_HEADER_PAGE /\ p # IX_LEAF_HEADER_PAGE /\ p # new
        /\ p \in DOMAIN ns
    BY PagesIs DEF HalvedAs, Nds
  <1>2. /\ SamePairs(ms[new], r) /\ SamePairs(ms[p], l)
        /\ \A q \in DOMAIN ns : q # p => SamePairs(ms[q], ns[q])
    BY <1>1 DEF HalvedAs
  <1>3. \A q \in DOMAIN ms : NodeOK(ms[q])
    BY DEF HalvedAs
  <1>4. Store(ms)
    BY <1>1, <1>2, <1>3 DEF Store, SamePairs
  <1>5. Nds(ms) = Nds(ns) \cup {new}
    BY <1>1 DEF Nds
  <1>6. /\ Children(ms[new]) = Children(r) /\ Gone(ms[new]) = Gone(r)
        /\ Children(ms[p]) = Children(l) /\ Gone(ms[p]) = Gone(l)
        /\ \A q \in Nds(ns) : q # p => SameList(ms[q], ns[q])
    BY <1>2, SamePairsIs DEF Nds
  <1>7. /\ SameLinks(l, ns[p]) /\ (r.leaf <=> ns[p].leaf) /\ r.parent = ns[p].parent
        /\ Gone(l) \subseteq Gone(ns[p]) \cup Children(r) /\ Gone(r) \subseteq {0}
        /\ Children(l) \cup Children(r) = Children(ns[p])
        /\ Distinct(ns[p].vals) => /\ Distinct(l.vals) /\ Distinct(r.vals)
                                   /\ Children(l) \cap Children(r) = {}
    BY DEF IsHalves
  <1>8. ASSUME NEW q \in Nds(ns)
        PROVE  /\ (ms[q].leaf <=> ns[q].leaf)
               /\ ms[q].parent = IF q \in Children(ms[new]) THEN new ELSE ns[q].parent
    <2>1. q \in DOMAIN ns /\ q # new
      BY <1>1 DEF Nds
    <2>2. CASE q = p
      BY <1>1, <1>2, <1>6, <1>7, <2>1, <2>2 DEF HalvedAs, SamePairs, SameLinks
    <2>3. CASE q # p
      BY <1>1, <1>2, <1>6, <2>1, <2>3 DEF HalvedAs, SamePairs
    <2> QED BY <2>2, <2>3
  <1>9. ms[new].leaf <=> ns[p].leaf
    BY <1>2, <1>7 DEF SamePairs
  <1>10. ~ns[p].leaf => Distinct(ns[p].vals)
    BY DEF Tree, Once
  <1>11. Children(ms[p]) \cap Children(ms[new]) = {}
    <2>1. CASE ns[p].leaf
      BY <1>6, <1>7, <2>1, ChildrenIs
    <2>2. CASE ~ns[p].leaf
      BY <1>6, <1>7, <1>10, <2>2
    <2> QED BY <2>1, <2>2
  <1>12. ~ns[p].leaf => Distinct(ms[p].vals) /\ Distinct(ms[new].vals)
    BY <1>2, <1>7, <1>10 DEF SamePairs
  <1>13. Gone(ms[new]) \cap Nds(ms) = {}
    <2>1. 0 \notin Nds(ms)
      BY <1>4, NdsIs, PagesIs
    <2> QED BY <1>6, <1>7, <2>1
  <1>14. SplitOf(ms, ns, p, new)
    <2>1. p \in Nds(ns) /\ new \notin Nds(ns)
      BY DEF Nds
    <2> QED BY <1>5, <1>6, <1>7, <1>8, <1>9, <1>11, <1>12, <1>13, <2>1 DEF SplitOf
  <1> QED BY <1>4, <1>14

\* Split keeps the invariant; the new half is a second top.
LEMMA SplitStep ==
  ASSUME NEW h, h \in [Pages -> Nat], TreeInv(h), HdrType, PinsInv, Split
  PROVE  (\E g \in [Pages -> Nat] : TreeInv(g)') /\ PinsInv' /\ HdrType'
  <1>1. op.pc = "split" /\ HasPage /\ SplitInv(h) /\ OpType
    BY DEF Split, TreeInv, OpInv
  <1>2. PICK p : p = op.page
    OBVIOUS
  <1>3. PICK new : new = FreshPage
    OBVIOUS
  <1>4. PICK l : l = LeftHalf(node[p])
    OBVIOUS
  <1>5. PICK r : r = RightHalf(node[p])
    OBVIOUS
  <1>6. PICK stack : stack = op.stack
    OBVIOUS
  <1>7. /\ pins' = Pin({new}) /\ hdr' = [hdr EXCEPT !.num_pages = @ + 1]
        /\ op' = Op("parent", p, Append(stack, <<p, new>>))
    BY <1>2, <1>3, <1>6 DEF Split
  <1>8. /\ p \in Nds(node) /\ new \in Pages /\ new \notin DOMAIN node
        /\ IsHalves(l, r, node[p]) /\ HalvedAs(node', node, p, new, l, r)
    BY <1>2, <1>3, <1>4, <1>5, SplitNodes
  <1>9. \A q \in Nds(node) : new \notin Gone(node[q])
    BY <1>1, <1>3, FreshIs
  <1>10. Store(node) /\ Tree(node, {hdr.root}, h) /\ hdr.root \in Nds(node)
    BY <1>1 DEF TreeInv, Tops, Tree, Up
  <1>11. Store(node') /\ SplitOf(node', node, p, new)
    BY <1>8, <1>9, <1>10, SplitTree
  <1>12. PICK g : g = [h EXCEPT ![new] = h[p]]
    OBVIOUS
  <1>13. Nds(node) \subseteq Pages /\ new \notin Nds(node) /\ p \in Pages
    BY <1>8, <1>10, NdsIs DEF Nds
  <1>14. g \in [Pages -> Nat] /\ g[new] = h[p] /\ \A q \in Nds(node) : g[q] = h[q]
    BY <1>8, <1>12, <1>13
  <1>15. Tree(node', {hdr.root} \cup {new}, g)
    BY <1>10, <1>11, <1>14, TreeSplit
  <1>16. Nds(node') = Nds(node) \cup {new}
    BY <1>11 DEF SplitOf
  <1>17. hdr'.root = hdr.root /\ hdr'.num_pages = hdr.num_pages + 1 /\ HdrType'
    BY <1>7 DEF HdrType
  <1>18. stack \in Seq(Seq(Pages)) /\ Len(stack) \in Nat /\ <<p, new>> \in Seq(Pages)
    BY <1>1, <1>6, <1>8, <1>13, SeqIs DEF OpType
  <1>19. /\ op'.pc = "parent" /\ op'.page = p /\ op'.stack = Append(stack, <<p, new>>)
         /\ op'.stack \in Seq(Seq(Pages)) /\ Len(op'.stack) = Len(stack) + 1
         /\ op'.stack[Len(stack) + 1] = <<p, new>>
         /\ \A k \in 1..Len(stack) : op'.stack[k] = stack[k]
    <2>1. op'.pc = "parent" /\ op'.page = p /\ op'.stack = Append(stack, <<p, new>>)
      BY <1>7 DEF Op
    <2>2. /\ Append(stack, <<p, new>>) \in Seq(Seq(Pages)) /\ Len(Append(stack, <<p, new>>)) = Len(stack) + 1
          /\ Append(stack, <<p, new>>)[Len(stack) + 1] = <<p, new>>
          /\ \A k \in 1..Len(stack) : Append(stack, <<p, new>>)[k] = stack[k]
      BY <1>18, AppendProperties
    <2> QED BY <2>1, <2>2
  <1>20. Frame' = <<p, new>>
    BY <1>19 DEF Frame
  <1>21. Tops' = {hdr.root} \cup {new}
    BY <1>17, <1>19, <1>20 DEF Tops
  <1>22. Size(node[p]) = MaxSize /\ h[p] = Len(stack) /\ FramesInv(h)
    BY <1>1, <1>2, <1>6 DEF SplitInv
  <1>23. Size(node'[p]) = (MaxSize + 1) \div 2 /\ Size(node'[new]) = MaxSize - ((MaxSize + 1) \div 2)
    <2>1. Size(l) = (MaxSize + 1) \div 2 /\ Size(r) = MaxSize - ((MaxSize + 1) \div 2)
      BY <1>8, <1>22 DEF IsHalves
    <2>2. p \in DOMAIN node' /\ new \in DOMAIN node' /\ p # new
      BY <1>8 DEF HalvedAs, Nds
    <2>3. SamePairs(node'[p], l) /\ SamePairs(node'[new], r)
      BY <1>8, <2>2 DEF HalvedAs
    <2> QED BY <2>1, <2>3, SamePairsIs
  <1>24. (MaxSize + 1) \div 2 \in MinSize..(MaxSize - 1) /\ MaxSize - ((MaxSize + 1) \div 2) \in MinSize..(MaxSize - 1)
    BY Sizes DEF MinSize
  <1>25. \A q \in Nds(node) : q # p => Size(node'[q]) = Size(node[q]) /\ (node'[q].leaf <=> node[q].leaf)
    <2> SUFFICES ASSUME NEW q \in Nds(node), q # p
                 PROVE  Size(node'[q]) = Size(node[q]) /\ (node'[q].leaf <=> node[q].leaf)
      OBVIOUS
    <2>1. q \in DOMAIN node' /\ q # new
      BY <1>8 DEF HalvedAs, Nds
    <2>2. SamePairs(node'[q], node[q])
      BY <1>8, <2>1 DEF HalvedAs
    <2> QED BY <2>2, SamePairsIs DEF SamePairs
  <1>26. SizesInv'
    <2> SUFFICES ASSUME NEW q \in Nds(node) \cup {new} PROVE SizeOK(q, Size(node[q]))'
      BY <1>16 DEF SizesInv
    <2>1. CASE q \in {p, new}
      <3>1. Size(node'[q]) \in MinSize..(MaxSize - 1)
        BY <1>23, <1>24, <2>1
      <3>2. Size(node'[q]) < MaxSize /\ Size(node'[q]) >= MinSize /\ Size(node'[q]) >= 2
        BY <3>1, Sizes
      <3> QED BY <3>2 DEF SizeOK
    <2>2. CASE q \notin {p, new}
      <3>1. SizeOK(q, Size(node[q]))
        BY <2>2 DEF TreeInv, SizesInv
      <3> QED BY <1>1, <1>2, <1>17, <1>19, <1>25, <2>2, <3>1 DEF SizeOK
    <2> QED BY <2>1, <2>2
  <1>27. HdrInv'
    <2>1. Cardinality(Nds(node')) = Cardinality(Nds(node)) + 1
      BY <1>10, <1>13, <1>16, NdsIs, CardIs
    <2>2. Cardinality(Nds(node)) \in Nat
      BY <1>10, NdsIs, CardIs
    <2>3. node'[hdr.root].parent = node[hdr.root].parent
      <3>1. hdr.root \notin Children(node'[new])
        <4>1. new \in Nds(node') /\ hdr.root \in {hdr.root} \cup {new}
          BY <1>16
        <4> QED BY <1>15, <4>1 DEF Tree, Up
      <3> QED BY <1>10, <1>11, <3>1 DEF SplitOf
    <2> QED BY <1>17, <2>1, <2>2, <2>3 DEF TreeInv, HdrInv
  <1>28. OpInv(g)'
    <2>1. OpType'
      BY <1>7, <1>13, <1>19 DEF OpType, Op, PCs
    <2>2. FramesInv(g)'
      <3> SUFFICES ASSUME NEW k \in 1..(Len(stack) + 1) PROVE FrameAt(op'.stack[k], k, node', g)
        BY <1>19 DEF FramesInv
      <3>1. CASE k \in 1..Len(stack)
        <4>1. FrameAt(stack[k], k, node, h)
          BY <1>6, <1>22, <3>1 DEF FramesInv
        <4> QED BY <1>14, <1>16, <1>19, <3>1, <4>1 DEF FrameAt
      <3>2. CASE k = Len(stack) + 1
        <4>1. op'.stack[k] = <<p, new>>
          BY <1>19, <3>2
        <4>2. g[p] = k - 1 /\ g[new] = k - 1 /\ p # new /\ p \in Nds(node') /\ new \in Nds(node')
          BY <1>8, <1>13, <1>14, <1>16, <1>18, <1>22, <3>2
        <4> QED BY <4>1, <4>2 DEF FrameAt
      <3> QED BY <1>18, <3>1, <3>2
    <2>3. ParentInv(g)'
      <3>1. Len(op'.stack) > 0
        BY <1>18, <1>19
      <3>2. new # hdr.root
        BY <1>10, <1>13
      <3>3. Size(node'[p]) >= MinSize
        BY <1>23, <1>24
      <3> QED BY <1>17, <1>19, <1>20, <2>2, <3>1, <3>2, <3>3 DEF ParentInv
    <2> QED BY <1>19, <2>1, <2>3 DEF OpInv
  <1>29. TreeInv(g)'
    BY <1>11, <1>15, <1>21, <1>26, <1>27, <1>28 DEF TreeInv
  <1>30. PinsInv'
    <2>1. ASSUME NEW q \in Held PROVE q \in Nds(node)
      <3>1. CASE q = op.page
        BY <1>2, <1>8, <3>1
      <3>2. CASE q # op.page
        <4>1. PICK k \in 1..Len(op.stack) : q \in Elems(op.stack[k])
          BY <3>2 DEF Held
        <4>2. FrameAt(op.stack[k], k, node, h)
          BY <1>22 DEF FramesInv
        <4> QED BY <4>1, <4>2, FrameElems DEF FrameAt
      <3> QED BY <3>1, <3>2
    <2>2. Held' = Held \cup {new}
      <3>1. ASSUME NEW q \in Pages PROVE q \in Held' <=> q \in Held \/ q = new
        <4>1. Elems(<<p, new>>) = {p, new}
          BY DEF Elems
        <4>2. q \in Held' <=> \E k \in 1..(Len(stack) + 1) : q \in Elems(op'.stack[k])
          BY <1>19 DEF Held
        <4>3. (\E k \in 1..(Len(stack) + 1) : q \in Elems(op'.stack[k]))
                <=> (\E k \in 1..Len(stack) : q \in Elems(stack[k])) \/ q \in {p, new}
          <5>1. ASSUME NEW k \in 1..(Len(stack) + 1), q \in Elems(op'.stack[k])
                PROVE  (\E j \in 1..Len(stack) : q \in Elems(stack[j])) \/ q \in {p, new}
            <6>1. CASE k = Len(stack) + 1
              BY <1>19, <4>1, <5>1, <6>1
            <6>2. CASE k # Len(stack) + 1
              <7>1. k \in 1..Len(stack)
                BY <1>18, <6>2
              <7> QED BY <1>19, <5>1, <7>1
            <6> QED BY <6>1, <6>2
          <5>2. ASSUME NEW k \in 1..Len(stack), q \in Elems(stack[k])
                PROVE  \E j \in 1..(Len(stack) + 1) : q \in Elems(op'.stack[j])
            <6>1. k \in 1..(Len(stack) + 1) /\ op'.stack[k] = stack[k]
              BY <1>18, <1>19
            <6> QED BY <5>2, <6>1
          <5>3. ASSUME q \in {p, new} PROVE \E j \in 1..(Len(stack) + 1) : q \in Elems(op'.stack[j])
            <6>1. Len(stack) + 1 \in 1..(Len(stack) + 1)
              BY <1>18
            <6> QED BY <1>19, <4>1, <5>3, <6>1
          <5> QED BY <5>1, <5>2, <5>3
        <4>4. q \in Held <=> (\E k \in 1..Len(stack) : q \in Elems(stack[k])) \/ q = p
          BY <1>1, <1>2, <1>6 DEF Held
        <4> QED BY <4>2, <4>3, <4>4
      <3>2. Held \subseteq Pages /\ Held' \subseteq Pages
        BY DEF Held
      <3> QED BY <1>8, <3>1, <3>2
    <2>3. {new} \cap Held = {}
      BY <1>13, <2>1
    <2> QED BY <1>7, <2>2, <2>3, PinStep
  <1> QED BY <1>14, <1>17, <1>29, <1>30

-----------------------------------------------------------------------------
(* A new root.                                                             *)

\* The first key of a node that has one.
LEMMA FirstKey == \A n : NodeOK(n) /\ Size(n) > 0 => KeyAt(n, 0) \in Keys
  <1> SUFFICES ASSUME NEW n, NodeOK(n), Size(n) > 0 PROVE n.keys[1] \in Keys
    BY DEF KeyAt
  <1>1. n.keys \in Seq(Keys) /\ Len(n.keys) = Size(n) /\ Size(n) \in Nat
    BY NodeIs
  <1> QED BY <1>1, SeqIs

\* The two halves that a frame holds, between Split and InsertIntoParent.
LEMMA ParentIs ==
  ASSUME NEW h, TreeInv(h), op.pc = "parent", NEW old, old = Frame[1], NEW new, new = Frame[2]
  PROVE  /\ OpType /\ op.page = old /\ old \in Nds(node) /\ new \in Nds(node) /\ old # new
         /\ new # hdr.root /\ hdr.root \in Nds(node) /\ Tree(node, {hdr.root, new}, h)
         /\ Len(op.stack) \in Nat \ {0} /\ h[old] = Len(op.stack) - 1 /\ h[new] = Len(op.stack) - 1
         /\ FramesInv(h)
         /\ \A q \in Nds(node) : /\ Size(node[q]) \in Nat /\ Size(node[q]) < MaxSize
                                 /\ q # hdr.root => Size(node[q]) >= MinSize
                                 /\ q = hdr.root /\ ~node[q].leaf => Size(node[q]) >= 2
         /\ Size(node[old]) >= MinSize /\ Size(node[new]) >= MinSize
         /\ KeyAt(node[old], 0) \in Keys /\ KeyAt(node[new], 0) \in Keys
  <1>1. OpType /\ ParentInv(h)
    BY DEF TreeInv, OpInv
  <1>2. Len(op.stack) \in Nat \ {0}
    BY <1>1, SeqIs DEF OpType, ParentInv
  <1>3. FrameAt(Frame, Len(op.stack), node, h)
    BY <1>1, <1>2 DEF ParentInv, FramesInv, Frame
  <1>4. /\ op.page = old /\ old \in Nds(node) /\ new \in Nds(node) /\ old # new /\ new # hdr.root
        /\ h[old] = Len(op.stack) - 1 /\ h[new] = Len(op.stack) - 1 /\ FramesInv(h)
        /\ Size(node[old]) >= MinSize
    BY <1>1, <1>3 DEF ParentInv, FrameAt
  <1>5. Tree(node, {hdr.root, new}, h) /\ hdr.root \in Nds(node)
    BY DEF TreeInv, Tops, Tree, Up
  <1>6. \A q \in Nds(node) : /\ Size(node[q]) \in Nat /\ Size(node[q]) < MaxSize
                             /\ q # hdr.root => Size(node[q]) >= MinSize
                             /\ q = hdr.root /\ ~node[q].leaf => Size(node[q]) >= 2
    <2> SUFFICES ASSUME NEW q \in Nds(node)
                 PROVE  /\ Size(node[q]) \in Nat /\ Size(node[q]) < MaxSize
                        /\ q # hdr.root => Size(node[q]) >= MinSize
                        /\ q = hdr.root /\ ~node[q].leaf => Size(node[q]) >= 2
      OBVIOUS
    <2>1. SizeOK(q, Size(node[q])) /\ Size(node[q]) \in Nat
      BY NdsIs, NodeIs DEF TreeInv, SizesInv
    <2> QED BY <2>1 DEF SizeOK
  <1>7. Size(node[new]) >= MinSize
    BY <1>4, <1>6
  <1>8. KeyAt(node[old], 0) \in Keys /\ KeyAt(node[new], 0) \in Keys
    <2>1. NodeOK(node[old]) /\ NodeOK(node[new])
      BY <1>4, NdsIs DEF TreeInv
    <2>2. Size(node[old]) > 0 /\ Size(node[new]) > 0
      BY <1>4, <1>6, <1>7, Sizes
    <2> QED BY <2>1, <2>2, FirstKey
  <1> QED BY <1>1, <1>2, <1>4, <1>5, <1>6, <1>7, <1>8

\* The node of a new root above old and new.
RootOver(n, old, new) ==
  /\ NodeOK(n) /\ ~n.leaf /\ n.parent = IX_NO_PAGE /\ Size(n) = 2 /\ Children(n) = {old, new}
  /\ Distinct(n.vals) /\ Gone(n) \subseteq {0} /\ Len(n.vals) = 2 /\ n.vals[1] = old /\ n.vals[2] = new

\* The root InsertIntoParent builds.
LEMMA RootOverIs ==
  \A k1, old, k2, new :
    k1 \in Keys /\ k2 \in Keys /\ old \in Pages /\ new \in Pages /\ old # new =>
      RootOver(insert_pair(insert_pair(NewNode(FALSE, IX_NO_PAGE, 0, 0), 0, k1, old), 1, k2, new), old, new)
  <1> SUFFICES ASSUME NEW k1, NEW old, NEW k2, NEW new,
                      k1 \in Keys, k2 \in Keys, old \in Pages, new \in Pages, old # new
               PROVE  RootOver(insert_pair(insert_pair(NewNode(FALSE, IX_NO_PAGE, 0, 0), 0, k1, old),
                                           1, k2, new), old, new)
    OBVIOUS
  <1>1. PICK b : b = NewNode(FALSE, IX_NO_PAGE, 0, 0)
    OBVIOUS
  <1>2. /\ NodeOK(b) /\ Size(b) = 0 /\ ~b.leaf /\ b.parent = IX_NO_PAGE /\ b.vals = <<>>
        /\ Gone(b) \subseteq {0}
    <2>1. PICK f : f = FALSE
      OBVIOUS
    <2>2. PICK z : z = 0
      OBVIOUS
    <2>7. f \in BOOLEAN
      BY <2>1, Zenon
    <2>8. z \in 0..MaxPage
      BY <2>2, Sizes
    <2>3. f \in BOOLEAN /\ IX_NO_PAGE \in {IX_NO_PAGE} \cup Pages /\ z \in 0..MaxPage
      BY <2>7, <2>8, Zenon
    <2>4. b = NewNode(f, IX_NO_PAGE, z, z)
      BY <1>1, <2>1, <2>2
    <2>5. /\ NodeOK(b) /\ Size(b) = 0 /\ b.leaf = f /\ b.parent = IX_NO_PAGE /\ b.vals = <<>>
          /\ Gone(b) \subseteq {0}
      BY <2>3, <2>4, NewNodeIs
    <2>6. ~b.leaf
      BY <2>1, <2>5, Zenon
    <2> QED BY <2>5, <2>6, Zenon
  <1>3. PICK m : m = insert_pair(b, 0, k1, old)
    OBVIOUS
  <1>4. old \in Slots /\ new \in Slots
    BY DEF Slots
  <1>5. Children(b) = {} /\ Elems(b.vals) = {} /\ Distinct(b.vals)
    BY <1>2 DEF Children, Elems, Distinct
  <1>6. /\ IsInsert(m, b, 0, <<k1>>, <<old>>) /\ Size(m) = 1
        /\ Children(m) = {old} /\ Distinct(m.vals)
    <2>1. 0 \in 0..Size(b) /\ Size(b) < MaxSize
      BY <1>2, Sizes
    <2>2. /\ IsInsert(m, b, 0, <<k1>>, <<old>>) /\ Size(m) = Size(b) + 1
          /\ Children(m) = Children(b) \cup (IF b.leaf THEN {} ELSE {old})
          /\ Distinct(b.vals) /\ old \notin Elems(b.vals) => Distinct(m.vals)
      BY <1>2, <1>3, <1>4, <2>1, InsertPairIs
    <2> QED BY <1>2, <1>5, <2>2
  <1>7. /\ NodeOK(m) /\ ~m.leaf /\ m.parent = IX_NO_PAGE /\ Gone(m) \subseteq {0} /\ Elems(m.vals) = {old}
        /\ m.vals = Splice(b.vals, 0, <<old>>)
    <2>1. NodeOK(m) /\ ~m.leaf /\ m.parent = IX_NO_PAGE /\ Gone(m) \subseteq {0} /\ m.vals = Splice(b.vals, 0, <<old>>)
      BY <1>2, <1>6 DEF IsInsert, SameLinks
    <2> QED BY <1>6, <2>1, ChildrenIs
  <1>8. PICK n : n = insert_pair(m, 1, k2, new)
    OBVIOUS
  <1>9. /\ IsInsert(n, m, 1, <<k2>>, <<new>>) /\ Size(n) = 2
        /\ Children(n) = {old, new} /\ Distinct(n.vals)
    <2>1. 1 \in 0..Size(m) /\ Size(m) < MaxSize
      BY <1>6, Sizes
    <2>2. /\ IsInsert(n, m, 1, <<k2>>, <<new>>) /\ Size(n) = Size(m) + 1
          /\ Children(n) = Children(m) \cup (IF m.leaf THEN {} ELSE {new})
          /\ Distinct(m.vals) /\ new \notin Elems(m.vals) => Distinct(n.vals)
      BY <1>4, <1>7, <1>8, <2>1, InsertPairIs
    <2> QED BY <1>6, <1>7, <2>2
  <1>10. NodeOK(n) /\ ~n.leaf /\ n.parent = IX_NO_PAGE /\ Gone(n) \subseteq {0}
         /\ n.vals = Splice(m.vals, 1, <<new>>)
    BY <1>7, <1>9 DEF IsInsert, SameLinks
  <1>11. Len(n.vals) = 2 /\ n.vals[1] = old /\ n.vals[2] = new
    <2>1. m.vals \in Seq(Pages) /\ Len(m.vals) = 1 /\ Len(n.vals) = 2
      BY <1>6, <1>7, <1>9, <1>10, NodeIs
    <2>2. m.vals[1] = old
      <3>1. m.vals[1] \in Elems(m.vals)
        BY <2>1 DEF Elems
      <3> QED BY <1>7, <3>1
    <2>3. PICK t : t = <<new>>
      OBVIOUS
    <2>4. t \in Seq(Pages) /\ Len(t) = 1 /\ t[1] = new /\ 1 \in 0..Len(m.vals) /\ n.vals = Splice(m.vals, 1, t)
      BY <1>10, <2>1, <2>3
    <2>6. PICK pos : pos = 1
      OBVIOUS
    <2>7. PICK s : s = m.vals
      OBVIOUS
    <2>8. s \in Seq(Pages) /\ t \in Seq(Pages) /\ pos \in 0..Len(s) /\ n.vals = Splice(s, pos, t)
      BY <2>1, <2>4, <2>6, <2>7
    <2>9. \A i \in 1..(Len(s) + Len(t)) :
             Splice(s, pos, t)[i] = IF i <= pos THEN s[i]
                                    ELSE IF i <= pos + Len(t) THEN t[i - pos] ELSE s[i - Len(t)]
      BY <2>8, SpliceIs
    <2>5. n.vals[1] = m.vals[1] /\ n.vals[2] = new
      BY <2>1, <2>4, <2>6, <2>7, <2>8, <2>9
    <2> QED BY <2>1, <2>2, <2>5
  <1> QED BY <1>1, <1>3, <1>8, <1>9, <1>10, <1>11 DEF RootOver

\* A node q before and after the new root r comes above old and new.
RootedAs(m, n, q, old, new, r) ==
  /\ NodeOK(m) /\ SamePairs(m, n) /\ m.prev = n.prev /\ m.next = n.next
  /\ m.parent = IF q \in {old, new} THEN r ELSE n.parent

\* What InsertIntoParent does to the nodes when it splits the root.
LEMMA NewRootNodes ==
  ASSUME NEW h, TreeInv(h), NewRoot, NEW old, old = Frame[1], NEW new, new = Frame[2],
         NEW r, r = FreshPage
  PROVE  /\ r \in Pages /\ r \notin DOMAIN node /\ DOMAIN node' = DOMAIN node \cup {r}
         /\ old = hdr.root /\ RootOver(node'[r], old, new)
         /\ \A q \in DOMAIN node : RootedAs(node'[q], node[q], q, old, new, r)
  <1>1. op.pc = "parent" /\ HasPage /\ IsRoot(op.page)
    BY DEF NewRoot
  <1>2. /\ op.page = old /\ old \in Nds(node) /\ new \in Nds(node) /\ old # new
        /\ KeyAt(node[old], 0) \in Keys /\ KeyAt(node[new], 0) \in Keys
    <2>1. op.page = old /\ old \in Nds(node) /\ new \in Nds(node) /\ old # new
      <3>1. op.page = old
        BY <1>1 DEF TreeInv, OpInv, ParentInv
      <3>2. old \in Nds(node) /\ new \in Nds(node)
        BY <1>1, ParentIs
      <3>3. old # new
        BY <1>1, ParentIs
      <3> QED BY <3>1, <3>2, <3>3
    <2>2. KeyAt(node[old], 0) \in Keys /\ KeyAt(node[new], 0) \in Keys
      BY <1>1, ParentIs
    <2> QED BY <2>1, <2>2
  <1>3. r \in Pages /\ r \notin DOMAIN node
    BY <1>1, FreshIs
  <1>4. old = hdr.root
    BY <1>1, <1>2, RootIs
  <1>5. PICK n : n = insert_pair(insert_pair(NewNode(FALSE, IX_NO_PAGE, 0, 0), 0, KeyAt(node[old], 0), old),
                                 1, KeyAt(node[new], 0), new)
    OBVIOUS
  <1>6. old \in Pages /\ new \in Pages /\ \A q \in DOMAIN node : NodeOK(node[q])
    BY <1>2, NdsIs DEF TreeInv, Store
  <1>7. RootOver(n, old, new)
    BY <1>2, <1>5, <1>6, RootOverIs
  <1>8. PICK ms : ms = Adopt(node, {old, new}, r)
    OBVIOUS
  <1>9. node' = WithNode(ms, r, n)
    BY <1>5, <1>8 DEF NewRoot
  <1>10. /\ DOMAIN ms = DOMAIN node
         /\ \A q \in DOMAIN node : ms[q] = IF q \in {old, new} THEN Reparented(node[q], r) ELSE node[q]
    BY <1>8, AdoptIs
  <1>11. /\ DOMAIN node' = DOMAIN node \cup {r}
         /\ \A q \in DOMAIN node \cup {r} : node'[q] = IF q = r THEN n ELSE ms[q]
    BY <1>9, <1>10 DEF WithNode
  <1>12. ASSUME NEW q \in DOMAIN node
         PROVE  RootedAs(node'[q], node[q], q, old, new, r)
    <2>1. node'[q] = IF q \in {old, new} THEN Reparented(node[q], r) ELSE node[q]
      BY <1>3, <1>10, <1>11
    <2>2. CASE q \in {old, new}
      BY <1>3, <1>6, <2>1, <2>2, ReparentIs DEF RootedAs
    <2>3. CASE q \notin {old, new}
      BY <1>6, <2>1, <2>3 DEF SamePairs, RootedAs
    <2> QED BY <2>2, <2>3
  <1> QED BY <1>3, <1>4, <1>7, <1>11, <1>12

\* A new root keeps the invariant.
LEMMA NewRootStep ==
  ASSUME NEW h, h \in [Pages -> Nat], TreeInv(h), HdrType, PinsInv, NewRoot
  PROVE  (\E g \in [Pages -> Nat] : TreeInv(g)') /\ PinsInv' /\ HdrType'
  <1>1. PICK old : old = Frame[1]
    OBVIOUS
  <1>2. PICK new : new = Frame[2]
    OBVIOUS
  <1>3. PICK r : r = FreshPage
    OBVIOUS
  <1>4. /\ op.pc = "parent" /\ HasPage /\ op' = [op EXCEPT !.pc = "return"] /\ pins' = pins
        /\ hdr' = [hdr EXCEPT !.root = r, !.num_pages = @ + 1]
    BY <1>3 DEF NewRoot
  <1>5. /\ OpType /\ op.page = old /\ old \in Nds(node) /\ new \in Nds(node) /\ old # new
        /\ new # hdr.root /\ hdr.root \in Nds(node) /\ Tree(node, {hdr.root, new}, h)
        /\ Len(op.stack) \in Nat \ {0} /\ h[old] = Len(op.stack) - 1 /\ h[new] = Len(op.stack) - 1
        /\ FramesInv(h)
        /\ Size(node[old]) >= MinSize /\ Size(node[new]) >= MinSize
    BY <1>1, <1>2, <1>4, ParentIs, Zenon
  <1>6. \A q \in Nds(node) : /\ Size(node[q]) \in Nat /\ Size(node[q]) < MaxSize
                             /\ q # hdr.root => Size(node[q]) >= MinSize
                             /\ q = hdr.root /\ ~node[q].leaf => Size(node[q]) >= 2
    BY <1>1, <1>2, <1>4, ParentIs, Zenon
  <1>7. /\ r \in Pages /\ r \notin DOMAIN node /\ DOMAIN node' = DOMAIN node \cup {r}
        /\ old = hdr.root /\ RootOver(node'[r], old, new)
    BY <1>1, <1>2, <1>3, NewRootNodes, Zenon
  <1>8. \A q \in DOMAIN node :
              /\ NodeOK(node'[q]) /\ SamePairs(node'[q], node[q])
              /\ node'[q].parent = IF q \in {old, new} THEN r ELSE node[q].parent
    <2>1. \A q \in DOMAIN node : RootedAs(node'[q], node[q], q, old, new, r)
      BY <1>1, <1>2, <1>3, NewRootNodes
    <2> QED BY <2>1 DEF RootedAs
  <1>9. Store(node) /\ Nds(node) \subseteq Pages /\ r \notin Nds(node) /\ r # IX_LEAF_HEADER_PAGE
    BY <1>7, NdsIs, PagesIs DEF TreeInv, Nds
  <1>10. Nds(node') = Nds(node) \cup {r}
    BY <1>7, <1>9 DEF Nds
  <1>11. Store(node')
    BY <1>7, <1>8, <1>9 DEF Store, RootOver, SamePairs
  <1>12. RootAbove(node', node, old, new, r)
    <2>1. \A q \in Nds(node) : r \notin Gone(node[q])
      BY <1>3, <1>4, FreshIs
    <2>2. \A q \in Nds(node) : /\ SameList(node'[q], node[q])
                               /\ node'[q].parent = IF q \in {old, new} THEN r ELSE node[q].parent
      BY <1>8, SamePairsIs DEF Nds
    <2>3. Gone(node'[r]) \cap Nds(node') = {}
      <3>1. 0 \notin Nds(node')
        BY <1>11, NdsIs, PagesIs
      <3> QED BY <1>7, <3>1 DEF RootOver
    <2> QED BY <1>5, <1>7, <1>9, <1>10, <2>1, <2>2, <2>3 DEF RootAbove, RootOver
  <1>13. PICK g : g = [h EXCEPT ![r] = h[old] + 1]
    OBVIOUS
  <1>14. g \in [Pages -> Nat] /\ g[r] = h[old] + 1 /\ \A q \in Nds(node) : g[q] = h[q]
    <2>1. h[old] + 1 \in Nat
      BY <1>5
    <2> QED BY <1>7, <1>9, <1>13, <2>1
  <1>15. Tree(node', {r}, g)
    <2>1. Tree(node, {old, new}, h) /\ h[old] = h[new]
      BY <1>5, <1>7
    <2> QED BY <1>12, <1>14, <2>1, TreeNewRoot
  <1>16. hdr'.root = r /\ hdr'.num_pages = hdr.num_pages + 1 /\ HdrType'
    <2>1. hdr.num_pages + 1 \in Int
      BY DEF HdrType
    <2> QED BY <1>4, <1>7, <2>1 DEF HdrType
  <1>17. op'.pc = "return" /\ op'.page = op.page /\ op'.stack = op.stack /\ OpType'
    BY <1>4, <1>5 DEF OpType, PCs
  <1>18. Tops' = {r}
    BY <1>16, <1>17 DEF Tops
  <1>19. OpInv(g)'
    <2>1. FramesInv(g)'
      <3> SUFFICES ASSUME NEW k \in 1..Len(op.stack) PROVE FrameAt(op.stack[k], k, node', g)
        BY <1>17 DEF FramesInv
      <3>1. FrameAt(op.stack[k], k, node, h)
        BY <1>5 DEF FramesInv
      <3> QED BY <1>10, <1>14, <3>1 DEF FrameAt
    <2> QED BY <1>5, <1>17, <2>1 DEF OpInv, ReturnInv
  <1>20. SizesInv'
    <2> SUFFICES ASSUME NEW q \in Nds(node) \cup {r} PROVE SizeOK(q, Size(node[q]))'
      BY <1>10 DEF SizesInv
    <2>1. CASE q = r
      <3>1. Size(node'[q]) = 2
        BY <1>7, <2>1 DEF RootOver
      <3> QED BY <1>16, <1>17, <2>1, <3>1, Sizes DEF SizeOK
    <2>2. CASE q # r
      <3>1. Size(node'[q]) = Size(node[q])
        BY <1>8, <2>2, SamePairsIs DEF Nds
      <3>2. Size(node[q]) \in Nat /\ Size(node[q]) < MaxSize /\ Size(node[q]) >= MinSize
        BY <1>5, <1>6, <1>7, <2>2
      <3> QED BY <1>16, <1>17, <2>2, <3>1, <3>2 DEF SizeOK
    <2> QED BY <2>1, <2>2
  <1>21. HdrInv'
    <2>1. Cardinality(Nds(node')) = Cardinality(Nds(node)) + 1 /\ Cardinality(Nds(node)) \in Nat
      BY <1>9, <1>10, NdsIs, CardIs
    <2> QED BY <1>7, <1>16, <2>1 DEF TreeInv, HdrInv, RootOver
  <1>22. TreeInv(g)'
    BY <1>11, <1>15, <1>18, <1>19, <1>20, <1>21 DEF TreeInv
  <1>23. PinsInv'
    <2>1. Held' = Held
      BY <1>4, <1>17, SMTT(30) DEF Held
    <2> QED BY <1>4, <2>1, PinSame
  <1> QED BY <1>14, <1>16, <1>22, <1>23

-----------------------------------------------------------------------------
(* InsertIntoParent.                                                       *)

\* A node q before and after new becomes a child of p, whose node is then n.
AddedAs(m, k, q, p, n, new) ==
  /\ NodeOK(m) /\ m.prev = k.prev /\ m.next = k.next
  /\ IF q = p THEN m = n ELSE SamePairs(m, k)
  /\ m.parent = IF q = new THEN p ELSE k.parent

\* The parent p of old, with new after old: i is the place of old.
ParentWith(n, m, i, key, new) ==
  /\ IsInsert(n, m, i, <<key>>, <<new>>) /\ Size(n) = Size(m) + 1
  /\ Children(n) = Children(m) \cup {new} /\ Distinct(n.vals)

\* What InsertIntoParent does to the nodes below the root.
LEMMA InsertIntoParentNodes ==
  ASSUME NEW h, TreeInv(h), InsertIntoParent, NEW old, old = Frame[1], NEW new, new = Frame[2],
         NEW p, p = node[old].parent, NEW key, key = KeyAt(node[new], 0),
         NEW n, n = insert_pair(node[p], find_child(node[p], old) + 1, key, new)
  PROVE  /\ p \in Nds(node) /\ p # new /\ ~node[p].leaf /\ old \in Children(node[p])
         /\ h[p] = Len(op.stack) /\ DOMAIN node' = DOMAIN node
         /\ (\E i \in 1..Size(node[p]) : node[p].vals[i] = old /\ ParentWith(n, node[p], i, key, new))
         /\ \A q \in DOMAIN node : AddedAs(node'[q], node[q], q, p, n, new)
  <1>1. op.pc = "parent" /\ ~IsRoot(op.page)
    BY DEF InsertIntoParent
  <1>2. op.page = old
    BY <1>1 DEF TreeInv, OpInv, ParentInv
  <1>3. /\ old \in Nds(node) /\ new \in Nds(node) /\ old # new /\ new # hdr.root
        /\ Tree(node, {hdr.root, new}, h) /\ h[old] = Len(op.stack) - 1 /\ h[new] = Len(op.stack) - 1
        /\ Len(op.stack) \in Nat \ {0}
    BY <1>1, ParentIs
  <1>4. key \in Keys
    BY <1>1, ParentIs
  <1>5. \A q \in Nds(node) : Size(node[q]) \in Nat /\ Size(node[q]) < MaxSize
    BY <1>1, ParentIs
  <1>6. /\ p \in Nds(node) /\ old \in Children(node[p]) /\ h[p] = h[old] + 1 /\ h[old] \in Nat
        /\ ~node[p].leaf
    BY <1>1, <1>2, <1>3, RootIs
  <1>7. h[p] = Len(op.stack) /\ p # new /\ p # old
    BY <1>3, <1>6
  <1>8. Store(node) /\ \A q \in DOMAIN node : NodeOK(node[q])
    BY DEF TreeInv, Store
  <1>9. NodeOK(node[p]) /\ NodeOK(node[new]) /\ p \in DOMAIN node /\ new \in DOMAIN node
        /\ p \in Pages /\ new \in Pages
    BY <1>3, <1>6, <1>8, NdsIs
  <1>10. PICK i \in 1..Size(node[p]) : node[p].vals[i] = old /\ find_child(node[p], old) = i - 1
    <2>1. PICK T : T = {hdr.root, new}
      OBVIOUS
    <2>2. Store(node) /\ Tree(node, T, h) /\ p \in Nds(node) /\ old \in Children(node[p])
      BY <1>3, <1>6, <1>8, <2>1
    <2>3. ListedAt(node[p], old)
      BY <2>2, ChildIndex
    <2> QED BY <2>3 DEF ListedAt
  <1>11. n = insert_pair(node[p], i, key, new)
    <2>1. find_child(node[p], old) + 1 = i
      BY <1>5, <1>6, <1>10
    <2> QED BY <2>1
  <1>12. new \notin Children(node[p])
    BY <1>3, <1>6, SMTT(30) DEF Tree, Up
  <1>13. ParentWith(n, node[p], i, key, new)
    <2>1. i \in 0..Size(node[p]) /\ Size(node[p]) < MaxSize
      BY <1>5, <1>6, <1>10
    <2>2. new \in Slots /\ Distinct(node[p].vals)
      BY <1>3, <1>6, <1>9 DEF Slots, Tree, Once
    <2>3. new \notin Elems(node[p].vals)
      BY <1>6, <1>12, ChildrenIs
    <2>4. /\ IsInsert(n, node[p], i, <<key>>, <<new>>) /\ Size(n) = Size(node[p]) + 1
          /\ Children(n) = Children(node[p]) \cup (IF node[p].leaf THEN {} ELSE {new})
          /\ Distinct(node[p].vals) /\ new \notin Elems(node[p].vals) => Distinct(n.vals)
      BY <1>4, <1>9, <1>11, <2>1, <2>2, InsertPairIs
    <2> QED BY <1>6, <2>2, <2>3, <2>4 DEF ParentWith
  <1>14. node' = [node EXCEPT ![p] = n, ![new].parent = p]
    BY <1>2 DEF InsertIntoParent
  <1>15. DOMAIN node' = DOMAIN node /\ \A q \in DOMAIN node :
           node'[q] = IF q = p THEN n ELSE IF q = new THEN Reparented(node[q], p) ELSE node[q]
    BY <1>7, <1>9, <1>14 DEF Reparented
  <1>16. ASSUME NEW q \in DOMAIN node PROVE AddedAs(node'[q], node[q], q, p, n, new)
    <2>1. CASE q = p
      BY <1>7, <1>13, <1>15, <2>1 DEF AddedAs, ParentWith, IsInsert, SameLinks
    <2>2. CASE q = new
      BY <1>7, <1>9, <1>15, <2>2, ReparentIs DEF AddedAs
    <2>3. CASE q # p /\ q # new
      BY <1>8, <1>15, <2>3 DEF AddedAs, SamePairs
    <2> QED BY <2>1, <2>2, <2>3, SMTT(30)
  <1> QED BY <1>6, <1>7, <1>10, <1>13, <1>15, <1>16

\* InsertIntoParent keeps the invariant.
LEMMA InsertIntoParentStep ==
  ASSUME NEW h, TreeInv(h), PinsInv, InsertIntoParent
  PROVE  TreeInv(h)' /\ PinsInv' /\ hdr' = hdr
  <1>1. PICK old : old = Frame[1]
    OBVIOUS
  <1>2. PICK new : new = Frame[2]
    OBVIOUS
  <1>3. PICK p : p = node[old].parent
    OBVIOUS
  <1>4. PICK key : key = KeyAt(node[new], 0)
    OBVIOUS
  <1>5. PICK n : n = insert_pair(node[p], find_child(node[p], old) + 1, key, new)
    OBVIOUS
  <1>6. /\ op.pc = "parent" /\ hdr' = hdr
        /\ IF Size(n) = MaxSize
           THEN op' = Op("split", p, op.stack) /\ pins' = Pin({p})
           ELSE op' = [op EXCEPT !.pc = "return"] /\ pins' = pins
    BY <1>1, <1>2, <1>3, <1>4, <1>5 DEF InsertIntoParent
  <1>7. /\ p \in Nds(node) /\ p # new /\ ~node[p].leaf /\ old \in Children(node[p])
        /\ h[p] = Len(op.stack) /\ DOMAIN node' = DOMAIN node
        /\ \E i \in 1..Size(node[p]) : node[p].vals[i] = old /\ ParentWith(n, node[p], i, key, new)
    BY <1>1, <1>2, <1>3, <1>4, <1>5, InsertIntoParentNodes
  <1>8. \A q \in DOMAIN node : AddedAs(node'[q], node[q], q, p, n, new)
    BY <1>1, <1>2, <1>3, <1>4, <1>5, InsertIntoParentNodes
  <1>9. PICK i \in 1..Size(node[p]) : ParentWith(n, node[p], i, key, new)
    BY <1>7
  <1>10. /\ OpType /\ new \in Nds(node) /\ new # hdr.root /\ hdr.root \in Nds(node)
         /\ Tree(node, {hdr.root, new}, h) /\ h[new] = Len(op.stack) - 1
         /\ Len(op.stack) \in Nat \ {0} /\ FramesInv(h)
    BY <1>1, <1>2, <1>6, ParentIs
  <1>11. \A q \in Nds(node) : /\ Size(node[q]) \in Nat /\ Size(node[q]) < MaxSize
                              /\ q # hdr.root => Size(node[q]) >= MinSize
                              /\ q = hdr.root /\ ~node[q].leaf => Size(node[q]) >= 2
    BY <1>1, <1>2, <1>6, ParentIs
  <1>12. Nds(node') = Nds(node) /\ Store(node) /\ p \in DOMAIN node /\ p \in Pages /\ node'[p] = n
    <2>1. Nds(node') = Nds(node) /\ Store(node) /\ p \in DOMAIN node /\ p \in Pages
      BY <1>7, NdsIs DEF Nds, TreeInv
    <2> QED BY <1>8, <2>1 DEF AddedAs
  <1>13. \A q \in DOMAIN node : NodeOK(node'[q]) /\ (q # p => SamePairs(node'[q], node[q]))
                                /\ (node'[q].leaf <=> node[q].leaf)
    <2>1. n.leaf <=> node[p].leaf
      BY <1>9 DEF ParentWith, IsInsert, SameLinks
    <2> QED BY <1>8, <2>1 DEF AddedAs, SamePairs
  <1>14. Store(node')
    BY <1>7, <1>12, <1>13 DEF Store
  <1>15. ChildAdded(node', node, p, new)
    <2>1. \A q \in Nds(node) : /\ (node'[q].leaf <=> node[q].leaf)
                               /\ node'[q].parent = IF q = new THEN p ELSE node[q].parent
      BY <1>8, <1>13 DEF AddedAs, Nds
    <2>2. \A q \in Nds(node) : q # p => SameList(node'[q], node[q])
      BY <1>13, SamePairsIs DEF Nds
    <2>3. /\ Children(node'[p]) = Children(node[p]) \cup {new} /\ Gone(node'[p]) \subseteq Gone(node[p])
          /\ Distinct(node'[p].vals)
      BY <1>9, <1>12 DEF ParentWith, IsInsert
    <2> QED BY <1>7, <1>10, <1>12, <2>1, <2>2, <2>3 DEF ChildAdded
  <1>16. Tree(node', {hdr.root}, h)
    <2>1. Tree(node, {hdr.root} \cup {new}, h) /\ new \notin {hdr.root} /\ h[p] = h[new] + 1
      <3>1. {hdr.root} \cup {new} = {hdr.root, new}
        OBVIOUS
      <3>2. Tree(node, {hdr.root} \cup {new}, h)
        BY <1>10, <3>1, Zenon
      <3>3. new \notin {hdr.root} /\ h[p] = h[new] + 1
        BY <1>7, <1>10
      <3> QED BY <3>2, <3>3
    <2> QED BY <1>15, <2>1, TreeAdd
  <1>17. Size(n) = Size(node[p]) + 1 /\ Size(node[p]) \in Nat /\ Size(n) <= MaxSize
    BY <1>7, <1>9, <1>11, Sizes DEF ParentWith
  <1>18. \/ /\ Size(n) = MaxSize /\ op'.pc = "split" /\ op'.page = p /\ pins' = Pin({p})
         \/ Size(n) < MaxSize /\ op'.pc = "return" /\ pins' = pins
    <2>1. CASE Size(n) = MaxSize
      BY <1>6, <2>1 DEF Op
    <2>2. CASE Size(n) # MaxSize
      <3>1. op' = [op EXCEPT !.pc = "return"] /\ pins' = pins /\ Size(n) < MaxSize
        BY <1>6, <1>17, <2>2, Sizes
      <3> QED BY <1>10, <3>1 DEF OpType
    <2> QED BY <2>1, <2>2
  <1>19. op'.stack = op.stack /\ OpType'
    <2>1. op.stack \in Seq(Seq(Pages))
      BY <1>10 DEF OpType
    <2>2. CASE Size(n) = MaxSize
      BY <1>6, <1>12, <2>1, <2>2 DEF OpType, Op, PCs
    <2>3. CASE Size(n) # MaxSize
      BY <1>6, <1>10, <2>3 DEF OpType, PCs
    <2> QED BY <2>2, <2>3
  <1>20. Tops' = {hdr.root}
    BY <1>6, <1>18 DEF Tops
  <1>21. OpInv(h)'
    <2>1. FramesInv(h)'
      BY <1>10, <1>12, <1>19 DEF FramesInv, FrameAt
    <2>2. CASE op'.pc = "split"
      <3>1. SplitInv(h)'
        BY <1>7, <1>12, <1>18, <1>19, <2>1, <2>2 DEF SplitInv
      <3> QED BY <1>19, <2>2, <3>1 DEF OpInv
    <2>3. CASE op'.pc = "return"
      BY <1>10, <1>19, <2>1, <2>3 DEF OpInv, ReturnInv
    <2> QED BY <1>18, <2>2, <2>3
  <1>22. SizesInv'
    <2> SUFFICES ASSUME NEW q \in Nds(node) PROVE SizeOK(q, Size(node[q]))'
      BY <1>12 DEF SizesInv
    <2>1. /\ Size(node[q]) \in Nat /\ Size(node[q]) < MaxSize
          /\ q # hdr.root => Size(node[q]) >= MinSize
          /\ q = hdr.root /\ ~node[q].leaf => Size(node[q]) >= 2
      BY <1>11
    <2>2. node'[q].leaf <=> node[q].leaf
      BY <1>13 DEF Nds
    <2>3. CASE q = p
      <3>1. Size(node'[q]) = Size(n) /\ Size(n) = Size(node[q]) + 1
        BY <1>12, <1>17, <2>3
      <3> QED BY <1>6, <1>17, <1>18, <2>1, <2>2, <2>3, <3>1, Sizes DEF SizeOK
    <2>4. CASE q # p
      <3>1. Size(node'[q]) = Size(node[q])
        BY <1>13, <2>4, SamePairsIs DEF Nds
      <3> QED BY <1>6, <2>1, <2>2, <3>1, Sizes DEF SizeOK
    <2> QED BY <2>3, <2>4
  <1>23. HdrInv'
    <2>1. node'[hdr.root].parent = node[hdr.root].parent
      BY <1>8, <1>10 DEF AddedAs, Nds
    <2> QED BY <1>6, <1>12, <2>1 DEF TreeInv, HdrInv
  <1>24. PinsInv'
    <2>1. CASE op'.pc = "return"
      <3>1. Held' = Held /\ pins' = pins
        BY <1>6, <1>18, <1>19, <2>1 DEF Held
      <3> QED BY <3>1, PinSame
    <2>2. CASE op'.pc = "split"
      <3>1. op'.page = p /\ pins' = Pin({p})
        BY <1>18, <2>2
      <3>2. Held' = Held \cup {p}
        BY <1>6, <1>12, <1>19, <2>2, <3>1 DEF Held
      <3>3. p \notin Held
        <4> SUFFICES ASSUME p \in Held PROVE FALSE
          OBVIOUS
        <4>1. PICK k \in 1..Len(op.stack) : p \in Elems(op.stack[k])
          BY <1>6 DEF Held
        <4>2. FrameAt(op.stack[k], k, node, h)
          BY <1>10 DEF FramesInv
        <4>3. h[p] = k - 1
          BY <4>1, <4>2, FrameElems DEF FrameAt
        <4> QED BY <1>7, <1>10, <4>3
      <3> QED BY <3>1, <3>2, <3>3, PinStep
    <2> QED BY <1>18, <2>1, <2>2
  <1> QED BY <1>6, <1>14, <1>16, <1>20, <1>21, <1>22, <1>23, <1>24 DEF TreeInv

-----------------------------------------------------------------------------
(* AdjustRoot.                                                             *)

\* A node that CoalesceOrRedistribute looks at, and what it holds.
LEMMA FixIs ==
  ASSUME NEW h, TreeInv(h), Underflows, NEW x, x = op.page
  PROVE  /\ op.pc = "fix" /\ x \in Nds(node) /\ x \in Pages /\ Size(node[x]) < MinSize
         /\ Held = {x} /\ op.stack = <<>> /\ Tops = {hdr.root} /\ Tree(node, {hdr.root}, h)
         /\ Store(node) /\ hdr.root \in Nds(node)
         /\ \A q \in Nds(node) :
              /\ NodeOK(node[q]) /\ Size(node[q]) \in Nat /\ Size(node[q]) < MaxSize
              /\ (q # hdr.root => Size(node[q]) >= (IF q = x THEN MinSize - 1 ELSE MinSize))
              /\ (q = hdr.root /\ ~node[q].leaf => Size(node[q]) >= (IF q = x THEN 1 ELSE 2))
  <1>1. op.pc = "fix" /\ Size(node[x]) < MinSize
    BY DEF Underflows
  <1>2. x \in Nds(node) /\ op.stack = <<>>
    BY <1>1 DEF TreeInv, OpInv, FixInv
  <1>3. Store(node) /\ x \in Pages
    BY <1>2, NdsIs DEF TreeInv
  <1>4. Held = {x}
    BY <1>1, <1>2, <1>3 DEF Held
  <1>5. Tops = {hdr.root} /\ Tree(node, {hdr.root}, h) /\ hdr.root \in Nds(node)
    BY <1>1 DEF Tops, TreeInv, Tree, Up
  <1>6. ASSUME NEW q \in Nds(node)
        PROVE  /\ NodeOK(node[q]) /\ Size(node[q]) \in Nat /\ Size(node[q]) < MaxSize
               /\ (q # hdr.root => Size(node[q]) >= (IF q = x THEN MinSize - 1 ELSE MinSize))
               /\ (q = hdr.root /\ ~node[q].leaf => Size(node[q]) >= (IF q = x THEN 1 ELSE 2))
    <2>1. NodeOK(node[q]) /\ Size(node[q]) \in Nat /\ SizeOK(q, Size(node[q]))
      BY <1>3, NdsIs, NodeIs DEF TreeInv, SizesInv
    <2> QED BY <1>1, <2>1, Sizes DEF SizeOK
  <1> QED BY <1>1, <1>2, <1>3, <1>4, <1>5, <1>6

\* AdjustRoot keeps the invariant, or leaves the index without a root.
LEMMA AdjustRootStep ==
  ASSUME NEW h, TreeInv(h), HdrType, PinsInv, AdjustRoot
  PROVE  (TreeInv(h)' \/ (hdr'.root = IX_NO_PAGE /\ op' = Idle)) /\ PinsInv' /\ HdrType'
  <1>1. PICK r : r = op.page
    OBVIOUS
  <1>2. PICK only : only = ValueAt(node[r], 0)
    OBVIOUS
  <1>3. /\ Underflows /\ IsRoot(r) /\ pins' = Unpin({r}) /\ op' = Idle
    BY <1>1 DEF AdjustRoot
  <1>4. /\ op.pc = "fix" /\ r \in Nds(node) /\ r \in Pages /\ Held = {r} /\ op.stack = <<>>
        /\ Tree(node, {hdr.root}, h) /\ Store(node)
    BY <1>1, <1>3, FixIs
  <1>5. \A q \in Nds(node) :
              /\ NodeOK(node[q]) /\ Size(node[q]) \in Nat /\ Size(node[q]) < MaxSize
              /\ (q # hdr.root => Size(node[q]) >= (IF q = r THEN MinSize - 1 ELSE MinSize))
              /\ (q = hdr.root /\ ~node[q].leaf => Size(node[q]) >= (IF q = r THEN 1 ELSE 2))
    BY <1>1, <1>3, FixIs
  <1>6. r = hdr.root
    BY <1>3, <1>4, RootIs
  <1>7. PinsInv'
    <2>1. Held' = {}
      BY <1>3 DEF Held, Idle, Op
    <2> QED BY <1>3, <1>4, <2>1, UnpinStep
  <1>8. CASE ~node[r].leaf /\ Size(node[r]) = 1
    <2>1. /\ node' = [q \in DOMAIN node \ {r} |->
                        IF q = only THEN Reparented(node[q], IX_NO_PAGE) ELSE node[q]]
          /\ hdr' = [hdr EXCEPT !.root = only, !.num_pages = @ - 1]
      BY <1>1, <1>2, <1>8 DEF AdjustRoot, Reparented
    <2>2. DOMAIN node' = DOMAIN node \ {r} /\ \A q \in DOMAIN node \ {r} :
            node'[q] = IF q = only THEN Reparented(node[q], IX_NO_PAGE) ELSE node[q]
      BY <2>1
    <2>3. Children(node[r]) = {only}
      <3>1. NodeOK(node[r]) /\ 0 \in 0..(Size(node[r]) - 1)
        BY <1>4, <1>5, <1>8
      <3>2. only = node[r].vals[0 + 1] /\ Len(node[r].vals) = 1
        BY <1>2, <1>8, <3>1, ValueAtIs, NodeIs
      <3>3. Elems(node[r].vals) = {only}
        BY <3>2 DEF Elems
      <3> QED BY <1>8, <3>3, ChildrenIs
    <2>4. \A q \in DOMAIN node : NodeOK(node[q])
      BY <1>4 DEF Store
    <2>5. ASSUME NEW q \in DOMAIN node' PROVE /\ NodeOK(node'[q]) /\ SamePairs(node'[q], node[q])
                                              /\ (q # only => node'[q].parent = node[q].parent)
                                              /\ (q = only => node'[q].parent = IX_NO_PAGE)
      <3>1. q \in DOMAIN node \ {r}
        BY <2>2
      <3>2. CASE q = only
        BY <2>2, <2>4, <3>1, <3>2, ReparentIs
      <3>3. CASE q # only
        BY <2>2, <2>4, <3>1, <3>3 DEF SamePairs
      <3> QED BY <3>2, <3>3
    <2>6. Nds(node') = Nds(node) \ {r}
      BY <2>2 DEF Nds
    <2>7. Store(node')
      <3>1. r # IX_LEAF_HEADER_PAGE
        BY <1>4 DEF Nds
      <3> QED BY <1>4, <2>2, <2>5, <3>1 DEF Store, SamePairs
    <2>8. RootDropped(node', node, r, only)
      <3>1. \A q \in Nds(node') : SameList(node'[q], node[q]) /\ (q # only => node'[q].parent = node[q].parent)
        BY <2>5, SamePairsIs DEF Nds
      <3> QED BY <1>4, <2>3, <2>6, <3>1 DEF RootDropped
    <2>9. Tree(node', {only}, h) /\ only \in Nds(node)
      BY <1>4, <1>6, <2>8, TreeDrop
    <2>10. only \in Nds(node') /\ only \in Pages
      BY <1>4, <2>9, NdsIs DEF Tree, Up
    <2>11. hdr'.root = only /\ hdr'.num_pages = hdr.num_pages - 1 /\ HdrType'
      <3>1. hdr.num_pages - 1 \in Int
        BY DEF HdrType
      <3> QED BY <2>1, <2>10, <3>1 DEF HdrType
    <2>12. op'.pc = "idle" /\ op' = Idle /\ OpType'
      BY <1>3 DEF Idle, Op, OpType, PCs
    <2>13. OpInv(h)' /\ Tops' = {only}
      BY <2>11, <2>12 DEF OpInv, Tops
    <2>14. SizesInv'
      <3> SUFFICES ASSUME NEW q \in Nds(node) \ {r} PROVE SizeOK(q, Size(node[q]))'
        BY <2>6 DEF SizesInv
      <3>1. Size(node[q]) \in Nat /\ Size(node[q]) < MaxSize /\ Size(node[q]) >= MinSize
        BY <1>5, <1>6
      <3>2. Size(node'[q]) = Size(node[q])
        BY <2>5, <2>6, SamePairsIs DEF Nds
      <3> QED BY <2>12, <3>1, <3>2, Sizes DEF SizeOK
    <2>15. HdrInv'
      <3>1. Cardinality(Nds(node')) = Cardinality(Nds(node)) - 1 /\ Cardinality(Nds(node)) \in Nat
        BY <1>4, <2>6, NdsIs, CardIs
      <3>2. node'[only].parent = IX_NO_PAGE
        BY <2>5, <2>10 DEF Nds
      <3> QED BY <2>10, <2>11, <3>1, <3>2 DEF TreeInv, HdrInv
    <2> QED BY <1>7, <2>7, <2>9, <2>11, <2>13, <2>14, <2>15 DEF TreeInv
  <1>9. CASE node[r].leaf /\ Size(node[r]) = 0
    <2>1. hdr' = [hdr EXCEPT !.root = IX_NO_PAGE, !.num_pages = @ - 1]
      BY <1>1, <1>9 DEF AdjustRoot
    <2>2. hdr.num_pages - 1 \in Int
      BY DEF HdrType
    <2>3. hdr'.root = IX_NO_PAGE /\ HdrType'
      BY <2>1, <2>2 DEF HdrType
    <2> QED BY <1>3, <1>7, <2>3
  <1>10. CASE ~(~node[r].leaf /\ Size(node[r]) = 1) /\ ~(node[r].leaf /\ Size(node[r]) = 0)
    <2>1. node' = node /\ hdr' = hdr
      BY <1>1, <1>10 DEF AdjustRoot
    <2>2. ASSUME NEW q \in Nds(node)
          PROVE  /\ q # hdr.root => Size(node[q]) >= MinSize
                 /\ q = hdr.root /\ ~node[q].leaf => Size(node[q]) >= 2
      <3>1. CASE q = r
        <4>1. Size(node[r]) \in Nat /\ (~node[r].leaf => Size(node[r]) >= 1)
          BY <1>4, <1>5, <1>6
        <4> QED BY <1>6, <1>10, <3>1, <4>1
      <3>2. CASE q # r
        BY <1>5, <1>6, <3>2
      <3> QED BY <3>1, <3>2
    <2>3. TreeInv(h)'
      BY <1>3, <1>4, <2>1, <2>2, CallEnds
    <2> QED BY <1>7, <2>1, <2>3 DEF HdrType
  <1> QED BY <1>8, <1>9, <1>10

-----------------------------------------------------------------------------
(* Redistribute.                                                           *)

\* x and y are neighbours below p: x at index idx, y before it, or after it if idx = 0.
Siblings(ns, h, x, y, p, idx) ==
  /\ x \in Nds(ns) /\ y \in Nds(ns) /\ p \in Nds(ns) /\ x # y /\ x # p /\ y # p
  /\ x \in Children(ns[p]) /\ y \in Children(ns[p]) /\ ~ns[p].leaf
  /\ ns[x].parent = p /\ ns[y].parent = p
  /\ h[x] = h[y] /\ h[p] = h[x] + 1 /\ h[x] \in Nat /\ (ns[x].leaf <=> ns[y].leaf)
  /\ idx \in 0..(Size(ns[p]) - 1) /\ ns[p].vals[idx + 1] = x
  /\ (idx > 0 => ns[p].vals[idx] = y)
  /\ (idx = 0 => Size(ns[p]) > 1 /\ ns[p].vals[2] = y)
  /\ find_child(ns[p], x) = idx /\ find_child(ns[p], y) = IF idx > 0 THEN idx - 1 ELSE 1

\* The neighbour that CoalesceOrRedistribute picks is a sibling.
LEMMA SiblingsIs ==
  ASSUME NEW h, TreeInv(h), Underflows, ~IsRoot(op.page),
         NEW x, x = op.page, NEW p, p = Parent, NEW idx, idx = Index, NEW y, y = Neighbor
  PROVE  Siblings(node, h, x, y, p, idx) /\ x # hdr.root /\ y # hdr.root
  <1>1. /\ op.pc = "fix" /\ x \in Nds(node) /\ Tree(node, {hdr.root}, h) /\ Store(node)
    BY FixIs
  <1>2. \A q \in Nds(node) :
              /\ NodeOK(node[q]) /\ Size(node[q]) \in Nat /\ Size(node[q]) < MaxSize
              /\ (q # hdr.root => Size(node[q]) >= (IF q = x THEN MinSize - 1 ELSE MinSize))
              /\ (q = hdr.root /\ ~node[q].leaf => Size(node[q]) >= (IF q = x THEN 1 ELSE 2))
    BY FixIs
  <1>3. p = node[x].parent /\ idx = find_child(node[p], x)
        /\ y = ValueAt(node[p], IF idx > 0 THEN idx - 1 ELSE idx + 1)
    BY DEF Parent, Index, Neighbor
  <1>4. /\ p \in Nds(node) /\ x \in Children(node[p]) /\ h[p] = h[x] + 1 /\ h[x] \in Nat /\ ~node[p].leaf
        /\ x # hdr.root
    BY <1>1, <1>3, RootIs
  <1>5. x # p
    BY <1>4
  <1>6. NodeOK(node[p]) /\ Size(node[p]) \in Nat /\ Size(node[p]) >= 2 /\ Distinct(node[p].vals)
        /\ Len(node[p].vals) = Size(node[p])
    <2>1. NodeOK(node[p]) /\ Size(node[p]) \in Nat /\ Distinct(node[p].vals)
      BY <1>1, <1>2, <1>4 DEF Tree, Once
    <2>2. Size(node[p]) >= 2
      BY <1>2, <1>4, <1>5, Sizes
    <2> QED BY <2>1, <2>2, NodeIs
  <1>7. PICK i \in 1..Size(node[p]) : node[p].vals[i] = x /\ find_child(node[p], x) = i - 1
    <2>1. ListedAt(node[p], x)
      BY <1>1, <1>4, ChildIndex
    <2> QED BY <2>1 DEF ListedAt
  <1>8. idx = i - 1 /\ idx \in 0..(Size(node[p]) - 1) /\ idx + 1 = i
    BY <1>3, <1>6, <1>7
  <1>9. PICK j : j = IF idx > 0 THEN idx ELSE 2
    OBVIOUS
  <1>10. j \in 1..Size(node[p]) /\ j # i
    BY <1>6, <1>7, <1>8, <1>9, SMTT(30)
  <1>11. y = node[p].vals[j]
    <2>1. PICK k : k = IF idx > 0 THEN idx - 1 ELSE idx + 1
      OBVIOUS
    <2>2. k \in 0..(Size(node[p]) - 1) /\ k + 1 = j
      BY <1>6, <1>8, <1>9, <1>10, <2>1
    <2>3. ValueAt(node[p], k) = node[p].vals[k + 1]
      BY <1>6, <2>2, ValueAtIs
    <2> QED BY <1>3, <2>1, <2>2, <2>3
  <1>12. y # x /\ y \in Children(node[p])
    <2>1. y # x
      BY <1>6, <1>7, <1>10, <1>11 DEF Distinct
    <2>2. y \in Elems(node[p].vals)
      BY <1>6, <1>10, <1>11 DEF Elems
    <2> QED BY <1>4, <2>1, <2>2, ChildrenIs
  <1>13. y \in Nds(node) /\ node[y].parent = p /\ h[p] = h[y] + 1 /\ h[y] \in Nat
         /\ (node[x].leaf <=> h[x] = 0) /\ (node[y].leaf <=> h[y] = 0)
    BY <1>1, <1>4, <1>12 DEF Tree, Down, Levels
  <1>14. y # hdr.root
    BY <1>1, <1>4, <1>12 DEF Tree, Up
  <1>15. find_child(node[p], y) = j - 1
    BY <1>6, <1>10, <1>11, FindChildIs, SMTT(30)
  <1>16. Siblings(node, h, x, y, p, idx)
    <2>1. h[x] = h[y] /\ y # p /\ (node[x].leaf <=> node[y].leaf)
      BY <1>4, <1>13
    <2>2. (idx > 0 => node[p].vals[idx] = y) /\ (idx = 0 => Size(node[p]) > 1 /\ node[p].vals[2] = y)
      BY <1>6, <1>9, <1>11
    <2>3. j - 1 = IF idx > 0 THEN idx - 1 ELSE 1
      BY <1>8, <1>9
    <2>4. find_child(node[p], y) = IF idx > 0 THEN idx - 1 ELSE 1
      BY <1>15, <2>3
    <2>5. node[p].vals[idx + 1] = x /\ find_child(node[p], x) = idx
      BY <1>7, <1>8
    <2> QED BY <1>1, <1>3, <1>4, <1>5, <1>8, <1>12, <1>13, <2>1, <2>2, <2>4, <2>5 DEF Siblings
  <1> QED BY <1>4, <1>14, <1>16

\* A node q before and after a pair with the value v goes from y to x, whose nodes are then ny and nx.
MovedAs(m, n, q, x, nx, y, ny, kids) ==
  /\ NodeOK(m) /\ m.prev = n.prev /\ m.next = n.next
  /\ IF q = x THEN SamePairs(m, nx) ELSE IF q = y THEN SamePairs(m, ny) ELSE SamePairs(m, n)
  /\ m.parent = IF q \in kids THEN x ELSE n.parent

\* Where the pair comes from and where it goes.
From(n, idx) == IF idx = 0 THEN 0 ELSE Size(n) - 1

To(n, idx) == IF idx = 0 THEN Size(n) ELSE 0

\* The pair (key, val) goes from y to x.
Moves(ns, x, y, from, to, key, val, nx, ny) ==
  /\ Size(ns[x]) = MinSize - 1 /\ Size(ns[y]) \in Nat /\ Size(ns[y]) >= MinSize + 1 /\ Size(ns[y]) < MaxSize
  /\ from \in 0..(Size(ns[y]) - 1) /\ to \in 0..Size(ns[x])
  /\ val = ns[y].vals[from + 1]
  /\ IsInsert(nx, ns[x], to, <<key>>, <<val>>) /\ IsErase(ny, ns[y], from)
  /\ Size(nx) = MinSize
  /\ Children(nx) = Children(ns[x]) \cup (IF ns[x].leaf THEN {} ELSE {val})
  /\ (~ns[x].leaf => val \in Children(ns[y]) /\ Distinct(nx.vals))

MovesAll(ms, ns, x, y, val, nx, ny) ==
  /\ DOMAIN ms = DOMAIN ns
  /\ \A q \in DOMAIN ns : MovedAs(ms[q], ns[q], q, x, nx, y, ny, IF ns[x].leaf THEN {} ELSE {val})

\* What Redistribute does to the nodes.
LEMMA RedistributeNodes ==
  ASSUME NEW h, TreeInv(h), Redistribute,
         NEW x, x = op.page, NEW p, p = Parent, NEW idx, idx = Index, NEW y, y = Neighbor,
         NEW from, from = From(node[y], idx), NEW to, to = To(node[x], idx),
         NEW key, key = KeyAt(node[y], from), NEW val, val = ValueAt(node[y], from),
         NEW nx, nx = insert_pair(node[x], to, key, val), NEW ny, ny = erase_pair(node[y], from)
  PROVE  /\ Siblings(node, h, x, y, p, idx) /\ x # hdr.root /\ y # hdr.root
         /\ Moves(node, x, y, from, to, key, val, nx, ny) /\ MovesAll(node', node, x, y, val, nx, ny)
  <1>1. Underflows /\ ~IsRoot(op.page) /\ Rich
    BY DEF Redistribute
  <1>2. Siblings(node, h, x, y, p, idx) /\ x # hdr.root /\ y # hdr.root
    BY <1>1, SiblingsIs
  <1>3. /\ x \in Nds(node) /\ y \in Nds(node) /\ p \in Nds(node) /\ x # y /\ x # p /\ y # p
        /\ (node[x].leaf <=> node[y].leaf) /\ h[x] = h[y] /\ idx \in 0..(Size(node[p]) - 1)
    BY <1>2 DEF Siblings
  <1>4. /\ Store(node) /\ Tree(node, {hdr.root}, h) /\ Size(node[x]) < MinSize
    BY <1>1, FixIs
  <1>5. /\ NodeOK(node[x]) /\ Size(node[x]) \in Nat /\ Size(node[x]) >= MinSize - 1
        /\ NodeOK(node[y]) /\ Size(node[y]) \in Nat /\ Size(node[y]) < MaxSize
        /\ Size(node[p]) \in Nat
    <2>1. \A q \in Nds(node) :
              /\ NodeOK(node[q]) /\ Size(node[q]) \in Nat /\ Size(node[q]) < MaxSize
              /\ (q # hdr.root => Size(node[q]) >= (IF q = x THEN MinSize - 1 ELSE MinSize))
              /\ (q = hdr.root /\ ~node[q].leaf => Size(node[q]) >= (IF q = x THEN 1 ELSE 2))
      BY <1>1, FixIs
    <2> QED BY <1>2, <1>3, <2>1
  <1>6. Size(node[x]) + Size(node[y]) >= 2 * MinSize
    BY <1>1 DEF Rich
  <1>7. Size(node[x]) = MinSize - 1 /\ Size(node[y]) >= MinSize + 1
    BY <1>4, <1>5, <1>6, Sizes
  <1>8. from \in 0..(Size(node[y]) - 1) /\ to \in 0..Size(node[x])
    BY <1>5, <1>7, Sizes DEF From, To
  <1>9. /\ node[y].keys \in Seq(Keys) /\ node[y].vals \in Seq(Slots)
        /\ Len(node[y].keys) = Size(node[y]) /\ Len(node[y].vals) = Size(node[y])
        /\ (~node[y].leaf => node[y].vals \in Seq(Pages))
    BY <1>5, NodeIs
  <1>10. val = node[y].vals[from + 1] /\ key = node[y].keys[from + 1] /\ from + 1 \in 1..Size(node[y])
    BY <1>5, <1>8, ValueAtIs DEF KeyAt
  <1>11. key \in Keys /\ val \in Slots /\ (~node[y].leaf => val \in Pages)
    BY <1>9, <1>10, SeqIs
  <1>12. /\ IsInsert(nx, node[x], to, <<key>>, <<val>>) /\ Size(nx) = Size(node[x]) + 1
         /\ Children(nx) = Children(node[x]) \cup (IF node[x].leaf THEN {} ELSE {val})
         /\ (Distinct(node[x].vals) /\ val \notin Elems(node[x].vals) => Distinct(nx.vals))
    <2>1. Size(node[x]) < MaxSize
      BY <1>5, <1>7, Sizes
    <2> QED BY <1>3, <1>5, <1>8, <1>11, <2>1, InsertPairIs
  <1>13. IsErase(ny, node[y], from)
    BY <1>5, <1>8, ErasePairIs
  <1>14. ASSUME ~node[x].leaf
         PROVE  /\ val \in Children(node[y]) /\ Distinct(nx.vals) /\ val \in Nds(node)
                /\ val # x /\ val # y
    <2>1. val \in Children(node[y])
      <3>1. val \in Elems(node[y].vals)
        BY <1>9, <1>10 DEF Elems
      <3> QED BY <1>3, <1>14, <3>1, ChildrenIs
    <2>2. val \in Nds(node) /\ node[val].parent = y /\ h[y] = h[val] + 1 /\ h[val] \in Nat
      BY <1>3, <1>4, <2>1 DEF Tree, Down, Levels
    <2>3. val \notin Children(node[x])
      BY <1>3, <1>4, <2>2 DEF Tree, Down
    <2>4. val \notin Elems(node[x].vals) /\ Distinct(node[x].vals)
      BY <1>3, <1>4, <1>14, <2>3, ChildrenIs DEF Tree, Once
    <2>5. val # x /\ val # y
      BY <1>3, <2>2
    <2> QED BY <1>12, <2>1, <2>2, <2>4, <2>5
  <1>15. PICK ms : ms = [node EXCEPT ![x] = nx, ![y] = ny]
    OBVIOUS
  <1>16. node' = IF node[x].leaf THEN ms ELSE Adopt(ms, {val}, x)
    <2>1. Index = idx /\ Neighbor = y /\ op.page = x
      OBVIOUS
    <2>2. from = (IF Index = 0 THEN 0 ELSE Size(node[y]) - 1) /\ to = IF Index = 0 THEN Size(node[x]) ELSE 0
      BY DEF From, To
    <2>3. ms = [node EXCEPT ![x] = insert_pair(@, to, key, val), ![y] = erase_pair(@, from)]
      BY <1>3, <1>15
    <2> QED BY <2>1, <2>2, <2>3 DEF Redistribute
  <1>17. x \in DOMAIN node /\ y \in DOMAIN node /\ x \in Pages
    BY <1>3, <1>4, NdsIs
  <1>18. DOMAIN ms = DOMAIN node
         /\ \A q \in DOMAIN node : ms[q] = IF q = x THEN nx ELSE IF q = y THEN ny ELSE node[q]
    BY <1>3, <1>15, <1>17
  <1>19. NodeOK(nx) /\ SameLinks(nx, node[x]) /\ NodeOK(ny) /\ SameLinks(ny, node[y])
    BY <1>12, <1>13 DEF IsInsert, IsErase
  <1>20. \A q \in DOMAIN node : NodeOK(node[q])
    BY <1>4 DEF Store
  <1>21. ASSUME NEW q \in DOMAIN node PROVE MovedAs(ms[q], node[q], q, x, nx, y, ny, {})
    <2>1. CASE q = x
      BY <1>3, <1>18, <1>19, <2>1 DEF MovedAs, SameLinks, SamePairs
    <2>2. CASE q = y
      BY <1>3, <1>18, <1>19, <2>2 DEF MovedAs, SameLinks, SamePairs
    <2>3. CASE q # x /\ q # y
      BY <1>18, <1>20, <2>3 DEF MovedAs, SamePairs
    <2> QED BY <2>1, <2>2, <2>3
  <1>22. DOMAIN node' = DOMAIN node /\ \A q \in DOMAIN node :
              MovedAs(node'[q], node[q], q, x, nx, y, ny, IF node[x].leaf THEN {} ELSE {val})
    <2>1. CASE node[x].leaf
      BY <1>16, <1>18, <1>21, <2>1
    <2>2. CASE ~node[x].leaf
      <3>1. node' = Adopt(ms, {val}, x)
        BY <1>16, <2>2
      <3>2. /\ DOMAIN node' = DOMAIN node
            /\ \A q \in DOMAIN node : node'[q] = IF q \in {val} THEN Reparented(ms[q], x) ELSE ms[q]
        BY <1>18, <3>1, AdoptIs
      <3>3. ASSUME NEW q \in DOMAIN node PROVE MovedAs(node'[q], node[q], q, x, nx, y, ny, {val})
        <4>1. CASE q = val
          <5>1. node'[q] = Reparented(node[q], x) /\ NodeOK(node[q]) /\ q # x /\ q # y
            BY <1>14, <1>18, <1>20, <2>2, <3>2, <4>1
          <5> QED BY <1>17, <4>1, <5>1, ReparentIs DEF MovedAs
        <4>2. CASE q # val
          BY <1>21, <3>2, <4>2 DEF MovedAs
        <4> QED BY <4>1, <4>2
      <3> QED BY <2>2, <3>2, <3>3
    <2> QED BY <2>1, <2>2
  <1>23. Size(nx) = MinSize
    BY <1>5, <1>7, <1>12, Sizes
  <1>24. Moves(node, x, y, from, to, key, val, nx, ny)
    BY <1>5, <1>7, <1>8, <1>10, <1>12, <1>13, <1>14, <1>23 DEF Moves
  <1>25. MovesAll(node', node, x, y, val, nx, ny)
    BY <1>22 DEF MovesAll
  <1> QED BY <1>2, <1>24, <1>25

\* A pair moved between siblings leaves a tree.
LEMMA RedistributeTree ==
  \A ns, ms, h, T, x, y, p, idx, from, to, key, val, nx, ny :
    (/\ Store(ns) /\ Tree(ns, T, h) /\ Siblings(ns, h, x, y, p, idx)
     /\ Moves(ns, x, y, from, to, key, val, nx, ny) /\ MovesAll(ms, ns, x, y, val, nx, ny))
      => /\ Store(ms) /\ Nds(ms) = Nds(ns) /\ Tree(ms, T, h)
         /\ \A q \in Nds(ns) : /\ (ms[q].leaf <=> ns[q].leaf)
                               /\ Size(ms[q]) = IF q = x THEN MinSize ELSE IF q = y THEN Size(ns[y]) - 1 ELSE Size(ns[q])
                               /\ (q \in T => ms[q].parent = ns[q].parent)
  <1> SUFFICES ASSUME NEW ns, NEW ms, NEW h, NEW T, NEW x, NEW y, NEW p, NEW idx, NEW from, NEW to,
                      NEW key, NEW val, NEW nx, NEW ny,
                      Store(ns), Tree(ns, T, h), Siblings(ns, h, x, y, p, idx),
                      Moves(ns, x, y, from, to, key, val, nx, ny), MovesAll(ms, ns, x, y, val, nx, ny)
               PROVE  /\ Store(ms) /\ Nds(ms) = Nds(ns) /\ Tree(ms, T, h)
                      /\ \A q \in Nds(ns) :
                           /\ (ms[q].leaf <=> ns[q].leaf)
                           /\ Size(ms[q]) = IF q = x THEN MinSize ELSE IF q = y THEN Size(ns[y]) - 1 ELSE Size(ns[q])
                           /\ (q \in T => ms[q].parent = ns[q].parent)
    OBVIOUS
  <1>1. /\ x \in Nds(ns) /\ y \in Nds(ns) /\ x # y /\ h[x] = h[y] /\ (ns[x].leaf <=> ns[y].leaf)
    BY DEF Siblings
  <1>2. PICK kids : kids = IF ns[x].leaf THEN {} ELSE {val}
    OBVIOUS
  <1>3. DOMAIN ms = DOMAIN ns /\ Nds(ms) = Nds(ns)
        /\ \A q \in DOMAIN ns : MovedAs(ms[q], ns[q], q, x, nx, y, ny, kids)
    BY <1>2 DEF MovesAll, Nds
  <1>4. \A q \in DOMAIN ns :
          /\ NodeOK(ms[q]) /\ ms[q].parent = (IF q \in kids THEN x ELSE ns[q].parent)
          /\ (q = x => SamePairs(ms[q], nx)) /\ (q = y => SamePairs(ms[q], ny))
          /\ (q # x /\ q # y => SamePairs(ms[q], ns[q]))
    BY <1>1, <1>3 DEF MovedAs
  <1>5. x \in DOMAIN ns /\ y \in DOMAIN ns /\ x # IX_LEAF_HEADER_PAGE /\ y # IX_LEAF_HEADER_PAGE
    BY <1>1 DEF Nds
  <1>6. Store(ms)
    BY <1>3, <1>4, <1>5 DEF Store, SamePairs
  <1>7. /\ IsInsert(nx, ns[x], to, <<key>>, <<val>>) /\ IsErase(ny, ns[y], from)
        /\ Size(nx) = MinSize
        /\ Children(nx) = Children(ns[x]) \cup (IF ns[x].leaf THEN {} ELSE {val})
        /\ (~ns[x].leaf => val \in Children(ns[y]) /\ Distinct(nx.vals))
        /\ val = ns[y].vals[from + 1]
    BY DEF Moves
  <1>8. /\ SameLinks(nx, ns[x]) /\ Gone(nx) \subseteq Gone(ns[x])
        /\ SameLinks(ny, ns[y]) /\ Size(ny) = Size(ns[y]) - 1 /\ Gone(ny) \subseteq Gone(ns[y]) \cup Children(ns[y])
        /\ (Distinct(ns[y].vals) => Distinct(ny.vals) /\ Children(ny) = Children(ns[y]) \ {val})
    BY <1>7 DEF IsInsert, IsErase
  <1>9. SamePairs(ms[x], nx) /\ SamePairs(ms[y], ny)
    BY <1>4, <1>5
  <1>10. ASSUME NEW q \in Nds(ns)
         PROVE  /\ (ms[q].leaf <=> ns[q].leaf)
                /\ Size(ms[q]) = IF q = x THEN MinSize ELSE IF q = y THEN Size(ns[y]) - 1 ELSE Size(ns[q])
    <2>1. q \in DOMAIN ns
      BY DEF Nds
    <2>2. CASE q = x
      <3>1. Size(ms[q]) = Size(nx) /\ (ms[q].leaf <=> nx.leaf)
        BY <1>9, <2>2, SamePairsIs DEF SamePairs
      <3> QED BY <1>7, <1>8, <2>2, <3>1 DEF SameLinks
    <2>3. CASE q = y
      <3>1. Size(ms[q]) = Size(ny) /\ (ms[q].leaf <=> ny.leaf)
        BY <1>9, <2>3, SamePairsIs DEF SamePairs
      <3> QED BY <1>1, <1>8, <2>3, <3>1 DEF SameLinks
    <2>4. CASE q # x /\ q # y
      <3>1. SamePairs(ms[q], ns[q])
        BY <1>4, <2>1, <2>4
      <3> QED BY <2>4, <3>1, SamePairsIs DEF SamePairs
    <2> QED BY <2>2, <2>3, <2>4
  <1>11. \A q \in Nds(ns) : q # x /\ q # y => SameList(ms[q], ns[q])
    BY <1>4, SamePairsIs DEF Nds
  <1>12. CASE ns[x].leaf
    <2>1. kids = {}
      BY <1>2, <1>12
    <2>2. \A q \in Nds(ns) : ms[q].parent = ns[q].parent
      BY <1>4, <2>1 DEF Nds
    <2>3. ns[y].leaf
      BY <1>1, <1>12
    <2>4. \A q \in Nds(ns) : ~ns[q].leaf => SameList(ms[q], ns[q])
      BY <1>11, <1>12, <2>3
    <2>5. Tree(ms, T, h)
      BY <1>3, <1>10, <2>2, <2>4, TreeSame
    <2> QED BY <1>3, <1>6, <1>10, <2>2, <2>5
  <1>13. CASE ~ns[x].leaf
    <2>1. kids = {val} /\ val \in Children(ns[y]) /\ Distinct(nx.vals) /\ Children(nx) = Children(ns[x]) \cup {val}
      BY <1>2, <1>7, <1>13
    <2>2. Distinct(ns[y].vals)
      BY <1>1, <1>13 DEF Tree, Once
    <2>3. /\ Children(ms[x]) = Children(ns[x]) \cup {val} /\ Gone(ms[x]) \subseteq Gone(ns[x])
          /\ Distinct(ms[x].vals)
      BY <1>8, <1>9, <2>1, SamePairsIs DEF SamePairs
    <2>4. /\ Children(ms[y]) = Children(ns[y]) \ {val} /\ Gone(ms[y]) \subseteq Gone(ns[y]) \cup Children(ns[y])
          /\ Distinct(ms[y].vals)
      BY <1>8, <1>9, <2>2, SamePairsIs DEF SamePairs
    <2>5. \A q \in Nds(ns) : ms[q].parent = IF q = val THEN x ELSE ns[q].parent
      BY <1>4, <2>1 DEF Nds
    <2>6. ChildMoved(ms, ns, x, y, val)
      BY <1>1, <1>3, <1>10, <1>11, <1>13, <2>1, <2>3, <2>4, <2>5 DEF ChildMoved
    <2>7. Tree(ms, T, h)
      BY <1>1, <2>6, TreeMove
    <2>8. val \notin T
      BY <1>1, <2>1 DEF Tree, Up
    <2>9. \A q \in Nds(ns) : q \in T => ms[q].parent = ns[q].parent
      BY <2>5, <2>8
    <2> QED BY <1>3, <1>6, <1>10, <2>7, <2>9
  <1> QED BY <1>12, <1>13

\* Redistribute keeps the invariant.
LEMMA RedistributeStep ==
  ASSUME NEW h, TreeInv(h), PinsInv, Redistribute
  PROVE  TreeInv(h)' /\ PinsInv' /\ hdr' = hdr
  <1>1. PICK x : x = op.page
    OBVIOUS
  <1>2. PICK p : p = Parent
    OBVIOUS
  <1>3. PICK idx : idx = Index
    OBVIOUS
  <1>4. PICK y : y = Neighbor
    OBVIOUS
  <1>5. PICK from : from = From(node[y], idx)
    OBVIOUS
  <1>6. PICK to : to = To(node[x], idx)
    OBVIOUS
  <1>7. PICK key : key = KeyAt(node[y], from)
    OBVIOUS
  <1>8. PICK val : val = ValueAt(node[y], from)
    OBVIOUS
  <1>9. PICK nx : nx = insert_pair(node[x], to, key, val)
    OBVIOUS
  <1>10. PICK ny : ny = erase_pair(node[y], from)
    OBVIOUS
  <1>11. /\ Siblings(node, h, x, y, p, idx) /\ x # hdr.root /\ y # hdr.root
         /\ Moves(node, x, y, from, to, key, val, nx, ny) /\ MovesAll(node', node, x, y, val, nx, ny)
    BY <1>1, <1>2, <1>3, <1>4, <1>5, <1>6, <1>7, <1>8, <1>9, <1>10, RedistributeNodes
  <1>12. PICK page : page = IF idx = 0 THEN y ELSE x
    OBVIOUS
  <1>13. /\ Underflows /\ hdr' = hdr /\ op' = Op("up", page, <<<<x, y, p>>>>) /\ pins' = Pin({y, p})
    BY <1>1, <1>2, <1>3, <1>4, <1>12 DEF Redistribute
  <1>14. /\ op.pc = "fix" /\ Held = {x} /\ Tree(node, {hdr.root}, h) /\ Store(node) /\ hdr.root \in Nds(node)
    BY <1>1, <1>13, FixIs
  <1>15. /\ Store(node') /\ Nds(node') = Nds(node) /\ Tree(node', {hdr.root}, h)
         /\ \A q \in Nds(node) :
              /\ (node'[q].leaf <=> node[q].leaf)
              /\ Size(node'[q]) = IF q = x THEN MinSize ELSE IF q = y THEN Size(node[y]) - 1 ELSE Size(node[q])
              /\ (q \in {hdr.root} => node'[q].parent = node[q].parent)
    BY <1>11, <1>14, RedistributeTree
  <1>16. /\ x \in Nds(node) /\ y \in Nds(node) /\ p \in Nds(node) /\ x # y /\ x # p /\ y # p
    BY <1>11 DEF Siblings
  <1>17. x \in Pages /\ y \in Pages /\ p \in Pages
    BY <1>14, <1>16, NdsIs
  <1>18. op'.pc = "up" /\ op'.page = page /\ op'.stack = <<<<x, y, p>>>> /\ OpType'
    BY <1>12, <1>13, <1>17 DEF OpType, Op, PCs
  <1>19. OpInv(h)'
    <2>1. page \in Nds(node)
      BY <1>12, <1>16
    <2>2. Len(op'.stack) = 1 /\ op'.stack[1] = <<x, y, p>> /\ Len(op'.stack[1]) = 3
      BY <1>18
    <2>3. Distinct(<<x, y, p>>)
      BY <1>16 DEF Distinct
    <2>4. UpInv'
      BY <1>15, <1>18, <2>1, <2>2, <2>3 DEF UpInv
    <2> QED BY <1>18, <2>4 DEF OpInv
  <1>20. Tops' = {hdr.root}
    BY <1>13, <1>18 DEF Tops
  <1>21. SizesInv'
    <2> SUFFICES ASSUME NEW q \in Nds(node) PROVE SizeOK(q, Size(node[q]))'
      BY <1>15 DEF SizesInv
    <2>1. /\ Size(node[y]) \in Nat /\ Size(node[y]) >= MinSize + 1 /\ Size(node[y]) < MaxSize
      BY <1>11 DEF Moves
    <2>2. (node'[q].leaf <=> node[q].leaf)
          /\ Size(node'[q]) = IF q = x THEN MinSize ELSE IF q = y THEN Size(node[y]) - 1 ELSE Size(node[q])
      BY <1>15
    <2>3. CASE q \in {x, y}
      <3>1. Size(node'[q]) < MaxSize /\ Size(node'[q]) >= MinSize
        BY <1>16, <2>1, <2>2, <2>3, Sizes
      <3> QED BY <1>11, <1>13, <2>3, <3>1 DEF SizeOK
    <2>4. CASE q \notin {x, y}
      <3>1. SizeOK(q, Size(node[q])) /\ Size(node'[q]) = Size(node[q])
        BY <2>2, <2>4 DEF TreeInv, SizesInv
      <3> QED BY <1>1, <1>13, <1>14, <1>18, <2>2, <2>4, <3>1 DEF SizeOK
    <2> QED BY <2>3, <2>4
  <1>22. HdrInv'
    <2>1. node'[hdr.root].parent = node[hdr.root].parent
      BY <1>14, <1>15
    <2> QED BY <1>13, <1>15, <2>1 DEF TreeInv, HdrInv
  <1>23. PinsInv'
    <2>1. Elems(<<x, y, p>>) = {x, y, p}
      BY DEF Elems
    <2>2. Held' = {x, y, p}
      <3>1. \A q : q \in Held' <=> q \in Pages /\ \E k \in 1..1 : q \in Elems(<<<<x, y, p>>>>[k])
        BY <1>18 DEF Held
      <3>2. \A q : (\E k \in 1..1 : q \in Elems(<<<<x, y, p>>>>[k])) <=> q \in {x, y, p}
        BY <2>1
      <3> QED BY <1>17, <3>1, <3>2
    <2>3. Held' = Held \cup {y, p} /\ {y, p} \cap Held = {}
      BY <1>14, <1>16, <2>2
    <2> QED BY <1>13, <2>3, PinStep
  <1> QED BY <1>13, <1>15, <1>19, <1>20, <1>21, <1>22, <1>23 DEF TreeInv

-----------------------------------------------------------------------------
(* Coalesce.                                                               *)

\* A node q before and after right, whose node is n, is merged into left.
CoalescedAs(m, k, q, left, nl, p, np, n) ==
  /\ NodeOK(m)
  /\ IF q = left THEN SamePairs(m, nl) ELSE IF q = p THEN SamePairs(m, np) ELSE SamePairs(m, k)
  /\ m.parent = IF q \in Children(n) THEN left ELSE k.parent
  /\ m.next = IF n.leaf /\ q = n.prev THEN n.next ELSE k.next
  /\ m.prev = IF n.leaf /\ q = n.next THEN n.prev ELSE k.prev

\* The nodes ns with right merged into left, below p.
Coalesces(ms, ns, h, left, right, p, nl, np) ==
  /\ left \in Nds(ns) /\ right \in Nds(ns) /\ p \in Nds(ns) /\ left # right /\ p # left /\ p # right
  /\ left \in Children(ns[p]) /\ right \in Children(ns[p]) /\ h[left] = h[right] /\ h[p] = h[left] + 1
  /\ (ns[left].leaf <=> ns[right].leaf) /\ ~ns[p].leaf
  /\ IsInsert(nl, ns[left], Size(ns[left]), ns[right].keys, ns[right].vals)
  /\ Size(nl) = Size(ns[left]) + Size(ns[right])
  /\ (\E i \in 1..Size(ns[p]) : i > 1 /\ ns[p].vals[i] = right /\ ns[p].vals[i - 1] = left /\ IsErase(np, ns[p], i - 1))
  /\ DOMAIN ms = DOMAIN ns \ {right}
  /\ \A q \in DOMAIN ms : CoalescedAs(ms[q], ns[q], q, left, nl, p, np, ns[right])

\* What Coalesce does to the nodes.
LEMMA CoalesceNodes ==
  ASSUME NEW h, TreeInv(h), Coalesce,
         NEW x, x = op.page, NEW p, p = Parent, NEW idx, idx = Index, NEW y, y = Neighbor,
         NEW left, left = (IF idx = 0 THEN x ELSE y), NEW right, right = (IF idx = 0 THEN y ELSE x),
         NEW nl, nl = insert_pairs(node[left], Size(node[left]), node[right].keys, node[right].vals),
         NEW np, np = erase_pair(node[p], find_child(node[p], right))
  PROVE  /\ Coalesces(node', node, h, left, right, p, nl, np)
         /\ x # hdr.root /\ y # hdr.root /\ x # y /\ x # p /\ y # p
         /\ Size(nl) < MaxSize /\ Size(nl) >= MinSize
  <1>1. Underflows /\ ~IsRoot(op.page) /\ ~Rich
    BY DEF Coalesce
  <1>2. Siblings(node, h, x, y, p, idx) /\ x # hdr.root /\ y # hdr.root
    BY <1>1, SiblingsIs
  <1>3. /\ x \in Nds(node) /\ y \in Nds(node) /\ p \in Nds(node) /\ x # y /\ x # p /\ y # p
        /\ x \in Children(node[p]) /\ y \in Children(node[p]) /\ ~node[p].leaf
        /\ h[x] = h[y] /\ h[p] = h[x] + 1 /\ (node[x].leaf <=> node[y].leaf)
        /\ idx \in 0..(Size(node[p]) - 1) /\ node[p].vals[idx + 1] = x
        /\ (idx > 0 => node[p].vals[idx] = y)
        /\ (idx = 0 => Size(node[p]) > 1 /\ node[p].vals[2] = y)
        /\ find_child(node[p], x) = idx /\ find_child(node[p], y) = IF idx > 0 THEN idx - 1 ELSE 1
    BY <1>2 DEF Siblings
  <1>4. /\ Store(node) /\ Tree(node, {hdr.root}, h) /\ Size(node[x]) < MinSize
    BY <1>1, FixIs
  <1>5. /\ NodeOK(node[x]) /\ Size(node[x]) \in Nat
        /\ NodeOK(node[y]) /\ Size(node[y]) \in Nat /\ Size(node[y]) >= MinSize
        /\ NodeOK(node[p]) /\ Size(node[p]) \in Nat
    <2>1. \A q \in Nds(node) :
              /\ NodeOK(node[q]) /\ Size(node[q]) \in Nat /\ Size(node[q]) < MaxSize
              /\ (q # hdr.root => Size(node[q]) >= (IF q = x THEN MinSize - 1 ELSE MinSize))
              /\ (q = hdr.root /\ ~node[q].leaf => Size(node[q]) >= (IF q = x THEN 1 ELSE 2))
      BY <1>1, FixIs
    <2> QED BY <1>2, <1>3, <2>1
  <1>6. Size(node[x]) + Size(node[y]) < 2 * MinSize
    <2>1. ~(Size(node[x]) + Size(node[y]) >= 2 * MinSize)
      BY <1>1 DEF Rich
    <2> QED BY <1>5, <2>1, Sizes
  <1>7. /\ left \in Nds(node) /\ right \in Nds(node) /\ left # right /\ p # left /\ p # right
        /\ left \in Children(node[p]) /\ right \in Children(node[p]) /\ h[left] = h[right]
        /\ h[p] = h[left] + 1 /\ (node[left].leaf <=> node[right].leaf)
        /\ NodeOK(node[left]) /\ NodeOK(node[right]) /\ Size(node[left]) \in Nat /\ Size(node[right]) \in Nat
        /\ Size(node[left]) + Size(node[right]) < MaxSize /\ Size(node[left]) + Size(node[right]) >= MinSize
    <2>1. Size(node[x]) + Size(node[y]) < MaxSize /\ Size(node[x]) + Size(node[y]) >= MinSize
      BY <1>5, <1>6, Sizes
    <2>2. CASE idx = 0
      BY <1>3, <1>5, <2>1, <2>2
    <2>3. CASE idx # 0
      BY <1>3, <1>5, <2>1, <2>3
    <2> QED BY <2>2, <2>3
  <1>8. PICK i \in 1..Size(node[p]) : /\ i > 1 /\ node[p].vals[i] = right /\ node[p].vals[i - 1] = left
                                      /\ find_child(node[p], right) = i - 1
    <2>1. CASE idx = 0
      <3>1. 2 \in 1..Size(node[p]) /\ 2 > 1 /\ node[p].vals[2] = right /\ node[p].vals[2 - 1] = left
            /\ find_child(node[p], right) = 2 - 1
        BY <1>3, <1>5, <2>1
      <3> QED BY <3>1
    <2>2. CASE idx # 0
      <3>1. PICK j : j = idx + 1
        OBVIOUS
      <3>2. idx > 0 /\ j \in 1..Size(node[p]) /\ j > 1 /\ j - 1 = idx
        BY <1>3, <1>5, <2>2, <3>1
      <3>3. node[p].vals[j] = right /\ node[p].vals[j - 1] = left /\ find_child(node[p], right) = j - 1
        BY <1>3, <2>2, <3>1, <3>2
      <3> QED BY <3>2, <3>3
    <2> QED BY <2>1, <2>2
  <1>9. IsInsert(nl, node[left], Size(node[left]), node[right].keys, node[right].vals)
        /\ Size(nl) = Size(node[left]) + Size(node[right])
    <2>1. /\ node[right].keys \in Seq(Keys) /\ node[right].vals \in Seq(Slots)
          /\ Len(node[right].keys) = Size(node[right]) /\ Len(node[right].vals) = Size(node[right])
          /\ (~node[right].leaf => node[right].vals \in Seq(Pages))
      BY <1>7, NodeIs
    <2>2. Size(node[left]) \in 0..Size(node[left]) /\ Size(node[left]) + Len(node[right].vals) <= MaxSize
      BY <1>7, <2>1, Sizes
    <2>3. IsInsert(nl, node[left], Size(node[left]), node[right].keys, node[right].vals)
      BY <1>7, <2>1, <2>2, InsertPairsIs
    <2> QED BY <2>1, <2>3 DEF IsInsert
  <1>10. IsErase(np, node[p], i - 1)
    <2>1. i - 1 \in 0..(Size(node[p]) - 1)
      BY <1>5, <1>8
    <2> QED BY <1>5, <1>8, <2>1, ErasePairIs
  <1>11. PICK ms : ms = [node EXCEPT ![left] = nl, ![p] = np]
    OBVIOUS
  <1>12. PICK n : n = node[right]
    OBVIOUS
  <1>13. PICK ls : ls = IF n.leaf THEN UnlinkLeaf(ms, right) ELSE Adopt(ms, Children(n), left)
    OBVIOUS
  <1>14. node' = [q \in DOMAIN node \ {right} |-> ls[q]]
    <2>1. ms = [node EXCEPT ![left] = insert_pairs(@, Size(@), n.keys, n.vals),
                            ![p] = erase_pair(@, find_child(@, right))]
      BY <1>7, <1>11, <1>12
    <2>2. Index = idx /\ Neighbor = y /\ op.page = x /\ Parent = p
      OBVIOUS
    <2> QED BY <1>12, <1>13, <2>1, <2>2 DEF Coalesce
  <1>15. left \in DOMAIN node /\ right \in DOMAIN node /\ p \in DOMAIN node /\ left \in Pages
    BY <1>3, <1>4, <1>7, NdsIs
  <1>16. DOMAIN ms = DOMAIN node
         /\ \A q \in DOMAIN node : ms[q] = IF q = left THEN nl ELSE IF q = p THEN np ELSE node[q]
    BY <1>7, <1>11, <1>15
  <1>17. NodeOK(nl) /\ SameLinks(nl, node[left]) /\ NodeOK(np) /\ SameLinks(np, node[p])
    BY <1>9, <1>10 DEF IsInsert, IsErase
  <1>18. \A q \in DOMAIN node : NodeOK(node[q])
    BY <1>4 DEF Store
  <1>19. ms[right] = n /\ \A q \in DOMAIN ms : NodeOK(ms[q])
    BY <1>7, <1>12, <1>15, <1>16, <1>17, <1>18
  <1>20. \A q \in DOMAIN node :
           /\ ms[q].parent = node[q].parent /\ ms[q].prev = node[q].prev /\ ms[q].next = node[q].next
           /\ (q = left => ms[q] = nl) /\ (q = p => ms[q] = np) /\ (q # left /\ q # p => ms[q] = node[q])
    BY <1>7, <1>16, <1>17 DEF SameLinks
  <1>21. ASSUME NEW q \in DOMAIN node, q # right
         PROVE  /\ NodeOK(ls[q]) /\ SamePairs(ls[q], ms[q])
                /\ ls[q].parent = (IF q \in Children(n) THEN left ELSE node[q].parent)
                /\ ls[q].next = (IF n.leaf /\ q = n.prev THEN n.next ELSE node[q].next)
                /\ ls[q].prev = (IF n.leaf /\ q = n.next THEN n.prev ELSE node[q].prev)
    <2>1. CASE n.leaf
      <3>1. ls = UnlinkLeaf(ms, right) /\ Children(n) = {}
        BY <1>13, <2>1, ChildrenIs
      <3>2. UnlinkedAs(ls[q], ms[q], q, n.prev, n.next)
        <4>1. \A z \in DOMAIN ms : UnlinkedAs(UnlinkLeaf(ms, right)[z], ms[z], z, ms[right].prev, ms[right].next)
          BY <1>15, <1>16, <1>19, UnlinkLeafIs
        <4> QED BY <1>16, <1>19, <3>1, <4>1
      <3> QED BY <1>20, <2>1, <3>1, <3>2 DEF UnlinkedAs
    <2>2. CASE ~n.leaf
      <3>1. ls = Adopt(ms, Children(n), left)
        BY <1>13, <2>2
      <3>2. ls[q] = IF q \in Children(n) THEN Reparented(ms[q], left) ELSE ms[q]
        BY <1>16, <3>1, AdoptIs
      <3>3. NodeOK(ms[q])
        BY <1>16, <1>19
      <3>4. CASE q \in Children(n)
        BY <1>15, <1>20, <2>2, <3>2, <3>3, <3>4, ReparentIs
      <3>5. CASE q \notin Children(n)
        BY <1>20, <2>2, <3>2, <3>3, <3>5 DEF SamePairs
      <3> QED BY <3>4, <3>5
    <2> QED BY <2>1, <2>2
  <1>22. DOMAIN node' = DOMAIN node \ {right} /\ \A q \in DOMAIN node \ {right} : node'[q] = ls[q]
    BY <1>14
  <1>23. ASSUME NEW q \in DOMAIN node' PROVE CoalescedAs(node'[q], node[q], q, left, nl, p, np, node[right])
    <2>1. q \in DOMAIN node /\ q # right /\ node'[q] = ls[q]
      BY <1>22
    <2>2. IF q = left THEN SamePairs(node'[q], nl) ELSE IF q = p THEN SamePairs(node'[q], np)
          ELSE SamePairs(node'[q], node[q])
      BY <1>20, <1>21, <2>1
    <2>3. /\ NodeOK(node'[q])
          /\ node'[q].parent = (IF q \in Children(n) THEN left ELSE node[q].parent)
          /\ node'[q].next = (IF n.leaf /\ q = n.prev THEN n.next ELSE node[q].next)
          /\ node'[q].prev = (IF n.leaf /\ q = n.next THEN n.prev ELSE node[q].prev)
      BY <1>21, <2>1
    <2> QED BY <1>12, <2>2, <2>3 DEF CoalescedAs
  <1>24. Coalesces(node', node, h, left, right, p, nl, np)
    BY <1>3, <1>7, <1>8, <1>9, <1>10, <1>22, <1>23 DEF Coalesces
  <1> QED BY <1>2, <1>3, <1>7, <1>9, <1>24

\* A node merged into its left sibling leaves a tree.
LEMMA CoalesceTree ==
  \A ns, ms, h, T, left, right, p, nl, np :
    Store(ns) /\ Tree(ns, T, h) /\ Coalesces(ms, ns, h, left, right, p, nl, np)
      => /\ Store(ms) /\ Nds(ms) = Nds(ns) \ {right} /\ Tree(ms, T, h)
         /\ \A q \in Nds(ms) :
              /\ (ms[q].leaf <=> ns[q].leaf)
              /\ Size(ms[q]) = IF q = left THEN Size(nl) ELSE IF q = p THEN Size(ns[p]) - 1 ELSE Size(ns[q])
              /\ (q \in T => ms[q].parent = ns[q].parent)
  <1> SUFFICES ASSUME NEW ns, NEW ms, NEW h, NEW T, NEW left, NEW right, NEW p, NEW nl, NEW np,
                      Store(ns), Tree(ns, T, h), Coalesces(ms, ns, h, left, right, p, nl, np)
               PROVE  /\ Store(ms) /\ Nds(ms) = Nds(ns) \ {right} /\ Tree(ms, T, h)
                      /\ \A q \in Nds(ms) :
                           /\ (ms[q].leaf <=> ns[q].leaf)
                           /\ Size(ms[q]) = IF q = left THEN Size(nl) ELSE IF q = p THEN Size(ns[p]) - 1 ELSE Size(ns[q])
                           /\ (q \in T => ms[q].parent = ns[q].parent)
    OBVIOUS
  <1>1. /\ left \in Nds(ns) /\ right \in Nds(ns) /\ p \in Nds(ns) /\ left # right /\ p # left /\ p # right
        /\ left \in Children(ns[p]) /\ right \in Children(ns[p]) /\ h[left] = h[right] /\ h[p] = h[left] + 1
        /\ (ns[left].leaf <=> ns[right].leaf) /\ ~ns[p].leaf
        /\ DOMAIN ms = DOMAIN ns \ {right}
    BY DEF Coalesces
  <1>2. IsInsert(nl, ns[left], Size(ns[left]), ns[right].keys, ns[right].vals)
    BY DEF Coalesces
  <1>3. PICK i \in 1..Size(ns[p]) : i > 1 /\ ns[p].vals[i] = right /\ IsErase(np, ns[p], i - 1)
    BY DEF Coalesces
  <1>4. \A q \in DOMAIN ms : CoalescedAs(ms[q], ns[q], q, left, nl, p, np, ns[right])
    BY DEF Coalesces
  <1>5. \A q \in DOMAIN ms :
          /\ NodeOK(ms[q]) /\ ms[q].parent = (IF q \in Children(ns[right]) THEN left ELSE ns[q].parent)
          /\ (q = left => SamePairs(ms[q], nl)) /\ (q = p => SamePairs(ms[q], np))
          /\ (q # left /\ q # p => SamePairs(ms[q], ns[q]))
    BY <1>1, <1>4 DEF CoalescedAs
  <1>6. Nds(ms) = Nds(ns) \ {right} /\ left \in DOMAIN ms /\ p \in DOMAIN ms
        /\ left # IX_LEAF_HEADER_PAGE /\ p # IX_LEAF_HEADER_PAGE /\ right # IX_LEAF_HEADER_PAGE
    BY <1>1 DEF Nds
  <1>7. Store(ms)
    BY <1>1, <1>5, <1>6 DEF Store, SamePairs
  <1>8. SamePairs(ms[left], nl) /\ SamePairs(ms[p], np)
    BY <1>5, <1>6
  <1>9. /\ SameLinks(nl, ns[left]) /\ Gone(nl) \subseteq Gone(ns[left])
        /\ Children(nl) = Children(ns[left]) \cup (IF ns[left].leaf THEN {} ELSE Elems(ns[right].vals))
        /\ (Distinct(ns[left].vals) /\ Distinct(ns[right].vals) /\ Elems(ns[left].vals) \cap Elems(ns[right].vals) = {}
              => Distinct(nl.vals))
    BY <1>2 DEF IsInsert
  <1>10. /\ SameLinks(np, ns[p]) /\ Size(np) = Size(ns[p]) - 1 /\ Gone(np) \subseteq Gone(ns[p]) \cup Children(ns[p])
         /\ (Distinct(ns[p].vals) => Distinct(np.vals) /\ Children(np) = Children(ns[p]) \ {right})
    <2>1. Size(ns[p]) \in Nat
      BY <1>1, NdsIs, NodeIs
    <2>2. i - 1 + 1 = i
      BY <2>1
    <2> QED BY <1>3, <2>2 DEF IsErase
  <1>11. Distinct(ns[p].vals)
    BY <1>1 DEF Tree, Once
  <1>12. Children(nl) = Children(ns[left]) \cup Children(ns[right])
    <2>1. CASE ns[left].leaf
      BY <1>1, <1>9, <2>1, ChildrenIs
    <2>2. CASE ~ns[left].leaf
      BY <1>1, <1>9, <2>2, ChildrenIs
    <2> QED BY <2>1, <2>2
  <1>13. ~ns[left].leaf => Distinct(nl.vals)
    <2> SUFFICES ASSUME ~ns[left].leaf PROVE Distinct(nl.vals)
      OBVIOUS
    <2>1. Distinct(ns[left].vals) /\ Distinct(ns[right].vals)
      BY <1>1 DEF Tree, Once
    <2>2. Children(ns[left]) \cap Children(ns[right]) = {}
      BY <1>1 DEF Tree, Down
    <2>3. Children(ns[left]) = Elems(ns[left].vals) /\ Children(ns[right]) = Elems(ns[right].vals)
      BY <1>1, ChildrenIs
    <2> QED BY <1>9, <2>1, <2>2, <2>3
  <1>14. ASSUME NEW q \in Nds(ms)
         PROVE  /\ (ms[q].leaf <=> ns[q].leaf)
                /\ Size(ms[q]) = IF q = left THEN Size(nl) ELSE IF q = p THEN Size(ns[p]) - 1 ELSE Size(ns[q])
                /\ ms[q].parent = (IF q \in Children(ns[right]) THEN left ELSE ns[q].parent)
    <2>1. q \in DOMAIN ms
      BY DEF Nds
    <2>2. ms[q].parent = (IF q \in Children(ns[right]) THEN left ELSE ns[q].parent)
      BY <1>5, <2>1
    <2>3. CASE q = left
      <3>1. Size(ms[q]) = Size(nl) /\ (ms[q].leaf <=> nl.leaf)
        BY <1>8, <2>3, SamePairsIs DEF SamePairs
      <3> QED BY <1>9, <2>2, <2>3, <3>1 DEF SameLinks
    <2>4. CASE q = p
      <3>1. Size(ms[q]) = Size(np) /\ (ms[q].leaf <=> np.leaf)
        BY <1>8, <2>4, SamePairsIs DEF SamePairs
      <3> QED BY <1>1, <1>10, <2>2, <2>4, <3>1 DEF SameLinks
    <2>5. CASE q # left /\ q # p
      <3>1. SamePairs(ms[q], ns[q])
        BY <1>5, <2>1, <2>5
      <3> QED BY <2>2, <2>5, <3>1, SamePairsIs DEF SamePairs
    <2> QED BY <2>3, <2>4, <2>5
  <1>15. Merged(ms, ns, left, right, p)
    <2>1. \A q \in Nds(ms) : q \notin {left, p} => SameList(ms[q], ns[q])
      BY <1>5, SamePairsIs DEF Nds
    <2>2. Children(ms[left]) = Children(ns[left]) \cup Children(ns[right]) /\ Gone(ms[left]) \subseteq Gone(ns[left])
          /\ (~ns[left].leaf => Distinct(ms[left].vals))
      BY <1>8, <1>9, <1>12, <1>13, SamePairsIs DEF SamePairs
    <2>3. Children(ms[p]) = Children(ns[p]) \ {right} /\ Gone(ms[p]) \subseteq Gone(ns[p]) \cup Children(ns[p])
          /\ Distinct(ms[p].vals)
      BY <1>8, <1>10, <1>11, SamePairsIs DEF SamePairs
    <2> QED BY <1>1, <1>6, <1>14, <2>1, <2>2, <2>3 DEF Merged
  <1>16. Tree(ms, T, h)
    BY <1>1, <1>15, TreeMerge
  <1>17. ASSUME NEW q \in Nds(ms), q \in T PROVE ms[q].parent = ns[q].parent
    <2>1. q \notin Children(ns[right])
      BY <1>1, <1>17 DEF Tree, Up
    <2> QED BY <1>14, <2>1
  <1> QED BY <1>6, <1>7, <1>14, <1>16, <1>17

\* Coalesce keeps the invariant.
LEMMA CoalesceStep ==
  ASSUME NEW h, TreeInv(h), HdrType, PinsInv, Coalesce
  PROVE  TreeInv(h)' /\ PinsInv' /\ HdrType'
  <1>1. PICK x : x = op.page
    OBVIOUS
  <1>2. PICK p : p = Parent
    OBVIOUS
  <1>3. PICK idx : idx = Index
    OBVIOUS
  <1>4. PICK y : y = Neighbor
    OBVIOUS
  <1>5. PICK left : left = IF idx = 0 THEN x ELSE y
    OBVIOUS
  <1>6. PICK right : right = IF idx = 0 THEN y ELSE x
    OBVIOUS
  <1>7. PICK nl : nl = insert_pairs(node[left], Size(node[left]), node[right].keys, node[right].vals)
    OBVIOUS
  <1>8. PICK np : np = erase_pair(node[p], find_child(node[p], right))
    OBVIOUS
  <1>9. /\ Coalesces(node', node, h, left, right, p, nl, np)
        /\ x # hdr.root /\ y # hdr.root /\ x # y /\ x # p /\ y # p
        /\ Size(nl) < MaxSize /\ Size(nl) >= MinSize
    BY <1>1, <1>2, <1>3, <1>4, <1>5, <1>6, <1>7, <1>8, CoalesceNodes
  <1>10. /\ Underflows /\ op' = Op("fix", p, <<>>)
         /\ pins' = [pins EXCEPT ![p] = @ + 1, ![x] = @ - 1]
         /\ hdr' = [hdr EXCEPT !.num_pages = @ - 1,
                               !.last_leaf = IF node[right].leaf /\ right = @ THEN left ELSE @]
    BY <1>1, <1>2, <1>3, <1>4, <1>5, <1>6 DEF Coalesce
  <1>11. /\ op.pc = "fix" /\ Held = {x} /\ Tree(node, {hdr.root}, h) /\ Store(node) /\ hdr.root \in Nds(node)
    BY <1>1, <1>10, FixIs
  <1>12. \A q \in Nds(node) :
              /\ NodeOK(node[q]) /\ Size(node[q]) \in Nat /\ Size(node[q]) < MaxSize
              /\ (q # hdr.root => Size(node[q]) >= (IF q = x THEN MinSize - 1 ELSE MinSize))
              /\ (q = hdr.root /\ ~node[q].leaf => Size(node[q]) >= (IF q = x THEN 1 ELSE 2))
    BY <1>1, <1>10, FixIs
  <1>13. /\ Store(node') /\ Nds(node') = Nds(node) \ {right} /\ Tree(node', {hdr.root}, h)
         /\ \A q \in Nds(node') :
              /\ (node'[q].leaf <=> node[q].leaf)
              /\ Size(node'[q]) = IF q = left THEN Size(nl) ELSE IF q = p THEN Size(node[p]) - 1 ELSE Size(node[q])
              /\ (q \in {hdr.root} => node'[q].parent = node[q].parent)
    BY <1>9, <1>11, CoalesceTree
  <1>14. left \in Nds(node) /\ right \in Nds(node) /\ p \in Nds(node) /\ left # right /\ p # left /\ p # right
         /\ ~node[p].leaf
    BY <1>9 DEF Coalesces
  <1>15. p \in Pages /\ x \in Pages /\ left \in Pages
    BY <1>5, <1>6, <1>11, <1>14, NdsIs
  <1>16. left # hdr.root /\ right # hdr.root /\ (\A q : q \notin {left, right} => q # x)
    BY <1>5, <1>6, <1>9
  <1>17. hdr'.root = hdr.root /\ hdr'.num_pages = hdr.num_pages - 1 /\ HdrType'
    <2>1. hdr.num_pages - 1 \in Int
      BY DEF HdrType
    <2> QED BY <1>10, <1>15, <2>1 DEF HdrType
  <1>18. op'.pc = "fix" /\ op'.page = p /\ op'.stack = <<>> /\ OpType'
    BY <1>10, <1>15 DEF OpType, Op, PCs
  <1>19. OpInv(h)' /\ Tops' = {hdr.root}
    <2>1. FixInv'
      BY <1>13, <1>14, <1>18 DEF FixInv
    <2> QED BY <1>17, <1>18, <2>1 DEF OpInv, Tops
  <1>20. SizesInv'
    <2> SUFFICES ASSUME NEW q \in Nds(node') PROVE SizeOK(q, Size(node[q]))'
      BY DEF SizesInv
    <2>1. q \in Nds(node) /\ q # right /\ (node'[q].leaf <=> node[q].leaf)
          /\ Size(node'[q]) = IF q = left THEN Size(nl) ELSE IF q = p THEN Size(node[p]) - 1 ELSE Size(node[q])
      BY <1>13
    <2>2. CASE q = left
      <3>1. Size(node'[q]) < MaxSize /\ Size(node'[q]) >= MinSize
        BY <1>9, <2>1, <2>2
      <3> QED BY <1>16, <1>17, <2>2, <3>1 DEF SizeOK
    <2>3. CASE q = p
      <3>1. /\ Size(node'[q]) = Size(node[p]) - 1 /\ Size(node[p]) \in Nat /\ Size(node[p]) < MaxSize
            /\ (p # hdr.root => Size(node[p]) >= MinSize) /\ (p = hdr.root => Size(node[p]) >= 2)
        BY <1>9, <1>12, <1>14, <2>1, <2>3
      <3> QED BY <1>17, <1>18, <2>3, <3>1, Sizes DEF SizeOK
    <2>4. CASE q # left /\ q # p
      <3>1. /\ Size(node'[q]) = Size(node[q]) /\ Size(node[q]) \in Nat /\ Size(node[q]) < MaxSize
            /\ (q # hdr.root => Size(node[q]) >= MinSize) /\ (q = hdr.root /\ ~node[q].leaf => Size(node[q]) >= 2)
        <4>1. q # x
          BY <1>16, <2>1, <2>4
        <4> QED BY <1>12, <2>1, <2>4, <4>1
      <3> QED BY <1>17, <2>1, <3>1 DEF SizeOK
    <2> QED BY <2>2, <2>3, <2>4
  <1>21. HdrInv'
    <2>1. Cardinality(Nds(node')) = Cardinality(Nds(node)) - 1 /\ Cardinality(Nds(node)) \in Nat
      BY <1>11, <1>13, <1>14, NdsIs, CardIs
    <2>2. node'[hdr.root].parent = node[hdr.root].parent
      BY <1>11, <1>13, <1>16
    <2> QED BY <1>17, <2>1, <2>2 DEF TreeInv, HdrInv
  <1>22. PinsInv'
    <2>1. Held' = {p}
      BY <1>15, <1>18 DEF Held
    <2>2. pins \in [PageNos -> Int] /\ \A q \in PageNos : pins[q] = IF q = x THEN 1 ELSE 0
      BY <1>11 DEF PinsInv
    <2>3. x \in PageNos /\ p \in PageNos
      BY <1>15, PagesIs
    <2>4. pins' \in [PageNos -> Int] /\ \A q \in PageNos : pins'[q] = IF q = p THEN 1 ELSE 0
      <3>1. pins[p] = 0 /\ pins[x] = 1 /\ x # p
        BY <1>9, <2>2, <2>3
      <3>2. pins' = [pins EXCEPT ![p] = 1, ![x] = 0]
        BY <1>10, <2>2, <2>3, <3>1
      <3>3. pins' = [q \in PageNos |-> IF q = p THEN 1 ELSE 0]
        <4>1. DOMAIN pins = PageNos /\ pins = [q \in PageNos |-> pins[q]]
          BY <2>2
        <4>2. DOMAIN pins' = PageNos /\ \A q \in PageNos : pins'[q] = IF q = x THEN 0 ELSE IF q = p THEN 1 ELSE pins[q]
          BY <2>3, <3>1, <3>2, <4>1
        <4>3. \A q \in PageNos : pins'[q] = IF q = p THEN 1 ELSE 0
          BY <2>2, <3>1, <4>2
        <4>4. pins' = [q \in PageNos |-> pins'[q]]
          BY <3>2, <4>1, <4>2
        <4> QED BY <4>3, <4>4
      <3> QED BY <3>3
    <2> QED BY <2>1, <2>4 DEF PinsInv
  <1> QED BY <1>13, <1>17, <1>19, <1>20, <1>21, <1>22 DEF TreeInv

-----------------------------------------------------------------------------
\* The index that create_index writes satisfies the invariant.
LEMMA InitInv == Init => IInv
  <1> SUFFICES ASSUME Init PROVE IInv
    OBVIOUS
  <1>1. /\ hdr = [root |-> 2, num_pages |-> 3, last_leaf |-> 2] /\ op = Idle
        /\ pins = [p \in PageNos |-> 0]
    BY DEF Init, IX_INIT_ROOT_PAGE
  <1>2. DOMAIN node = {1, 2} /\ node[1] = NewNode(TRUE, IX_NO_PAGE, 2, 2) /\ node[2] = NewNode(TRUE, IX_NO_PAGE, 1, 1)
    BY DEF Init, IX_INIT_ROOT_PAGE, IX_LEAF_HEADER_PAGE
  <1>3. PICK t : t = TRUE
    OBVIOUS
  <1>4. t \in BOOLEAN
    BY <1>3, Zenon
  <1>5. 1 \in 0..MaxPage /\ 2 \in 0..MaxPage /\ 2 \in Pages
    BY Sizes DEF Pages, IX_INIT_ROOT_PAGE
  <1>6. /\ NodeOK(node[1]) /\ Size(node[1]) = 0 /\ node[1].leaf = t
    <2>1. PICK a : a = 2
      OBVIOUS
    <2>2. a \in 0..MaxPage /\ node[1] = NewNode(t, IX_NO_PAGE, a, a)
      BY <1>2, <1>3, <1>5, <2>1
    <2> QED BY <1>4, <2>2, NewNodeIs
  <1>7. /\ NodeOK(node[2]) /\ Size(node[2]) = 0 /\ node[2].leaf = t /\ node[2].parent = IX_NO_PAGE
    <2>1. PICK a : a = 1
      OBVIOUS
    <2>2. a \in 0..MaxPage /\ node[2] = NewNode(t, IX_NO_PAGE, a, a)
      BY <1>2, <1>3, <1>5, <2>1
    <2> QED BY <1>4, <2>2, NewNodeIs
  <1>8. node[1].leaf /\ node[2].leaf
    BY <1>3, <1>6, <1>7, Zenon
  <1>9. Nds(node) = {2}
    BY <1>2 DEF Nds, IX_LEAF_HEADER_PAGE
  <1>10. Store(node)
    BY <1>2, <1>5, <1>6, <1>7, <1>8 DEF Store, IX_LEAF_HEADER_PAGE
  <1>11. PICK h : h = [p \in Pages |-> 0]
    OBVIOUS
  <1>12. h \in [Pages -> Nat] /\ h[2] = 0
    BY <1>5, <1>11
  <1>13. Children(node[2]) = {} /\ Gone(node[2]) = {}
    BY <1>8 DEF Children, Gone
  <1>14. Tree(node, {2}, h)
    <2>1. Levels(node, h)
      BY <1>8, <1>9, <1>12 DEF Levels
    <2>2. Down(node, h) /\ Once(node) /\ StaleDown(node, h)
      BY <1>8, <1>9, <1>13 DEF Down, Once, StaleDown
    <2>3. Up(node, {2})
      BY <1>9, <1>13 DEF Up
    <2> QED BY <2>1, <2>2, <2>3 DEF Tree
  <1>15. op.pc = "idle" /\ op.stack = <<>> /\ OpType
    BY <1>1 DEF Idle, Op, OpType, PCs
  <1>16. OpInv(h) /\ Tops = {2} /\ Held = {}
    BY <1>1, <1>15 DEF OpInv, Tops, Held
  <1>17. HdrType /\ hdr.root = 2 /\ hdr.num_pages = 3
    BY <1>1, <1>5 DEF HdrType
  <1>18. SizesInv
    BY <1>7, <1>8, <1>9, <1>17, Sizes DEF SizesInv, SizeOK
  <1>19. HdrInv
    <2>1. Cardinality(Nds(node)) = 1
      BY <1>9, FS_Singleton
    <2> QED BY <1>5, <1>7, <1>17, <2>1 DEF HdrInv
  <1>20. TreeInv(h)
    BY <1>10, <1>14, <1>16, <1>18, <1>19 DEF TreeInv
  <1>21. PinsInv
    BY <1>1, <1>16 DEF PinsInv
  <1>22. hdr.root # IX_NO_PAGE
    BY <1>17 DEF IX_NO_PAGE
  <1> QED BY <1>12, <1>17, <1>20, <1>21, <1>22 DEF IInv

\* Steps that leave the index alone.
LEMMA SameInv == IInv /\ UNCHANGED <<hdr, node, pins, op>> => IInv'
  <1> SUFFICES ASSUME IInv, hdr' = hdr, node' = node, pins' = pins, op' = op PROVE IInv'
    OBVIOUS
  <1>1. ASSUME NEW h, TreeInv(h) PROVE TreeInv(h)'
    <2>1. OpInv(h)'
      BY <1>1 DEF TreeInv, OpInv, OpType, SplitInv, ParentInv, ReturnInv, FramesInv, FixInv, UpInv, Frame
    <2>2. Tops' = Tops
      BY DEF Tops, Frame
    <2>3. SizesInv' /\ HdrInv'
      BY <1>1 DEF TreeInv, SizesInv, SizeOK, HdrInv
    <2> QED BY <1>1, <2>1, <2>2, <2>3 DEF TreeInv
  <1>2. PinsInv'
    BY PinSame DEF IInv, Held
  <1>3. HdrType'
    BY DEF IInv, HdrType
  <1> QED BY <1>1, <1>2, <1>3 DEF IInv

\* Every step of every call keeps the invariant.
LEMMA NextInv == IInv /\ [Next]_vars => IInv'
  <1> SUFFICES ASSUME IInv, [Next]_vars PROVE IInv'
    OBVIOUS
  <1>1. CASE UNCHANGED <<hdr, node, pins, op>>
    BY <1>1, SameInv
  <1>2. CASE ~UNCHANGED <<hdr, node, pins, op>>
    <2>1. \/ \E key \in Keys : DeleteEntry(key) \/ \E val \in Vals : InsertEntry(key, val)
          \/ Split \/ NewRoot \/ InsertIntoParent \/ InsertReturns
          \/ BigEnough \/ AdjustRoot \/ Redistribute \/ MaintainParent \/ Coalesce
      BY <1>2 DEF Next, vars, SearchLost, RootMissing, Undefined
    <2>2. hdr.root # IX_NO_PAGE
      <3> SUFFICES ASSUME hdr.root = IX_NO_PAGE PROVE FALSE
        OBVIOUS
      <3>1. op.pc = "idle"
        BY DEF IInv, Idle, Op
      <3> QED BY <2>1, <3>1 DEF DeleteEntry, InsertEntry, Begins, Split, NewRoot, InsertIntoParent,
                                InsertReturns, BigEnough, AdjustRoot, Redistribute, MaintainParent,
                                Coalesce, Underflows
    <2>3. PICK h \in [Pages -> Nat] : TreeInv(h)
      BY <2>2 DEF IInv
    <2>4. HdrType /\ PinsInv /\ hdr.root \in Pages
      BY <2>3 DEF IInv, TreeInv, HdrInv
    <2>5. ASSUME NEW g \in [Pages -> Nat], TreeInv(g)', PinsInv', HdrType' PROVE IInv'
      <3>1. hdr'.root # IX_NO_PAGE
        BY <2>5, PagesIs DEF TreeInv, HdrInv
      <3> QED BY <2>5, <3>1 DEF IInv
    <2>6. ASSUME hdr' = hdr PROVE HdrType'
      BY <2>4, <2>6 DEF HdrType
    <2>7. ASSUME NEW key \in Keys, DeleteEntry(key) PROVE IInv'
      <3>1. TreeInv(h)' /\ PinsInv'
        BY <2>3, <2>4, <2>7, DeleteEntryStep
      <3>2. hdr' = hdr
        BY <2>7 DEF DeleteEntry
      <3> QED BY <2>5, <2>6, <3>1, <3>2
    <2>8. ASSUME NEW key \in Keys, NEW val \in Vals, InsertEntry(key, val) PROVE IInv'
      <3>1. TreeInv(h)' /\ PinsInv'
        BY <2>3, <2>4, <2>8, InsertEntryStep
      <3>2. hdr' = hdr
        BY <2>8 DEF InsertEntry
      <3> QED BY <2>5, <2>6, <3>1, <3>2
    <2>9. CASE Split
      BY <2>3, <2>4, <2>5, <2>9, SplitStep
    <2>10. CASE NewRoot
      BY <2>3, <2>4, <2>5, <2>10, NewRootStep
    <2>11. CASE InsertIntoParent
      BY <2>3, <2>4, <2>5, <2>6, <2>11, InsertIntoParentStep
    <2>12. CASE InsertReturns
      BY <2>3, <2>4, <2>5, <2>12, InsertReturnsStep
    <2>13. CASE BigEnough
      BY <2>3, <2>4, <2>5, <2>6, <2>13, BigEnoughStep
    <2>14. CASE AdjustRoot
      <3>1. (TreeInv(h)' \/ (hdr'.root = IX_NO_PAGE /\ op' = Idle)) /\ PinsInv' /\ HdrType'
        BY <2>3, <2>4, <2>14, AdjustRootStep
      <3>2. CASE TreeInv(h)'
        BY <2>5, <3>1, <3>2
      <3>3. CASE hdr'.root = IX_NO_PAGE /\ op' = Idle
        BY <3>1, <3>3 DEF IInv
      <3> QED BY <3>1, <3>2, <3>3
    <2>15. CASE Redistribute
      BY <2>3, <2>4, <2>5, <2>6, <2>15, RedistributeStep
    <2>16. CASE MaintainParent
      BY <2>3, <2>4, <2>5, <2>6, <2>16, MaintainParentStep
    <2>17. CASE Coalesce
      BY <2>3, <2>4, <2>5, <2>17, CoalesceStep
    <2> QED BY <2>1, <2>7, <2>8, <2>9, <2>10, <2>11, <2>12, <2>13, <2>14, <2>15, <2>16, <2>17
  <1> QED BY <1>1, <1>2

(***************************************************************************)
(* The invariant of the index, in the middle of every call too: the nodes are*)
(* a tree, or two while the new half of a split has no parent yet; only the*)
(* node at work is overfull or short of pairs; the frames of the recursion of*)
(* insert_entry climb one level each; and a page is pinned once exactly while*)
(* the call that pinned it is under way.                                   *)
(***************************************************************************)
THEOREM TreeInvariant == Spec => []IInv
  BY InitInv, NextInv, PTL DEF Spec

(***************************************************************************)
(* Whatever splits, merges and moves a call made, at whatever level, every page*)
(* it fetched or created is unpinned when it returns, in a tree of any order*)
(* and any size.                                                           *)
(***************************************************************************)
THEOREM PinsReleasedHolds == Spec => []PinsReleased
  <1>1. IInv => PinsReleased
    <2> SUFFICES ASSUME IInv, op = Idle PROVE \A p \in PageNos : pins[p] = 0
      BY DEF PinsReleased
    <2>1. Held = {}
      BY DEF Held, Idle, Op
    <2> QED BY <2>1 DEF IInv, PinsInv
  <1> QED BY <1>1, TreeInvariant, PTL

(***************************************************************************)
(* Between two calls no node is overfull, none but the root is below min_size,*)
(* an internal root has two children, and num_pages counts the pages.      *)
(***************************************************************************)
THEOREM NodesFilledHolds == Spec => []NodesFilled
  <1>1. IInv => NodesFilled
    <2> SUFFICES ASSUME IInv, op = Idle, hdr.root # IX_NO_PAGE
                 PROVE  /\ hdr.num_pages = 2 + Cardinality(Nodes)
                        /\ \A p \in Nodes :
                             /\ Size(node[p]) < MaxSize
                             /\ p # hdr.root => Size(node[p]) >= MinSize
                             /\ p = hdr.root /\ ~node[p].leaf => Size(node[p]) >= 2
      BY DEF NodesFilled, Quiet
    <2>1. PICK h \in [Pages -> Nat] : TreeInv(h)
      BY DEF IInv
    <2>2. Nodes = Nds(node)
      BY DEF Nodes, Nds
    <2>3. hdr.num_pages = 2 + Cardinality(Nodes)
      BY <2>1, <2>2 DEF TreeInv, HdrInv
    <2> QED BY <2>1, <2>2, <2>3, QuietSizes
  <1> QED BY <1>1, TreeInvariant, PTL

-----------------------------------------------------------------------------
(* The tree between two calls.                                             *)

\* The height of a node is its level.
LEMMA HeightIs ==
  ASSUME NEW h, TreeInv(h), op = Idle
  PROVE  \A p \in Nds(node) : Height[p] = h[p]
  <1> DEFINE Only(p) == ValueAt(node[p], 0)
             Eq(f) == f = [p \in Nds(node) |-> IF node[p].leaf THEN 0 ELSE 1 + f[Only(p)]]
  <1>1. Nodes = Nds(node)
    BY DEF Nodes, Nds
  <1>2. ASSUME NEW p \in Nds(node), ~node[p].leaf
        PROVE  Only(p) \in Nds(node) /\ h[p] = 1 + h[Only(p)] /\ h[Only(p)] \in Nat
    <2>1. NodeOK(node[p]) /\ Size(node[p]) \in Nat /\ Size(node[p]) >= 2 /\ Len(node[p].vals) = Size(node[p])
      BY <1>2, NdsIs, NodeIs, QuietSizes DEF TreeInv
    <2>2. 0 \in 0..(Size(node[p]) - 1) /\ 1 \in 1..Len(node[p].vals)
      BY <2>1
    <2>3. Only(p) = node[p].vals[1]
      BY <2>1, <2>2, ValueAtIs
    <2>4. Only(p) \in Children(node[p])
      <3> HIDE DEF Only
      <3> QED BY <1>2, <2>2, <2>3, ChildrenIs, ElemIs
    <2> HIDE DEF Only
    <2> QED BY <2>4 DEF TreeInv, Tree, Down, Levels
  <1>3. Height = CHOOSE f : Eq(f)
    BY <1>1, Zenon DEF Height
  <1> HIDE DEF Only
  <1>4. \E f : Eq(f)
    <2>1. PICK g : g = [p \in Nds(node) |-> h[p]]
      OBVIOUS
    <2>2. \A p \in Nds(node) : h[p] = IF node[p].leaf THEN 0 ELSE 1 + g[Only(p)]
      BY <1>2, <2>1 DEF TreeInv, Tree, Levels
    <2>3. Eq(g)
      BY <2>1, <2>2
    <2> QED BY <2>3
  <1>5. Eq(Height)
    BY <1>3, <1>4
  <1>6. PICK f, N : f = Height /\ N = Nds(node)
    OBVIOUS
  <1>7. \A p \in N : f[p] = IF node[p].leaf THEN 0 ELSE 1 + f[Only(p)]
    BY <1>5, <1>6
  <1>8. PICK P : P = {p \in N : f[p] = h[p]}
    OBVIOUS
  <1>9. \A p \in N : h[p] \in Nat /\ (node[p].leaf <=> h[p] = 0)
    BY <1>6 DEF TreeInv, Tree, Levels
  <1>10. ASSUME NEW p \in N, \A q \in N : h[q] < h[p] => q \in P
         PROVE  p \in P
    <2>1. CASE node[p].leaf
      BY <1>7, <1>8, <1>9, <2>1
    <2>2. CASE ~node[p].leaf
      <3>1. Only(p) \in N /\ h[p] = 1 + h[Only(p)] /\ h[Only(p)] \in Nat
        BY <1>2, <1>6, <2>2
      <3>2. f[Only(p)] = h[Only(p)]
        BY <1>8, <1>9, <1>10, <3>1
      <3> QED BY <1>7, <1>8, <2>2, <3>1, <3>2
    <2> QED BY <2>1, <2>2
  <1>11. N \subseteq P
    BY <1>9, <1>10, RankInduction
  <1> QED BY <1>6, <1>8, <1>11

\* A child is listed in one place, the one find_child finds.
LEMMA PlacesIs ==
  ASSUME NEW h, TreeInv(h), op = Idle, NEW p \in Nds(node), p # hdr.root
  PROVE  Places(p) = {<<node[p].parent, find_child(node[node[p].parent], p)>>}
  <1> DEFINE m == node[p].parent
             k == find_child(node[m], p)
  <1>1. Nodes = Nds(node)
    BY DEF Nodes, Nds
  <1>2. m \in Nds(node) /\ p \in Children(node[m]) /\ ~node[m].leaf
    <2>1. op.pc # "parent"
      BY DEF Idle, Op
    <2> QED BY <2>1, RootIs
  <1> HIDE DEF m
  <1>3. NodeOK(node[m]) /\ Size(node[m]) \in Nat /\ Size(node[m]) < MaxSize
    BY <1>2, NdsIs, QuietSizes DEF TreeInv
  <1>4. PICK i \in 1..Size(node[m]) : node[m].vals[i] = p /\ k = i - 1
    <2>1. ListedAt(node[m], p)
      BY <1>2, ChildIndex DEF TreeInv
    <2> QED BY <2>1 DEF ListedAt
  <1>5. k \in 0..Order /\ k < Size(node[m]) /\ k \in 0..(Size(node[m]) - 1) /\ i = k + 1
    <2> HIDE DEF k
    <2> QED BY <1>3, <1>4, Sizes, OrderAssumption
  <1> HIDE DEF k
  <1>6. ValueAt(node[m], k) = p
    BY <1>3, <1>4, <1>5, ValueAtIs
  <1>7. ASSUME NEW q \in Nds(node), NEW j \in 0..Order, ~node[q].leaf, j < Size(node[q]), ValueAt(node[q], j) = p
        PROVE  q = m /\ j = k
    <2>1. NodeOK(node[q]) /\ Size(node[q]) \in Nat /\ Len(node[q].vals) = Size(node[q])
      BY NdsIs, NodeIs DEF TreeInv
    <2>2. j \in 0..(Size(node[q]) - 1) /\ j + 1 \in 1..Len(node[q].vals)
      BY <1>7, <2>1
    <2>3. node[q].vals[j + 1] = p
      BY <1>7, <2>1, <2>2, ValueAtIs
    <2>4. p \in Children(node[q])
      BY <1>7, <2>2, <2>3, ChildrenIs, ElemIs
    <2>5. q = m
      BY <2>4 DEF TreeInv, Tree, Down, m
    <2>6. Distinct(node[m].vals)
      BY <1>2 DEF TreeInv, Tree, Once
    <2>7. j + 1 = i
      <3>1. i \in 1..Len(node[m].vals) /\ j + 1 \in 1..Len(node[m].vals)
        BY <1>4, <2>1, <2>2, <2>5
      <3>2. node[m].vals[i] = node[m].vals[j + 1]
        BY <1>4, <2>3, <2>5
      <3> QED BY <2>6, <3>1, <3>2 DEF Distinct
    <2> QED BY <1>5, <2>5, <2>7
  <1>8. <<m, k>> \in Places(p)
    BY <1>1, <1>2, <1>5, <1>6 DEF Places
  <1>9. ASSUME NEW at \in Places(p) PROVE at = <<m, k>>
    <2>1. PICK q \in Nds(node), j \in 0..Order : at = <<q, j>>
      BY <1>1 DEF Places
    <2>2. ~node[q].leaf /\ j < Size(node[q]) /\ ValueAt(node[q], j) = p
      BY <2>1 DEF Places
    <2> QED BY <1>7, <2>1, <2>2
  <1>10. Places(p) = {<<m, k>>}
    BY <1>8, <1>9
  <1> QED BY <1>10 DEF m, k

(***************************************************************************)
(* Between two calls the nodes are one tree: each but the root is listed once,*)
(* by the node its parent pointer names and where find_child finds it, and all*)
(* leaves are at one depth.                                                *)
(***************************************************************************)
THEOREM TreeLinkedHolds == Spec => []TreeLinked
  <1>1. IInv => TreeLinked
    <2> SUFFICES ASSUME IInv, op = Idle, hdr.root # IX_NO_PAGE PROVE TreeLinked
      BY DEF TreeLinked, Quiet
    <2>1. PICK h \in [Pages -> Nat] : TreeInv(h)
      BY DEF IInv
    <2>2. Nodes = Nds(node)
      BY DEF Nodes, Nds
    <2>3. hdr.root \in Nodes /\ node[hdr.root].parent = IX_NO_PAGE /\ Tops = {hdr.root}
      BY <2>1, <2>2, QuietSizes DEF TreeInv, HdrInv
    <2>4. ASSUME NEW p \in Nodes, NEW c \in Children(node[p])
          PROVE  c \in Nodes \ {hdr.root} /\ Height[c] = Height[p] - 1
      <3>1. c \in Nds(node) /\ h[p] = h[c] + 1 /\ h[c] \in Nat
        BY <2>1, <2>2 DEF TreeInv, Tree, Down, Levels
      <3>2. c # hdr.root
        BY <2>1, <2>2, <2>3 DEF TreeInv, Tree, Up
      <3>3. Height[c] = h[c] /\ Height[p] = h[p]
        BY <2>1, <2>2, <3>1, HeightIs
      <3> QED BY <2>2, <3>1, <3>2, <3>3
    <2>5. ASSUME NEW p \in Nodes \ {hdr.root}
          PROVE  /\ node[p].parent \in Nodes
                 /\ Places(p) = {<<node[p].parent, find_child(node[node[p].parent], p)>>}
      <3>1. node[p].parent \in Nodes
        BY <2>1, <2>2, <2>3 DEF TreeInv, Tree, Up
      <3> QED BY <2>1, <2>2, <3>1, PlacesIs
    <2> QED BY <2>3, <2>4, <2>5 DEF TreeLinked
  <1> QED BY <1>1, TreeInvariant, PTL

-----------------------------------------------------------------------------
(* The leaf list, and the first and last leaves of a subtree.              *)

\* The leaf list is linked both ways.
Ring(ns) ==
  \A q \in DOMAIN ns : ns[q].leaf =>
    /\ ns[q].next \in DOMAIN ns /\ ns[ns[q].next].leaf
    /\ ns[ns[q].next].prev = q

\* A list of children, from the leaf f to the leaf l: after the last leaf of
\* each comes the first leaf of the next one.
Spans(ns, fl, ll, list, f, l) ==
  /\ f = fl[list[1]] /\ l = ll[list[Len(list)]]
  /\ \A i \in 1..(Len(list) - 1) : ns[ll[list[i]]].next = fl[list[i + 1]]

\* The last leaf of a node.  A new half that has no parent yet goes with the
\* other half, old, for everyone above the two; m is the last leaf of old alone.
Own(ll, q, old, m) == IF q = old THEN m ELSE ll[q]

LeafOf(ns, q) == q \in Nds(ns) /\ ns[q].leaf

Ends(ns, fl, ll, old, m) ==
  /\ \A q \in Nds(ns) : LeafOf(ns, fl[q]) /\ LeafOf(ns, ll[q])
  /\ \A q \in Nds(ns) : ns[q].leaf => fl[q] = q /\ Own(ll, q, old, m) = q
  /\ \A q \in Nds(ns) : ~ns[q].leaf => Spans(ns, fl, ll, ns[q].vals, fl[q], Own(ll, q, old, m))

\* The new half follows old.
Follows(ns, fl, ll, old, new, m) ==
  LeafOf(ns, m) /\ ll[old] = ll[new] /\ ns[m].next = fl[new]

\* The whole list, below root: the header, first leaf to last leaf, the header.
Whole(ns, f, l) ==
  /\ f = IX_INIT_ROOT_PAGE /\ ns[IX_LEAF_HEADER_PAGE].next = IX_INIT_ROOT_PAGE
  /\ ns[l].next = IX_LEAF_HEADER_PAGE

Old == IF op.pc = "parent" THEN Frame[1] ELSE 0

\* last_leaf, or what insert_entry will set it to when it returns.
LastLeafNow ==
  IF op.pc \in {"split", "parent", "return"} /\ Len(op.stack) > 0
  THEN IF hdr.last_leaf = op.stack[1][1] THEN op.stack[1][2] ELSE hdr.last_leaf
  ELSE hdr.last_leaf

LeafInv(fl, ll, m) ==
  /\ Ring(node)
  /\ Ends(node, fl, ll, Old, m)
  /\ op.pc = "parent" => Follows(node, fl, ll, Frame[1], Frame[2], m)
  /\ Whole(node, fl[hdr.root], ll[hdr.root]) /\ ll[hdr.root] = LastLeafNow

LInv == hdr.root # IX_NO_PAGE => \E fl, ll \in [Pages -> Pages], m \in Nat : LeafInv(fl, ll, m)

\* The children of a node: nodes, each listed once and below it.
Kids(ns) ==
  \A q \in Nds(ns) : ~ns[q].leaf =>
    /\ Len(ns[q].vals) \in Nat /\ Len(ns[q].vals) > 0 /\ Distinct(ns[q].vals)
    /\ \A i \in 1..Len(ns[q].vals) :
         ns[q].vals[i] \in Nds(ns) /\ ns[q].vals[i] # q /\ ns[ns[q].vals[i]].parent = q

\* Lists are never empty, and their members are children.
LEMMA KidsIs ==
  ASSUME NEW h, TreeInv(h)
  PROVE  Kids(node)
  <1> SUFFICES ASSUME NEW q \in Nds(node), ~node[q].leaf
               PROVE  /\ Len(node[q].vals) \in Nat /\ Len(node[q].vals) > 0 /\ Distinct(node[q].vals)
                      /\ \A i \in 1..Len(node[q].vals) :
                           /\ node[q].vals[i] \in Nds(node) /\ node[q].vals[i] # q
                           /\ node[node[q].vals[i]].parent = q
    BY DEF Kids
  <1>1. Size(node[q]) \in Nat /\ Len(node[q].vals) = Size(node[q])
    BY NdsIs, NodeIs DEF TreeInv
  <1>2. Size(node[q]) > 0
    <2>1. SizeOK(q, Size(node[q]))
      BY DEF TreeInv, SizesInv
    <2> QED BY <1>1, <2>1, Sizes DEF SizeOK
  <1>3. Distinct(node[q].vals)
    BY DEF TreeInv, Tree, Once
  <1>4. ASSUME NEW i \in 1..Len(node[q].vals)
        PROVE  /\ node[q].vals[i] \in Nds(node) /\ node[q].vals[i] # q
               /\ node[node[q].vals[i]].parent = q
    <2>1. node[q].vals[i] \in Children(node[q])
      BY ChildrenIs, ElemIs
    <2>2. /\ node[q].vals[i] \in Nds(node) /\ node[node[q].vals[i]].parent = q
          /\ h[q] = h[node[q].vals[i]] + 1
      BY <2>1 DEF TreeInv, Tree, Down
    <2>3. h[q] \in Nat
      BY DEF TreeInv, Tree, Levels
    <2>4. h[node[q].vals[i]] \in Nat
      BY <2>2 DEF TreeInv, Tree, Levels
    <2> QED BY <2>2, <2>3, <2>4
  <1> QED BY <1>1, <1>2, <1>3, <1>4

\* After the members of a list comes what came after them.
Carries(ns, ms, fl, gl, ll, kl, list) ==
  /\ \A i \in 1..Len(list) : gl[list[i]] = fl[list[i]]
  /\ \A i \in 1..(Len(list) - 1) : ms[kl[list[i]]].next = ns[ll[list[i]]].next

\* A list spans what it spanned if every child is followed by what followed it.
LEMMA SpansAs ==
  \A ns, ms, fl, gl, ll, kl, list, f, l, k :
    (/\ Spans(ns, fl, ll, list, f, l) /\ Len(list) \in Nat /\ Len(list) > 0
     /\ Carries(ns, ms, fl, gl, ll, kl, list) /\ k = kl[list[Len(list)]])
      => Spans(ms, gl, kl, list, f, k)
  <1> SUFFICES ASSUME NEW ns, NEW ms, NEW fl, NEW gl, NEW ll, NEW kl, NEW list, NEW f, NEW l, NEW k,
                      Spans(ns, fl, ll, list, f, l), Len(list) \in Nat, Len(list) > 0,
                      Carries(ns, ms, fl, gl, ll, kl, list), k = kl[list[Len(list)]]
               PROVE  Spans(ms, gl, kl, list, f, k)
    OBVIOUS
  <1>1. f = gl[list[1]]
    BY DEF Spans, Carries
  <1>2. ASSUME NEW i \in 1..(Len(list) - 1) PROVE ms[kl[list[i]]].next = gl[list[i + 1]]
    <2>1. i + 1 \in 1..Len(list) /\ i \in 1..Len(list)
      OBVIOUS
    <2> QED BY <2>1 DEF Spans, Carries
  <1> QED BY <1>1, <1>2 DEF Spans

\* The nodes ms have the leaves of ns, and the lists of those nodes that are left.
SameLeaves(ms, ns) ==
  /\ DOMAIN ms \subseteq DOMAIN ns
  /\ \A q \in DOMAIN ns : ns[q].leaf => q \in DOMAIN ms
  /\ \A q \in DOMAIN ms : /\ (ms[q].leaf <=> ns[q].leaf) /\ (~ns[q].leaf => ms[q].vals = ns[q].vals)
                          /\ (ns[q].leaf => ms[q].next = ns[q].next /\ ms[q].prev = ns[q].prev)

\* A step that leaves the lists alone leaves the leaf list alone.
LEMMA LeavesSame ==
  \A ns, ms, fl, ll, old, m :
    (/\ Kids(ns) /\ SameLeaves(ms, ns) /\ Ring(ns) /\ Ends(ns, fl, ll, old, m))
      => Ring(ms) /\ Ends(ms, fl, ll, old, m)
  <1> SUFFICES ASSUME NEW ns, NEW ms, NEW fl, NEW ll, NEW old, NEW m,
                      Kids(ns), SameLeaves(ms, ns), Ring(ns), Ends(ns, fl, ll, old, m)
               PROVE  Ring(ms) /\ Ends(ms, fl, ll, old, m)
    OBVIOUS
  <1>1. Ring(ms)
    BY DEF Ring, SameLeaves
  <1>2. Nds(ms) \subseteq Nds(ns) /\ \A q : LeafOf(ns, q) => LeafOf(ms, q) /\ ms[q].next = ns[q].next
    BY DEF Nds, SameLeaves, LeafOf
  <1>3. \A q \in Nds(ms) : (ms[q].leaf <=> ns[q].leaf) /\ (~ns[q].leaf => ms[q].vals = ns[q].vals)
    BY DEF Nds, SameLeaves
  <1>4. ASSUME NEW q \in Nds(ms), ~ms[q].leaf
        PROVE  Spans(ms, fl, ll, ms[q].vals, fl[q], Own(ll, q, old, m))
    <2>1. PICK list : list = ns[q].vals
      OBVIOUS
    <2>2. ms[q].vals = list /\ q \in Nds(ns) /\ ~ns[q].leaf
      BY <1>2, <1>3, <1>4, <2>1
    <2>3. Spans(ns, fl, ll, list, fl[q], Own(ll, q, old, m)) /\ Len(list) \in Nat /\ Len(list) > 0
      BY <2>1, <2>2 DEF Ends, Kids
    <2>4. \A i \in 1..Len(list) : LeafOf(ns, ll[list[i]])
      BY <2>1, <2>2 DEF Ends, Kids
    <2>5. Carries(ns, ms, fl, fl, ll, ll, list)
      BY <1>2, <2>3, <2>4 DEF Carries
    <2>6. Own(ll, q, old, m) = ll[list[Len(list)]]
      BY <2>3 DEF Spans
    <2> QED BY <2>2, <2>3, <2>5, <2>6, SpansAs
  <1>5. Ends(ms, fl, ll, old, m)
    BY <1>2, <1>3, <1>4 DEF Ends
  <1> QED BY <1>1, <1>5

\* A leaf that is the first one of an internal node is a first child.
LEMMA FirstIsFirst ==
  \A ns, T, h, fl, ll, old, m :
    Tree(ns, T, h) /\ Kids(ns) /\ Ends(ns, fl, ll, old, m)
      => \A q \in Nds(ns) : ~ns[q].leaf => fl[q] = ns[ns[fl[q]].parent].vals[1]
  <1> SUFFICES ASSUME NEW ns, NEW T, NEW h, NEW fl, NEW ll, NEW old, NEW m,
                      Tree(ns, T, h), Kids(ns), Ends(ns, fl, ll, old, m)
               PROVE  \A q \in Nds(ns) : ~ns[q].leaf => fl[q] = ns[ns[fl[q]].parent].vals[1]
    OBVIOUS
  <1>1. PICK P : P = {q \in Nds(ns) : ~ns[q].leaf => fl[q] = ns[ns[fl[q]].parent].vals[1]}
    OBVIOUS
  <1>2. \A q \in Nds(ns) : h[q] \in Nat
    BY DEF Tree, Levels
  <1>3. ASSUME NEW q \in Nds(ns), \A r \in Nds(ns) : h[r] < h[q] => r \in P
        PROVE  q \in P
    <2>1. CASE ns[q].leaf
      BY <1>1, <2>1
    <2>2. CASE ~ns[q].leaf
      <3>1. PICK c : c = ns[q].vals[1]
        OBVIOUS
      <3>2. c \in Nds(ns) /\ ns[c].parent = q /\ fl[q] = fl[c]
        BY <2>2, <3>1 DEF Kids, Ends, Spans
      <3>3. c \in Children(ns[q])
        BY <2>2, <3>1, ChildrenIs, ElemIs DEF Kids
      <3>4. h[c] < h[q]
        BY <1>2, <3>2, <3>3 DEF Tree, Down
      <3>5. CASE ns[c].leaf
        <4>1. fl[c] = c
          BY <3>2, <3>5 DEF Ends
        <4> QED BY <1>1, <3>1, <3>2, <4>1
      <3>6. CASE ~ns[c].leaf
        BY <1>1, <1>3, <3>2, <3>4, <3>6
      <3> QED BY <3>5, <3>6
    <2> QED BY <2>1, <2>2
  <1>4. Nds(ns) \subseteq P
    BY <1>2, <1>3, RankInduction
  <1> QED BY <1>1, <1>4

-----------------------------------------------------------------------------
(* Calls that leave the leaf list alone.                                   *)

\* A step that leaves the leaf list alone, outside of a split.
LEMMA LeafInvSame ==
  ASSUME NEW h, TreeInv(h), NEW fl, NEW ll, NEW m, LeafInv(fl, ll, m),
         SameLeaves(node', node), op.pc # "parent", op'.pc # "parent",
         fl[hdr'.root] = fl[hdr.root], ll[hdr'.root] = ll[hdr.root], LastLeafNow' = LastLeafNow
  PROVE  LeafInv(fl, ll, m)'
  <1>1. Ring(node) /\ Ends(node, fl, ll, 0, m) /\ Whole(node, fl[hdr.root], ll[hdr.root])
        /\ ll[hdr.root] = LastLeafNow
    BY DEF LeafInv, Old
  <1>2. Ring(node') /\ Ends(node', fl, ll, 0, m)
    BY <1>1, KidsIs, LeavesSame
  <1>3. hdr.root \in Nds(node)
    BY DEF TreeInv, Tree, Up, Tops
  <1>4. LeafOf(node, ll[hdr.root])
    BY <1>1, <1>3 DEF Ends
  <1>5. node'[ll[hdr.root]].next = node[ll[hdr.root]].next
    BY <1>4 DEF LeafOf, Nds, SameLeaves
  <1>6. node'[IX_LEAF_HEADER_PAGE].next = node[IX_LEAF_HEADER_PAGE].next
    BY DEF TreeInv, Store, SameLeaves
  <1>7. Whole(node', fl[hdr.root], ll[hdr.root])
    BY <1>1, <1>5, <1>6 DEF Whole
  <1> QED BY <1>1, <1>2, <1>7 DEF LeafInv, Old

\* The node p replaced by one that has the same links, and the same list.
LEMMA ReplacedLeaves ==
  \A ns, p, n :
    p \in Nds(ns) /\ SameLinks(n, ns[p]) /\ (~n.leaf => n.vals = ns[p].vals)
      => SameLeaves(Replaced(ns, p, n), ns)
  <1> SUFFICES ASSUME NEW ns, NEW p, NEW n, p \in Nds(ns), SameLinks(n, ns[p]), ~n.leaf => n.vals = ns[p].vals
               PROVE  SameLeaves(Replaced(ns, p, n), ns)
    OBVIOUS
  <1>1. PICK ms : ms = Replaced(ns, p, n)
    OBVIOUS
  <1>2. DOMAIN ms = DOMAIN ns /\ \A q \in DOMAIN ns : ms[q] = IF q = p THEN n ELSE ns[q]
    BY <1>1, ReplacedIs
  <1>3. SameLeaves(ms, ns)
    BY <1>2 DEF SameLeaves, SameLinks
  <1> QED BY <1>1, <1>3

\* insert_entry changes the pairs of a leaf.
LEMMA InsertEntryLeaves ==
  ASSUME NEW h, h \in [Pages -> Nat], TreeInv(h), NEW fl, NEW ll, NEW m, LeafInv(fl, ll, m),
         NEW key \in Keys, NEW val \in Vals, InsertEntry(key, val)
  PROVE  LeafInv(fl, ll, m)'
  <1>1. op = Idle /\ Begins /\ hdr' = hdr /\ FindLeafPage(key) # Lost
    BY DEF InsertEntry, Begins
  <1>2. PICK leaf : leaf = FindLeafPage(key)
    OBVIOUS
  <1>3. PICK n : n = Insert(node[leaf], key, val)
    OBVIOUS
  <1>4. /\ node' = Replaced(node, leaf, n)
        /\ IF Size(n) = MaxSize THEN op' = Op("split", leaf, <<>>) ELSE op' = op
    BY <1>2, <1>3 DEF InsertEntry, Replaced
  <1>5. leaf \in Nds(node) /\ node[leaf].leaf
    BY <1>1, <1>2, BeginsIs
  <1>6. NodeOK(node[leaf]) /\ Size(node[leaf]) < MaxSize /\ Size(node[leaf]) \in Nat
    BY <1>1, <1>5, NdsIs, QuietSizes DEF TreeInv
  <1>7. SameLinks(n, node[leaf]) /\ n.leaf
    BY <1>3, <1>5, <1>6, InsertIs DEF SameLinks
  <1>8. op.pc = "idle" /\ op'.pc \in {"idle", "split"} /\ op'.stack = <<>> /\ op.stack = <<>>
    BY <1>1, <1>4 DEF Op, Idle
  <1>9. SameLeaves(node', node)
    BY <1>4, <1>5, <1>7, ReplacedLeaves
  <1>10. LastLeafNow' = LastLeafNow
    BY <1>1, <1>8 DEF LastLeafNow
  <1> QED BY <1>1, <1>8, <1>9, <1>10, LeafInvSame

\* delete_entry does too.
LEMMA DeleteEntryLeaves ==
  ASSUME NEW h, h \in [Pages -> Nat], TreeInv(h), NEW fl, NEW ll, NEW m, LeafInv(fl, ll, m),
         NEW key \in Keys, DeleteEntry(key)
  PROVE  LeafInv(fl, ll, m)'
  <1>1. op = Idle /\ Begins /\ hdr' = hdr /\ FindLeafPage(key) # Lost
    BY DEF DeleteEntry, Begins
  <1>2. PICK leaf : leaf = FindLeafPage(key)
    OBVIOUS
  <1>3. PICK n : n = Remove(node[leaf], key)
    OBVIOUS
  <1>4. IF Size(n) = Size(node[leaf])
        THEN node' = node /\ op' = op
        ELSE node' = Replaced(node, leaf, n) /\ op' = Op("fix", leaf, <<>>)
    BY <1>2, <1>3 DEF DeleteEntry, Replaced
  <1>5. leaf \in Nds(node) /\ node[leaf].leaf
    BY <1>1, <1>2, BeginsIs
  <1>6. NodeOK(node[leaf])
    BY <1>5, NdsIs DEF TreeInv
  <1>7. SameLinks(n, node[leaf]) /\ n.leaf
    BY <1>3, <1>5, <1>6, RemoveIs DEF SameLinks
  <1>8. op.pc = "idle" /\ op'.pc \in {"idle", "fix"}
    BY <1>1, <1>4 DEF Op, Idle
  <1>9. SameLeaves(node', node)
    <2>1. CASE node' = node
      BY <2>1 DEF SameLeaves
    <2>2. CASE node' = Replaced(node, leaf, n)
      BY <1>5, <1>7, <2>2, ReplacedLeaves
    <2> QED BY <1>4, <2>1, <2>2
  <1>10. LastLeafNow' = LastLeafNow
    BY <1>1, <1>8 DEF LastLeafNow
  <1> QED BY <1>1, <1>8, <1>9, <1>10, LeafInvSame

\* A call that ends leaves the leaf list as it is.
LEMMA BigEnoughLeaves ==
  ASSUME NEW h, TreeInv(h), NEW fl, NEW ll, NEW m, LeafInv(fl, ll, m), BigEnough
  PROVE  LeafInv(fl, ll, m)'
  <1>1. op.pc = "fix" /\ op' = Idle /\ op'.pc = "idle" /\ node' = node /\ hdr' = hdr
    BY DEF BigEnough, Idle, Op
  <1>2. SameLeaves(node', node) /\ LastLeafNow' = LastLeafNow
    BY <1>1 DEF SameLeaves, LastLeafNow
  <1> QED BY <1>1, <1>2, LeafInvSame

\* A call of the insertion that returns sets last_leaf at most.
LEMMA InsertReturnsLeaves ==
  ASSUME NEW h, TreeInv(h), HdrType, NEW fl, NEW ll, NEW m, LeafInv(fl, ll, m), InsertReturns
  PROVE  LeafInv(fl, ll, m)'
  <1>1. PICK rest : rest = SubSeq(op.stack, 1, Len(op.stack) - 1)
    OBVIOUS
  <1>2. /\ op.pc = "return" /\ node' = node
        /\ op' = IF rest = <<>> THEN Idle ELSE [op EXCEPT !.stack = rest]
        /\ hdr' = IF rest = <<>> /\ Frame[1] = hdr.last_leaf
                  THEN [hdr EXCEPT !.last_leaf = Frame[2]] ELSE hdr
    BY <1>1 DEF InsertReturns
  <1>3. OpType /\ Len(op.stack) > 0
    BY <1>2 DEF TreeInv, OpInv, ReturnInv
  <1>4. op.stack \in Seq(Seq(Pages)) /\ Len(op.stack) \in Nat
    BY <1>3, SeqIs DEF OpType
  <1>5. /\ rest \in Seq(Seq(Pages)) /\ Len(rest) = Len(op.stack) - 1
        /\ \A k \in 1..(Len(op.stack) - 1) : rest[k] = op.stack[k]
    BY <1>1, <1>3, <1>4, RestOf DEF Rest
  <1>6. hdr'.root = hdr.root /\ SameLeaves(node', node)
    BY <1>2 DEF HdrType, SameLeaves
  <1>7. op'.pc \in {"idle", "return"} /\ LastLeafNow' = LastLeafNow
    <2>1. CASE rest = <<>>
      <3>1. op'.pc = "idle" /\ Len(op.stack) = 1 /\ Frame = op.stack[1]
        BY <1>2, <1>4, <1>5, <2>1 DEF Idle, Op, Frame
      <3>2. hdr'.last_leaf = IF hdr.last_leaf = op.stack[1][1] THEN op.stack[1][2] ELSE hdr.last_leaf
        BY <1>2, <2>1, <3>1 DEF HdrType
      <3> QED BY <1>2, <1>3, <3>1, <3>2 DEF LastLeafNow
    <2>2. CASE rest # <<>>
      <3>1. Len(rest) > 0
        BY <1>4, <1>5, <2>2, EmptySeq
      <3>2. rest[1] = op.stack[1]
        BY <1>4, <1>5, <3>1
      <3>3. op'.pc = "return" /\ op'.stack = rest /\ hdr' = hdr
        BY <1>2, <1>3, <2>2 DEF OpType
      <3> QED BY <1>2, <1>3, <3>1, <3>2, <3>3 DEF LastLeafNow
    <2> QED BY <2>1, <2>2
  <1> QED BY <1>2, <1>6, <1>7, LeafInvSame

\* maintain_parent changes keys.
LEMMA MaintainParentLeaves ==
  ASSUME NEW h, TreeInv(h), NEW fl, NEW ll, NEW m, LeafInv(fl, ll, m), MaintainParent
  PROVE  LeafInv(fl, ll, m)'
  <1>1. op.pc = "up" /\ hdr' = hdr /\ op.page \in Nds(node) /\ OpType
    BY DEF MaintainParent, TreeInv, OpInv, UpInv
  <1>2. PICK c : c = op.page
    OBVIOUS
  <1>3. PICK p : p = node[c].parent
    OBVIOUS
  <1>4. PICK idx, key : idx = find_child(node[p], c) /\ key = KeyAt(node[c], 0)
    OBVIOUS
  <1>5. Parent = p /\ Index = idx
    BY <1>2, <1>3, <1>4 DEF Parent, Index
  <1>6. CASE IsRoot(c) \/ KeyAt(node[p], idx) = key
    <2>1. op' = Idle /\ op'.pc = "idle" /\ node' = node
      BY <1>2, <1>4, <1>5, <1>6 DEF MaintainParent, Idle, Op
    <2>2. SameLeaves(node', node) /\ LastLeafNow' = LastLeafNow
      BY <1>1, <2>1 DEF SameLeaves, LastLeafNow
    <2> QED BY <1>1, <2>1, <2>2, LeafInvSame
  <1>7. CASE ~(IsRoot(c) \/ KeyAt(node[p], idx) = key)
    <2>1. PICK n : n = SetKey(node[p], idx, key)
      OBVIOUS
    <2>2. node' = Replaced(node, p, n) /\ op' = [op EXCEPT !.page = p]
      BY <1>2, <1>4, <1>5, <1>7, <2>1 DEF MaintainParent, Replaced
    <2>3. op'.pc = "up"
      BY <1>1, <2>2 DEF OpType
    <2>4. c \in Nds(node) /\ p \in Nds(node)
      BY <1>1, <1>2, <1>3, <1>7, RootIs
    <2>5. SameLinks(n, node[p]) /\ n.vals = node[p].vals
      <3>1. node[p] \in NodeRecords
        BY <2>4, NdsIs DEF TreeInv, NodeOK
      <3> QED BY <2>1, <3>1 DEF SetKey, SameLinks, NodeRecords
    <2>6. SameLeaves(node', node)
      BY <2>2, <2>4, <2>5, ReplacedLeaves
    <2>7. LastLeafNow' = LastLeafNow
      BY <1>1, <2>3 DEF LastLeafNow
    <2> QED BY <1>1, <2>3, <2>6, <2>7, LeafInvSame
  <1> QED BY <1>6, <1>7

\* The only child of the root has the leaves of the root.
LEMMA AdjustRootLeaves ==
  ASSUME NEW h, TreeInv(h), HdrType, NEW fl, NEW ll, NEW m, LeafInv(fl, ll, m), AdjustRoot
  PROVE  hdr'.root # IX_NO_PAGE => LeafInv(fl, ll, m)'
  <1>1. PICK r : r = op.page
    OBVIOUS
  <1>2. PICK only : only = ValueAt(node[r], 0)
    OBVIOUS
  <1>3. /\ Underflows /\ IsRoot(r) /\ op' = Idle /\ op'.pc = "idle"
    BY <1>1 DEF AdjustRoot, Idle, Op
  <1>4. op.pc = "fix" /\ r \in Nds(node) /\ Store(node) /\ NodeOK(node[r])
    BY <1>1, <1>3, FixIs
  <1>5. r = hdr.root
    BY <1>3, <1>4, RootIs
  <1>6. hdr'.last_leaf = hdr.last_leaf
    BY <1>1 DEF AdjustRoot, HdrType
  <1>7. LastLeafNow' = LastLeafNow
    BY <1>3, <1>4, <1>6 DEF LastLeafNow
  <1>8. CASE ~node[r].leaf /\ Size(node[r]) = 1
    <2>1. /\ node' = [q \in DOMAIN node \ {r} |->
                        IF q = only THEN Reparented(node[q], IX_NO_PAGE) ELSE node[q]]
          /\ hdr' = [hdr EXCEPT !.root = only, !.num_pages = @ - 1]
      BY <1>1, <1>2, <1>8 DEF AdjustRoot, Reparented
    <2>2. DOMAIN node' = DOMAIN node \ {r} /\ \A q \in DOMAIN node \ {r} :
            node'[q] = IF q = only THEN Reparented(node[q], IX_NO_PAGE) ELSE node[q]
      BY <2>1
    <2>3. ASSUME NEW q \in DOMAIN node'
          PROVE  SamePairs(node'[q], node[q]) /\ node'[q].prev = node[q].prev /\ node'[q].next = node[q].next
      <3>1. q \in DOMAIN node \ {r} /\ NodeOK(node[q])
        BY <1>4, <2>2 DEF Store
      <3>2. CASE q = only
        BY <2>2, <3>1, <3>2, ReparentIs
      <3>3. CASE q # only
        BY <2>2, <3>1, <3>3 DEF SamePairs
      <3> QED BY <3>2, <3>3
    <2>4. SameLeaves(node', node)
      BY <1>8, <2>2, <2>3 DEF SameLeaves, SamePairs
    <2>5. hdr'.root = only
      BY <2>1 DEF HdrType
    <2>6. Len(node[r].vals) = 1 /\ only = node[r].vals[1]
      <3>1. 0 \in 0..(Size(node[r]) - 1)
        BY <1>8
      <3>2. only = node[r].vals[0 + 1] /\ Len(node[r].vals) = 1
        BY <1>2, <1>4, <1>8, <3>1, ValueAtIs, NodeIs
      <3> QED BY <3>2
    <2>7. Spans(node, fl, ll, node[r].vals, fl[r], ll[r])
      <3>1. r # Old
        BY <1>4, NdsIs, PagesIs DEF Old
      <3> QED BY <1>4, <1>8, <3>1 DEF LeafInv, Ends, Own
    <2>8. fl[only] = fl[r] /\ ll[only] = ll[r]
      BY <2>6, <2>7 DEF Spans
    <2> QED BY <1>3, <1>4, <1>5, <1>7, <2>4, <2>5, <2>8, LeafInvSame
  <1>9. CASE node[r].leaf /\ Size(node[r]) = 0
    BY <1>1, <1>9 DEF AdjustRoot, HdrType
  <1>10. CASE ~(~node[r].leaf /\ Size(node[r]) = 1) /\ ~(node[r].leaf /\ Size(node[r]) = 0)
    <2>1. node' = node /\ hdr' = hdr
      BY <1>1, <1>10 DEF AdjustRoot
    <2>2. SameLeaves(node', node)
      BY <2>1 DEF SameLeaves
    <2> QED BY <1>3, <1>4, <1>7, <2>1, <2>2, LeafInvSame
  <1> QED BY <1>8, <1>9, <1>10

-----------------------------------------------------------------------------
(* The leaf list across a split.                                           *)

\* Leaves and lists of ms and ns agree, on the nodes of ns.
SameLists(ms, ns) ==
  \A q \in DOMAIN ns : (ms[q].leaf <=> ns[q].leaf) /\ (~ns[q].leaf => ms[q].vals = ns[q].vals)

\* What is after a leaf p that is split, when new is put in.
SplitNext(ll, p, new) == [q \in Pages |-> IF q = new \/ ll[q] = p THEN new ELSE ll[q]]
WithFirst(fl, new, f) == [q \in Pages |-> IF q = new THEN f ELSE fl[q]]

\* Split of a leaf p: new comes after it.
LEMMA LeafSplitRing ==
  \A ns, ms, p, new :
    (/\ Ring(ns) /\ SameLists(ms, ns) /\ p \in DOMAIN ns /\ ns[p].leaf /\ new \notin DOMAIN ns
     /\ DOMAIN ms = DOMAIN ns \cup {new} /\ ms[new].leaf /\ PutAfter(ms, ns, p, new))
      => Ring(ms)
  <1> SUFFICES ASSUME NEW ns, NEW ms, NEW p, NEW new,
                      Ring(ns), SameLists(ms, ns), p \in DOMAIN ns, ns[p].leaf, new \notin DOMAIN ns,
                      DOMAIN ms = DOMAIN ns \cup {new}, ms[new].leaf, PutAfter(ms, ns, p, new),
                      NEW q \in DOMAIN ms, ms[q].leaf
               PROVE  ms[q].next \in DOMAIN ms /\ ms[ms[q].next].leaf /\ ms[ms[q].next].prev = q
    BY DEF Ring
  <1>1. \A r \in DOMAIN ns \cup {new} :
         /\ ms[r].next = IF r = p THEN new ELSE IF r = new THEN ns[p].next ELSE ns[r].next
         /\ ms[r].prev = IF r = ns[p].next THEN new ELSE IF r = new THEN p ELSE ns[r].prev
    BY DEF PutAfter
  <1>2. ns[p].next \in DOMAIN ns /\ ns[ns[p].next].leaf /\ ns[p].next # new
    BY DEF Ring
  <1>3. CASE q = p
    BY <1>1, <1>2, <1>3
  <1>4. CASE q = new
    BY <1>1, <1>2, <1>4 DEF SameLists
  <1>5. CASE q # p /\ q # new
    <2>1. q \in DOMAIN ns /\ ns[q].leaf
      BY <1>5 DEF SameLists
    <2>2. ns[q].next \in DOMAIN ns /\ ns[ns[q].next].leaf /\ ns[ns[q].next].prev = q
      BY <2>1 DEF Ring
    <2>3. ns[q].next # ns[p].next
      BY <1>5, <2>2 DEF Ring
    <2> QED BY <1>1, <1>5, <2>1, <2>2, <2>3 DEF SameLists
  <1> QED BY <1>3, <1>4, <1>5

\* First and last leaves after the split of a leaf.
LEMMA LeafSplitEnds ==
  \A ns, ms, fl, ll, p, new, z :
    (/\ Store(ns) /\ Kids(ns) /\ Ends(ns, fl, ll, 0, z)
     /\ SameLists(ms, ns) /\ p \in Nds(ns) /\ ns[p].leaf /\ new \in Pages /\ new \notin DOMAIN ns
     /\ DOMAIN ms = DOMAIN ns \cup {new} /\ ms[new].leaf /\ PutAfter(ms, ns, p, new))
      => /\ Ends(ms, WithFirst(fl, new, new), SplitNext(ll, p, new), p, p)
         /\ Follows(ms, WithFirst(fl, new, new), SplitNext(ll, p, new), p, new, p)
  <1> SUFFICES ASSUME NEW ns, NEW ms, NEW fl, NEW ll, NEW p, NEW new, NEW z,
                      Store(ns), Kids(ns), Ends(ns, fl, ll, 0, z),
                      SameLists(ms, ns), p \in Nds(ns), ns[p].leaf, new \in Pages, new \notin DOMAIN ns,
                      DOMAIN ms = DOMAIN ns \cup {new}, ms[new].leaf, PutAfter(ms, ns, p, new)
               PROVE  /\ Ends(ms, WithFirst(fl, new, new), SplitNext(ll, p, new), p, p)
                      /\ Follows(ms, WithFirst(fl, new, new), SplitNext(ll, p, new), p, new, p)
    OBVIOUS
  <1>1. PICK gl, kl : gl = WithFirst(fl, new, new) /\ kl = SplitNext(ll, p, new)
    OBVIOUS
  <1>2. \A r \in DOMAIN ns \cup {new} :
          ms[r].next = IF r = p THEN new ELSE IF r = new THEN ns[p].next ELSE ns[r].next
    BY DEF PutAfter
  <1>3. /\ Nds(ms) = Nds(ns) \cup {new} /\ new \notin Nds(ns) /\ p # new /\ 0 \notin Nds(ns)
        /\ Nds(ns) \subseteq Pages /\ Nds(ns) \subseteq DOMAIN ns
    BY NdsIs, PagesIs DEF Nds
  <1>4. /\ gl[new] = new /\ kl[new] = new
        /\ \A q \in Nds(ns) : gl[q] = fl[q] /\ kl[q] = IF ll[q] = p THEN new ELSE ll[q]
    BY <1>1, <1>3 DEF WithFirst, SplitNext
  <1>5. \A q \in Nds(ns) : /\ LeafOf(ns, fl[q]) /\ LeafOf(ns, ll[q])
                           /\ (ns[q].leaf => fl[q] = q /\ ll[q] = q)
                           /\ (~ns[q].leaf => Spans(ns, fl, ll, ns[q].vals, fl[q], ll[q]))
    BY <1>3 DEF Ends, Own
  <1>6. \A q : LeafOf(ns, q) => LeafOf(ms, q)
    BY <1>3 DEF LeafOf, SameLists
  <1>7. LeafOf(ms, new)
    BY <1>3 DEF LeafOf
  <1>8. \A q \in Nds(ms) : LeafOf(ms, gl[q]) /\ LeafOf(ms, kl[q])
    BY <1>3, <1>4, <1>5, <1>6, <1>7
  <1>9. ASSUME NEW q \in Nds(ms), ms[q].leaf PROVE gl[q] = q /\ Own(kl, q, p, p) = q
    <2>1. CASE q = new
      BY <1>3, <1>4, <2>1 DEF Own
    <2>2. CASE q # new
      <3>1. q \in Nds(ns) /\ ns[q].leaf
        BY <1>3, <1>9, <2>2 DEF SameLists
      <3> QED BY <1>4, <1>5, <3>1 DEF Own
    <2> QED BY <2>1, <2>2
  <1>10. ASSUME NEW q \in Nds(ms), ~ms[q].leaf
         PROVE  Spans(ms, gl, kl, ms[q].vals, gl[q], Own(kl, q, p, p))
    <2>1. q \in Nds(ns) /\ ~ns[q].leaf /\ ms[q].vals = ns[q].vals /\ q # p
      BY <1>3, <1>10 DEF SameLists
    <2>2. PICK list : list = ns[q].vals
      OBVIOUS
    <2>3. Spans(ns, fl, ll, list, fl[q], ll[q]) /\ Len(list) \in Nat /\ Len(list) > 0
      BY <1>5, <2>1, <2>2 DEF Kids
    <2>4. \A i \in 1..Len(list) : list[i] \in Nds(ns)
      BY <2>1, <2>2 DEF Kids
    <2>5. ASSUME NEW c \in Nds(ns) PROVE ms[kl[c]].next = ns[ll[c]].next
      <3>1. LeafOf(ns, ll[c]) /\ ll[c] # new /\ ll[c] \in DOMAIN ns
        BY <1>3, <1>5 DEF LeafOf
      <3>2. CASE ll[c] = p
        BY <1>2, <1>3, <1>4, <3>2
      <3>3. CASE ll[c] # p
        BY <1>2, <1>4, <3>1, <3>3
      <3> QED BY <3>2, <3>3
    <2>6. Carries(ns, ms, fl, gl, ll, kl, list)
      BY <1>4, <2>3, <2>4, <2>5 DEF Carries
    <2>7. kl[q] = kl[list[Len(list)]]
      <3>1. ll[q] = ll[list[Len(list)]] /\ list[Len(list)] \in Nds(ns)
        BY <2>3, <2>4 DEF Spans
      <3> QED BY <1>4, <2>1, <3>1
    <2>8. Spans(ms, gl, kl, list, fl[q], kl[q])
      BY <2>3, <2>6, <2>7, SpansAs
    <2> QED BY <1>4, <2>1, <2>2, <2>8 DEF Own
  <1>11. Ends(ms, gl, kl, p, p)
    BY <1>8, <1>9, <1>10 DEF Ends
  <1>12. Follows(ms, gl, kl, p, new, p)
    <2>1. LeafOf(ns, p) /\ ll[p] = p
      BY <1>5 DEF LeafOf
    <2>2. ms[p].next = new
      BY <1>2, <1>3
    <2> QED BY <1>4, <1>6, <2>1, <2>2 DEF Follows
  <1> QED BY <1>1, <1>11, <1>12

\* A part of a list spans from the first leaf of its first member to the last
\* leaf of its last one.
LEMMA SpansCut ==
  \A S, ns, fl, ll, list, f, l, a, b :
    (/\ Spans(ns, fl, ll, list, f, l) /\ list \in Seq(S) /\ a \in 1..Len(list) /\ b \in a..Len(list))
      => Spans(ns, fl, ll, SubSeq(list, a, b), fl[list[a]], ll[list[b]])
  <1> SUFFICES ASSUME NEW S, NEW ns, NEW fl, NEW ll, NEW list, NEW f, NEW l, NEW a, NEW b,
                      Spans(ns, fl, ll, list, f, l), list \in Seq(S), a \in 1..Len(list), b \in a..Len(list)
               PROVE  Spans(ns, fl, ll, SubSeq(list, a, b), fl[list[a]], ll[list[b]])
    OBVIOUS
  <1>1. PICK u : u = SubSeq(list, a, b)
    OBVIOUS
  <1>2. Len(list) \in Nat
    BY SeqIs
  <1>3. a \in 1..(Len(list) + 1) /\ b \in (a - 1)..Len(list)
    BY <1>2
  <1>4. Len(u) = b - a + 1 /\ \A i \in 1..(b - a + 1) : u[i] = list[a + i - 1]
    BY <1>1, <1>3, CutIs
  <1>5. u[1] = list[a] /\ u[Len(u)] = list[b]
    <2>1. 1 \in 1..(b - a + 1) /\ b - a + 1 \in 1..(b - a + 1) /\ a + 1 - 1 = a /\ a + (b - a + 1) - 1 = b
      BY <1>2
    <2>2. u[1] = list[a + 1 - 1] /\ u[b - a + 1] = list[a + (b - a + 1) - 1]
      BY <1>4, <2>1
    <2> QED BY <1>4, <2>1, <2>2
  <1>6. ASSUME NEW i \in 1..(Len(u) - 1) PROVE ns[ll[u[i]]].next = fl[u[i + 1]]
    <2>1. i \in 1..(b - a + 1) /\ i + 1 \in 1..(b - a + 1) /\ a + (i + 1) - 1 = (a + i - 1) + 1
          /\ a + i - 1 \in 1..(Len(list) - 1)
      BY <1>2, <1>4
    <2>2. u[i] = list[a + i - 1] /\ u[i + 1] = list[a + (i + 1) - 1]
      BY <1>4, <2>1
    <2>3. ns[ll[list[a + i - 1]]].next = fl[list[(a + i - 1) + 1]]
      BY <2>1 DEF Spans
    <2> QED BY <2>1, <2>2, <2>3
  <1>7. Spans(ns, fl, ll, u, fl[list[a]], ll[list[b]])
    BY <1>5, <1>6 DEF Spans
  <1> QED BY <1>1, <1>7

\* The lists of ms, when p is split into p and new after its first mid children.
HalfLists(ms, ns, p, new, mid) ==
  /\ DOMAIN ms = DOMAIN ns \cup {new} /\ ~ms[new].leaf
  /\ \A q \in DOMAIN ns : /\ (ms[q].leaf <=> ns[q].leaf) /\ (ns[q].leaf => ms[q].next = ns[q].next)
                          /\ (~ns[q].leaf /\ q # p => ms[q].vals = ns[q].vals)
  /\ ms[p].vals = SubSeq(ns[p].vals, 1, mid)
  /\ ms[new].vals = SubSeq(ns[p].vals, mid + 1, Len(ns[p].vals))

\* First and last leaves after the split of an internal node.
LEMMA InnerSplitEnds ==
  \A ns, ms, fl, ll, p, new, z, mid, m, f :
    (/\ Store(ns) /\ Kids(ns) /\ Ends(ns, fl, ll, 0, z)
     /\ p \in Nds(ns) /\ ~ns[p].leaf /\ new \in Pages /\ new \notin DOMAIN ns
     /\ mid \in 1..(Len(ns[p].vals) - 1) /\ HalfLists(ms, ns, p, new, mid)
     /\ m = ll[ns[p].vals[mid]] /\ f = fl[ns[p].vals[mid + 1]])
      => /\ Ends(ms, WithFirst(fl, new, f), WithFirst(ll, new, ll[p]), p, m)
         /\ Follows(ms, WithFirst(fl, new, f), WithFirst(ll, new, ll[p]), p, new, m)
  <1> SUFFICES ASSUME NEW ns, NEW ms, NEW fl, NEW ll, NEW p, NEW new, NEW z, NEW mid, NEW m, NEW f,
                      Store(ns), Kids(ns), Ends(ns, fl, ll, 0, z),
                      p \in Nds(ns), ~ns[p].leaf, new \in Pages, new \notin DOMAIN ns,
                      mid \in 1..(Len(ns[p].vals) - 1), HalfLists(ms, ns, p, new, mid),
                      m = ll[ns[p].vals[mid]], f = fl[ns[p].vals[mid + 1]]
               PROVE  /\ Ends(ms, WithFirst(fl, new, f), WithFirst(ll, new, ll[p]), p, m)
                      /\ Follows(ms, WithFirst(fl, new, f), WithFirst(ll, new, ll[p]), p, new, m)
    OBVIOUS
  <1>1. PICK gl, kl : gl = WithFirst(fl, new, f) /\ kl = WithFirst(ll, new, ll[p])
    OBVIOUS
  <1>2. PICK list, n : list = ns[p].vals /\ n = Len(list)
    OBVIOUS
  <1>3. /\ Nds(ms) = Nds(ns) \cup {new} /\ new \notin Nds(ns) /\ p # new /\ 0 \notin Nds(ns)
        /\ Nds(ns) \subseteq Pages /\ Nds(ns) \subseteq DOMAIN ns
    BY NdsIs, PagesIs DEF Nds, HalfLists
  <1>4. gl[new] = f /\ kl[new] = ll[p] /\ \A q \in Nds(ns) : gl[q] = fl[q] /\ kl[q] = ll[q]
    BY <1>1, <1>3 DEF WithFirst
  <1>5. \A q \in Nds(ns) : /\ LeafOf(ns, fl[q]) /\ LeafOf(ns, ll[q])
                           /\ (ns[q].leaf => fl[q] = q /\ ll[q] = q)
                           /\ (~ns[q].leaf => Spans(ns, fl, ll, ns[q].vals, fl[q], ll[q]))
    BY <1>3 DEF Ends, Own
  <1>6. \A q : LeafOf(ns, q) => LeafOf(ms, q) /\ ms[q].next = ns[q].next
    BY <1>3 DEF LeafOf, HalfLists
  <1>7. /\ list \in Seq(Pages) /\ n \in Nat /\ mid \in 1..n /\ mid + 1 \in 1..n
        /\ \A i \in 1..n : list[i] \in Nds(ns) /\ list[i] # p
    <2>1. list \in Seq(Pages)
      BY <1>2, NdsIs, NodeIs
    <2>2. n \in Nat
      BY <1>2, <2>1, SeqIs
    <2> QED BY <1>2, <2>1, <2>2 DEF Kids
  <1>8. LeafOf(ns, f) /\ LeafOf(ns, m)
    BY <1>2, <1>5, <1>7
  <1>9. \A q \in Nds(ms) : LeafOf(ms, gl[q]) /\ LeafOf(ms, kl[q])
    BY <1>3, <1>4, <1>5, <1>6, <1>8
  <1>10. ASSUME NEW q \in Nds(ms), ms[q].leaf PROVE gl[q] = q /\ Own(kl, q, p, m) = q
    <2>1. q # new /\ q # p
      BY <1>3, <1>10 DEF HalfLists
    <2>2. q \in Nds(ns) /\ ns[q].leaf
      BY <1>3, <1>10, <2>1 DEF HalfLists
    <2> QED BY <1>4, <1>5, <2>1, <2>2 DEF Own
  <1>11. ASSUME NEW c, \A i \in 1..Len(c) : c[i] \in Nds(ns), Len(c) \in Nat
         PROVE  Carries(ns, ms, fl, gl, ll, kl, c)
    <2>1. ASSUME NEW i \in 1..Len(c) PROVE gl[c[i]] = fl[c[i]] /\ ms[kl[c[i]]].next = ns[ll[c[i]]].next
      BY <1>4, <1>5, <1>6, <1>11
    <2> QED BY <1>11, <2>1 DEF Carries
  <1>12. ASSUME NEW a \in 1..n, NEW b \in a..n
         PROVE  Spans(ms, gl, kl, SubSeq(list, a, b), fl[list[a]], ll[list[b]])
    <2>1. PICK u : u = SubSeq(list, a, b)
      OBVIOUS
    <2>2. Spans(ns, fl, ll, list, fl[p], ll[p])
      BY <1>2, <1>5
    <2>3. Spans(ns, fl, ll, u, fl[list[a]], ll[list[b]])
      BY <1>2, <1>7, <2>1, <2>2, SpansCut
    <2>4. a \in 1..(n + 1) /\ b \in (a - 1)..n
      BY <1>7
    <2>5. Len(u) = b - a + 1 /\ \A i \in 1..(b - a + 1) : u[i] = list[a + i - 1]
      BY <1>2, <1>7, <2>1, <2>4, CutIs
    <2>6. Len(u) \in Nat /\ Len(u) > 0
      BY <1>7, <2>5
    <2>7. ASSUME NEW i \in 1..Len(u) PROVE u[i] \in Nds(ns)
      <3>1. a + i - 1 \in 1..n /\ u[i] = list[a + i - 1]
        BY <1>7, <2>5
      <3> QED BY <1>7, <3>1
    <2>8. Carries(ns, ms, fl, gl, ll, kl, u)
      BY <1>11, <2>6, <2>7
    <2>9. ll[list[b]] = kl[u[Len(u)]]
      <3>1. ll[list[b]] = ll[u[Len(u)]]
        BY <2>3 DEF Spans
      <3> QED BY <1>4, <2>6, <2>7, <3>1
    <2>10. Spans(ms, gl, kl, u, fl[list[a]], ll[list[b]])
      BY <2>3, <2>6, <2>8, <2>9, SpansAs
    <2> QED BY <2>1, <2>10
  <1>13. ASSUME NEW q \in Nds(ms), ~ms[q].leaf
         PROVE  Spans(ms, gl, kl, ms[q].vals, gl[q], Own(kl, q, p, m))
    <2>1. Spans(ns, fl, ll, list, fl[p], ll[p])
      BY <1>2, <1>5
    <2>2. CASE q = p
      <3>1. 1 \in 1..n /\ mid \in 1..n
        BY <1>7
      <3>2. Spans(ms, gl, kl, SubSeq(list, 1, mid), fl[list[1]], ll[list[mid]])
        BY <1>7, <1>12, <3>1
      <3>3. fl[list[1]] = gl[p] /\ ll[list[mid]] = m
        BY <1>2, <1>4, <2>1 DEF Spans
      <3> QED BY <1>2, <2>2, <3>2, <3>3 DEF Own, HalfLists
    <2>3. CASE q = new
      <3>1. mid + 1 \in 1..n /\ n \in (mid + 1)..n
        BY <1>7
      <3>2. Spans(ms, gl, kl, SubSeq(list, mid + 1, n), fl[list[mid + 1]], ll[list[n]])
        BY <1>12, <3>1
      <3>3. fl[list[mid + 1]] = gl[new] /\ ll[list[n]] = kl[new]
        BY <1>2, <1>4, <2>1 DEF Spans
      <3> QED BY <1>2, <1>3, <2>3, <3>2, <3>3 DEF Own, HalfLists
    <2>4. CASE q # p /\ q # new
      <3>1. q \in Nds(ns) /\ ~ns[q].leaf /\ ms[q].vals = ns[q].vals
        BY <1>3, <1>13, <2>4 DEF HalfLists
      <3>2. PICK u : u = ns[q].vals
        OBVIOUS
      <3>3. Len(u) \in Nat /\ Len(u) > 0 /\ \A i \in 1..Len(u) : u[i] \in Nds(ns)
        BY <3>1, <3>2 DEF Kids
      <3>4. Spans(ns, fl, ll, u, fl[q], ll[q])
        BY <1>5, <3>1, <3>2
      <3>5. kl[q] = kl[u[Len(u)]]
        <4>1. ll[q] = ll[u[Len(u)]]
          BY <3>4 DEF Spans
        <4> QED BY <1>4, <3>1, <3>3, <4>1
      <3>6. Carries(ns, ms, fl, gl, ll, kl, u)
        BY <1>11, <3>3
      <3>7. Spans(ms, gl, kl, u, fl[q], kl[q])
        BY <3>3, <3>4, <3>5, <3>6, SpansAs
      <3> QED BY <1>4, <2>4, <3>1, <3>2, <3>7 DEF Own
    <2> QED BY <2>2, <2>3, <2>4
  <1>14. Ends(ms, gl, kl, p, m)
    BY <1>9, <1>10, <1>13 DEF Ends
  <1>15. Follows(ms, gl, kl, p, new, m)
    <2>1. ns[m].next = f
      <3>1. Spans(ns, fl, ll, list, fl[p], ll[p])
        BY <1>2, <1>5
      <3>2. mid \in 1..(Len(list) - 1)
        BY <1>2
      <3> QED BY <1>2, <3>1, <3>2 DEF Spans
    <2> QED BY <1>4, <1>6, <1>8, <2>1 DEF Follows
  <1> QED BY <1>1, <1>14, <1>15

\* The leaves of ns, in ms too; other nodes of ms are internal.
LEMMA RingSame ==
  \A ns, ms :
    (/\ Ring(ns) /\ DOMAIN ns \subseteq DOMAIN ms /\ \A q \in DOMAIN ms : q \notin DOMAIN ns => ~ms[q].leaf)
      /\ (\A q \in DOMAIN ns : (ms[q].leaf <=> ns[q].leaf) /\ ms[q].next = ns[q].next /\ ms[q].prev = ns[q].prev)
      => Ring(ms)
  BY DEF Ring

\* Split keeps the leaf list, with two tops.
LEMMA SplitLeaves ==
  ASSUME NEW h, TreeInv(h), HdrType, NEW fl \in [Pages -> Pages], NEW ll \in [Pages -> Pages],
         NEW m \in Nat, LeafInv(fl, ll, m), Split
  PROVE  \E gl, kl \in [Pages -> Pages], k \in Nat : LeafInv(gl, kl, k)'
  <1>1. op.pc = "split" /\ HasPage /\ SplitInv(h) /\ OpType
    BY DEF Split, TreeInv, OpInv
  <1>2. PICK p : p = op.page
    OBVIOUS
  <1>3. PICK new : new = FreshPage
    OBVIOUS
  <1>4. PICK l : l = LeftHalf(node[p])
    OBVIOUS
  <1>5. PICK r : r = RightHalf(node[p])
    OBVIOUS
  <1>6. PICK stack : stack = op.stack
    OBVIOUS
  <1>7. /\ hdr' = [hdr EXCEPT !.num_pages = @ + 1]
        /\ op' = Op("parent", p, Append(stack, <<p, new>>))
    BY <1>2, <1>3, <1>6 DEF Split
  <1>8. /\ p \in Nds(node) /\ new \in Pages /\ new \notin DOMAIN node
        /\ IsHalves(l, r, node[p]) /\ HalvedAs(node', node, p, new, l, r)
        /\ PutAfter(node', node, p, new)
    BY <1>2, <1>3, <1>4, <1>5, SplitNodes
  <1>9. Store(node) /\ hdr.root \in Nds(node) /\ Kids(node)
    BY <1>1, KidsIs DEF TreeInv, Tops, Tree, Up
  <1>10. /\ Nds(node) \subseteq Pages /\ Nds(node) \subseteq DOMAIN node /\ new \notin Nds(node) /\ p # new
         /\ DOMAIN node' = DOMAIN node \cup {new} /\ 0 \notin Nds(node) /\ IX_LEAF_HEADER_PAGE \notin Nds(node)
    BY <1>8, <1>9, NdsIs, PagesIs DEF Nds, HalvedAs
  <1>11. hdr'.root = hdr.root /\ hdr'.last_leaf = hdr.last_leaf
    BY <1>7 DEF HdrType
  <1>12. stack \in Seq(Seq(Pages)) /\ Len(stack) \in Nat /\ <<p, new>> \in Seq(Pages)
    BY <1>1, <1>6, <1>8, <1>10, SeqIs DEF OpType
  <1>13. /\ op'.pc = "parent" /\ Len(op'.stack) = Len(stack) + 1
         /\ op'.stack[Len(stack) + 1] = <<p, new>>
         /\ \A k \in 1..Len(stack) : op'.stack[k] = stack[k]
    <2>1. op'.pc = "parent" /\ op'.stack = Append(stack, <<p, new>>)
      BY <1>7 DEF Op
    <2>2. /\ Len(Append(stack, <<p, new>>)) = Len(stack) + 1
          /\ Append(stack, <<p, new>>)[Len(stack) + 1] = <<p, new>>
          /\ \A k \in 1..Len(stack) : Append(stack, <<p, new>>)[k] = stack[k]
      BY <1>12, AppendProperties
    <2> QED BY <2>1, <2>2
  <1>14. Frame' = <<p, new>> /\ Frame'[1] = p /\ Frame'[2] = new /\ Old' = p
    BY <1>13 DEF Frame, Old
  <1>15. h[p] = Len(stack) /\ Size(node[p]) = MaxSize
    BY <1>1, <1>2, <1>6 DEF SplitInv
  <1>16. /\ Ring(node) /\ Ends(node, fl, ll, 0, m) /\ Whole(node, fl[hdr.root], ll[hdr.root])
         /\ ll[hdr.root] = LastLeafNow
    BY <1>1 DEF LeafInv, Old
  <1>17. LeafOf(node, ll[hdr.root])
    BY <1>9, <1>16 DEF Ends
  <1>18. CASE node[p].leaf
    <2>1. Len(stack) = 0
      BY <1>8, <1>15, <1>18 DEF TreeInv, Tree, Levels
    <2>2. LastLeafNow = hdr.last_leaf /\ LastLeafNow' = IF hdr.last_leaf = p THEN new ELSE hdr.last_leaf
      BY <1>6, <1>11, <1>13, <2>1 DEF LastLeafNow
    <2>3. SameLists(node', node) /\ node'[new].leaf
      <3>1. ASSUME NEW q \in DOMAIN node'
            PROVE  LET n == IF q = new THEN r ELSE IF q = p THEN l ELSE node[q]
                   IN  (node'[q].leaf <=> n.leaf) /\ node'[q].vals = n.vals
        BY <1>8 DEF HalvedAs, SamePairs
      <3>2. (l.leaf <=> node[p].leaf) /\ (r.leaf <=> node[p].leaf)
        BY <1>8 DEF IsHalves, SameLinks
      <3>3. node'[new].leaf
        BY <1>10, <1>18, <3>1, <3>2
      <3>4. ASSUME NEW q \in DOMAIN node
            PROVE  (node'[q].leaf <=> node[q].leaf) /\ (~node[q].leaf => node'[q].vals = node[q].vals)
        <4>1. q # new /\ q \in DOMAIN node'
          BY <1>8, <1>10
        <4>2. CASE q = p
          BY <1>18, <3>1, <3>2, <4>1, <4>2
        <4>3. CASE q # p
          BY <3>1, <4>1, <4>3
        <4> QED BY <4>2, <4>3
      <3> QED BY <3>3, <3>4 DEF SameLists
    <2>4. Ring(node')
      BY <1>8, <1>10, <1>16, <1>18, <2>3, LeafSplitRing
    <2>5. PICK gl, kl : gl = WithFirst(fl, new, new) /\ kl = SplitNext(ll, p, new)
      OBVIOUS
    <2>6. Ends(node', gl, kl, p, p) /\ Follows(node', gl, kl, p, new, p)
      BY <1>8, <1>9, <1>10, <1>16, <1>18, <2>3, <2>5, LeafSplitEnds
    <2>7. gl \in [Pages -> Pages] /\ kl \in [Pages -> Pages] /\ p \in Nat
      BY <1>8, <1>10, <2>5, PagesIs DEF WithFirst, SplitNext
    <2>8. /\ gl[hdr.root] = fl[hdr.root]
          /\ kl[hdr.root] = IF ll[hdr.root] = p THEN new ELSE ll[hdr.root]
      BY <1>9, <1>10, <2>5 DEF WithFirst, SplitNext
    <2>9. kl[hdr.root] = LastLeafNow'
      BY <1>16, <2>2, <2>8
    <2>10. Whole(node', gl[hdr.root], kl[hdr.root])
      <3>1. \A q \in DOMAIN node \cup {new} :
              node'[q].next = IF q = p THEN new ELSE IF q = new THEN node[p].next ELSE node[q].next
        BY <1>8, <1>18 DEF PutAfter
      <3>2. /\ IX_LEAF_HEADER_PAGE \in DOMAIN node /\ IX_LEAF_HEADER_PAGE # p /\ IX_LEAF_HEADER_PAGE # new
            /\ ll[hdr.root] \in DOMAIN node /\ ll[hdr.root] # new
        BY <1>8, <1>9, <1>10, <1>17 DEF Store, LeafOf
      <3>3. node'[kl[hdr.root]].next = node[ll[hdr.root]].next
        <4>1. CASE ll[hdr.root] = p
          BY <1>10, <2>8, <3>1, <4>1
        <4>2. CASE ll[hdr.root] # p
          BY <2>8, <3>1, <3>2, <4>2
        <4> QED BY <4>1, <4>2
      <3>4. node'[IX_LEAF_HEADER_PAGE].next = node[IX_LEAF_HEADER_PAGE].next
        BY <3>1, <3>2
      <3> QED BY <1>16, <2>8, <3>3, <3>4 DEF Whole
    <2>11. LeafInv(gl, kl, p)'
      BY <1>11, <1>14, <2>4, <2>6, <2>9, <2>10 DEF LeafInv
    <2> QED BY <2>7, <2>11
  <1>19. CASE ~node[p].leaf
    <2>1. Len(stack) > 0
      BY <1>8, <1>12, <1>15, <1>19 DEF TreeInv, Tree, Levels
    <2>2. LastLeafNow' = LastLeafNow
      <3>1. op'.stack[1] = stack[1]
        BY <1>12, <1>13, <2>1
      <3> QED BY <1>1, <1>6, <1>11, <1>12, <1>13, <2>1, <3>1 DEF LastLeafNow
    <2>3. PICK list, mid : list = node[p].vals /\ mid = (MaxSize + 1) \div 2
      OBVIOUS
    <2>4. list \in Seq(Pages) /\ Len(list) = MaxSize
      BY <1>8, <1>9, <1>15, <1>19, <2>3, NdsIs, NodeIs
    <2>5. mid \in 1..(Len(list) - 1) /\ mid \in 1..Len(list) /\ mid + 1 \in 1..Len(list)
      BY <2>3, <2>4, Sizes, SMTT(30)
    <2>6. /\ l.vals = SubSeq(list, 1, mid) /\ r.vals = SubSeq(list, mid + 1, Len(list))
          /\ (l.leaf <=> node[p].leaf) /\ (r.leaf <=> node[p].leaf)
      BY <1>8, <1>15, <2>3, <2>4 DEF IsHalves, SameLinks
    <2>7. ASSUME NEW q \in DOMAIN node'
          PROVE  LET n == IF q = new THEN r ELSE IF q = p THEN l ELSE node[q]
                 IN  (node'[q].leaf <=> n.leaf) /\ node'[q].vals = n.vals
      BY <1>8 DEF HalvedAs, SamePairs
    <2>8. \A q \in DOMAIN node : node'[q].next = node[q].next /\ node'[q].prev = node[q].prev
      BY <1>8, <1>19 DEF PutAfter
    <2>9. HalfLists(node', node, p, new, mid)
      <3>1. ~node'[new].leaf /\ node'[new].vals = SubSeq(list, mid + 1, Len(list))
        BY <1>10, <1>19, <2>6, <2>7
      <3>2. p \in DOMAIN node'
        BY <1>8, <1>10
      <3>3. node'[p].vals = SubSeq(list, 1, mid) /\ ~node'[p].leaf
        BY <1>10, <1>19, <2>6, <2>7, <3>2
      <3>4. ASSUME NEW q \in DOMAIN node, q # p PROVE (node'[q].leaf <=> node[q].leaf) /\ node'[q].vals = node[q].vals
        <4>1. q # new /\ q \in DOMAIN node'
          BY <1>8, <1>10
        <4> QED BY <2>7, <3>4, <4>1
      <3> QED BY <1>10, <1>19, <2>3, <2>8, <3>1, <3>3, <3>4 DEF HalfLists
    <2>10. PICK k, f : k = ll[list[mid]] /\ f = fl[list[mid + 1]]
      OBVIOUS
    <2>11. list[mid] \in Pages /\ list[mid + 1] \in Pages
      BY <2>4, <2>5, SeqIs
    <2>12. PICK gl, kl : gl = WithFirst(fl, new, f) /\ kl = WithFirst(ll, new, ll[p])
      OBVIOUS
    <2>13. Ends(node', gl, kl, p, k) /\ Follows(node', gl, kl, p, new, k)
      BY <1>8, <1>9, <1>16, <1>19, <2>3, <2>5, <2>9, <2>10, <2>12, InnerSplitEnds
    <2>14. gl \in [Pages -> Pages] /\ kl \in [Pages -> Pages] /\ k \in Nat
      <3>1. f \in Pages /\ k \in Pages /\ ll[p] \in Pages /\ k \in Nat
        BY <1>8, <1>10, <2>10, <2>11, PagesIs
      <3> QED BY <2>12, <3>1 DEF WithFirst
    <2>15. gl[hdr.root] = fl[hdr.root] /\ kl[hdr.root] = ll[hdr.root]
      BY <1>9, <1>10, <2>12 DEF WithFirst
    <2>16. Ring(node')
      <3>1. \A q \in DOMAIN node : (node'[q].leaf <=> node[q].leaf)
        BY <2>9 DEF HalfLists
      <3>2. \A q \in DOMAIN node' : q \notin DOMAIN node => ~node'[q].leaf
        BY <2>9 DEF HalfLists
      <3> QED BY <1>10, <1>16, <2>8, <3>1, <3>2, RingSame
    <2>17. Whole(node', gl[hdr.root], kl[hdr.root])
      <3>1. IX_LEAF_HEADER_PAGE \in DOMAIN node /\ ll[hdr.root] \in DOMAIN node
        BY <1>9, <1>10, <1>17 DEF Store, LeafOf
      <3> QED BY <1>16, <2>8, <2>15, <3>1 DEF Whole
    <2>18. LeafInv(gl, kl, k)'
      BY <1>11, <1>14, <1>16, <2>2, <2>13, <2>15, <2>16, <2>17 DEF LeafInv
    <2> QED BY <2>14, <2>18
  <1> QED BY <1>18, <1>19

-----------------------------------------------------------------------------
(* The leaf list under a new parent.                                       *)

\* A list none of whose members is old, when old stands for itself again.
LEMMA SpansApart ==
  \A ns, ms, fl, gl, ll, kl, list, f, l :
    (/\ Spans(ns, fl, ll, list, f, l) /\ Len(list) \in Nat /\ Len(list) > 0
     /\ \A i \in 1..Len(list) : /\ gl[list[i]] = fl[list[i]] /\ kl[list[i]] = ll[list[i]]
                                /\ ms[ll[list[i]]].next = ns[ll[list[i]]].next)
      => Spans(ms, gl, kl, list, f, l)
  <1> SUFFICES ASSUME NEW ns, NEW ms, NEW fl, NEW gl, NEW ll, NEW kl, NEW list, NEW f, NEW l,
                      Spans(ns, fl, ll, list, f, l), Len(list) \in Nat, Len(list) > 0,
                      \A i \in 1..Len(list) : /\ gl[list[i]] = fl[list[i]] /\ kl[list[i]] = ll[list[i]]
                                              /\ ms[ll[list[i]]].next = ns[ll[list[i]]].next
               PROVE  Spans(ms, gl, kl, list, f, l)
    OBVIOUS
  <1>1. Carries(ns, ms, fl, gl, ll, kl, list)
    BY DEF Carries
  <1>2. Len(list) \in 1..Len(list) /\ l = ll[list[Len(list)]]
    BY DEF Spans
  <1>3. l = kl[list[Len(list)]]
    BY <1>2
  <1> QED BY <1>1, <1>3, SpansAs

\* The nodes of ns in ms, as far as leaves and the lists of nodes other than p go.
Kept(ms, ns, p) ==
  \A q \in DOMAIN ns : /\ (ms[q].leaf <=> ns[q].leaf) /\ (~ns[q].leaf /\ q # p => ms[q].vals = ns[q].vals)
                       /\ ms[q].next = ns[q].next /\ ms[q].prev = ns[q].prev

\* A root r above old and new.
LEMMA NewRootEnds ==
  \A ns, ms, fl, ll, old, new, m, r :
    (/\ Store(ns) /\ Kids(ns) /\ Ends(ns, fl, ll, old, m) /\ Follows(ns, fl, ll, old, new, m)
     /\ old \in Nds(ns) /\ new \in Nds(ns) /\ old # new /\ r \in Pages /\ r \notin DOMAIN ns
     /\ (\A q \in Nds(ns) : old \notin Children(ns[q]))
     /\ DOMAIN ms = DOMAIN ns \cup {r} /\ Kept(ms, ns, r) /\ RootOver(ms[r], old, new))
      => Ends(ms, WithFirst(fl, r, fl[old]), WithFirst(WithFirst(ll, old, m), r, ll[new]), 0, 0)
  <1> SUFFICES ASSUME NEW ns, NEW ms, NEW fl, NEW ll, NEW old, NEW new, NEW m, NEW r,
                      Store(ns), Kids(ns), Ends(ns, fl, ll, old, m), Follows(ns, fl, ll, old, new, m),
                      old \in Nds(ns), new \in Nds(ns), old # new, r \in Pages, r \notin DOMAIN ns,
                      \A q \in Nds(ns) : old \notin Children(ns[q]),
                      DOMAIN ms = DOMAIN ns \cup {r}, Kept(ms, ns, r), RootOver(ms[r], old, new)
               PROVE  Ends(ms, WithFirst(fl, r, fl[old]), WithFirst(WithFirst(ll, old, m), r, ll[new]), 0, 0)
    OBVIOUS
  <1>1. PICK gl, kl : gl = WithFirst(fl, r, fl[old]) /\ kl = WithFirst(WithFirst(ll, old, m), r, ll[new])
    OBVIOUS
  <1>2. /\ Nds(ms) = Nds(ns) \cup {r} /\ r \notin Nds(ns) /\ 0 \notin Nds(ns) /\ 0 # r
        /\ Nds(ns) \subseteq Pages /\ Nds(ns) \subseteq DOMAIN ns
    BY NdsIs, PagesIs DEF Nds
  <1>3. /\ gl[r] = fl[old] /\ kl[r] = ll[new]
        /\ \A q \in Nds(ns) : gl[q] = fl[q] /\ kl[q] = Own(ll, q, old, m)
    BY <1>1, <1>2 DEF WithFirst, Own
  <1>4. \A q \in Nds(ns) : /\ LeafOf(ns, fl[q]) /\ LeafOf(ns, ll[q])
                           /\ (ns[q].leaf => fl[q] = q /\ Own(ll, q, old, m) = q)
                           /\ (~ns[q].leaf => Spans(ns, fl, ll, ns[q].vals, fl[q], Own(ll, q, old, m)))
    BY DEF Ends
  <1>5. \A q : LeafOf(ns, q) => LeafOf(ms, q) /\ ms[q].next = ns[q].next
    BY <1>2 DEF LeafOf, Kept
  <1>6. LeafOf(ns, m) /\ ns[m].next = fl[new]
    BY DEF Follows
  <1>7. \A q \in Nds(ms) : LeafOf(ms, gl[q]) /\ LeafOf(ms, kl[q])
    BY <1>2, <1>3, <1>4, <1>5, <1>6 DEF Own
  <1>8. ASSUME NEW q \in Nds(ms), ms[q].leaf PROVE gl[q] = q /\ kl[q] = q
    <2>1. q \in Nds(ns) /\ ns[q].leaf
      BY <1>2, <1>8 DEF Kept, RootOver
    <2> QED BY <1>3, <1>4, <2>1
  <1>9. ASSUME NEW q \in Nds(ms), ~ms[q].leaf PROVE Spans(ms, gl, kl, ms[q].vals, gl[q], kl[q])
    <2>1. CASE q = r
      <3>1. Len(ms[r].vals) = 2 /\ ms[r].vals[1] = old /\ ms[r].vals[2] = new
        BY DEF RootOver
      <3>2. ms[kl[old]].next = gl[new] /\ kl[new] = kl[r] /\ gl[old] = gl[r]
        BY <1>3, <1>5, <1>6 DEF Own
      <3>3. \A i \in 1..(2 - 1) : i = 1
        OBVIOUS
      <3> QED BY <2>1, <3>1, <3>2, <3>3 DEF Spans
    <2>2. CASE q # r
      <3>1. q \in Nds(ns) /\ ~ns[q].leaf /\ ms[q].vals = ns[q].vals
        BY <1>2, <1>9, <2>2 DEF Kept
      <3>2. PICK u : u = ns[q].vals
        OBVIOUS
      <3>3. Len(u) \in Nat /\ Len(u) > 0 /\ \A i \in 1..Len(u) : u[i] \in Nds(ns)
        BY <3>1, <3>2 DEF Kids
      <3>4. \A i \in 1..Len(u) : u[i] # old
        BY <3>1, <3>2, ChildrenIs, ElemIs
      <3>5. Spans(ns, fl, ll, u, fl[q], kl[q])
        BY <1>3, <1>4, <3>1, <3>2
      <3>6. \A i \in 1..Len(u) : /\ gl[u[i]] = fl[u[i]] /\ kl[u[i]] = ll[u[i]]
                                 /\ ms[ll[u[i]]].next = ns[ll[u[i]]].next
        BY <1>3, <1>4, <1>5, <3>3, <3>4 DEF Own
      <3>7. Spans(ms, gl, kl, u, fl[q], kl[q])
        BY <3>3, <3>5, <3>6, SpansApart
      <3> QED BY <1>3, <3>1, <3>2, <3>7
    <2> QED BY <2>1, <2>2
  <1>10. \A q \in Nds(ms) : Own(kl, q, 0, 0) = kl[q]
    BY <1>2 DEF Own
  <1>11. Ends(ms, gl, kl, 0, 0)
    BY <1>7, <1>8, <1>9, <1>10 DEF Ends
  <1> QED BY <1>1, <1>11

\* u is s with x put in after its first i members.
With1(u, s, i, x) ==
  /\ Len(u) = Len(s) + 1 /\ u[i + 1] = x
  /\ \A j \in 1..Len(s) : (j <= i => u[j] = s[j]) /\ (j > i => u[j + 1] = s[j])

\* What a splice of one member is.
LEMMA With1Is ==
  \A S, s, i, x : s \in Seq(S) /\ x \in S /\ i \in 0..Len(s) => With1(Splice(s, i, <<x>>), s, i, x)
  <1> SUFFICES ASSUME NEW S, NEW s, NEW i, NEW x, s \in Seq(S), x \in S, i \in 0..Len(s)
               PROVE  With1(Splice(s, i, <<x>>), s, i, x)
    OBVIOUS
  <1>1. PICK t : t = <<x>>
    OBVIOUS
  <1>0. t \in Seq(S)
    BY <1>1
  <1>2. Len(t) = 1 /\ t[1] = x
    BY <1>1
  <1>3. Len(s) \in Nat
    BY SeqIs
  <1>4. PICK u : u = Splice(s, i, t)
    OBVIOUS
  <1>5. /\ Len(Splice(s, i, t)) = Len(s) + Len(t)
        /\ \A j \in 1..(Len(s) + Len(t)) :
             Splice(s, i, t)[j] = IF j <= i THEN s[j]
                                  ELSE IF j <= i + Len(t) THEN t[j - i] ELSE s[j - Len(t)]
    BY <1>0, SpliceIs
  <1>6. /\ Len(u) = Len(s) + 1
        /\ \A j \in 1..(Len(s) + 1) : u[j] = IF j <= i THEN s[j] ELSE IF j <= i + 1 THEN t[j - i] ELSE s[j - 1]
    BY <1>2, <1>4, <1>5
  <1>7. i + 1 \in 1..(Len(s) + 1) /\ ~(i + 1 <= i) /\ i + 1 <= i + 1 /\ i + 1 - i = 1
    BY <1>3
  <1>8. u[i + 1] = t[i + 1 - i]
    BY <1>6, <1>7
  <1>9. u[i + 1] = x
    BY <1>2, <1>7, <1>8
  <1>10. ASSUME NEW j \in 1..Len(s), j > i PROVE u[j + 1] = s[j]
    <2>1. j + 1 \in 1..(Len(s) + 1) /\ ~(j + 1 <= i) /\ ~(j + 1 <= i + 1) /\ j + 1 - 1 = j
      BY <1>3, <1>10
    <2>2. u[j + 1] = s[j + 1 - 1]
      BY <1>6, <2>1
    <2> QED BY <2>1, <2>2
  <1>11. ASSUME NEW j \in 1..Len(s), j <= i PROVE u[j] = s[j]
    BY <1>3, <1>6, <1>11
  <1>12. With1(u, s, i, x)
    BY <1>6, <1>9, <1>10, <1>11 DEF With1
  <1> QED BY <1>1, <1>4, <1>12

\* new put in below p, after old.
LEMMA InsertIntoParentEnds ==
  \A ns, ms, fl, ll, old, new, m, p, i :
    (/\ Store(ns) /\ Kids(ns) /\ Ends(ns, fl, ll, old, m) /\ Follows(ns, fl, ll, old, new, m)
     /\ old \in Nds(ns) /\ new \in Nds(ns) /\ old # new /\ p \in Nds(ns) /\ ~ns[p].leaf
     /\ i \in 1..Len(ns[p].vals) /\ ns[p].vals[i] = old
     /\ DOMAIN ms = DOMAIN ns /\ Kept(ms, ns, p) /\ ms[p].vals = Splice(ns[p].vals, i, <<new>>))
      => Ends(ms, fl, WithFirst(ll, old, m), 0, 0)
  <1> SUFFICES ASSUME NEW ns, NEW ms, NEW fl, NEW ll, NEW old, NEW new, NEW m, NEW p, NEW i,
                      Store(ns), Kids(ns), Ends(ns, fl, ll, old, m), Follows(ns, fl, ll, old, new, m),
                      old \in Nds(ns), new \in Nds(ns), old # new, p \in Nds(ns), ~ns[p].leaf,
                      i \in 1..Len(ns[p].vals), ns[p].vals[i] = old,
                      DOMAIN ms = DOMAIN ns, Kept(ms, ns, p), ms[p].vals = Splice(ns[p].vals, i, <<new>>)
               PROVE  Ends(ms, fl, WithFirst(ll, old, m), 0, 0)
    OBVIOUS
  <1>1. PICK kl : kl = WithFirst(ll, old, m)
    OBVIOUS
  <1>2. Nds(ms) = Nds(ns) /\ 0 \notin Nds(ns) /\ Nds(ns) \subseteq Pages /\ Nds(ns) \subseteq DOMAIN ns
    BY NdsIs, PagesIs DEF Nds
  <1>3. \A q \in Nds(ns) : kl[q] = Own(ll, q, old, m)
    BY <1>1, <1>2 DEF WithFirst, Own
  <1>4. \A q \in Nds(ns) : /\ LeafOf(ns, fl[q]) /\ LeafOf(ns, ll[q])
                           /\ (ns[q].leaf => fl[q] = q /\ Own(ll, q, old, m) = q)
                           /\ (~ns[q].leaf => Spans(ns, fl, ll, ns[q].vals, fl[q], Own(ll, q, old, m)))
    BY DEF Ends
  <1>5. \A q : LeafOf(ns, q) => LeafOf(ms, q) /\ ms[q].next = ns[q].next
    BY <1>2 DEF LeafOf, Kept
  <1>6. LeafOf(ns, m) /\ ns[m].next = fl[new] /\ ll[old] = ll[new]
    BY DEF Follows
  <1>7. \A q \in Nds(ms) : LeafOf(ms, fl[q]) /\ LeafOf(ms, kl[q])
    BY <1>2, <1>3, <1>4, <1>5, <1>6 DEF Own
  <1>8. ASSUME NEW q \in Nds(ms), ms[q].leaf PROVE fl[q] = q /\ kl[q] = q
    BY <1>2, <1>3, <1>4, <1>8 DEF Kept
  <1>9. p # old /\ ns[old].parent = p
    BY DEF Kids
  <1>10. ASSUME NEW q \in Nds(ms), ~ms[q].leaf PROVE Spans(ms, fl, kl, ms[q].vals, fl[q], kl[q])
    <2>1. CASE q = p
      <3>1. PICK list, n, u : list = ns[p].vals /\ n = Len(list) /\ u = ms[p].vals
        OBVIOUS
      <3>2. list \in Seq(Pages) /\ n \in Nat /\ i \in 1..n /\ new \in Pages
        BY <1>2, <3>1, NdsIs, NodeIs, SeqIs
      <3>3. i \in 0..Len(list)
        BY <3>1, <3>2
      <3>4. With1(u, list, i, new)
        BY <3>1, <3>2, <3>3, With1Is
      <3>5. /\ Len(u) = n + 1
            /\ \A j \in 1..n : j <= i => u[j] = list[j]
            /\ u[i + 1] = new
            /\ \A j \in 1..n : j > i => u[j + 1] = list[j]
        BY <3>1, <3>4 DEF With1
      <3>6. \A j \in 1..n : list[j] \in Nds(ns) /\ (j # i => list[j] # old)
        BY <3>1 DEF Kids, Distinct
      <3>7. \A j \in 1..n : j # i => kl[list[j]] = ll[list[j]]
        BY <1>3, <3>6 DEF Own
      <3>8. kl[new] = ll[old] /\ kl[old] = m /\ list[i] = old
        BY <1>3, <1>6, <3>1 DEF Own
      <3>9. Spans(ns, fl, ll, list, fl[p], ll[p])
        BY <1>4, <1>9, <3>1 DEF Own
      <3>10. /\ fl[p] = fl[list[1]] /\ ll[p] = ll[list[n]]
             /\ \A j \in 1..(n - 1) : ns[ll[list[j]]].next = fl[list[j + 1]]
        BY <3>1, <3>9 DEF Spans
      <3>11. \A j \in 1..n : ms[ll[list[j]]].next = ns[ll[list[j]]].next
        BY <1>4, <1>5, <3>6
      <3>12. fl[p] = fl[u[1]]
        <4>1. 1 \in 1..n /\ 1 <= i
          BY <3>2
        <4>2. u[1] = list[1]
          BY <3>5, <4>1
        <4> QED BY <3>10, <4>2
      <3>13. kl[p] = kl[u[n + 1]]
        <4>1. kl[p] = ll[list[n]]
          BY <1>3, <1>9, <3>10 DEF Own
        <4>2. CASE i = n
          BY <3>5, <3>8, <4>1, <4>2
        <4>3. CASE i < n
          BY <3>2, <3>5, <3>7, <4>1, <4>3
        <4> QED BY <3>2, <4>2, <4>3
      <3>14. ASSUME NEW j \in 1..n PROVE ms[kl[u[j]]].next = fl[u[j + 1]]
        <4>1. CASE j < i
          <5>1. j + 1 \in 1..n /\ j + 1 <= i /\ j \in 1..(n - 1) /\ j # i
            BY <3>2, <4>1
          <5>2. u[j] = list[j] /\ u[j + 1] = list[j + 1]
            BY <3>2, <3>5, <4>1, <5>1
          <5> QED BY <3>7, <3>10, <3>11, <5>1, <5>2
        <4>2. CASE j = i
          BY <1>5, <1>6, <3>2, <3>5, <3>8, <4>2
        <4>3. CASE j = i + 1
          <5>0. j > i /\ i \in 1..(n - 1)
            BY <3>2, <4>3
          <5>1. u[j] = new /\ u[j + 1] = list[j] /\ i \in 1..(n - 1)
            BY <3>5, <4>3, <5>0
          <5>2. ms[ll[list[i]]].next = fl[list[i + 1]]
            BY <3>2, <3>10, <3>11, <5>1
          <5> QED BY <3>8, <4>3, <5>1, <5>2
        <4>4. CASE j > i + 1
          <5>1. PICK g : g = j - 1
            OBVIOUS
          <5>2. g \in 1..n /\ g > i /\ g + 1 = j /\ g \in 1..(n - 1) /\ j > i /\ g # i
            BY <3>2, <4>4, <5>1
          <5>3. u[j] = list[g] /\ u[j + 1] = list[g + 1]
            BY <3>5, <5>2
          <5> QED BY <3>7, <3>10, <3>11, <5>2, <5>3
        <4> QED BY <3>2, <4>1, <4>2, <4>3, <4>4
      <3>15. Spans(ms, fl, kl, u, fl[p], kl[p])
        BY <3>2, <3>5, <3>12, <3>13, <3>14 DEF Spans
      <3> QED BY <2>1, <3>1, <3>15
    <2>2. CASE q # p
      <3>1. q \in Nds(ns) /\ ~ns[q].leaf /\ ms[q].vals = ns[q].vals
        BY <1>2, <1>10, <2>2 DEF Kept
      <3>2. PICK u : u = ns[q].vals
        OBVIOUS
      <3>3. /\ Len(u) \in Nat /\ Len(u) > 0
            /\ \A j \in 1..Len(u) : u[j] \in Nds(ns) /\ ns[u[j]].parent = q
        BY <3>1, <3>2 DEF Kids
      <3>4. \A j \in 1..Len(u) : u[j] # old
        BY <1>9, <2>2, <3>3
      <3>5. Spans(ns, fl, ll, u, fl[q], kl[q])
        BY <1>3, <1>4, <3>1, <3>2
      <3>6. \A j \in 1..Len(u) : /\ fl[u[j]] = fl[u[j]] /\ kl[u[j]] = ll[u[j]]
                                 /\ ms[ll[u[j]]].next = ns[ll[u[j]]].next
        BY <1>3, <1>4, <1>5, <3>3, <3>4 DEF Own
      <3>7. Spans(ms, fl, kl, u, fl[q], kl[q])
        BY <3>3, <3>5, <3>6, SpansApart
      <3> QED BY <3>1, <3>2, <3>7
    <2> QED BY <2>1, <2>2
  <1>11. \A q \in Nds(ms) : Own(kl, q, 0, 0) = kl[q]
    BY <1>2 DEF Own
  <1>12. Ends(ms, fl, kl, 0, 0)
    BY <1>7, <1>8, <1>10, <1>11 DEF Ends
  <1> QED BY <1>1, <1>12

\* The list as a whole, when the leaves keep their links.
LEMMA WholeSame ==
  \A ns, ms, p, f, l :
    Store(ns) /\ Kept(ms, ns, p) /\ LeafOf(ns, l) /\ Whole(ns, f, l) => Whole(ms, f, l)
  BY DEF Store, Kept, LeafOf, Nds, Whole

\* A new root spans the leaf list.
LEMMA NewRootLeaves ==
  ASSUME NEW h, TreeInv(h), HdrType, NEW fl \in [Pages -> Pages], NEW ll \in [Pages -> Pages],
         NEW m \in Nat, LeafInv(fl, ll, m), NewRoot
  PROVE  \E gl, kl \in [Pages -> Pages], k \in Nat : LeafInv(gl, kl, k)'
  <1>1. PICK old : old = Frame[1]
    OBVIOUS
  <1>2. PICK new : new = Frame[2]
    OBVIOUS
  <1>3. PICK r : r = FreshPage
    OBVIOUS
  <1>4. /\ op.pc = "parent" /\ HasPage /\ op' = [op EXCEPT !.pc = "return"]
        /\ hdr' = [hdr EXCEPT !.root = r, !.num_pages = @ + 1]
    BY <1>3 DEF NewRoot
  <1>5. /\ OpType /\ old \in Nds(node) /\ new \in Nds(node) /\ old # new
        /\ hdr.root \in Nds(node) /\ Tree(node, {hdr.root, new}, h)
    BY <1>1, <1>2, <1>4, ParentIs, Zenon
  <1>6. /\ r \in Pages /\ r \notin DOMAIN node /\ DOMAIN node' = DOMAIN node \cup {r}
        /\ old = hdr.root /\ RootOver(node'[r], old, new)
    BY <1>1, <1>2, <1>3, NewRootNodes, Zenon
  <1>7. \A q \in DOMAIN node : RootedAs(node'[q], node[q], q, old, new, r)
    BY <1>1, <1>2, <1>3, NewRootNodes
  <1>8. Kept(node', node, r)
    BY <1>7 DEF RootedAs, Kept, SamePairs
  <1>9. Store(node) /\ Kids(node) /\ Nds(node) \subseteq Pages /\ r \notin Nds(node)
    BY <1>6, NdsIs, KidsIs DEF TreeInv, Nds
  <1>10. /\ Ring(node) /\ Ends(node, fl, ll, old, m) /\ Follows(node, fl, ll, old, new, m)
         /\ Whole(node, fl[hdr.root], ll[hdr.root]) /\ ll[hdr.root] = LastLeafNow
    BY <1>1, <1>2, <1>4 DEF LeafInv, Old
  <1>11. \A q \in Nds(node) : old \notin Children(node[q])
    BY <1>5, <1>6 DEF Tree, Up
  <1>12. PICK gl, kl : gl = WithFirst(fl, r, fl[old]) /\ kl = WithFirst(WithFirst(ll, old, m), r, ll[new])
    OBVIOUS
  <1>13. Ends(node', gl, kl, 0, 0)
    BY <1>5, <1>6, <1>8, <1>9, <1>10, <1>11, <1>12, NewRootEnds
  <1>14. m \in Pages /\ ll[new] = ll[old]
    BY <1>9, <1>10 DEF Follows, LeafOf
  <1>15. gl \in [Pages -> Pages] /\ kl \in [Pages -> Pages] /\ gl[r] = fl[old] /\ kl[r] = ll[old]
    <2>1. old \in Pages /\ fl[old] \in Pages /\ ll[old] \in Pages
      BY <1>5, <1>9
    <2> QED BY <1>6, <1>12, <1>14, <2>1 DEF WithFirst
  <1>16. Ring(node')
    <2>1. ~node'[r].leaf
      BY <1>6 DEF RootOver
    <2> QED BY <1>6, <1>8, <1>10, <2>1, RingSame DEF Kept
  <1>17. hdr'.root = r /\ hdr'.last_leaf = hdr.last_leaf /\ op'.pc = "return" /\ op'.stack = op.stack
    BY <1>4, <1>5 DEF HdrType, OpType
  <1>18. LastLeafNow' = LastLeafNow
    BY <1>4, <1>17 DEF LastLeafNow
  <1>19. Whole(node', gl[r], kl[r])
    <2>1. LeafOf(node, ll[hdr.root])
      BY <1>5, <1>10 DEF Ends
    <2>2. Whole(node', fl[hdr.root], ll[hdr.root])
      BY <1>8, <1>9, <1>10, <2>1, WholeSame
    <2> QED BY <1>6, <1>15, <2>2
  <1>20. LeafInv(gl, kl, 0)'
    BY <1>6, <1>10, <1>13, <1>15, <1>16, <1>17, <1>18, <1>19 DEF LeafInv, Old
  <1> QED BY <1>15, <1>20

\* InsertIntoParent keeps the leaf list.
LEMMA InsertIntoParentLeaves ==
  ASSUME NEW h, TreeInv(h), NEW fl \in [Pages -> Pages], NEW ll \in [Pages -> Pages],
         NEW m \in Nat, LeafInv(fl, ll, m), InsertIntoParent
  PROVE  \E gl, kl \in [Pages -> Pages], k \in Nat : LeafInv(gl, kl, k)'
  <1>1. PICK old : old = Frame[1]
    OBVIOUS
  <1>2. PICK new : new = Frame[2]
    OBVIOUS
  <1>3. PICK p : p = node[old].parent
    OBVIOUS
  <1>4. PICK key : key = KeyAt(node[new], 0)
    OBVIOUS
  <1>5. PICK n : n = insert_pair(node[p], find_child(node[p], old) + 1, key, new)
    OBVIOUS
  <1>6. /\ op.pc = "parent" /\ hdr' = hdr
        /\ op' = IF Size(n) = MaxSize THEN Op("split", p, op.stack) ELSE [op EXCEPT !.pc = "return"]
    BY <1>1, <1>2, <1>3, <1>4, <1>5 DEF InsertIntoParent
  <1>7. /\ p \in Nds(node) /\ ~node[p].leaf /\ old \in Children(node[p]) /\ DOMAIN node' = DOMAIN node
        /\ \E i \in 1..Size(node[p]) : node[p].vals[i] = old /\ ParentWith(n, node[p], i, key, new)
    BY <1>1, <1>2, <1>3, <1>4, <1>5, InsertIntoParentNodes
  <1>8. \A q \in DOMAIN node : AddedAs(node'[q], node[q], q, p, n, new)
    BY <1>1, <1>2, <1>3, <1>4, <1>5, InsertIntoParentNodes
  <1>9. PICK i \in 1..Size(node[p]) : node[p].vals[i] = old /\ ParentWith(n, node[p], i, key, new)
    BY <1>7
  <1>10. /\ OpType /\ old \in Nds(node) /\ new \in Nds(node) /\ old # new
         /\ hdr.root \in Nds(node) /\ Tree(node, {hdr.root, new}, h)
    BY <1>1, <1>2, <1>6, ParentIs, Zenon
  <1>11. Store(node) /\ Kids(node) /\ Nds(node) \subseteq Pages /\ p \in DOMAIN node
         /\ Len(node[p].vals) = Size(node[p])
    BY <1>7, NdsIs, KidsIs, NodeIs DEF TreeInv, Nds
  <1>12. (n.leaf <=> node[p].leaf) /\ n.vals = Splice(node[p].vals, i, <<new>>) /\ node'[p] = n
    BY <1>8, <1>9, <1>11 DEF ParentWith, IsInsert, SameLinks, AddedAs
  <1>13. Kept(node', node, p)
    BY <1>8, <1>12 DEF AddedAs, SamePairs, Kept
  <1>14. /\ Ring(node) /\ Ends(node, fl, ll, old, m) /\ Follows(node, fl, ll, old, new, m)
         /\ Whole(node, fl[hdr.root], ll[hdr.root]) /\ ll[hdr.root] = LastLeafNow
    BY <1>1, <1>2, <1>6 DEF LeafInv, Old
  <1>15. PICK kl : kl = WithFirst(ll, old, m)
    OBVIOUS
  <1>16. Ends(node', fl, kl, 0, 0)
    BY <1>7, <1>9, <1>10, <1>11, <1>12, <1>13, <1>14, <1>15, InsertIntoParentEnds
  <1>17. hdr.root # old
    BY <1>7, <1>10 DEF Tree, Up
  <1>18. kl \in [Pages -> Pages] /\ kl[hdr.root] = ll[hdr.root]
    <2>1. m \in Pages
      BY <1>11, <1>14 DEF Follows, LeafOf
    <2> QED BY <1>10, <1>11, <1>15, <1>17, <2>1 DEF WithFirst
  <1>19. Ring(node')
    BY <1>7, <1>13, <1>14, RingSame DEF Kept
  <1>20. op'.pc \in {"split", "return"} /\ op'.stack = op.stack
    BY <1>6, <1>10 DEF OpType, Op
  <1>21. LastLeafNow' = LastLeafNow
    BY <1>6, <1>20 DEF LastLeafNow
  <1>22. Whole(node', fl[hdr.root], kl[hdr.root])
    <2>1. LeafOf(node, ll[hdr.root])
      BY <1>10, <1>14 DEF Ends
    <2> QED BY <1>11, <1>13, <1>14, <1>18, <2>1, WholeSame
  <1>23. LeafInv(fl, kl, 0)'
    BY <1>6, <1>14, <1>16, <1>18, <1>19, <1>20, <1>21, <1>22 DEF LeafInv, Old
  <1> QED BY <1>18, <1>23

-----------------------------------------------------------------------------
(* The leaf list when a child moves.                                       *)

\* A child put in after the last one of a list, or before the first one.
LEMMA SpansPush ==
  \A ns, fl, ll, list, f, l, u, x :
    (/\ Spans(ns, fl, ll, list, f, l) /\ Len(list) \in Nat /\ Len(list) > 0
     /\ With1(u, list, Len(list), x) /\ ns[l].next = fl[x])
      => Spans(ns, fl, ll, u, f, ll[x])
  <1> SUFFICES ASSUME NEW ns, NEW fl, NEW ll, NEW list, NEW f, NEW l, NEW u, NEW x,
                      Spans(ns, fl, ll, list, f, l), Len(list) \in Nat, Len(list) > 0,
                      With1(u, list, Len(list), x), ns[l].next = fl[x]
               PROVE  Spans(ns, fl, ll, u, f, ll[x])
    OBVIOUS
  <1>1. PICK n : n = Len(list)
    OBVIOUS
  <1>2. n \in Nat /\ n > 0 /\ n \in 1..n /\ 1 \in 1..n
    BY <1>1
  <1>3. Len(u) = n + 1 /\ u[n + 1] = x /\ \A j \in 1..n : u[j] = list[j]
    BY <1>1, <1>2 DEF With1
  <1>4. f = fl[list[1]] /\ l = ll[list[n]] /\ \A i \in 1..(n - 1) : ns[ll[list[i]]].next = fl[list[i + 1]]
    BY <1>1 DEF Spans
  <1>5. ASSUME NEW i \in 1..n PROVE ns[ll[u[i]]].next = fl[u[i + 1]]
    <2>1. CASE i = n
      BY <1>2, <1>3, <1>4, <2>1
    <2>2. CASE i # n
      <3>1. i \in 1..(n - 1) /\ i + 1 \in 1..n
        BY <1>2, <2>2
      <3> QED BY <1>3, <1>4, <3>1
    <2> QED BY <2>1, <2>2
  <1>6. 1..(Len(u) - 1) = 1..n
    BY <1>2, <1>3
  <1> QED BY <1>2, <1>3, <1>4, <1>5, <1>6 DEF Spans

\* The leaf f comes after the leaf l.
Before(ns, l, f) == ns[l].next = f

\* A child put in before the first one of a list.
LEMMA SpansFront ==
  \A ns, fl, ll, list, f, l, u, x :
    (/\ Spans(ns, fl, ll, list, f, l) /\ Len(list) \in Nat /\ Len(list) > 0
     /\ With1(u, list, 0, x) /\ Before(ns, ll[x], f))
      => Spans(ns, fl, ll, u, fl[x], l)
  <1> SUFFICES ASSUME NEW ns, NEW fl, NEW ll, NEW list, NEW f, NEW l, NEW u, NEW x,
                      Spans(ns, fl, ll, list, f, l), Len(list) \in Nat, Len(list) > 0,
                      With1(u, list, 0, x), Before(ns, ll[x], f)
               PROVE  Spans(ns, fl, ll, u, fl[x], l)
    OBVIOUS
  <1>1. PICK n : n = Len(list)
    OBVIOUS
  <1>2. n \in Nat /\ n > 0 /\ n \in 1..n /\ 1 \in 1..n
    BY <1>1
  <1>3. Len(u) = n + 1 /\ u[1] = x /\ \A j \in 1..n : u[j + 1] = list[j]
    BY <1>1, <1>2 DEF With1
  <1>4. f = fl[list[1]] /\ l = ll[list[n]] /\ \A i \in 1..(n - 1) : ns[ll[list[i]]].next = fl[list[i + 1]]
    BY <1>1 DEF Spans
  <1>5. ASSUME NEW i \in 1..n PROVE ns[ll[u[i]]].next = fl[u[i + 1]]
    <2>1. CASE i = 1
      BY <1>2, <1>3, <1>4, <2>1 DEF Before
    <2>2. CASE i # 1
      <3>1. PICK j : j = i - 1
        OBVIOUS
      <3>2. j \in 1..(n - 1) /\ j \in 1..n /\ j + 1 \in 1..n /\ i = j + 1
        BY <1>2, <2>2, <3>1
      <3>3. u[j + 1] = list[j] /\ u[j + 1 + 1] = list[j + 1] /\ ns[ll[list[j]]].next = fl[list[j + 1]]
        BY <1>3, <1>4, <3>2
      <3> QED BY <3>2, <3>3
    <2> QED BY <2>1, <2>2
  <1>6. 1..(Len(u) - 1) = 1..n
    BY <1>2, <1>3
  <1> QED BY <1>2, <1>3, <1>4, <1>5, <1>6 DEF Spans

\* u is s without the member at index i, counted from 0.
Less1(u, s, i) ==
  /\ Len(u) = Len(s) - 1
  /\ \A j \in 1..(Len(s) - 1) : (j <= i => u[j] = s[j]) /\ (j > i => u[j] = s[j + 1])

\* What erase_pair leaves of a sequence.
LEMMA Less1Is ==
  \A S, s, i : s \in Seq(S) /\ i \in 0..(Len(s) - 1) => Less1(Without(s, i), s, i)
  <1> SUFFICES ASSUME NEW S, NEW s, NEW i, s \in Seq(S), i \in 0..(Len(s) - 1)
               PROVE  Less1(Without(s, i), s, i)
    OBVIOUS
  <1>1. /\ Len(Without(s, i)) = Len(s) - 1
        /\ \A j \in 1..(Len(s) - 1) : Without(s, i)[j] = IF j <= i THEN s[j] ELSE s[j + 1]
    BY WithoutIs
  <1>2. Len(s) \in Nat
    BY SeqIs
  <1>3. PICK u : u = Without(s, i)
    OBVIOUS
  <1>4. \A j \in 1..(Len(s) - 1) : (j <= i => u[j] = s[j]) /\ (j > i => u[j] = s[j + 1])
    BY <1>1, <1>2, <1>3
  <1>5. Less1(u, s, i)
    BY <1>1, <1>3, <1>4 DEF Less1
  <1> QED BY <1>3, <1>5

\* The first child of a list taken off, or the last one.
LEMMA SpansTail ==
  \A ns, fl, ll, list, f, l, u :
    (/\ Spans(ns, fl, ll, list, f, l) /\ Len(list) \in Nat /\ Len(list) > 1 /\ Less1(u, list, 0))
      => Spans(ns, fl, ll, u, fl[list[2]], l) /\ ns[ll[list[1]]].next = fl[list[2]]
  <1> SUFFICES ASSUME NEW ns, NEW fl, NEW ll, NEW list, NEW f, NEW l, NEW u,
                      Spans(ns, fl, ll, list, f, l), Len(list) \in Nat, Len(list) > 1, Less1(u, list, 0)
               PROVE  Spans(ns, fl, ll, u, fl[list[2]], l) /\ ns[ll[list[1]]].next = fl[list[2]]
    OBVIOUS
  <1>1. PICK n : n = Len(list)
    OBVIOUS
  <1>2. n \in Nat /\ n > 1 /\ 1 \in 1..(n - 1) /\ n - 1 \in 1..(n - 1) /\ n - 1 + 1 = n
    BY <1>1
  <1>3. Len(u) = n - 1 /\ \A j \in 1..(n - 1) : u[j] = list[j + 1]
    BY <1>1, <1>2 DEF Less1
  <1>4. f = fl[list[1]] /\ l = ll[list[n]] /\ \A i \in 1..(n - 1) : ns[ll[list[i]]].next = fl[list[i + 1]]
    BY <1>1 DEF Spans
  <1>5. ASSUME NEW i \in 1..(n - 1 - 1) PROVE ns[ll[u[i]]].next = fl[u[i + 1]]
    <2>1. i \in 1..(n - 1) /\ i + 1 \in 1..(n - 1)
      BY <1>2
    <2> QED BY <1>3, <1>4, <2>1
  <1>6. u[1] = list[2] /\ u[n - 1] = list[n]
    BY <1>2, <1>3
  <1>7. ns[ll[list[1]]].next = fl[list[2]]
    BY <1>2, <1>4
  <1> QED BY <1>3, <1>4, <1>5, <1>6, <1>7 DEF Spans

\* The last child of a list taken off.
LEMMA SpansInit ==
  \A ns, fl, ll, list, f, l, u, n :
    (/\ Spans(ns, fl, ll, list, f, l) /\ n = Len(list) - 1 /\ n \in Nat /\ n > 0 /\ Len(list) \in Nat
     /\ Less1(u, list, n))
      => Spans(ns, fl, ll, u, f, ll[list[n]]) /\ ns[ll[list[n]]].next = fl[list[n + 1]]
  <1> SUFFICES ASSUME NEW ns, NEW fl, NEW ll, NEW list, NEW f, NEW l, NEW u, NEW n,
                      Spans(ns, fl, ll, list, f, l), n = Len(list) - 1, n \in Nat, n > 0, Len(list) \in Nat,
                      Less1(u, list, n)
               PROVE  Spans(ns, fl, ll, u, f, ll[list[n]]) /\ ns[ll[list[n]]].next = fl[list[n + 1]]
    OBVIOUS
  <1>2. 1 \in 1..n /\ n \in 1..n
    OBVIOUS
  <1>3. Len(u) = n /\ \A j \in 1..n : u[j] = list[j]
    BY DEF Less1
  <1>4. f = fl[list[1]] /\ \A i \in 1..n : ns[ll[list[i]]].next = fl[list[i + 1]]
    BY DEF Spans
  <1>5. ASSUME NEW i \in 1..(n - 1) PROVE ns[ll[u[i]]].next = fl[u[i + 1]]
    <2>1. i \in 1..n /\ i + 1 \in 1..n
      OBVIOUS
    <2> QED BY <1>3, <1>4, <2>1
  <1> QED BY <1>2, <1>3, <1>4, <1>5 DEF Spans

\* Two children of a list, one after the other, that end and begin somewhere else.
Shifts(fl, ll, gl, kl, list, j) ==
  \A i \in 1..Len(list) : (i # j + 1 => gl[list[i]] = fl[list[i]]) /\ (i # j => kl[list[i]] = ll[list[i]])

\* The list spans what it spanned if the two still meet.
LEMMA SpansShift ==
  \A ns, fl, ll, gl, kl, list, f, l, j :
    (/\ Spans(ns, fl, ll, list, f, l) /\ Len(list) \in Nat /\ j \in 1..(Len(list) - 1)
     /\ Shifts(fl, ll, gl, kl, list, j) /\ Before(ns, kl[list[j]], gl[list[j + 1]]))
      => Spans(ns, gl, kl, list, f, l)
  <1> SUFFICES ASSUME NEW ns, NEW fl, NEW ll, NEW gl, NEW kl, NEW list, NEW f, NEW l, NEW j,
                      Spans(ns, fl, ll, list, f, l), Len(list) \in Nat, j \in 1..(Len(list) - 1),
                      Shifts(fl, ll, gl, kl, list, j), Before(ns, kl[list[j]], gl[list[j + 1]])
               PROVE  Spans(ns, gl, kl, list, f, l)
    OBVIOUS
  <1>1. PICK n : n = Len(list)
    OBVIOUS
  <1>2. /\ n \in Nat /\ n \in 1..n /\ 1 \in 1..n /\ 1 # j + 1 /\ n # j
    BY <1>1
  <1>3. \A i \in 1..n : (i # j + 1 => gl[list[i]] = fl[list[i]]) /\ (i # j => kl[list[i]] = ll[list[i]])
    BY <1>1 DEF Shifts
  <1>4. f = fl[list[1]] /\ l = ll[list[n]] /\ \A i \in 1..(n - 1) : ns[ll[list[i]]].next = fl[list[i + 1]]
    BY <1>1 DEF Spans
  <1>5. ASSUME NEW i \in 1..(n - 1) PROVE ns[kl[list[i]]].next = gl[list[i + 1]]
    <2>1. CASE i = j
      BY <2>1 DEF Before
    <2>2. CASE i # j
      <3>1. i \in 1..n /\ i + 1 \in 1..n /\ i + 1 # j + 1
        BY <1>1, <1>2, <2>2
      <3> QED BY <1>3, <1>4, <2>2, <3>1
    <2> QED BY <2>1, <2>2
  <1> QED BY <1>1, <1>2, <1>3, <1>4, <1>5 DEF Spans

\* The nodes ms: those of ns, with other lists in left and in right.
Kept2(ms, ns, left, right) ==
  /\ DOMAIN ms = DOMAIN ns
  /\ \A q \in DOMAIN ns : /\ (ms[q].leaf <=> ns[q].leaf) /\ ms[q].next = ns[q].next /\ ms[q].prev = ns[q].prev
                          /\ (~ns[q].leaf /\ q # left /\ q # right => ms[q].vals = ns[q].vals)

\* A list of nodes that are children of left or of right.
Below2(ns, left, right, list) ==
  /\ Len(list) \in Nat /\ Len(list) > 0
  /\ \A i \in 1..Len(list) : list[i] \in Nds(ns) /\ ns[list[i]].parent \in {left, right}

\* left and right are the children j and j + 1 of p.
Adjacent(ns, p, j, left, right) ==
  /\ p \in Nds(ns) /\ ~ns[p].leaf /\ j \in 1..(Len(ns[p].vals) - 1)
  /\ ns[p].vals[j] = left /\ ns[p].vals[j + 1] = right

\* left and right are next to each other below p; the leaves of left now end at
\* a, those of right begin at b.
LEMMA ShiftEnds ==
  \A ns, ms, fl, ll, z, p, j, left, right, a, b :
    (/\ Store(ns) /\ Kids(ns) /\ Ends(ns, fl, ll, 0, z)
     /\ Adjacent(ns, p, j, left, right) /\ ~ns[left].leaf /\ ~ns[right].leaf
     /\ Kept2(ms, ns, left, right) /\ LeafOf(ns, a) /\ LeafOf(ns, b) /\ Before(ns, a, b)
     /\ Spans(ns, fl, ll, ms[left].vals, fl[left], a) /\ Spans(ns, fl, ll, ms[right].vals, b, ll[right])
     /\ Below2(ns, left, right, ms[left].vals) /\ Below2(ns, left, right, ms[right].vals))
      => Ends(ms, WithFirst(fl, right, b), WithFirst(ll, left, a), 0, 0)
  <1> SUFFICES ASSUME NEW ns, NEW ms, NEW fl, NEW ll, NEW z, NEW p, NEW j, NEW left, NEW right, NEW a, NEW b,
                      Store(ns), Kids(ns), Ends(ns, fl, ll, 0, z),
                      Adjacent(ns, p, j, left, right), ~ns[left].leaf, ~ns[right].leaf,
                      Kept2(ms, ns, left, right), LeafOf(ns, a), LeafOf(ns, b), Before(ns, a, b),
                      Spans(ns, fl, ll, ms[left].vals, fl[left], a), Spans(ns, fl, ll, ms[right].vals, b, ll[right]),
                      Below2(ns, left, right, ms[left].vals), Below2(ns, left, right, ms[right].vals)
               PROVE  Ends(ms, WithFirst(fl, right, b), WithFirst(ll, left, a), 0, 0)
    OBVIOUS
  <1>1. PICK gl, kl : gl = WithFirst(fl, right, b) /\ kl = WithFirst(ll, left, a)
    OBVIOUS
  <1>0. /\ p \in Nds(ns) /\ ~ns[p].leaf /\ j \in 1..(Len(ns[p].vals) - 1)
        /\ ns[p].vals[j] = left /\ ns[p].vals[j + 1] = right
    BY DEF Adjacent
  <1>2. Nds(ms) = Nds(ns) /\ 0 \notin Nds(ns) /\ Nds(ns) \subseteq Pages /\ Nds(ns) \subseteq DOMAIN ns
    BY NdsIs, PagesIs DEF Nds, Kept2
  <1>3. PICK list, n : list = ns[p].vals /\ n = Len(list)
    OBVIOUS
  <1>4. /\ n \in Nat /\ j \in 1..n /\ j + 1 \in 1..n /\ j \in 1..(n - 1) /\ Distinct(list)
        /\ \A i \in 1..n : list[i] \in Nds(ns) /\ list[i] # p /\ ns[list[i]].parent = p
    BY <1>0, <1>3 DEF Kids
  <1>5. /\ left \in Nds(ns) /\ right \in Nds(ns) /\ left # right /\ p # left /\ p # right
        /\ ns[left].parent = p /\ ns[right].parent = p
    BY <1>0, <1>3, <1>4 DEF Distinct
  <1>6. /\ gl[right] = b /\ kl[left] = a
        /\ \A q \in Nds(ns) : (q # right => gl[q] = fl[q]) /\ (q # left => kl[q] = ll[q])
    BY <1>1, <1>2, <1>5 DEF WithFirst
  <1>7. \A q \in Nds(ns) : /\ LeafOf(ns, fl[q]) /\ LeafOf(ns, ll[q])
                           /\ (ns[q].leaf => fl[q] = q /\ ll[q] = q)
                           /\ (~ns[q].leaf => Spans(ns, fl, ll, ns[q].vals, fl[q], ll[q]))
    BY <1>2 DEF Ends, Own
  <1>8. \A q : LeafOf(ns, q) => LeafOf(ms, q) /\ ms[q].next = ns[q].next
    BY <1>2 DEF LeafOf, Kept2
  <1>9. \A q \in Nds(ns) : LeafOf(ns, gl[q]) /\ LeafOf(ns, kl[q])
    BY <1>6, <1>7
  <1>10. ASSUME NEW q \in Nds(ms), ms[q].leaf PROVE gl[q] = q /\ kl[q] = q
    <2>1. q \in Nds(ns) /\ ns[q].leaf
      BY <1>2, <1>10 DEF Kept2
    <2> QED BY <1>6, <1>7, <2>1
  <1>11. ASSUME NEW u, NEW f, NEW l, Below2(ns, left, right, u), Spans(ns, fl, ll, u, f, l)
         PROVE  Spans(ms, gl, kl, u, f, l)
    <2>1. /\ Len(u) \in Nat /\ Len(u) > 0
          /\ \A i \in 1..Len(u) : u[i] \in Nds(ns) /\ u[i] # left /\ u[i] # right
      BY <1>5, <1>11 DEF Below2
    <2>2. \A i \in 1..Len(u) : /\ gl[u[i]] = fl[u[i]] /\ kl[u[i]] = ll[u[i]]
                               /\ ms[ll[u[i]]].next = ns[ll[u[i]]].next
      BY <1>6, <1>7, <1>8, <2>1
    <2> QED BY <1>11, <2>1, <2>2, SpansApart
  <1>12. ASSUME NEW q \in Nds(ns), ~ns[q].leaf PROVE Spans(ms, gl, kl, ms[q].vals, gl[q], kl[q])
    <2>1. CASE q = left
      <3>1. gl[q] = fl[left] /\ kl[q] = a
        BY <1>5, <1>6, <2>1
      <3>2. Spans(ms, gl, kl, ms[left].vals, fl[left], a)
        BY <1>11
      <3> QED BY <2>1, <3>1, <3>2
    <2>2. CASE q = right
      <3>1. gl[q] = b /\ kl[q] = ll[right]
        BY <1>5, <1>6, <2>2
      <3>2. Spans(ms, gl, kl, ms[right].vals, b, ll[right])
        BY <1>11
      <3> QED BY <2>2, <3>1, <3>2
    <2>3. CASE q = p
      <3>1. Spans(ns, fl, ll, list, fl[p], ll[p])
        BY <1>0, <1>3, <1>7
      <3>2. Shifts(fl, ll, gl, kl, list, j)
        <4>1. \A i \in 1..n : (i # j => list[i] # left) /\ (i # j + 1 => list[i] # right)
          BY <1>0, <1>3, <1>4 DEF Distinct
        <4> QED BY <1>3, <1>4, <1>6, <4>1 DEF Shifts
      <3>3. Before(ns, kl[list[j]], gl[list[j + 1]])
        BY <1>0, <1>3, <1>6
      <3>4. Spans(ns, gl, kl, list, fl[p], ll[p])
        BY <1>3, <1>4, <3>1, <3>2, <3>3, SpansShift
      <3>5. \A i \in 1..Len(list) : /\ gl[list[i]] = gl[list[i]] /\ kl[list[i]] = kl[list[i]]
                                    /\ ms[kl[list[i]]].next = ns[kl[list[i]]].next
        BY <1>3, <1>4, <1>8, <1>9
      <3>6. Len(list) \in Nat /\ Len(list) > 0
        BY <1>3, <1>4
      <3>7. Spans(ms, gl, kl, list, fl[p], ll[p])
        BY <3>4, <3>5, <3>6, SpansApart
      <3>8. ms[p].vals = list /\ gl[p] = fl[p] /\ kl[p] = ll[p]
        BY <1>0, <1>2, <1>3, <1>5, <1>6 DEF Kept2
      <3> QED BY <2>3, <3>7, <3>8
    <2>4. CASE q # left /\ q # right /\ q # p
      <3>1. ms[q].vals = ns[q].vals
        BY <1>2, <1>12, <2>4 DEF Kept2
      <3>2. PICK u : u = ns[q].vals
        OBVIOUS
      <3>3. /\ Len(u) \in Nat /\ Len(u) > 0
            /\ \A i \in 1..Len(u) : u[i] \in Nds(ns) /\ ns[u[i]].parent = q
        BY <1>12, <3>2 DEF Kids
      <3>4. \A i \in 1..Len(u) : u[i] # left /\ u[i] # right
        BY <1>5, <2>4, <3>3
      <3>5. Spans(ns, fl, ll, u, gl[q], kl[q])
        BY <1>6, <1>7, <1>12, <2>4, <3>2
      <3>6. \A i \in 1..Len(u) : /\ gl[u[i]] = fl[u[i]] /\ kl[u[i]] = ll[u[i]]
                                 /\ ms[ll[u[i]]].next = ns[ll[u[i]]].next
        BY <1>6, <1>7, <1>8, <3>3, <3>4
      <3>7. Spans(ms, gl, kl, u, gl[q], kl[q])
        BY <3>3, <3>5, <3>6, SpansApart
      <3> QED BY <3>1, <3>2, <3>7
    <2> QED BY <2>1, <2>2, <2>3, <2>4
  <1>13. \A q \in Nds(ms) : Own(kl, q, 0, 0) = kl[q]
    BY <1>2 DEF Own
  <1>14. \A q \in Nds(ms) : ms[q].leaf <=> ns[q].leaf
    BY <1>2 DEF Kept2
  <1>15. \A q \in Nds(ms) : LeafOf(ms, gl[q]) /\ LeafOf(ms, kl[q])
    BY <1>2, <1>8, <1>9
  <1>16. Ends(ms, gl, kl, 0, 0)
    BY <1>2, <1>10, <1>12, <1>13, <1>14, <1>15 DEF Ends
  <1> QED BY <1>1, <1>16

\* A list of children of two nodes, with one more.
LEMMA Below2With ==
  \A ns, left, right, s, u, i, v :
    (/\ Below2(ns, left, right, s) /\ With1(u, s, i, v) /\ i \in 0..Len(s)
     /\ v \in Nds(ns) /\ ns[v].parent \in {left, right})
      => Below2(ns, left, right, u)
  <1> SUFFICES ASSUME NEW ns, NEW left, NEW right, NEW s, NEW u, NEW i, NEW v,
                      Below2(ns, left, right, s), With1(u, s, i, v), i \in 0..Len(s),
                      v \in Nds(ns), ns[v].parent \in {left, right}
               PROVE  Below2(ns, left, right, u)
    OBVIOUS
  <1>1. PICK n : n = Len(s)
    OBVIOUS
  <1>2. /\ n \in Nat /\ i \in 0..n /\ Len(u) = n + 1 /\ u[i + 1] = v
        /\ \A j \in 1..n : (j <= i => u[j] = s[j]) /\ (j > i => u[j + 1] = s[j])
    BY <1>1 DEF With1, Below2
  <1>3. \A j \in 1..n : s[j] \in Nds(ns) /\ ns[s[j]].parent \in {left, right}
    BY <1>1 DEF Below2
  <1>4. ASSUME NEW j \in 1..(n + 1) PROVE u[j] \in Nds(ns) /\ ns[u[j]].parent \in {left, right}
    <2>1. CASE j <= i
      <3>1. j \in 1..n
        BY <1>2, <2>1
      <3> QED BY <1>2, <1>3, <2>1, <3>1
    <2>2. CASE j = i + 1
      BY <1>2, <2>2
    <2>3. CASE j > i + 1
      <3>1. PICK k : k = j - 1
        OBVIOUS
      <3>2. k \in 1..n /\ k > i /\ j = k + 1
        BY <1>2, <2>3, <3>1
      <3>3. u[k + 1] = s[k]
        BY <1>2, <3>2
      <3> QED BY <1>3, <3>2, <3>3
    <2> QED BY <1>2, <2>1, <2>2, <2>3
  <1>5. Len(u) \in Nat /\ Len(u) > 0 /\ 1..Len(u) = 1..(n + 1)
    BY <1>2
  <1> QED BY <1>4, <1>5 DEF Below2

\* A list of children of two nodes, with one less.
LEMMA Below2Less ==
  \A ns, left, right, s, u, i :
    (/\ Below2(ns, left, right, s) /\ Less1(u, s, i) /\ i \in Nat /\ Len(s) > 1) => Below2(ns, left, right, u)
  <1> SUFFICES ASSUME NEW ns, NEW left, NEW right, NEW s, NEW u, NEW i,
                      Below2(ns, left, right, s), Less1(u, s, i), i \in Nat, Len(s) > 1
               PROVE  Below2(ns, left, right, u)
    OBVIOUS
  <1>1. PICK n : n = Len(s)
    OBVIOUS
  <1>2. /\ n \in Nat /\ n > 1 /\ Len(u) = n - 1
        /\ \A j \in 1..(n - 1) : (j <= i => u[j] = s[j]) /\ (j > i => u[j] = s[j + 1])
    BY <1>1 DEF Less1, Below2
  <1>3. \A j \in 1..n : s[j] \in Nds(ns) /\ ns[s[j]].parent \in {left, right}
    BY <1>1 DEF Below2
  <1>4. ASSUME NEW j \in 1..(n - 1) PROVE u[j] \in Nds(ns) /\ ns[u[j]].parent \in {left, right}
    <2>1. j \in 1..n /\ j + 1 \in 1..n
      BY <1>2
    <2>2. u[j] = s[j] \/ u[j] = s[j + 1]
      BY <1>2
    <2> QED BY <1>3, <2>1, <2>2
  <1>5. Len(u) \in Nat /\ Len(u) > 0
    BY <1>2
  <1> QED BY <1>2, <1>4, <1>5 DEF Below2

\* The pair that moves is at the end of y next to x, and goes to that end of x.
AtEnds(ns, x, y, idx, from, to) == from = From(ns[y], idx) /\ to = To(ns[x], idx)

\* A child goes from the internal node y to x, its neighbour.
LEMMA RedistributeEnds ==
  \A ns, ms, h, fl, ll, z, x, y, p, idx, from, to, key, val, nx, ny :
    (/\ Store(ns) /\ Kids(ns) /\ Ends(ns, fl, ll, 0, z) /\ Siblings(ns, h, x, y, p, idx) /\ ~ns[x].leaf
     /\ AtEnds(ns, x, y, idx, from, to)
     /\ Moves(ns, x, y, from, to, key, val, nx, ny) /\ MovesAll(ms, ns, x, y, val, nx, ny))
      => \E c, d, a, b : /\ {c, d} = {x, y} /\ LeafOf(ns, a) /\ LeafOf(ns, b)
                         /\ Ends(ms, WithFirst(fl, d, b), WithFirst(ll, c, a), 0, 0)
  <1> SUFFICES ASSUME NEW ns, NEW ms, NEW h, NEW fl, NEW ll, NEW z, NEW x, NEW y, NEW p, NEW idx,
                      NEW from, NEW to, NEW key, NEW val, NEW nx, NEW ny,
                      Store(ns), Kids(ns), Ends(ns, fl, ll, 0, z), Siblings(ns, h, x, y, p, idx), ~ns[x].leaf,
                      AtEnds(ns, x, y, idx, from, to),
                      Moves(ns, x, y, from, to, key, val, nx, ny), MovesAll(ms, ns, x, y, val, nx, ny)
               PROVE  \E c, d, a, b : /\ {c, d} = {x, y} /\ LeafOf(ns, a) /\ LeafOf(ns, b)
                                      /\ Ends(ms, WithFirst(fl, d, b), WithFirst(ll, c, a), 0, 0)
    OBVIOUS
  <1>1. /\ x \in Nds(ns) /\ y \in Nds(ns) /\ p \in Nds(ns) /\ x # y /\ x # p /\ y # p
        /\ ~ns[p].leaf /\ ns[x].parent = p /\ ns[y].parent = p /\ ~ns[y].leaf
        /\ idx \in 0..(Size(ns[p]) - 1) /\ ns[p].vals[idx + 1] = x
        /\ (idx > 0 => ns[p].vals[idx] = y)
        /\ (idx = 0 => Size(ns[p]) > 1 /\ ns[p].vals[2] = y)
    BY DEF Siblings
  <1>2. PICK s, t, u, w : s = ns[x].vals /\ t = ns[y].vals /\ u = ms[x].vals /\ w = ms[y].vals
    OBVIOUS
  <1>3. PICK g, n : g = Len(s) /\ n = Len(t)
    OBVIOUS
  <1>4. /\ s \in Seq(Pages) /\ t \in Seq(Pages) /\ g = Size(ns[x]) /\ n = Size(ns[y])
        /\ Len(ns[p].vals) = Size(ns[p]) /\ Size(ns[p]) \in Nat
    BY <1>1, <1>2, <1>3, NdsIs, NodeIs
  <1>5. /\ g \in Nat /\ g > 0 /\ n \in Nat
        /\ \A i \in 1..g : s[i] \in Nds(ns) /\ ns[s[i]].parent = x
        /\ \A i \in 1..n : t[i] \in Nds(ns) /\ ns[t[i]].parent = y
    BY <1>1, <1>2, <1>3 DEF Kids
  <1>6. n > 1 /\ from \in 0..(n - 1) /\ to \in 0..g /\ val = t[from + 1]
        /\ IsInsert(nx, ns[x], to, <<key>>, <<val>>) /\ IsErase(ny, ns[y], from)
    <2>1. n >= MinSize + 1
      BY <1>4 DEF Moves
    <2>2. n > 1
      BY <1>5, <2>1, Sizes
    <2> QED BY <1>2, <1>4, <2>2 DEF Moves
  <1>7. x \in DOMAIN ns /\ y \in DOMAIN ns
    BY <1>1, NdsIs
  <1>8. u = Splice(s, to, <<val>>) /\ w = Without(t, from)
    <2>1. SamePairs(ms[x], nx) /\ SamePairs(ms[y], ny)
      BY <1>1, <1>7 DEF MovesAll, MovedAs
    <2> QED BY <1>2, <1>6, <2>1 DEF SamePairs, IsInsert, IsErase
  <1>9. from + 1 \in 1..n /\ val \in Nds(ns) /\ ns[val].parent = y /\ val \in Pages
    <2>1. from + 1 \in 1..n
      BY <1>5, <1>6
    <2>2. val \in Nds(ns) /\ ns[val].parent = y
      BY <1>5, <1>6, <2>1
    <2> QED BY <2>1, <2>2, NdsIs
  <1>10. With1(u, s, to, val) /\ Less1(w, t, from)
    BY <1>3, <1>4, <1>6, <1>8, <1>9, With1Is, Less1Is
  <1>11. Kept2(ms, ns, x, y) /\ Kept2(ms, ns, y, x)
    <2>1. DOMAIN ms = DOMAIN ns
      BY DEF MovesAll
    <2>2. ASSUME NEW q \in DOMAIN ns
          PROVE  /\ (ms[q].leaf <=> ns[q].leaf) /\ ms[q].next = ns[q].next /\ ms[q].prev = ns[q].prev
                 /\ (q # x /\ q # y => ms[q].vals = ns[q].vals)
      <3>1. /\ ms[q].next = ns[q].next /\ ms[q].prev = ns[q].prev
            /\ (q = x => SamePairs(ms[q], nx)) /\ (q = y => SamePairs(ms[q], ny))
            /\ (q # x /\ q # y => SamePairs(ms[q], ns[q]))
        BY <1>1 DEF MovesAll, MovedAs
      <3>2. (nx.leaf <=> ns[x].leaf) /\ (ny.leaf <=> ns[y].leaf)
        BY <1>6 DEF IsInsert, IsErase, SameLinks
      <3> QED BY <3>1, <3>2 DEF SamePairs
    <2> QED BY <2>1, <2>2 DEF Kept2
  <1>12. Below2(ns, x, y, s) /\ Below2(ns, x, y, t)
    BY <1>3, <1>5, <1>6 DEF Below2
  <1>13. Below2(ns, x, y, u) /\ Below2(ns, x, y, w)
    <2>1. to \in 0..Len(s) /\ from \in Nat /\ Len(t) > 1 /\ ns[val].parent \in {x, y}
      BY <1>3, <1>6, <1>9
    <2>2. Below2(ns, x, y, u)
      BY <1>9, <1>10, <1>12, <2>1, Below2With
    <2> QED BY <1>10, <1>12, <2>1, <2>2, Below2Less
  <1>14. Below2(ns, y, x, u) /\ Below2(ns, y, x, w)
    BY <1>13 DEF Below2
  <1>15. 0 \notin Nds(ns)
    BY NdsIs, PagesIs
  <1>16. \A q \in Nds(ns) : LeafOf(ns, fl[q]) /\ LeafOf(ns, ll[q])
    BY DEF Ends
  <1>17. /\ Spans(ns, fl, ll, s, fl[x], ll[x]) /\ Spans(ns, fl, ll, t, fl[y], ll[y])
         /\ Spans(ns, fl, ll, ns[p].vals, fl[p], ll[p])
    BY <1>1, <1>2, <1>15 DEF Ends, Own
  <1>18. from = (IF idx = 0 THEN 0 ELSE n - 1) /\ to = IF idx = 0 THEN g ELSE 0
    BY <1>4 DEF AtEnds, From, To
  <1>19. CASE idx = 0
    <2>1. from = 0 /\ to = Len(s) /\ val = t[1]
      BY <1>3, <1>6, <1>18, <1>19
    <2>2. Adjacent(ns, p, 1, x, y)
      <3>1. 1 \in 1..(Len(ns[p].vals) - 1) /\ ns[p].vals[1] = x /\ ns[p].vals[1 + 1] = y
        BY <1>1, <1>4, <1>19
      <3> QED BY <1>1, <3>1 DEF Adjacent
    <2>3. ns[ll[x]].next = fl[y]
      BY <1>17, <2>2 DEF Spans, Adjacent
    <2>4. fl[y] = fl[val]
      BY <1>17, <2>1 DEF Spans
    <2>5. Spans(ns, fl, ll, u, fl[x], ll[val])
      BY <1>3, <1>5, <1>10, <1>17, <2>1, <2>3, <2>4, SpansPush
    <2>6. Spans(ns, fl, ll, w, fl[t[2]], ll[y]) /\ ns[ll[t[1]]].next = fl[t[2]]
      BY <1>3, <1>5, <1>6, <1>10, <1>17, <2>1, SpansTail
    <2>7. PICK a, b : a = ll[val] /\ b = fl[t[2]]
      OBVIOUS
    <2>8. LeafOf(ns, a) /\ LeafOf(ns, b) /\ Before(ns, a, b)
      <3>1. 2 \in 1..n
        BY <1>5, <1>6
      <3> QED BY <1>5, <1>9, <1>16, <2>1, <2>6, <2>7, <3>1 DEF Before
    <2>9. PICK j : j = 1
      OBVIOUS
    <2>10. Ends(ms, WithFirst(fl, y, b), WithFirst(ll, x, a), 0, 0)
      <3>1. /\ Adjacent(ns, p, j, x, y) /\ Kept2(ms, ns, x, y)
            /\ Spans(ns, fl, ll, ms[x].vals, fl[x], a) /\ Spans(ns, fl, ll, ms[y].vals, b, ll[y])
            /\ Below2(ns, x, y, ms[x].vals) /\ Below2(ns, x, y, ms[y].vals)
        BY <1>2, <1>11, <1>13, <2>2, <2>5, <2>6, <2>7, <2>9
      <3> QED BY <1>1, <2>8, <3>1, ShiftEnds
    <2> QED BY <2>8, <2>10
  <1>20. CASE idx # 0
    <2>0. PICK k : k = n - 1
      OBVIOUS
    <2>1. from = k /\ to = 0 /\ val = t[k + 1] /\ k \in Nat /\ k > 0 /\ k = Len(t) - 1 /\ k + 1 = n
      BY <1>3, <1>5, <1>6, <1>18, <1>20, <2>0
    <2>2. Adjacent(ns, p, idx, y, x)
      <3>1. idx \in 1..(Len(ns[p].vals) - 1) /\ ns[p].vals[idx] = y /\ ns[p].vals[idx + 1] = x
        BY <1>1, <1>4, <1>20
      <3> QED BY <1>1, <3>1 DEF Adjacent
    <2>3. ns[ll[y]].next = fl[x]
      BY <1>17, <2>2 DEF Spans, Adjacent
    <2>4. ll[y] = ll[val]
      BY <1>3, <1>17, <2>1 DEF Spans
    <2>5. Spans(ns, fl, ll, u, fl[val], ll[x])
      <3>1. Before(ns, ll[val], fl[x])
        BY <2>3, <2>4 DEF Before
      <3> QED BY <1>3, <1>5, <1>10, <1>17, <2>1, <3>1, SpansFront
    <2>6. Spans(ns, fl, ll, w, fl[y], ll[t[k]]) /\ ns[ll[t[k]]].next = fl[t[k + 1]]
      BY <1>3, <1>5, <1>10, <1>17, <2>1, SpansInit
    <2>7. PICK a, b : a = ll[t[k]] /\ b = fl[val]
      OBVIOUS
    <2>8. LeafOf(ns, a) /\ LeafOf(ns, b) /\ Before(ns, a, b)
      <3>1. k \in 1..n
        BY <1>5, <2>1
      <3> QED BY <1>5, <1>9, <1>16, <2>1, <2>6, <2>7, <3>1 DEF Before
    <2>10. Ends(ms, WithFirst(fl, x, b), WithFirst(ll, y, a), 0, 0)
      <3>1. /\ Kept2(ms, ns, y, x)
            /\ Spans(ns, fl, ll, ms[y].vals, fl[y], a) /\ Spans(ns, fl, ll, ms[x].vals, b, ll[x])
            /\ Below2(ns, y, x, ms[y].vals) /\ Below2(ns, y, x, ms[x].vals)
        BY <1>2, <1>11, <1>14, <2>5, <2>6, <2>7
      <3> QED BY <1>1, <2>2, <2>8, <3>1, ShiftEnds
    <2> QED BY <2>8, <2>10
  <1> QED BY <1>19, <1>20

\* Redistribute keeps the leaf list: the leaves of a child move with it.
LEMMA RedistributeLeaves ==
  ASSUME NEW h, TreeInv(h), NEW fl \in [Pages -> Pages], NEW ll \in [Pages -> Pages],
         NEW m \in Nat, LeafInv(fl, ll, m), Redistribute
  PROVE  \E gl, kl \in [Pages -> Pages], k \in Nat : LeafInv(gl, kl, k)'
  <1>1. PICK x : x = op.page
    OBVIOUS
  <1>2. PICK p : p = Parent
    OBVIOUS
  <1>3. PICK idx : idx = Index
    OBVIOUS
  <1>4. PICK y : y = Neighbor
    OBVIOUS
  <1>5. PICK from : from = From(node[y], idx)
    OBVIOUS
  <1>6. PICK to : to = To(node[x], idx)
    OBVIOUS
  <1>7. PICK key : key = KeyAt(node[y], from)
    OBVIOUS
  <1>8. PICK val : val = ValueAt(node[y], from)
    OBVIOUS
  <1>9. PICK nx : nx = insert_pair(node[x], to, key, val)
    OBVIOUS
  <1>10. PICK ny : ny = erase_pair(node[y], from)
    OBVIOUS
  <1>11. /\ Siblings(node, h, x, y, p, idx) /\ x # hdr.root /\ y # hdr.root
         /\ Moves(node, x, y, from, to, key, val, nx, ny) /\ MovesAll(node', node, x, y, val, nx, ny)
    BY <1>1, <1>2, <1>3, <1>4, <1>5, <1>6, <1>7, <1>8, <1>9, <1>10, RedistributeNodes
  <1>12. PICK page : page = IF idx = 0 THEN y ELSE x
    OBVIOUS
  <1>13. /\ Underflows /\ hdr' = hdr /\ op' = Op("up", page, <<<<x, y, p>>>>)
    BY <1>1, <1>2, <1>3, <1>4, <1>12 DEF Redistribute
  <1>14. /\ op.pc = "fix" /\ Store(node) /\ hdr.root \in Nds(node)
    BY <1>1, <1>13, FixIs
  <1>15. /\ x \in Nds(node) /\ y \in Nds(node) /\ x # y /\ (node[x].leaf <=> node[y].leaf)
         /\ Nds(node) \subseteq Pages /\ Nds(node) \subseteq DOMAIN node
    BY <1>11, <1>14, NdsIs DEF Siblings
  <1>16. op'.pc = "up"
    BY <1>13 DEF Op
  <1>17. LastLeafNow' = LastLeafNow
    BY <1>13, <1>14, <1>16 DEF LastLeafNow
  <1>18. /\ Ring(node) /\ Ends(node, fl, ll, 0, m)
         /\ Whole(node, fl[hdr.root], ll[hdr.root]) /\ ll[hdr.root] = LastLeafNow
    BY <1>14 DEF LeafInv, Old
  <1>19. DOMAIN node' = DOMAIN node
    BY <1>11 DEF MovesAll
  <1>20. ASSUME NEW q \in DOMAIN node
         PROVE  /\ (node'[q].leaf <=> node[q].leaf) /\ node'[q].next = node[q].next /\ node'[q].prev = node[q].prev
                /\ (q # x /\ q # y => node'[q].vals = node[q].vals)
    <2>1. MovedAs(node'[q], node[q], q, x, nx, y, ny, IF node[x].leaf THEN {} ELSE {val})
      BY <1>11 DEF MovesAll
    <2>2. /\ node'[q].next = node[q].next /\ node'[q].prev = node[q].prev
          /\ (q = x => SamePairs(node'[q], nx)) /\ (q = y => SamePairs(node'[q], ny))
          /\ (q # x /\ q # y => SamePairs(node'[q], node[q]))
      BY <1>15, <2>1 DEF MovedAs
    <2>3. (nx.leaf <=> node[x].leaf) /\ (ny.leaf <=> node[y].leaf)
      BY <1>11 DEF Moves, IsInsert, IsErase, SameLinks
    <2> QED BY <2>2, <2>3 DEF SamePairs
  <1>21. CASE node[x].leaf
    <2>1. SameLeaves(node', node)
      BY <1>15, <1>19, <1>20, <1>21 DEF SameLeaves
    <2>2. LeafInv(fl, ll, m)'
      BY <1>13, <1>14, <1>16, <1>17, <2>1, LeafInvSame
    <2> QED BY <2>2
  <1>22. CASE ~node[x].leaf
    <2>1. AtEnds(node, x, y, idx, from, to) /\ Kids(node)
      BY <1>5, <1>6, KidsIs DEF AtEnds
    <2>2. PICK c, d, a, b : /\ {c, d} = {x, y} /\ LeafOf(node, a) /\ LeafOf(node, b)
                            /\ Ends(node', WithFirst(fl, d, b), WithFirst(ll, c, a), 0, 0)
      BY <1>11, <1>14, <1>18, <1>22, <2>1, RedistributeEnds
    <2>3. PICK gl, kl : gl = WithFirst(fl, d, b) /\ kl = WithFirst(ll, c, a)
      OBVIOUS
    <2>4. a \in Pages /\ b \in Pages /\ hdr.root # c /\ hdr.root # d /\ hdr.root \in Pages
      BY <1>11, <1>14, <1>15, <2>2 DEF LeafOf
    <2>5. /\ gl \in [Pages -> Pages] /\ kl \in [Pages -> Pages]
          /\ gl[hdr.root] = fl[hdr.root] /\ kl[hdr.root] = ll[hdr.root]
      BY <2>3, <2>4 DEF WithFirst
    <2>6. Ring(node')
      BY <1>18, <1>19, <1>20 DEF Ring
    <2>7. Whole(node', gl[hdr.root], kl[hdr.root])
      <3>1. LeafOf(node, ll[hdr.root])
        BY <1>14, <1>18 DEF Ends
      <3>2. ll[hdr.root] \in DOMAIN node /\ IX_LEAF_HEADER_PAGE \in DOMAIN node
        BY <1>14, <1>15, <3>1 DEF LeafOf, Store
      <3> QED BY <1>18, <1>20, <2>5, <3>2 DEF Whole
    <2>8. LeafInv(gl, kl, 0)'
      BY <1>13, <1>16, <1>17, <1>18, <2>2, <2>3, <2>5, <2>6, <2>7 DEF LeafInv, Old
    <2> QED BY <2>5, <2>8
  <1> QED BY <1>21, <1>22

-----------------------------------------------------------------------------
(* The leaf list when two nodes become one.                                *)

\* u is s, then t.
Joins(u, s, t) ==
  /\ Len(u) = Len(s) + Len(t) /\ \A i \in 1..Len(s) : u[i] = s[i]
  /\ \A i \in 1..Len(t) : u[Len(s) + i] = t[i]

\* A splice at the end joins two sequences.
LEMMA JoinsIs ==
  \A S, s, t : s \in Seq(S) /\ t \in Seq(S) => Joins(Splice(s, Len(s), t), s, t)
  <1> SUFFICES ASSUME NEW S, NEW s, NEW t, s \in Seq(S), t \in Seq(S)
               PROVE  Joins(Splice(s, Len(s), t), s, t)
    OBVIOUS
  <1>1. PICK n, k, u : n = Len(s) /\ k = Len(t) /\ u = Splice(s, n, t)
    OBVIOUS
  <1>2. n \in Nat /\ k \in Nat /\ n \in 0..Len(s)
    BY <1>1, SeqIs
  <1>3. /\ Len(Splice(s, n, t)) = Len(s) + Len(t)
        /\ \A i \in 1..(Len(s) + Len(t)) :
             Splice(s, n, t)[i] = IF i <= n THEN s[i] ELSE IF i <= n + Len(t) THEN t[i - n] ELSE s[i - Len(t)]
    BY <1>2, SpliceIs
  <1>4. /\ Len(u) = n + k
        /\ \A i \in 1..(n + k) : u[i] = IF i <= n THEN s[i] ELSE IF i <= n + k THEN t[i - n] ELSE s[i - k]
    BY <1>1, <1>3
  <1>5. ASSUME NEW i \in 1..n PROVE u[i] = s[i]
    <2>1. i \in 1..(n + k) /\ i <= n
      BY <1>2
    <2> QED BY <1>4, <2>1
  <1>6. ASSUME NEW i \in 1..k PROVE u[n + i] = t[i]
    <2>1. n + i \in 1..(n + k) /\ ~(n + i <= n) /\ n + i <= n + k /\ n + i - n = i
      BY <1>2
    <2>2. PICK e : e = n + i
      OBVIOUS
    <2>3. e \in 1..(n + k) /\ ~(e <= n) /\ e <= n + k /\ e - n = i
      BY <1>2, <2>1, <2>2
    <2>4. u[e] = t[e - n]
      BY <1>4, <2>3
    <2> QED BY <2>2, <2>3, <2>4
  <1>7. Joins(u, s, t)
    BY <1>1, <1>4, <1>5, <1>6 DEF Joins
  <1> QED BY <1>1, <1>7

\* Two lists, the second right after the first, are one.
LEMMA SpansJoin ==
  \A ns, fl, ll, s, f, l, t, g, k, u :
    (/\ Spans(ns, fl, ll, s, f, l) /\ Spans(ns, fl, ll, t, g, k) /\ Before(ns, l, g) /\ Joins(u, s, t)
     /\ Len(s) \in Nat /\ Len(s) > 0 /\ Len(t) \in Nat /\ Len(t) > 0)
      => Spans(ns, fl, ll, u, f, k)
  <1> SUFFICES ASSUME NEW ns, NEW fl, NEW ll, NEW s, NEW f, NEW l, NEW t, NEW g, NEW k, NEW u,
                      Spans(ns, fl, ll, s, f, l), Spans(ns, fl, ll, t, g, k), Before(ns, l, g), Joins(u, s, t),
                      Len(s) \in Nat, Len(s) > 0, Len(t) \in Nat, Len(t) > 0
               PROVE  Spans(ns, fl, ll, u, f, k)
    OBVIOUS
  <1>1. PICK n, c : n = Len(s) /\ c = Len(t)
    OBVIOUS
  <1>2. n \in Nat /\ n > 0 /\ c \in Nat /\ c > 0 /\ n \in 1..n /\ 1 \in 1..n /\ 1 \in 1..c /\ c \in 1..c
    BY <1>1
  <1>3. Len(u) = n + c /\ (\A i \in 1..n : u[i] = s[i]) /\ \A i \in 1..c : u[n + i] = t[i]
    BY <1>1 DEF Joins
  <1>4. f = fl[s[1]] /\ l = ll[s[n]] /\ \A i \in 1..(n - 1) : ns[ll[s[i]]].next = fl[s[i + 1]]
    BY <1>1 DEF Spans
  <1>5. g = fl[t[1]] /\ k = ll[t[c]] /\ \A i \in 1..(c - 1) : ns[ll[t[i]]].next = fl[t[i + 1]]
    BY <1>1 DEF Spans
  <1>6. ASSUME NEW i \in 1..(n + c - 1) PROVE ns[ll[u[i]]].next = fl[u[i + 1]]
    <2>1. CASE i < n
      <3>1. i \in 1..n /\ i + 1 \in 1..n /\ i \in 1..(n - 1)
        BY <1>2, <2>1
      <3> QED BY <1>3, <1>4, <3>1
    <2>2. CASE i = n
      <3>1. u[n] = s[n] /\ u[n + 1] = t[1]
        BY <1>2, <1>3
      <3> QED BY <1>4, <1>5, <2>2, <3>1 DEF Before
    <2>3. CASE i > n
      <3>1. PICK e : e = i - n
        OBVIOUS
      <3>2. e \in 1..c /\ e + 1 \in 1..c /\ e \in 1..(c - 1) /\ i = n + e /\ i + 1 = n + (e + 1)
        BY <1>2, <2>3, <3>1
      <3>3. u[n + e] = t[e] /\ u[n + (e + 1)] = t[e + 1]
        BY <1>3, <3>2
      <3> QED BY <1>5, <3>2, <3>3
    <2> QED BY <1>2, <2>1, <2>2, <2>3
  <1>7. u[1] = s[1] /\ u[n + c] = t[c]
    BY <1>2, <1>3
  <1>8. f = fl[u[1]] /\ k = ll[u[Len(u)]]
    BY <1>3, <1>4, <1>5, <1>7
  <1>9. 1..(Len(u) - 1) = 1..(n + c - 1)
    BY <1>2, <1>3
  <1> QED BY <1>6, <1>8, <1>9 DEF Spans

\* The child j + 1 of a list taken out, and child j ends where it ended.
Drops(ns, ms, ll, kl, list, j) ==
  \A i \in 1..(Len(list) - 1) :
    /\ (i # j /\ i # j + 1 => ms[kl[list[i]]].next = ns[ll[list[i]]].next)
    /\ (i = j + 1 => ms[kl[list[j]]].next = ns[ll[list[i]]].next)

\* The rest of the list spans the same leaves.
LEMMA SpansDrop ==
  \A ns, ms, fl, ll, kl, list, f, l, j, u :
    (/\ Spans(ns, fl, ll, list, f, l) /\ Len(list) \in Nat /\ j \in 1..(Len(list) - 1)
     /\ Less1(u, list, j) /\ Drops(ns, ms, ll, kl, list, j))
      => Spans(ms, fl, kl, u, f, IF j = Len(list) - 1 THEN kl[list[j]] ELSE kl[list[Len(list)]])
  <1> SUFFICES ASSUME NEW ns, NEW ms, NEW fl, NEW ll, NEW kl, NEW list, NEW f, NEW l, NEW j, NEW u,
                      Spans(ns, fl, ll, list, f, l), Len(list) \in Nat, j \in 1..(Len(list) - 1),
                      Less1(u, list, j), Drops(ns, ms, ll, kl, list, j)
               PROVE  Spans(ms, fl, kl, u, f, IF j = Len(list) - 1 THEN kl[list[j]] ELSE kl[list[Len(list)]])
    OBVIOUS
  <1>1. PICK n : n = Len(list)
    OBVIOUS
  <1>2. n \in Nat /\ n > 1 /\ 1 \in 1..(n - 1) /\ n - 1 \in 1..(n - 1) /\ j \in 1..(n - 1) /\ n - 1 + 1 = n
    BY <1>1
  <1>3. Len(u) = n - 1 /\ \A i \in 1..(n - 1) : (i <= j => u[i] = list[i]) /\ (i > j => u[i] = list[i + 1])
    BY <1>1 DEF Less1
  <1>4. f = fl[list[1]] /\ \A i \in 1..(n - 1) : ns[ll[list[i]]].next = fl[list[i + 1]]
    BY <1>1 DEF Spans
  <1>5. \A i \in 1..(n - 1) :
          /\ (i # j /\ i # j + 1 => ms[kl[list[i]]].next = ns[ll[list[i]]].next)
          /\ (i = j + 1 => ms[kl[list[j]]].next = ns[ll[list[i]]].next)
    BY <1>1 DEF Drops
  <1>6. ASSUME NEW i \in 1..(n - 1 - 1) PROVE ms[kl[u[i]]].next = fl[u[i + 1]]
    <2>0. i \in 1..(n - 1) /\ i + 1 \in 1..(n - 1)
      BY <1>2
    <2>1. CASE i < j
      <3>1. u[i] = list[i] /\ u[i + 1] = list[i + 1] /\ i # j /\ i # j + 1
        BY <1>2, <1>3, <2>0, <2>1
      <3> QED BY <1>4, <1>5, <2>0, <3>1
    <2>2. CASE i = j
      <3>1. u[i] = list[j] /\ u[i + 1] = list[j + 1 + 1] /\ j + 1 \in 1..(n - 1)
        BY <1>2, <1>3, <2>0, <2>2
      <3>2. ms[kl[list[j]]].next = ns[ll[list[j + 1]]].next
        BY <1>5, <3>1
      <3> QED BY <1>4, <3>1, <3>2
    <2>3. CASE i > j
      <3>1. i + 1 # j /\ i + 1 # j + 1 /\ i + 1 > j
        BY <1>2, <2>3
      <3>2. u[i] = list[i + 1] /\ u[i + 1] = list[i + 1 + 1]
        BY <1>3, <2>0, <2>3, <3>1
      <3> QED BY <1>4, <1>5, <2>0, <3>1, <3>2
    <2> QED BY <1>2, <2>1, <2>2, <2>3
  <1>7. u[1] = list[1]
    BY <1>2, <1>3
  <1>8. u[n - 1] = IF j = n - 1 THEN list[j] ELSE list[n]
    <2>1. CASE j = n - 1
      BY <1>2, <1>3, <2>1
    <2>2. CASE j # n - 1
      <3>1. n - 1 > j
        BY <1>2, <2>2
      <3> QED BY <1>2, <1>3, <2>2, <3>1
    <2> QED BY <2>1, <2>2
  <1>9. 1..(Len(u) - 1) = 1..(n - 1 - 1)
    BY <1>3
  <1>10. PICK k : k = IF j = n - 1 THEN kl[list[j]] ELSE kl[list[n]]
    OBVIOUS
  <1>11. k = kl[u[Len(u)]]
    BY <1>3, <1>8, <1>10
  <1>12. f = fl[u[1]]
    BY <1>4, <1>7
  <1>13. Spans(ms, fl, kl, u, f, k)
    BY <1>6, <1>9, <1>11, <1>12 DEF Spans
  <1> QED BY <1>1, <1>10, <1>13

\* The nodes ms: those of ns but right, with one child less below p.
Kept3(ms, ns, p, j, left, right) ==
  /\ DOMAIN ms = DOMAIN ns \ {right} /\ Less1(ms[p].vals, ns[p].vals, j)
  /\ \A q \in DOMAIN ms : /\ (ms[q].leaf <=> ns[q].leaf)
                          /\ (~ns[q].leaf /\ q # left /\ q # p => ms[q].vals = ns[q].vals)

\* An internal node right merged into left.
LEMMA InnerMergeEnds ==
  \A ns, ms, fl, ll, z, p, j, left, right :
    (/\ Store(ns) /\ Kids(ns) /\ Ends(ns, fl, ll, 0, z)
     /\ Adjacent(ns, p, j, left, right) /\ ~ns[left].leaf /\ ~ns[right].leaf
     /\ Kept3(ms, ns, p, j, left, right) /\ Joins(ms[left].vals, ns[left].vals, ns[right].vals)
     /\ (\A q \in DOMAIN ms : ms[q].next = ns[q].next))
      => Ends(ms, fl, WithFirst(ll, left, ll[right]), 0, 0)
  <1> SUFFICES ASSUME NEW ns, NEW ms, NEW fl, NEW ll, NEW z, NEW p, NEW j, NEW left, NEW right,
                      Store(ns), Kids(ns), Ends(ns, fl, ll, 0, z),
                      Adjacent(ns, p, j, left, right), ~ns[left].leaf, ~ns[right].leaf,
                      Kept3(ms, ns, p, j, left, right), Joins(ms[left].vals, ns[left].vals, ns[right].vals),
                      \A q \in DOMAIN ms : ms[q].next = ns[q].next
               PROVE  Ends(ms, fl, WithFirst(ll, left, ll[right]), 0, 0)
    OBVIOUS
  <1>0. /\ p \in Nds(ns) /\ ~ns[p].leaf /\ j \in 1..(Len(ns[p].vals) - 1)
        /\ ns[p].vals[j] = left /\ ns[p].vals[j + 1] = right
    BY DEF Adjacent
  <1>1. PICK kl : kl = WithFirst(ll, left, ll[right])
    OBVIOUS
  <1>2. Nds(ms) = Nds(ns) \ {right} /\ 0 \notin Nds(ns) /\ Nds(ns) \subseteq Pages /\ Nds(ns) \subseteq DOMAIN ns
    BY NdsIs, PagesIs DEF Nds, Kept3
  <1>3. PICK list, n : list = ns[p].vals /\ n = Len(list)
    OBVIOUS
  <1>4. /\ n \in Nat /\ j \in 1..n /\ j + 1 \in 1..n /\ j \in 1..(n - 1) /\ Distinct(list)
        /\ \A i \in 1..n : list[i] \in Nds(ns) /\ list[i] # p /\ ns[list[i]].parent = p
    BY <1>0, <1>3 DEF Kids
  <1>5. /\ left \in Nds(ns) /\ right \in Nds(ns) /\ left # right /\ p # left /\ p # right
        /\ ns[left].parent = p /\ ns[right].parent = p
    BY <1>0, <1>3, <1>4 DEF Distinct
  <1>6. kl[left] = ll[right] /\ \A q \in Nds(ns) : q # left => kl[q] = ll[q]
    BY <1>1, <1>2, <1>5 DEF WithFirst
  <1>7. \A q \in Nds(ns) : /\ LeafOf(ns, fl[q]) /\ LeafOf(ns, ll[q])
                           /\ (ns[q].leaf => fl[q] = q /\ ll[q] = q)
                           /\ (~ns[q].leaf => Spans(ns, fl, ll, ns[q].vals, fl[q], ll[q]))
    BY <1>2 DEF Ends, Own
  <1>8. \A q : LeafOf(ns, q) => LeafOf(ms, q) /\ ms[q].next = ns[q].next
    <2> SUFFICES ASSUME NEW q, LeafOf(ns, q) PROVE LeafOf(ms, q) /\ ms[q].next = ns[q].next
      OBVIOUS
    <2>1. q \in Nds(ns) /\ ns[q].leaf /\ q # right /\ q \in DOMAIN ms
      BY <1>2 DEF LeafOf, Kept3
    <2> QED BY <1>2, <2>1 DEF LeafOf, Kept3
  <1>9. \A q \in Nds(ns) : LeafOf(ns, kl[q])
    BY <1>5, <1>6, <1>7
  <1>10. ASSUME NEW q \in Nds(ms) PROVE q \in Nds(ns) /\ q # right /\ q \in DOMAIN ms /\ (ms[q].leaf <=> ns[q].leaf)
    BY <1>2 DEF Kept3
  <1>11. ASSUME NEW q \in Nds(ms), ms[q].leaf PROVE fl[q] = q /\ kl[q] = q
    BY <1>6, <1>7, <1>10, <1>11
  <1>12. ASSUME NEW u, NEW f, NEW l, Spans(ns, fl, ll, u, f, l), Len(u) \in Nat, Len(u) > 0,
                \A i \in 1..Len(u) : u[i] \in Nds(ns) /\ ns[u[i]].parent # p
         PROVE  Spans(ms, fl, kl, u, f, l)
    <2>1. \A i \in 1..Len(u) : u[i] \in Nds(ns) /\ u[i] # left
      BY <1>5, <1>12
    <2>2. \A i \in 1..Len(u) : /\ fl[u[i]] = fl[u[i]] /\ kl[u[i]] = ll[u[i]]
                               /\ ms[ll[u[i]]].next = ns[ll[u[i]]].next
      BY <1>6, <1>7, <1>8, <2>1
    <2> QED BY <1>12, <2>2, SpansApart
  <1>13. ASSUME NEW q \in Nds(ms), ~ms[q].leaf PROVE Spans(ms, fl, kl, ms[q].vals, fl[q], kl[q])
    <2>0. q \in Nds(ns) /\ ~ns[q].leaf /\ q # right /\ q \in DOMAIN ms
      BY <1>10, <1>13
    <2>1. CASE q = left
      <3>1. PICK s, t, u : s = ns[left].vals /\ t = ns[right].vals /\ u = ms[left].vals
        OBVIOUS
      <3>2. /\ Len(s) \in Nat /\ Len(s) > 0 /\ Len(t) \in Nat /\ Len(t) > 0
            /\ \A i \in 1..Len(s) : s[i] \in Nds(ns) /\ ns[s[i]].parent = left
            /\ \A i \in 1..Len(t) : t[i] \in Nds(ns) /\ ns[t[i]].parent = right
        BY <1>5, <3>1 DEF Kids
      <3>3. Spans(ns, fl, ll, s, fl[left], ll[left]) /\ Spans(ns, fl, ll, t, fl[right], ll[right])
        BY <1>5, <1>7, <3>1
      <3>4. Before(ns, ll[left], fl[right])
        <4>1. Spans(ns, fl, ll, list, fl[p], ll[p])
          BY <1>0, <1>3, <1>7
        <4> QED BY <1>0, <1>3, <1>4, <4>1 DEF Spans, Before
      <3>5. Joins(u, s, t)
        BY <3>1
      <3>6. Spans(ns, fl, ll, u, fl[left], ll[right])
        BY <3>2, <3>3, <3>4, <3>5, SpansJoin
      <3>7. Len(u) = Len(s) + Len(t) /\ (\A i \in 1..Len(s) : u[i] = s[i]) /\ \A i \in 1..Len(t) : u[Len(s) + i] = t[i]
        BY <3>5 DEF Joins
      <3>8. ASSUME NEW i \in 1..Len(u) PROVE u[i] \in Nds(ns) /\ ns[u[i]].parent # p
        <4>1. CASE i <= Len(s)
          <5>1. i \in 1..Len(s)
            BY <3>2, <3>7, <4>1
          <5> QED BY <1>5, <3>2, <3>7, <5>1
        <4>2. CASE i > Len(s)
          <5>1. PICK e : e = i - Len(s)
            OBVIOUS
          <5>2. e \in 1..Len(t) /\ i = Len(s) + e
            BY <3>2, <3>7, <4>2, <5>1
          <5>3. u[i] = t[e]
            BY <3>7, <5>2
          <5> QED BY <1>5, <3>2, <5>2, <5>3
        <4> QED BY <3>2, <3>7, <4>1, <4>2
      <3>9. Len(u) \in Nat /\ Len(u) > 0
        BY <3>2, <3>7
      <3>10. Spans(ms, fl, kl, u, fl[left], ll[right])
        BY <1>12, <3>6, <3>8, <3>9
      <3> QED BY <1>6, <2>1, <3>1, <3>10
    <2>2. CASE q = p
      <3>1. Spans(ns, fl, ll, list, fl[p], ll[p])
        BY <1>0, <1>3, <1>7
      <3>2. \A i \in 1..n : i # j => kl[list[i]] = ll[list[i]]
        BY <1>0, <1>3, <1>4, <1>6 DEF Distinct
      <3>3. kl[list[j]] = ll[list[j + 1]] /\ kl[p] = ll[p]
        BY <1>0, <1>3, <1>5, <1>6
      <3>4. \A i \in 1..n : ms[ll[list[i]]].next = ns[ll[list[i]]].next
        BY <1>4, <1>7, <1>8
      <3>5. Drops(ns, ms, ll, kl, list, j)
        <4> SUFFICES ASSUME NEW i \in 1..(n - 1)
                     PROVE  /\ (i # j /\ i # j + 1 => ms[kl[list[i]]].next = ns[ll[list[i]]].next)
                            /\ (i = j + 1 => ms[kl[list[j]]].next = ns[ll[list[i]]].next)
          BY <1>3 DEF Drops
        <4>1. i \in 1..n
          BY <1>4
        <4> QED BY <3>2, <3>3, <3>4, <4>1
      <3>6. Less1(ms[p].vals, list, j)
        BY <1>3 DEF Kept3
      <3>7. PICK k : k = IF j = Len(list) - 1 THEN kl[list[j]] ELSE kl[list[Len(list)]]
        OBVIOUS
      <3>8. Spans(ms, fl, kl, ms[p].vals, fl[p], k)
        BY <1>3, <1>4, <3>1, <3>5, <3>6, <3>7, SpansDrop
      <3>9. k = ll[p]
        <4>1. ll[p] = ll[list[n]]
          BY <1>3, <3>1 DEF Spans
        <4>2. CASE j = n - 1
          <5>1. j + 1 = n
            BY <1>4, <4>2
          <5> QED BY <1>3, <3>3, <3>7, <4>1, <4>2, <5>1
        <4>3. CASE j # n - 1
          <5>1. n \in 1..n /\ n # j
            BY <1>4, <4>3
          <5> QED BY <1>3, <3>2, <3>7, <4>1, <4>3, <5>1
        <4> QED BY <4>2, <4>3
      <3> QED BY <2>2, <3>3, <3>8, <3>9
    <2>3. CASE q # left /\ q # p
      <3>1. ms[q].vals = ns[q].vals
        BY <2>0, <2>3 DEF Kept3
      <3>2. PICK u : u = ns[q].vals
        OBVIOUS
      <3>3. /\ Len(u) \in Nat /\ Len(u) > 0
            /\ \A i \in 1..Len(u) : u[i] \in Nds(ns) /\ ns[u[i]].parent # p
        BY <2>0, <2>3, <3>2 DEF Kids
      <3>4. Spans(ns, fl, ll, u, fl[q], kl[q])
        BY <1>6, <1>7, <2>0, <2>3, <3>2
      <3>5. Spans(ms, fl, kl, u, fl[q], kl[q])
        BY <1>12, <3>3, <3>4
      <3> QED BY <3>1, <3>2, <3>5
    <2> QED BY <2>1, <2>2, <2>3
  <1>14. \A q \in Nds(ms) : Own(kl, q, 0, 0) = kl[q]
    BY <1>2 DEF Own
  <1>15. \A q \in Nds(ms) : LeafOf(ms, fl[q]) /\ LeafOf(ms, kl[q])
    BY <1>7, <1>8, <1>9, <1>10
  <1>16. Ends(ms, fl, kl, 0, 0)
    BY <1>11, <1>13, <1>14, <1>15 DEF Ends
  <1> QED BY <1>1, <1>16

\* The leaf right, which comes after left, taken out of the leaf list.
TakenOut(ms, ns, left, right) ==
  \A q \in DOMAIN ms : /\ ms[q].next = (IF q = left THEN ns[right].next ELSE ns[q].next)
                       /\ ms[q].prev = (IF q = ns[right].next THEN left ELSE ns[q].prev)

\* The leaf list without right is linked both ways.
LEMMA LeafMergeRing ==
  \A ns, ms, left, right :
    (/\ Ring(ns) /\ DOMAIN ms = DOMAIN ns \ {right} /\ left \in DOMAIN ns /\ right \in DOMAIN ns /\ left # right
     /\ ns[left].leaf /\ ns[right].leaf /\ Before(ns, left, right)
     /\ (\A q \in DOMAIN ms : ms[q].leaf <=> ns[q].leaf) /\ TakenOut(ms, ns, left, right))
      => Ring(ms)
  <1> SUFFICES ASSUME NEW ns, NEW ms, NEW left, NEW right,
                      Ring(ns), DOMAIN ms = DOMAIN ns \ {right}, left \in DOMAIN ns, right \in DOMAIN ns,
                      left # right, ns[left].leaf, ns[right].leaf, Before(ns, left, right),
                      \A q \in DOMAIN ms : ms[q].leaf <=> ns[q].leaf, TakenOut(ms, ns, left, right),
                      NEW q \in DOMAIN ms, ms[q].leaf
               PROVE  /\ ms[q].next \in DOMAIN ms /\ ms[ms[q].next].leaf
                      /\ ms[ms[q].next].prev = q
    BY DEF Ring
  <1>1. PICK c : c = ns[right].next
    OBVIOUS
  <1>2. ns[left].next = right /\ ns[right].prev = left
    BY DEF Ring, Before
  <1>3. c \in DOMAIN ns /\ ns[c].leaf /\ ns[c].prev = right /\ c # right
    BY <1>1, <1>2 DEF Ring
  <1>4. \A e \in DOMAIN ms : /\ ms[e].next = (IF e = left THEN c ELSE ns[e].next)
                             /\ ms[e].prev = (IF e = c THEN left ELSE ns[e].prev)
    BY <1>1 DEF TakenOut
  <1>5. CASE q = left
    BY <1>3, <1>4, <1>5
  <1>6. CASE q # left
    <2>1. PICK d : d = ns[q].next
      OBVIOUS
    <2>2. d \in DOMAIN ns /\ ns[d].leaf /\ ns[d].prev = q /\ ms[q].next = d
      BY <1>4, <1>6, <2>1 DEF Ring
    <2>3. d # right /\ d # c
      BY <1>2, <1>3, <1>6, <2>2
    <2> QED BY <1>4, <2>2, <2>3
  <1> QED BY <1>5, <1>6

\* The last leaves, when right is gone and left comes in its place.
LastLeft(ll, left, right) == [q \in Pages |-> IF ll[q] = right THEN left ELSE ll[q]]

\* First and last leaves after a leaf is merged into its left sibling.
LEMMA LeafMergeEnds ==
  \A ns, ms, T, h, fl, ll, z, p, j, left, right :
    (/\ Store(ns) /\ Tree(ns, T, h) /\ Kids(ns) /\ Ends(ns, fl, ll, 0, z)
     /\ Adjacent(ns, p, j, left, right) /\ ns[left].leaf /\ ns[right].leaf
     /\ Kept3(ms, ns, p, j, left, right) /\ TakenOut(ms, ns, left, right))
      => Before(ns, left, right) /\ Ends(ms, fl, LastLeft(ll, left, right), 0, 0)
  <1> SUFFICES ASSUME NEW ns, NEW ms, NEW T, NEW h, NEW fl, NEW ll, NEW z, NEW p, NEW j, NEW left, NEW right,
                      Store(ns), Tree(ns, T, h), Kids(ns), Ends(ns, fl, ll, 0, z),
                      Adjacent(ns, p, j, left, right), ns[left].leaf, ns[right].leaf,
                      Kept3(ms, ns, p, j, left, right), TakenOut(ms, ns, left, right)
               PROVE  Before(ns, left, right) /\ Ends(ms, fl, LastLeft(ll, left, right), 0, 0)
    OBVIOUS
  <1>0. /\ p \in Nds(ns) /\ ~ns[p].leaf /\ j \in 1..(Len(ns[p].vals) - 1)
        /\ ns[p].vals[j] = left /\ ns[p].vals[j + 1] = right
    BY DEF Adjacent
  <1>1. PICK kl : kl = LastLeft(ll, left, right)
    OBVIOUS
  <1>2. Nds(ms) = Nds(ns) \ {right} /\ 0 \notin Nds(ns) /\ Nds(ns) \subseteq Pages /\ Nds(ns) \subseteq DOMAIN ns
    BY NdsIs, PagesIs DEF Nds, Kept3
  <1>3. PICK list, n : list = ns[p].vals /\ n = Len(list)
    OBVIOUS
  <1>4. /\ n \in Nat /\ j \in 1..n /\ j + 1 \in 1..n /\ j \in 1..(n - 1) /\ Distinct(list) /\ 1 \in 1..n /\ j + 1 # 1
        /\ \A i \in 1..n : list[i] \in Nds(ns) /\ list[i] # p /\ ns[list[i]].parent = p
    BY <1>0, <1>3 DEF Kids
  <1>5. /\ left \in Nds(ns) /\ right \in Nds(ns) /\ left # right /\ p # left /\ p # right
        /\ ns[left].parent = p /\ ns[right].parent = p /\ list[1] # right
    BY <1>0, <1>3, <1>4 DEF Distinct
  <1>6. \A q \in Nds(ns) : kl[q] = IF ll[q] = right THEN left ELSE ll[q]
    BY <1>1, <1>2 DEF LastLeft
  <1>7. \A q \in Nds(ns) : /\ LeafOf(ns, fl[q]) /\ LeafOf(ns, ll[q])
                           /\ (ns[q].leaf => fl[q] = q /\ ll[q] = q)
                           /\ (~ns[q].leaf => Spans(ns, fl, ll, ns[q].vals, fl[q], ll[q]))
    BY <1>2 DEF Ends, Own
  <1>8. Spans(ns, fl, ll, list, fl[p], ll[p])
    BY <1>0, <1>3, <1>7
  <1>9. ns[left].next = right
    BY <1>0, <1>3, <1>4, <1>5, <1>7, <1>8 DEF Spans
  <1>10. ASSUME NEW q \in Nds(ns), q # right PROVE fl[q] # right
    <2>1. CASE ns[q].leaf
      BY <1>7, <1>10, <2>1
    <2>2. CASE ~ns[q].leaf
      <3>1. fl[q] = ns[ns[fl[q]].parent].vals[1]
        BY <2>2, FirstIsFirst
      <3> QED BY <1>3, <1>5, <3>1
    <2> QED BY <2>1, <2>2
  <1>11. \A q : LeafOf(ns, q) /\ q # right => LeafOf(ms, q)
    BY <1>2 DEF LeafOf, Kept3
  <1>12. ASSUME NEW e, LeafOf(ns, e) PROVE e # left /\ e # right => ms[e].next = ns[e].next
    <2> SUFFICES ASSUME e # left, e # right PROVE ms[e].next = ns[e].next
      OBVIOUS
    <2>1. e \in DOMAIN ns
      BY <1>2, <1>12 DEF LeafOf
    <2>2. e \in DOMAIN ms
      BY <2>1 DEF Kept3
    <2> QED BY <2>2 DEF TakenOut
  <1>13. ms[left].next = ns[right].next
    BY <1>2, <1>5 DEF TakenOut, Kept3
  <1>14. ASSUME NEW q \in Nds(ms) PROVE q \in Nds(ns) /\ q # right /\ q \in DOMAIN ms /\ (ms[q].leaf <=> ns[q].leaf)
    BY <1>2 DEF Kept3
  <1>15. \A q \in Nds(ms) : LeafOf(ms, fl[q]) /\ LeafOf(ms, kl[q])
    <2>1. LeafOf(ns, left)
      BY <1>5 DEF LeafOf
    <2> QED BY <1>5, <1>6, <1>7, <1>10, <1>11, <1>14, <2>1
  <1>16. ASSUME NEW q \in Nds(ms), ms[q].leaf PROVE fl[q] = q /\ kl[q] = q
    BY <1>6, <1>7, <1>14, <1>16
  <1>17. ASSUME NEW q \in Nds(ns), NEW d \in Nds(ns), d # right, ns[ll[q]].next = fl[d]
         PROVE  ms[kl[q]].next = ns[ll[q]].next
    <2>1. LeafOf(ns, ll[q]) /\ fl[d] # right
      BY <1>7, <1>10, <1>17
    <2>2. ll[q] # left
      BY <1>9, <1>17, <2>1
    <2> QED BY <1>6, <1>12, <1>13, <2>1, <2>2
  <1>18. ASSUME NEW q \in Nds(ms), ~ms[q].leaf PROVE Spans(ms, fl, kl, ms[q].vals, fl[q], kl[q])
    <2>0. q \in Nds(ns) /\ ~ns[q].leaf /\ q # right /\ q # left /\ q \in DOMAIN ms
      BY <1>14, <1>18
    <2>1. CASE q = p
      <3>1. \A i \in 1..n : i # j + 1 => list[i] # right
        BY <1>0, <1>3, <1>4 DEF Distinct
      <3>2. ll[left] = left /\ ll[right] = right /\ kl[left] = left /\ list[j] = left /\ list[j + 1] = right
        BY <1>0, <1>3, <1>5, <1>6, <1>7
      <3>3. Drops(ns, ms, ll, kl, list, j)
        <4> SUFFICES ASSUME NEW i \in 1..(n - 1)
                     PROVE  /\ (i # j /\ i # j + 1 => ms[kl[list[i]]].next = ns[ll[list[i]]].next)
                            /\ (i = j + 1 => ms[kl[list[j]]].next = ns[ll[list[i]]].next)
          BY <1>3 DEF Drops
        <4>1. i \in 1..n /\ i + 1 \in 1..n /\ (i # j => i + 1 # j + 1)
          BY <1>4
        <4>2. ns[ll[list[i]]].next = fl[list[i + 1]]
          BY <1>3, <1>8 DEF Spans
        <4>3. list[i] \in Nds(ns) /\ list[i + 1] \in Nds(ns)
          BY <1>4, <4>1
        <4>4. i # j => ms[kl[list[i]]].next = ns[ll[list[i]]].next
          BY <1>17, <3>1, <4>1, <4>2, <4>3
        <4>5. i = j + 1 => ms[kl[list[j]]].next = ns[ll[list[i]]].next
          BY <1>13, <3>2
        <4> QED BY <4>4, <4>5
      <3>4. Less1(ms[p].vals, list, j)
        BY <1>3 DEF Kept3
      <3>5. PICK k : k = IF j = Len(list) - 1 THEN kl[list[j]] ELSE kl[list[Len(list)]]
        OBVIOUS
      <3>6. Spans(ms, fl, kl, ms[p].vals, fl[p], k)
        BY <1>3, <1>4, <1>8, <3>3, <3>4, <3>5, SpansDrop
      <3>7. k = kl[p]
        <4>1. ll[p] = ll[list[n]]
          BY <1>3, <1>8 DEF Spans
        <4>2. CASE j = n - 1
          <5>1. j + 1 = n
            BY <1>4, <4>2
          <5> QED BY <1>0, <1>3, <1>6, <3>2, <3>5, <4>1, <4>2, <5>1
        <4>3. CASE j # n - 1
          <5>1. n \in 1..n /\ list[n] \in Nds(ns)
            BY <1>4
          <5> QED BY <1>0, <1>3, <1>6, <3>5, <4>1, <4>3, <5>1
        <4> QED BY <4>2, <4>3
      <3> QED BY <2>1, <3>6, <3>7
    <2>2. CASE q # p
      <3>1. ms[q].vals = ns[q].vals
        BY <2>0, <2>2 DEF Kept3
      <3>2. PICK u : u = ns[q].vals
        OBVIOUS
      <3>3. /\ Len(u) \in Nat /\ Len(u) > 0
            /\ \A i \in 1..Len(u) : u[i] \in Nds(ns) /\ u[i] # right
        BY <1>5, <2>0, <2>2, <3>2 DEF Kids
      <3>4. Spans(ns, fl, ll, u, fl[q], ll[q])
        BY <1>7, <2>0, <3>2
      <3>5. Carries(ns, ms, fl, fl, ll, kl, u)
        <4> SUFFICES ASSUME NEW i \in 1..(Len(u) - 1) PROVE ms[kl[u[i]]].next = ns[ll[u[i]]].next
          BY DEF Carries
        <4>1. i \in 1..Len(u) /\ i + 1 \in 1..Len(u)
          BY <3>3
        <4>2. ns[ll[u[i]]].next = fl[u[i + 1]]
          BY <3>4 DEF Spans
        <4> QED BY <1>17, <3>3, <4>1, <4>2
      <3>6. kl[q] = kl[u[Len(u)]]
        <4>1. ll[q] = ll[u[Len(u)]] /\ Len(u) \in 1..Len(u)
          BY <3>3, <3>4 DEF Spans
        <4> QED BY <1>6, <2>0, <3>3, <4>1
      <3>7. Spans(ms, fl, kl, u, fl[q], kl[q])
        BY <3>3, <3>4, <3>5, <3>6, SpansAs
      <3> QED BY <3>1, <3>2, <3>7
    <2> QED BY <2>1, <2>2
  <1>19. \A q \in Nds(ms) : Own(kl, q, 0, 0) = kl[q]
    BY <1>2 DEF Own
  <1>20. Ends(ms, fl, kl, 0, 0)
    BY <1>15, <1>16, <1>18, <1>19 DEF Ends
  <1> QED BY <1>1, <1>9, <1>20 DEF Before

\* Coalesce keeps the leaf list, last_leaf included.
LEMMA CoalesceLeaves ==
  ASSUME NEW h, TreeInv(h), HdrType, NEW fl \in [Pages -> Pages], NEW ll \in [Pages -> Pages],
         NEW m \in Nat, LeafInv(fl, ll, m), Coalesce
  PROVE  \E gl, kl \in [Pages -> Pages], k \in Nat : LeafInv(gl, kl, k)'
  <1>1. PICK x : x = op.page
    OBVIOUS
  <1>2. PICK p : p = Parent
    OBVIOUS
  <1>3. PICK idx : idx = Index
    OBVIOUS
  <1>4. PICK y : y = Neighbor
    OBVIOUS
  <1>5. PICK left : left = IF idx = 0 THEN x ELSE y
    OBVIOUS
  <1>6. PICK right : right = IF idx = 0 THEN y ELSE x
    OBVIOUS
  <1>7. PICK nl : nl = insert_pairs(node[left], Size(node[left]), node[right].keys, node[right].vals)
    OBVIOUS
  <1>8. PICK np : np = erase_pair(node[p], find_child(node[p], right))
    OBVIOUS
  <1>9. Coalesces(node', node, h, left, right, p, nl, np) /\ x # hdr.root /\ y # hdr.root
    BY <1>1, <1>2, <1>3, <1>4, <1>5, <1>6, <1>7, <1>8, CoalesceNodes
  <1>10. /\ Underflows /\ op' = Op("fix", p, <<>>) /\ hdr'.root = hdr.root
         /\ hdr'.last_leaf = IF node[right].leaf /\ right = hdr.last_leaf THEN left ELSE hdr.last_leaf
    <2>1. left = (IF Index = 0 THEN op.page ELSE Neighbor) /\ right = IF Index = 0 THEN Neighbor ELSE op.page
      BY <1>1, <1>3, <1>4, <1>5, <1>6
    <2>2. /\ Underflows /\ op' = Op("fix", p, <<>>)
          /\ hdr' = [hdr EXCEPT !.num_pages = @ - 1,
                                !.last_leaf = IF node[right].leaf /\ right = @ THEN left ELSE @]
      BY <1>2, <2>1 DEF Coalesce
    <2> QED BY <2>2 DEF HdrType
  <1>11. /\ op.pc = "fix" /\ Tree(node, {hdr.root}, h) /\ Store(node) /\ hdr.root \in Nds(node)
    BY <1>1, <1>10, FixIs
  <1>12. /\ left \in Nds(node) /\ right \in Nds(node) /\ p \in Nds(node) /\ left # right /\ p # left /\ p # right
         /\ (node[left].leaf <=> node[right].leaf) /\ ~node[p].leaf
         /\ IsInsert(nl, node[left], Size(node[left]), node[right].keys, node[right].vals)
         /\ DOMAIN node' = DOMAIN node \ {right}
    BY <1>9 DEF Coalesces
  <1>13. PICK i \in 1..Size(node[p]) :
            i > 1 /\ node[p].vals[i] = right /\ node[p].vals[i - 1] = left /\ IsErase(np, node[p], i - 1)
    BY <1>9 DEF Coalesces
  <1>14. \A q \in DOMAIN node' : CoalescedAs(node'[q], node[q], q, left, nl, p, np, node[right])
    BY <1>9 DEF Coalesces
  <1>15. left # hdr.root /\ right # hdr.root
    BY <1>5, <1>6, <1>9
  <1>16. /\ Kids(node) /\ Nds(node) \subseteq Pages /\ Nds(node) \subseteq DOMAIN node
         /\ NodeOK(node[left]) /\ NodeOK(node[right]) /\ NodeOK(node[p])
    BY <1>11, <1>12, KidsIs, NdsIs
  <1>17. /\ Len(node[p].vals) = Size(node[p]) /\ Size(node[p]) \in Nat /\ node[p].vals \in Seq(Pages)
         /\ Len(node[left].vals) = Size(node[left])
         /\ node[left].vals \in Seq(Slots) /\ node[right].vals \in Seq(Slots)
    BY <1>12, <1>16, NodeIs
  <1>18. PICK j : j = i - 1
    OBVIOUS
  <1>19. j \in 1..(Size(node[p]) - 1) /\ j + 1 = i /\ j \in 0..(Size(node[p]) - 1)
    BY <1>13, <1>17, <1>18
  <1>20. Adjacent(node, p, j, left, right)
    BY <1>12, <1>13, <1>17, <1>18, <1>19 DEF Adjacent
  <1>21. left \in DOMAIN node' /\ p \in DOMAIN node'
    BY <1>12, <1>16
  <1>22. ASSUME NEW q \in DOMAIN node'
         PROVE  /\ (node'[q].leaf <=> node[q].leaf)
                /\ (q = left => node'[q].vals = nl.vals) /\ (q = p => node'[q].vals = np.vals)
                /\ (q # left /\ q # p => node'[q].vals = node[q].vals)
                /\ node'[q].next = (IF node[right].leaf /\ q = node[right].prev THEN node[right].next ELSE node[q].next)
                /\ node'[q].prev = (IF node[right].leaf /\ q = node[right].next THEN node[right].prev ELSE node[q].prev)
    <2>1. CoalescedAs(node'[q], node[q], q, left, nl, p, np, node[right])
      BY <1>14
    <2>2. (q = left => SamePairs(node'[q], nl)) /\ (q = p => SamePairs(node'[q], np))
          /\ (q # left /\ q # p => SamePairs(node'[q], node[q]))
      BY <1>12, <2>1 DEF CoalescedAs
    <2>3. (nl.leaf <=> node[left].leaf) /\ (np.leaf <=> node[p].leaf)
      BY <1>12, <1>13 DEF IsInsert, IsErase, SameLinks
    <2>4. /\ node'[q].next = (IF node[right].leaf /\ q = node[right].prev THEN node[right].next ELSE node[q].next)
          /\ node'[q].prev = (IF node[right].leaf /\ q = node[right].next THEN node[right].prev ELSE node[q].prev)
      BY <2>1 DEF CoalescedAs
    <2> QED BY <2>2, <2>3, <2>4 DEF SamePairs
  <1>23. Kept3(node', node, p, j, left, right)
    <2>1. node'[p].vals = Without(node[p].vals, j)
      BY <1>13, <1>18, <1>21, <1>22 DEF IsErase
    <2>2. Less1(node'[p].vals, node[p].vals, j)
      BY <1>17, <1>19, <2>1, Less1Is
    <2> QED BY <1>12, <1>22, <2>2 DEF Kept3
  <1>24. Joins(node'[left].vals, node[left].vals, node[right].vals)
    <2>1. node'[left].vals = Splice(node[left].vals, Len(node[left].vals), node[right].vals)
      BY <1>12, <1>17, <1>21, <1>22 DEF IsInsert
    <2> QED BY <1>17, <2>1, JoinsIs
  <1>25. op'.pc = "fix"
    BY <1>10 DEF Op
  <1>26. /\ Ring(node) /\ Ends(node, fl, ll, 0, m)
         /\ Whole(node, fl[hdr.root], ll[hdr.root]) /\ ll[hdr.root] = hdr.last_leaf
    BY <1>11 DEF LeafInv, Old, LastLeafNow
  <1>27. LastLeafNow' = hdr'.last_leaf
    BY <1>25 DEF LastLeafNow
  <1>28. LeafOf(node, ll[hdr.root]) /\ ll[hdr.root] \in Nds(node) /\ node[ll[hdr.root]].leaf
    BY <1>11, <1>26 DEF Ends, LeafOf
  <1>29. IX_LEAF_HEADER_PAGE \in DOMAIN node' /\ left # IX_LEAF_HEADER_PAGE /\ right # IX_LEAF_HEADER_PAGE
    BY <1>11, <1>12 DEF Store, Nds
  <1>30. hdr.root \in Pages /\ left \in Pages /\ right \in Pages
    BY <1>11, <1>12, <1>16
  <1>31. CASE node[right].leaf
    <2>1. node[left].leaf /\ Before(node, left, right) /\ node[right].prev = left
      <3>1. Spans(node, fl, ll, node[p].vals, fl[p], ll[p])
        <4>1. p # 0
          BY <1>12, <1>16, PagesIs
        <4> QED BY <1>12, <1>26, <4>1 DEF Ends, Own
      <3>2. node[ll[left]].next = fl[right]
        BY <1>20, <3>1 DEF Spans, Adjacent
      <3>3. left # 0 /\ right # 0
        BY <1>12, <1>16, PagesIs
      <3>4. ll[left] = left /\ fl[right] = right
        BY <1>12, <1>26, <1>31, <3>3 DEF Ends, Own
      <3>5. node[left].next = right
        BY <3>2, <3>4
      <3> QED BY <1>12, <1>16, <1>26, <1>31, <3>5 DEF Ring, Before
    <2>2. TakenOut(node', node, left, right)
      BY <1>22, <1>31, <2>1 DEF TakenOut
    <2>3. PICK kl : kl = LastLeft(ll, left, right)
      OBVIOUS
    <2>4. Ends(node', fl, kl, 0, 0)
      BY <1>11, <1>16, <1>20, <1>23, <1>26, <1>31, <2>1, <2>2, <2>3, LeafMergeEnds
    <2>5. Ring(node')
      <3>1. \A q \in DOMAIN node' : node'[q].leaf <=> node[q].leaf
        BY <1>22
      <3> QED BY <1>12, <1>16, <1>26, <1>31, <2>1, <2>2, <3>1, LeafMergeRing
    <2>6. kl \in [Pages -> Pages] /\ kl[hdr.root] = IF ll[hdr.root] = right THEN left ELSE ll[hdr.root]
      BY <1>30, <2>3 DEF LastLeft
    <2>7. kl[hdr.root] = hdr'.last_leaf
      BY <1>10, <1>26, <1>31, <2>6
    <2>8. node'[IX_LEAF_HEADER_PAGE].next = node[IX_LEAF_HEADER_PAGE].next
      BY <1>22, <1>29, <2>1
    <2>9. node'[kl[hdr.root]].next = node[ll[hdr.root]].next
      <3>1. CASE ll[hdr.root] = right
        BY <1>21, <1>22, <1>31, <2>1, <2>6, <3>1
      <3>2. CASE ll[hdr.root] # right
        <4>1. ll[hdr.root] # left
          BY <1>26, <1>29, <2>1 DEF Whole, Before
        <4>2. ll[hdr.root] \in DOMAIN node'
          BY <1>12, <1>16, <1>28, <3>2
        <4> QED BY <1>22, <2>1, <2>6, <3>2, <4>1, <4>2
      <3> QED BY <3>1, <3>2
    <2>10. Whole(node', fl[hdr.root], kl[hdr.root])
      BY <1>26, <2>8, <2>9 DEF Whole
    <2>11. LeafInv(fl, kl, 0)'
      BY <1>10, <1>25, <1>27, <2>4, <2>5, <2>7, <2>10 DEF LeafInv, Old
    <2> QED BY <2>6, <2>11
  <1>32. CASE ~node[right].leaf
    <2>1. ~node[left].leaf
      BY <1>12, <1>32
    <2>2. \A q \in DOMAIN node' : node'[q].next = node[q].next /\ node'[q].prev = node[q].prev
      BY <1>22, <1>32
    <2>3. PICK kl : kl = WithFirst(ll, left, ll[right])
      OBVIOUS
    <2>4. Ends(node', fl, kl, 0, 0)
      <3>1. \A q \in DOMAIN node' : node'[q].next = node[q].next
        BY <2>2
      <3> QED BY <1>11, <1>16, <1>20, <1>23, <1>24, <1>26, <1>32, <2>1, <2>3, <3>1, InnerMergeEnds
    <2>5. Ring(node')
      <3> SUFFICES ASSUME NEW q \in DOMAIN node', node'[q].leaf
                   PROVE  /\ node'[q].next \in DOMAIN node' /\ node'[node'[q].next].leaf
                          /\ node'[node'[q].next].prev = q
        BY DEF Ring
      <3>1. PICK d : d = node[q].next
        OBVIOUS
      <3>2. q \in DOMAIN node /\ node[q].leaf /\ node'[q].next = d
        BY <1>12, <1>22, <2>2, <3>1
      <3>3. d \in DOMAIN node /\ node[d].leaf /\ node[d].prev = q
        BY <1>26, <3>1, <3>2 DEF Ring
      <3>4. d \in DOMAIN node'
        BY <1>12, <1>32, <3>3
      <3> QED BY <1>22, <2>2, <3>2, <3>3, <3>4
    <2>6. kl \in [Pages -> Pages] /\ kl[hdr.root] = ll[hdr.root]
      BY <1>15, <1>30, <2>3 DEF WithFirst
    <2>7. kl[hdr.root] = hdr'.last_leaf
      BY <1>10, <1>26, <1>32, <2>6
    <2>8. Whole(node', fl[hdr.root], kl[hdr.root])
      <3>1. ll[hdr.root] \in DOMAIN node'
        BY <1>12, <1>16, <1>28, <1>32
      <3> QED BY <1>26, <1>29, <2>2, <2>6, <3>1 DEF Whole
    <2>9. LeafInv(fl, kl, 0)'
      BY <1>10, <1>25, <1>27, <2>4, <2>5, <2>7, <2>8 DEF LeafInv, Old
    <2> QED BY <2>6, <2>9
  <1> QED BY <1>31, <1>32

-----------------------------------------------------------------------------
(* The leaf list between two calls.                                        *)

\* The first and the last leaf below a node, as LeavesListed finds them.
LEMMA FirstLeafIs ==
  ASSUME NEW h, TreeInv(h), op = Idle, NEW fl, NEW ll, NEW m, LeafInv(fl, ll, m)
  PROVE  \A p \in Nds(node) : FirstLeaf[p] = fl[p]
  <1> DEFINE Only(p) == ValueAt(node[p], 0)
             Eq(f) == f = [p \in Nds(node) |-> IF node[p].leaf THEN p ELSE f[Only(p)]]
  <1>1. Nodes = Nds(node)
    BY DEF Nodes, Nds
  <1>ends. Ends(node, fl, ll, 0, m)
    <2>1. op.pc # "parent"
      BY DEF Idle, Op
    <2> QED BY <2>1 DEF LeafInv, Old
  <1>2. ASSUME NEW p \in Nds(node), ~node[p].leaf
        PROVE  Only(p) \in Nds(node) /\ h[p] = 1 + h[Only(p)] /\ h[Only(p)] \in Nat /\ fl[p] = fl[Only(p)]
    <2>1. NodeOK(node[p]) /\ Size(node[p]) \in Nat /\ Size(node[p]) >= 2 /\ Len(node[p].vals) = Size(node[p])
      BY <1>2, NdsIs, NodeIs, QuietSizes DEF TreeInv
    <2>2. 0 \in 0..(Size(node[p]) - 1) /\ 1 \in 1..Len(node[p].vals)
      BY <2>1
    <2>3. Only(p) = node[p].vals[1]
      BY <2>1, <2>2, ValueAtIs
    <2> HIDE DEF Only
    <2>4. Only(p) \in Children(node[p])
      BY <1>2, <2>2, <2>3, ChildrenIs, ElemIs
    <2>5. fl[p] = fl[Only(p)]
      BY <1>2, <1>ends, <2>3 DEF Ends, Spans
    <2> QED BY <2>4, <2>5 DEF TreeInv, Tree, Down, Levels
  <1>leaf. \A p \in Nds(node) : node[p].leaf => fl[p] = p
    BY <1>ends DEF Ends
  <1>3. FirstLeaf = CHOOSE f : Eq(f)
    BY <1>1, Zenon DEF FirstLeaf
  <1> HIDE DEF Only
  <1>4. \E f : Eq(f)
    <2>1. PICK g : g = [p \in Nds(node) |-> fl[p]]
      OBVIOUS
    <2>2. \A p \in Nds(node) : fl[p] = IF node[p].leaf THEN p ELSE g[Only(p)]
      BY <1>2, <1>leaf, <2>1
    <2>3. Eq(g)
      BY <2>1, <2>2
    <2> QED BY <2>3
  <1>5. Eq(FirstLeaf)
    BY <1>3, <1>4
  <1>6. PICK f, N : f = FirstLeaf /\ N = Nds(node)
    OBVIOUS
  <1>7. \A p \in N : f[p] = IF node[p].leaf THEN p ELSE f[Only(p)]
    BY <1>5, <1>6
  <1>8. PICK P : P = {p \in N : f[p] = fl[p]}
    OBVIOUS
  <1>9. \A p \in N : h[p] \in Nat
    BY <1>6 DEF TreeInv, Tree, Levels
  <1>10. ASSUME NEW p \in N, \A q \in N : h[q] < h[p] => q \in P
         PROVE  p \in P
    <2>1. CASE node[p].leaf
      BY <1>6, <1>7, <1>8, <1>leaf, <2>1
    <2>2. CASE ~node[p].leaf
      <3>1. Only(p) \in N /\ h[p] = 1 + h[Only(p)] /\ h[Only(p)] \in Nat /\ fl[p] = fl[Only(p)]
        BY <1>2, <1>6, <2>2
      <3>2. f[Only(p)] = fl[Only(p)]
        BY <1>8, <1>9, <1>10, <3>1
      <3> QED BY <1>7, <1>8, <2>2, <3>1, <3>2
    <2> QED BY <2>1, <2>2
  <1>11. N \subseteq P
    BY <1>9, <1>10, RankInduction
  <1> QED BY <1>6, <1>8, <1>11

\* The last leaf below a node, as LeavesListed finds it.
LEMMA LastLeafIs ==
  ASSUME NEW h, TreeInv(h), op = Idle, NEW fl, NEW ll, NEW m, LeafInv(fl, ll, m)
  PROVE  \A p \in Nds(node) : LastLeaf[p] = ll[p]
  <1> DEFINE Only(p) == ValueAt(node[p], Size(node[p]) - 1)
             Eq(f) == f = [p \in Nds(node) |-> IF node[p].leaf THEN p ELSE f[Only(p)]]
  <1>1. Nodes = Nds(node) /\ 0 \notin Nds(node)
    BY NdsIs, PagesIs DEF Nodes, Nds, TreeInv
  <1>ends. Ends(node, fl, ll, 0, m)
    <2>1. op.pc # "parent"
      BY DEF Idle, Op
    <2> QED BY <2>1 DEF LeafInv, Old
  <1>2. ASSUME NEW p \in Nds(node), ~node[p].leaf
        PROVE  Only(p) \in Nds(node) /\ h[p] = 1 + h[Only(p)] /\ h[Only(p)] \in Nat /\ ll[p] = ll[Only(p)]
    <2>1. NodeOK(node[p]) /\ Size(node[p]) \in Nat /\ Size(node[p]) >= 2 /\ Len(node[p].vals) = Size(node[p])
      BY <1>2, NdsIs, NodeIs, QuietSizes DEF TreeInv
    <2>2. Size(node[p]) - 1 \in 0..(Size(node[p]) - 1) /\ Size(node[p]) \in 1..Len(node[p].vals)
          /\ Size(node[p]) - 1 + 1 = Size(node[p])
      BY <2>1
    <2>3. Only(p) = node[p].vals[Size(node[p])]
      BY <2>1, <2>2, ValueAtIs
    <2> HIDE DEF Only
    <2>4. Only(p) \in Children(node[p])
      BY <1>2, <2>2, <2>3, ChildrenIs, ElemIs
    <2>5. ll[p] = ll[Only(p)]
      BY <1>1, <1>2, <1>ends, <2>1, <2>3 DEF Ends, Spans, Own
    <2> QED BY <2>4, <2>5 DEF TreeInv, Tree, Down, Levels
  <1>leaf. \A p \in Nds(node) : node[p].leaf => ll[p] = p
    BY <1>1, <1>ends DEF Ends, Own
  <1>3. LastLeaf = CHOOSE f : Eq(f)
    BY <1>1, Zenon DEF LastLeaf
  <1> HIDE DEF Only
  <1>4. \E f : Eq(f)
    <2>1. PICK g : g = [p \in Nds(node) |-> ll[p]]
      OBVIOUS
    <2>2. \A p \in Nds(node) : ll[p] = IF node[p].leaf THEN p ELSE g[Only(p)]
      BY <1>2, <1>leaf, <2>1
    <2>3. Eq(g)
      BY <2>1, <2>2
    <2> QED BY <2>3
  <1>5. Eq(LastLeaf)
    BY <1>3, <1>4
  <1>6. PICK f, N : f = LastLeaf /\ N = Nds(node)
    OBVIOUS
  <1>7. \A p \in N : f[p] = IF node[p].leaf THEN p ELSE f[Only(p)]
    BY <1>5, <1>6
  <1>8. PICK P : P = {p \in N : f[p] = ll[p]}
    OBVIOUS
  <1>9. \A p \in N : h[p] \in Nat
    BY <1>6 DEF TreeInv, Tree, Levels
  <1>10. ASSUME NEW p \in N, \A q \in N : h[q] < h[p] => q \in P
         PROVE  p \in P
    <2>1. CASE node[p].leaf
      BY <1>6, <1>7, <1>8, <1>leaf, <2>1
    <2>2. CASE ~node[p].leaf
      <3>1. Only(p) \in N /\ h[p] = 1 + h[Only(p)] /\ h[Only(p)] \in Nat /\ ll[p] = ll[Only(p)]
        BY <1>2, <1>6, <2>2
      <3>2. f[Only(p)] = ll[Only(p)]
        BY <1>8, <1>9, <1>10, <3>1
      <3> QED BY <1>7, <1>8, <2>2, <3>1, <3>2
    <2> QED BY <2>1, <2>2
  <1>11. N \subseteq P
    BY <1>9, <1>10, RankInduction
  <1> QED BY <1>6, <1>8, <1>11

\* The leaf list that create_index writes.
LEMMA InitLeaves == Init => LInv
  <1> SUFFICES ASSUME Init PROVE LInv
    OBVIOUS
  <1>1. /\ hdr = [root |-> 2, num_pages |-> 3, last_leaf |-> 2] /\ op = Idle
    BY DEF Init, IX_INIT_ROOT_PAGE
  <1>2. DOMAIN node = {1, 2} /\ node[1] = NewNode(TRUE, IX_NO_PAGE, 2, 2) /\ node[2] = NewNode(TRUE, IX_NO_PAGE, 1, 1)
    BY DEF Init, IX_INIT_ROOT_PAGE, IX_LEAF_HEADER_PAGE
  <1>3. /\ node[1].leaf = TRUE /\ node[1].prev = 2 /\ node[1].next = 2
        /\ node[2].leaf = TRUE /\ node[2].prev = 1 /\ node[2].next = 1
    BY <1>2 DEF NewNode
  <1>4. node[1].leaf /\ node[2].leaf
    BY <1>3, Zenon
  <1>5. Nds(node) = {2} /\ 2 \in Pages
    BY <1>2, Sizes DEF Nds, IX_LEAF_HEADER_PAGE, Pages, IX_INIT_ROOT_PAGE
  <1>6. PICK fl : fl = [p \in Pages |-> p]
    OBVIOUS
  <1>7. fl \in [Pages -> Pages] /\ fl[2] = 2
    BY <1>5, <1>6
  <1>8. Ring(node)
    BY <1>2, <1>3, <1>4 DEF Ring
  <1>9. Ends(node, fl, fl, 0, 0)
    BY <1>4, <1>5, <1>7 DEF Ends, LeafOf, Own
  <1>10. op.pc = "idle"
    BY <1>1 DEF Idle, Op
  <1>11. LastLeafNow = 2
    BY <1>1, <1>10 DEF LastLeafNow
  <1>12. Whole(node, fl[hdr.root], fl[hdr.root])
    BY <1>1, <1>3, <1>7 DEF Whole, IX_INIT_ROOT_PAGE, IX_LEAF_HEADER_PAGE
  <1>13. LeafInv(fl, fl, 0)
    BY <1>1, <1>7, <1>8, <1>9, <1>10, <1>11, <1>12 DEF LeafInv, Old
  <1> QED BY <1>7, <1>13 DEF LInv

\* Every step of every call keeps the leaf list.
LEMMA NextLeaves == IInv /\ LInv /\ [Next]_vars => LInv'
  <1> SUFFICES ASSUME IInv, LInv, [Next]_vars PROVE LInv'
    OBVIOUS
  <1>1. CASE UNCHANGED <<hdr, node, pins, op>>
    <2>1. ASSUME NEW fl, NEW ll, NEW m, LeafInv(fl, ll, m) PROVE LeafInv(fl, ll, m)'
      <3>1. Old' = Old /\ LastLeafNow' = LastLeafNow /\ Frame' = Frame
        BY <1>1 DEF Old, LastLeafNow, Frame
      <3> QED BY <1>1, <2>1, <3>1 DEF LeafInv
    <2>2. hdr' = hdr
      BY <1>1
    <2> QED BY <2>1, <2>2 DEF LInv
  <1>2. CASE ~UNCHANGED <<hdr, node, pins, op>>
    <2>1. \/ \E key \in Keys : DeleteEntry(key) \/ \E val \in Vals : InsertEntry(key, val)
          \/ Split \/ NewRoot \/ InsertIntoParent \/ InsertReturns
          \/ BigEnough \/ AdjustRoot \/ Redistribute \/ MaintainParent \/ Coalesce
      BY <1>2 DEF Next, vars, SearchLost, RootMissing, Undefined
    <2>2. hdr.root # IX_NO_PAGE
      <3> SUFFICES ASSUME hdr.root = IX_NO_PAGE PROVE FALSE
        OBVIOUS
      <3>1. op.pc = "idle"
        BY DEF IInv, Idle, Op
      <3> QED BY <2>1, <3>1 DEF DeleteEntry, InsertEntry, Begins, Split, NewRoot, InsertIntoParent,
                                InsertReturns, BigEnough, AdjustRoot, Redistribute, MaintainParent,
                                Coalesce, Underflows
    <2>3. PICK h \in [Pages -> Nat] : TreeInv(h)
      BY <2>2 DEF IInv
    <2>4. HdrType
      BY DEF IInv
    <2>5. PICK fl \in [Pages -> Pages], ll \in [Pages -> Pages], m \in Nat : LeafInv(fl, ll, m)
      BY <2>2 DEF LInv
    <2>6. (\E gl, kl \in [Pages -> Pages], k \in Nat : LeafInv(gl, kl, k)') => LInv'
      BY DEF LInv
    <2>7. LeafInv(fl, ll, m)' => LInv'
      BY <2>6
    <2>8. ASSUME NEW key \in Keys, DeleteEntry(key) PROVE LInv'
      BY <2>3, <2>5, <2>7, <2>8, DeleteEntryLeaves
    <2>9. ASSUME NEW key \in Keys, NEW val \in Vals, InsertEntry(key, val) PROVE LInv'
      BY <2>3, <2>5, <2>7, <2>9, InsertEntryLeaves
    <2>10. CASE Split
      BY <2>3, <2>4, <2>5, <2>6, <2>10, SplitLeaves
    <2>11. CASE NewRoot
      BY <2>3, <2>4, <2>5, <2>6, <2>11, NewRootLeaves
    <2>12. CASE InsertIntoParent
      BY <2>3, <2>5, <2>6, <2>12, InsertIntoParentLeaves
    <2>13. CASE InsertReturns
      BY <2>3, <2>4, <2>5, <2>7, <2>13, InsertReturnsLeaves
    <2>14. CASE BigEnough
      BY <2>3, <2>5, <2>7, <2>14, BigEnoughLeaves
    <2>15. CASE AdjustRoot
      <3>1. hdr'.root # IX_NO_PAGE => LeafInv(fl, ll, m)'
        BY <2>3, <2>4, <2>5, <2>15, AdjustRootLeaves
      <3>2. CASE hdr'.root = IX_NO_PAGE
        BY <3>2 DEF LInv
      <3> QED BY <2>7, <3>1, <3>2
    <2>16. CASE Redistribute
      BY <2>3, <2>5, <2>6, <2>16, RedistributeLeaves
    <2>17. CASE MaintainParent
      BY <2>3, <2>5, <2>7, <2>17, MaintainParentLeaves
    <2>18. CASE Coalesce
      BY <2>3, <2>4, <2>5, <2>6, <2>18, CoalesceLeaves
    <2> QED BY <2>1, <2>8, <2>9, <2>10, <2>11, <2>12, <2>13, <2>14, <2>15, <2>16, <2>17, <2>18
  <1> QED BY <1>1, <1>2

(***************************************************************************)
(* Between two calls the leaf list runs through the leaves in the order of the*)
(* tree, from page 2 to last_leaf and both ways: after the last leaf of a child*)
(* comes the first leaf of the next child, at every level.                 *)
(***************************************************************************)
THEOREM LeavesListedHolds == Spec => []LeavesListed
  <1>1. IInv /\ LInv => LeavesListed
    <2> SUFFICES ASSUME IInv, LInv, op = Idle, hdr.root # IX_NO_PAGE PROVE LeavesListed
      BY DEF LeavesListed, Quiet
    <2>1. PICK h \in [Pages -> Nat] : TreeInv(h)
      BY DEF IInv
    <2>2. PICK fl \in [Pages -> Pages], ll \in [Pages -> Pages], m \in Nat : LeafInv(fl, ll, m)
      BY DEF LInv
    <2>3. Nodes = Nds(node) /\ Store(node) /\ hdr.root \in Nds(node) /\ 0 \notin Nds(node)
      <3>1. Store(node) /\ Nodes = Nds(node)
        BY <2>1 DEF TreeInv, Nodes, Nds
      <3>2. hdr.root \in Nds(node)
        BY <2>1, <3>1, QuietSizes DEF TreeInv, Tree, Up
      <3> QED BY <3>1, <3>2, NdsIs, PagesIs
    <2>4. (\A p \in Nds(node) : FirstLeaf[p] = fl[p]) /\ \A p \in Nds(node) : LastLeaf[p] = ll[p]
      BY <2>1, <2>2, FirstLeafIs, LastLeafIs
    <2>5. op.pc = "idle"
      BY DEF Idle, Op
    <2>6. /\ Ring(node) /\ Ends(node, fl, ll, 0, m) /\ Whole(node, fl[hdr.root], ll[hdr.root])
          /\ ll[hdr.root] = hdr.last_leaf
      BY <2>2, <2>5 DEF LeafInv, Old, LastLeafNow
    <2>7. /\ node[IX_LEAF_HEADER_PAGE].next = IX_INIT_ROOT_PAGE
          /\ FirstLeaf[hdr.root] = IX_INIT_ROOT_PAGE /\ LastLeaf[hdr.root] = hdr.last_leaf
          /\ node[hdr.last_leaf].next = IX_LEAF_HEADER_PAGE
      BY <2>3, <2>4, <2>6 DEF Whole
    <2>8. ASSUME NEW p \in Nodes, ~node[p].leaf, NEW i \in 1..(Size(node[p]) - 1)
          PROVE  node[LastLeaf[ValueAt(node[p], i - 1)]].next = FirstLeaf[ValueAt(node[p], i)]
      <3>1. NodeOK(node[p]) /\ Size(node[p]) \in Nat /\ Len(node[p].vals) = Size(node[p])
        BY <2>3, NdsIs, NodeIs
      <3>2. /\ i - 1 \in 0..(Size(node[p]) - 1) /\ i \in 0..(Size(node[p]) - 1) /\ i - 1 + 1 = i
            /\ i \in 1..Len(node[p].vals) /\ i + 1 \in 1..Len(node[p].vals) /\ i \in 1..(Len(node[p].vals) - 1)
        BY <3>1
      <3>3. ValueAt(node[p], i - 1) = node[p].vals[i] /\ ValueAt(node[p], i) = node[p].vals[i + 1]
        BY <3>1, <3>2, ValueAtIs
      <3>4. Kids(node)
        BY <2>1, KidsIs
      <3>5. node[p].vals[i] \in Nds(node) /\ node[p].vals[i + 1] \in Nds(node)
        BY <2>3, <2>8, <3>2, <3>4 DEF Kids
      <3>6. node[ll[node[p].vals[i]]].next = fl[node[p].vals[i + 1]]
        BY <2>3, <2>6, <2>8, <3>2 DEF Ends, Spans
      <3> QED BY <2>4, <3>3, <3>5, <3>6
    <2>9. \A p \in {q \in DOMAIN node : node[q].leaf} : node[node[p].next].prev = p
      BY <2>6 DEF Ring
    <2> QED BY <2>7, <2>8, <2>9 DEF LeavesListed
  <1>2. Init => IInv /\ LInv
    BY InitInv, InitLeaves
  <1>3. (IInv /\ LInv) /\ [Next]_vars => (IInv /\ LInv)'
    BY NextInv, NextLeaves
  <1> QED BY <1>1, <1>2, <1>3, PTL DEF Spec
=============================================================================
