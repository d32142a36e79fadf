---------------------------- MODULE RwLatchProofs ----------------------------
(***************************************************************************)
(* The latch is safe and loses no wakeup, for every number of threads that *)
(* does not exceed MAX_READERS.                                            *)
(***************************************************************************)
EXTENDS RwLatch, FiniteSetTheorems, TLAPS

PCs == {"idle", "reading", "writing", "RSleep", "RWoken", "WSleep", "WWoken",
        "DSleep", "DWoken"}

LEMMA WokenFacts ==
  /\ DOMAIN Woken = PCs
  /\ Woken["RSleep"] = "RWoken" /\ Woken["WSleep"] = "WWoken"
  /\ Woken["DSleep"] = "DWoken"
  BY DEF Woken, PCs

\* A set of readers is finite, and counting it is counting threads.
LEMMA ReadingFinite ==
  /\ IsFiniteSet(Reading) /\ Cardinality(Reading) \in Nat
  /\ \A t \in Threads : t \notin Reading => Cardinality(Reading) < MAX_READERS
  <1>1. Reading \in SUBSET Threads
    BY DEF Reading
  <1>2. /\ IsFiniteSet(Reading) /\ Cardinality(Reading) \in Nat
        /\ Cardinality(Threads) \in Nat
        /\ Cardinality(Reading) <= Cardinality(Threads)
        /\ Cardinality(Threads) = Cardinality(Reading) => Threads = Reading
    BY <1>1, ReadersAssumption, FS_Subset, FS_CardinalityType
  <1> QED BY <1>2, ReadersAssumption

\* A thread that starts or stops reading changes the count by one.
LEMMA ReadingChanges ==
  ASSUME NEW t \in Threads
  PROVE  /\ t \notin Reading =>
              Cardinality(Reading \cup {t}) = Cardinality(Reading) + 1
         /\ t \in Reading =>
              Cardinality(Reading \ {t}) = Cardinality(Reading) - 1
  BY ReadingFinite, FS_AddElement, FS_RemoveElement

\* Whoever is notified, only sleepers change, and they change to woken.
LEMMA LeavesFacts ==
  ASSUME TypeOK, NEW t \in Threads, NEW S \in {InReader, InWriter, {}},
         LeavesWaking(t, S) \/ NotifyOne(t, S)
  PROVE  /\ pc' \in [Threads -> PCs]
         /\ pc'[t] = "idle"
         /\ \A u \in Threads \ {t} :
              \/ pc'[u] = pc[u]
              \/ u \in S /\ pc[u] = "RSleep" /\ pc'[u] = "RWoken"
              \/ u \in S /\ pc[u] = "WSleep" /\ pc'[u] = "WWoken"
              \/ u \in S /\ pc[u] = "DSleep" /\ pc'[u] = "DWoken"
  <1>1. PICK W \in SUBSET S : LeavesWaking(t, W)
    BY DEF NotifyOne
  <1>2. /\ pc \in [Threads -> PCs]
        /\ \A u \in S : pc[u] \in {"RSleep", "WSleep", "DSleep"}
    BY WokenFacts DEF TypeOK, InReader, InWriter
  <1>3. pc' = [u \in Threads |-> IF u = t THEN "idle"
                                 ELSE IF u \in W THEN Woken[pc[u]] ELSE pc[u]]
    BY <1>1 DEF LeavesWaking
  <1>4. \A u \in W : Woken[pc[u]] \in PCs
    BY <1>1, <1>2, WokenFacts DEF PCs
  <1>5. pc' \in [Threads -> PCs]
    BY <1>2, <1>3, <1>4 DEF PCs
  <1>6. ASSUME NEW u \in Threads \ {t}
        PROVE  \/ pc'[u] = pc[u]
               \/ u \in S /\ pc[u] = "RSleep" /\ pc'[u] = "RWoken"
               \/ u \in S /\ pc[u] = "WSleep" /\ pc'[u] = "WWoken"
               \/ u \in S /\ pc[u] = "DSleep" /\ pc'[u] = "DWoken"
    <2>1. CASE u \in W
      BY <1>1, <1>2, <1>3, <2>1, WokenFacts
    <2>2. CASE u \notin W
      BY <1>3, <2>2
    <2> QED BY <2>1, <2>2
  <1> QED BY <1>3, <1>5, <1>6

\* Before the second loop of WLock is left there is nobody but the writer.
LEMMA Exclusive ==
  ASSUME LatchInv
  PROVE  MutualExclusion
  <1> SUFFICES ASSUME NEW t \in Threads, NEW u \in Threads, pc[t] = "writing", t # u
               PROVE  pc[u] \notin {"reading", "writing"}
    BY DEF MutualExclusion
  <1>1. pc[u] # "writing"
    BY DEF LatchInv, FieldsAgree, Entered
  <1>2. Cardinality(Reading) = 0
    BY DEF LatchInv, FieldsAgree
  <1>3. Reading = {}
    BY <1>2, ReadingFinite, FS_EmptySet
  <1> QED BY <1>1, <1>3 DEF Reading

-----------------------------------------------------------------------------
(* The steps.                                                              *)

LEMMA RLockKeeps ==
  ASSUME LatchInv, NEW t \in Threads, RLock(t)
  PROVE  LatchInv'
  <1>0. /\ pc \in [Threads -> PCs] /\ reader_count_ \in Nat /\ writer_entered_ \in BOOLEAN
        /\ pc[t] \in {"idle", "RWoken"} /\ writer_entered_' = writer_entered_
    BY WokenFacts DEF LatchInv, TypeOK, RLock
  <1>1. t \notin Reading /\ reader_count_ = Cardinality(Reading)
    BY <1>0 DEF Reading, LatchInv, FieldsAgree
  <1>2. reader_count_ # MAX_READERS
    BY <1>1, ReadingFinite, ReadersAssumption
  <1>3. CASE writer_entered_
    <2>1. pc' = [pc EXCEPT ![t] = "RSleep"] /\ reader_count_' = reader_count_
      BY <1>3 DEF RLock
    <2>2. Reading' = Reading /\ Entered' = Entered
      BY <1>0, <2>1 DEF Reading, Entered, PCs
    <2>3. TypeOK'
      BY <1>0, <2>1, WokenFacts DEF TypeOK, PCs
    <2>4. FieldsAgree'
      BY <1>0, <2>1, <2>2 DEF LatchInv, FieldsAgree
    <2>5. NoLostWakeup'
      BY <1>0, <1>3, <2>1 DEF LatchInv, NoLostWakeup
    <2> QED BY <2>3, <2>4, <2>5 DEF LatchInv
  <1>4. CASE ~writer_entered_
    <2>1. pc' = [pc EXCEPT ![t] = "reading"] /\ reader_count_' = reader_count_ + 1
      BY <1>2, <1>4 DEF RLock
    <2>2. Reading' = Reading \cup {t} /\ Entered' = Entered
      BY <1>0, <2>1 DEF Reading, Entered, PCs
    <2>3. Entered = {}
      BY <1>4 DEF LatchInv, FieldsAgree
    <2>4. TypeOK'
      BY <1>0, <2>1, WokenFacts DEF TypeOK, PCs
    <2>5. reader_count_' = Cardinality(Reading')
      BY <1>1, <2>1, <2>2, ReadingChanges
    <2>6. FieldsAgree'
      BY <1>0, <1>4, <2>1, <2>2, <2>3, <2>5 DEF FieldsAgree, Entered
    <2>7. NoLostWakeup'
      BY <1>0, <1>4, <2>1 DEF LatchInv, NoLostWakeup
    <2> QED BY <2>4, <2>6, <2>7 DEF LatchInv
  <1> QED BY <1>3, <1>4

LEMMA WLockKeeps ==
  ASSUME LatchInv, NEW t \in Threads, WLock(t) \/ WLockDrain(t)
  PROVE  LatchInv'
  <1>0. /\ pc \in [Threads -> PCs] /\ reader_count_ \in Nat /\ writer_entered_ \in BOOLEAN
        /\ reader_count_' = reader_count_
    BY WokenFacts DEF LatchInv, TypeOK, WLock, WLockDrain
  <1>1. CASE WLock(t) /\ writer_entered_
    <2>1. /\ pc[t] \in {"idle", "WWoken"}
          /\ pc' = [pc EXCEPT ![t] = "WSleep"] /\ writer_entered_' = writer_entered_
      BY <1>1 DEF WLock
    <2>2. Reading' = Reading /\ Entered' = Entered
      BY <1>0, <2>1 DEF Reading, Entered, PCs
    <2>3. TypeOK'
      BY <1>0, <2>1, WokenFacts DEF TypeOK, PCs
    <2>4. FieldsAgree'
      BY <1>0, <2>1, <2>2 DEF LatchInv, FieldsAgree
    <2>5. NoLostWakeup'
      BY <1>0, <1>1, <2>1 DEF LatchInv, NoLostWakeup
    <2> QED BY <2>3, <2>4, <2>5 DEF LatchInv
  <1>2. CASE (WLock(t) /\ ~writer_entered_) \/ WLockDrain(t)
    <2>1. /\ pc[t] \in {"idle", "WWoken", "DWoken"}
          /\ pc' = [pc EXCEPT ![t] = IF reader_count_ > 0 THEN "DSleep" ELSE "writing"]
          /\ Entered \subseteq {t}
      BY <1>2 DEF WLock, WLockDrain, LatchInv, FieldsAgree, Entered
    <2>2. writer_entered_' = TRUE
      BY <1>2 DEF WLock, WLockDrain, LatchInv, FieldsAgree, Entered
    <2>3. Reading' = Reading /\ Entered' = {t}
      BY <1>0, <2>1 DEF Reading, Entered, PCs
    <2>4. TypeOK'
      BY <1>0, <2>1, <2>2, WokenFacts DEF TypeOK, PCs
    <2>5. \A u \in Threads : pc'[u] = "writing" => reader_count_ = 0
      BY <1>0, <2>1 DEF LatchInv, FieldsAgree
    <2>6. FieldsAgree'
      BY <1>0, <2>2, <2>3, <2>5 DEF LatchInv, FieldsAgree
    <2>7. NoLostWakeup'
      BY <1>0, <2>1, <2>2 DEF LatchInv, NoLostWakeup
    <2> QED BY <2>4, <2>6, <2>7 DEF LatchInv
  <1> QED BY <1>1, <1>2

LEMMA WUnlockKeeps ==
  ASSUME LatchInv, NEW t \in Threads, WUnlock(t)
  PROVE  LatchInv'
  <1>0. /\ pc \in [Threads -> PCs] /\ reader_count_ \in Nat
        /\ pc[t] = "writing" /\ writer_entered_' = FALSE /\ reader_count_' = reader_count_
        /\ LeavesWaking(t, InReader)
    BY WokenFacts DEF LatchInv, TypeOK, WUnlock
  <1>1. /\ pc' \in [Threads -> PCs]
        /\ pc'[t] = "idle"
        /\ \A u \in Threads \ {t} :
             \/ pc'[u] = pc[u]
             \/ u \in InReader /\ pc[u] = "RSleep" /\ pc'[u] = "RWoken"
             \/ u \in InReader /\ pc[u] = "WSleep" /\ pc'[u] = "WWoken"
             \/ u \in InReader /\ pc[u] = "DSleep" /\ pc'[u] = "DWoken"
    BY <1>0, LeavesFacts DEF LatchInv
  <1>2. Entered = {t}
    BY <1>0 DEF LatchInv, FieldsAgree, Entered
  <1>3. Reading' = Reading
    BY <1>0, <1>1 DEF Reading
  <1>4. Entered' = {}
    BY <1>1, <1>2 DEF Entered, InReader
  <1>5. \A u \in Threads : pc'[u] \notin {"RSleep", "WSleep"}
    BY <1>0, WokenFacts DEF LeavesWaking, InReader
  <1>6. TypeOK'
    BY <1>0, <1>1, WokenFacts DEF TypeOK
  <1>7. FieldsAgree'
    BY <1>0, <1>3, <1>4 DEF LatchInv, FieldsAgree, Entered
  <1>8. NoLostWakeup'
    BY <1>4, <1>5 DEF NoLostWakeup, Entered
  <1> QED BY <1>6, <1>7, <1>8 DEF LatchInv

LEMMA RUnlockKeeps ==
  ASSUME LatchInv, NEW t \in Threads, RUnlock(t)
  PROVE  LatchInv'
  <1>0. /\ pc \in [Threads -> PCs] /\ reader_count_ \in Nat
        /\ pc[t] = "reading" /\ reader_count_' = reader_count_ - 1
        /\ UNCHANGED writer_entered_
    BY WokenFacts DEF LatchInv, TypeOK, RUnlock
  <1>1. PICK S \in {InReader, InWriter, {}} : LeavesWaking(t, S) \/ NotifyOne(t, S)
    BY DEF RUnlock
  <1>2. /\ pc' \in [Threads -> PCs]
        /\ pc'[t] = "idle"
        /\ \A u \in Threads \ {t} :
             \/ pc'[u] = pc[u]
             \/ u \in S /\ pc[u] = "RSleep" /\ pc'[u] = "RWoken"
             \/ u \in S /\ pc[u] = "WSleep" /\ pc'[u] = "WWoken"
             \/ u \in S /\ pc[u] = "DSleep" /\ pc'[u] = "DWoken"
    BY <1>1, LeavesFacts DEF LatchInv
  <1>3. Reading' = Reading \ {t} /\ t \in Reading
    BY <1>0, <1>2 DEF Reading
  <1>4. Entered' = Entered
    BY <1>0, <1>2 DEF Entered
  <1>5. reader_count_' = Cardinality(Reading') /\ reader_count_' \in Nat
    <2>1. reader_count_ = Cardinality(Reading)
      BY DEF LatchInv, FieldsAgree
    <2>2. reader_count_' = Cardinality(Reading')
      BY <1>0, <1>3, <2>1, ReadingChanges
    <2>3. reader_count_ # 0
      BY <1>3, <2>1, ReadingFinite, FS_EmptySet
    <2> QED BY <1>0, <2>2, <2>3
  <1>6. \A u \in Threads : pc'[u] = "writing" => pc[u] = "writing"
    BY <1>0, <1>2
  <1>7. \A u \in Threads : pc[u] # "writing"
    BY <1>0, Exclusive DEF MutualExclusion
  <1>8. TypeOK'
    BY <1>0, <1>2, <1>5, WokenFacts DEF LatchInv, TypeOK
  <1>9. FieldsAgree'
    BY <1>0, <1>4, <1>5, <1>6, <1>7 DEF LatchInv, FieldsAgree
  <1>10. ASSUME NEW u \in Threads, pc'[u] = "DSleep"
         PROVE  reader_count_' > 0
    <2>1. pc[u] = "DSleep" /\ u # t
      BY <1>0, <1>2, <1>10
    <2>2. writer_entered_ /\ u \in InWriter /\ InWriter \subseteq {u}
      BY <2>1 DEF LatchInv, FieldsAgree, Entered, InWriter
    <2>3. CASE reader_count_' = 0
      <3>1. NotifyOne(t, InWriter)
        BY <2>2, <2>3 DEF RUnlock
      <3>2. PICK W \in SUBSET InWriter : Cardinality(W) = 1 /\ LeavesWaking(t, W)
        BY <2>2, <3>1 DEF NotifyOne
      <3>3. W # {}
        BY <3>2, FS_EmptySet
      <3>4. u \in W
        BY <2>2, <3>2, <3>3
      <3>5. pc'[u] = "DWoken"
        BY <2>1, <3>2, <3>4, WokenFacts DEF LeavesWaking
      <3> QED BY <1>10, <3>5
    <2> QED BY <1>5, <2>3
  <1>11. NoLostWakeup'
    <2>1. \A u \in Threads : pc'[u] \in {"RSleep", "WSleep"} => writer_entered_'
      BY <1>0, <1>2 DEF LatchInv, NoLostWakeup
    <2> QED BY <1>10, <2>1 DEF NoLostWakeup
  <1> QED BY <1>8, <1>9, <1>11 DEF LatchInv

LEMMA SpuriousKeeps ==
  ASSUME LatchInv, NEW t \in Threads, SpuriousWakeup(t)
  PROVE  LatchInv'
  <1>0. /\ pc \in [Threads -> PCs] /\ pc[t] \in {"RSleep", "WSleep", "DSleep"}
        /\ UNCHANGED <<reader_count_, writer_entered_>>
        /\ pc' = [pc EXCEPT ![t] = Woken[pc[t]]]
    BY WokenFacts DEF LatchInv, TypeOK, SpuriousWakeup
  <1>1. /\ pc[t] = "RSleep" => Woken[pc[t]] = "RWoken"
        /\ pc[t] = "WSleep" => Woken[pc[t]] = "WWoken"
        /\ pc[t] = "DSleep" => Woken[pc[t]] = "DWoken"
    BY WokenFacts
  <1>2. Reading' = Reading /\ Entered' = Entered
    BY <1>0, <1>1 DEF Reading, Entered
  <1>3. TypeOK'
    BY <1>0, <1>1, WokenFacts DEF LatchInv, TypeOK, PCs
  <1>4. FieldsAgree'
    BY <1>0, <1>1, <1>2 DEF LatchInv, FieldsAgree
  <1>5. NoLostWakeup'
    BY <1>0, <1>1 DEF LatchInv, NoLostWakeup
  <1> QED BY <1>3, <1>4, <1>5 DEF LatchInv

-----------------------------------------------------------------------------
(* The theorems.                                                           *)

\* The latch's fields agree with who is inside and no wakeup is lost, whatever the
\* threads do (rwlatch.cpp:6-52).
THEOREM LatchSafe == Spec => []LatchInv
  <1>1. Init => LatchInv
    <2> SUFFICES ASSUME Init PROVE LatchInv
      OBVIOUS
    <2>1. Reading = {} /\ Entered = {}
      BY DEF Init, Reading, Entered
    <2>2. TypeOK
      BY WokenFacts DEF Init, TypeOK, PCs
    <2>3. FieldsAgree /\ NoLostWakeup
      BY <2>1, FS_EmptySet DEF Init, FieldsAgree, NoLostWakeup
    <2> QED BY <2>2, <2>3 DEF LatchInv
  <1>2. LatchInv /\ [Next]_vars => LatchInv'
    <2> SUFFICES ASSUME LatchInv, [Next]_vars PROVE LatchInv'
      OBVIOUS
    <2>1. CASE UNCHANGED vars
      BY <2>1 DEF vars, LatchInv, TypeOK, FieldsAgree, NoLostWakeup, Reading, Entered
    <2>2. CASE Next
      BY <2>2, RLockKeeps, WLockKeeps, RUnlockKeeps, WUnlockKeeps, SpuriousKeeps DEF Next
    <2> QED BY <2>1, <2>2
  <1> QED BY <1>1, <1>2, PTL DEF Spec

\* A writer is never inside together with anybody else.
THEOREM LatchExcludes == Spec => []MutualExclusion
  <1>1. LatchInv => MutualExclusion
    BY Exclusive
  <1> QED BY <1>1, LatchSafe, PTL

\* A thread asleep in reader_ or writer_ always has somebody who will notify it.
THEOREM LatchWakes == Spec => [](FieldsAgree /\ NoLostWakeup)
  <1>1. LatchInv => FieldsAgree /\ NoLostWakeup
    BY DEF LatchInv
  <1> QED BY <1>1, LatchSafe, PTL
==============================================================================
