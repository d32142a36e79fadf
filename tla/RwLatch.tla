------------------------------- MODULE RwLatch -------------------------------
(***************************************************************************)
(* ReaderWriterLatch (src/src/common/rwlatch.cpp), the latch in every      *)
(* Page.  A method runs under mutex_ except while it sleeps in a condition *)
(* variable, so a step is the stretch from taking mutex_ to sleeping or    *)
(* returning.  Threads waiting to enter sleep in reader_, readers and      *)
(* writers alike; the writer that has entered sleeps in writer_ until the  *)
(* readers have left.  A woken thread tests its condition again, some time *)
(* later; wait(2) may also wake a thread for no reason.                    *)
(***************************************************************************)
EXTENDS Integers, FiniteSets

CONSTANTS Threads, MAX_READERS

\* MAX_READERS is UINT_MAX, more than there can be threads: a reader that waits
\* finds fewer than MAX_READERS others inside.
ASSUME ReadersAssumption ==
  /\ IsFiniteSet(Threads)
  /\ MAX_READERS \in Nat
  /\ Cardinality(Threads) <= MAX_READERS

VARIABLES
  reader_count_,
  writer_entered_,
  pc                \* what each thread is doing with the latch

vars == <<reader_count_, writer_entered_, pc>>

Init ==
  /\ reader_count_ = 0
  /\ writer_entered_ = FALSE
  /\ pc = [t \in Threads |-> "idle"]

-----------------------------------------------------------------------------
(* Condition variables.  Woken is the state a notified thread goes to.     *)

Woken == [idle |-> "idle", reading |-> "reading", writing |-> "writing",
           RSleep |-> "RWoken", RWoken |-> "RWoken",
           WSleep |-> "WWoken", WWoken |-> "WWoken",
           DSleep |-> "DWoken", DWoken |-> "DWoken"]

\* The threads in reader_ and in writer_.
InReader == {t \in Threads : pc[t] \in {"RSleep", "WSleep"}}
InWriter == {t \in Threads : pc[t] = "DSleep"}

\* Thread t returns to its caller and the threads of W are notified.
LeavesWaking(t, W) ==
  pc' = [u \in Threads |-> IF u = t THEN "idle"
                           ELSE IF u \in W THEN Woken[pc[u]] ELSE pc[u]]

\* notify_one on a condition variable with sleepers S, when t leaves.
NotifyOne(t, S) ==
  \E W \in SUBSET S : Cardinality(W) = (IF S = {} THEN 0 ELSE 1) /\ LeavesWaking(t, W)

-----------------------------------------------------------------------------
(* The methods.                                                            *)

\* A caller, or a thread woken in reader_, tests the condition of the loop.
RLock(t) ==
  /\ pc[t] \in {"idle", "RWoken"}
  /\ IF writer_entered_ \/ reader_count_ = MAX_READERS
     THEN pc' = [pc EXCEPT ![t] = "RSleep"] /\ UNCHANGED reader_count_
     ELSE pc' = [pc EXCEPT ![t] = "reading"] /\ reader_count_' = reader_count_ + 1
  /\ UNCHANGED writer_entered_

\* (mutant) the writer does not wait for the readers to leave
WLockUndrained(t) ==
  /\ pc[t] \in {"idle", "WWoken"}
  /\ IF writer_entered_
     THEN pc' = [pc EXCEPT ![t] = "WSleep"] /\ UNCHANGED writer_entered_
     ELSE pc' = [pc EXCEPT ![t] = "writing"] /\ writer_entered_' = TRUE
  /\ UNCHANGED reader_count_

\* The same for the first loop of WLock; leaving it, the thread goes on to the
\* second one.
WLock(t) ==
  /\ pc[t] \in {"idle", "WWoken"}
  /\ IF writer_entered_
     THEN pc' = [pc EXCEPT ![t] = "WSleep"] /\ UNCHANGED writer_entered_
     ELSE /\ pc' = [pc EXCEPT ![t] = IF reader_count_ > 0 THEN "DSleep" ELSE "writing"]
          /\ writer_entered_' = TRUE
  /\ UNCHANGED reader_count_

\* The second loop, after a wakeup.
WLockDrain(t) ==
  /\ pc[t] = "DWoken"
  /\ pc' = [pc EXCEPT ![t] = IF reader_count_ > 0 THEN "DSleep" ELSE "writing"]
  /\ UNCHANGED <<reader_count_, writer_entered_>>

\* (mutant) notify_one in place of notify_all
WUnlockWakesOne(t) ==
  /\ pc[t] = "writing"
  /\ writer_entered_' = FALSE
  /\ NotifyOne(t, InReader)
  /\ UNCHANGED reader_count_

WUnlock(t) ==
  /\ pc[t] = "writing"
  /\ writer_entered_' = FALSE
  /\ LeavesWaking(t, InReader)
  /\ UNCHANGED reader_count_

\* (mutant) the last reader looks at the count before it decrements it
RUnlockLateCount(t) ==
  /\ pc[t] = "reading"
  /\ reader_count_' = reader_count_ - 1
  /\ IF writer_entered_ /\ reader_count_ = 0 THEN NotifyOne(t, InWriter)
     ELSE LeavesWaking(t, {})
  /\ UNCHANGED writer_entered_

RUnlock(t) ==
  /\ pc[t] = "reading"
  /\ reader_count_' = reader_count_ - 1
  /\ IF writer_entered_
     THEN IF reader_count_' = 0 THEN NotifyOne(t, InWriter) ELSE LeavesWaking(t, {})
     ELSE IF reader_count_' = MAX_READERS - 1 THEN NotifyOne(t, InReader)
                                              ELSE LeavesWaking(t, {})
  /\ UNCHANGED writer_entered_

\* A sleeper wakes up without having been notified.
SpuriousWakeup(t) ==
  /\ pc[t] \in {"RSleep", "WSleep", "DSleep"}
  /\ pc' = [pc EXCEPT ![t] = Woken[@]]
  /\ UNCHANGED <<reader_count_, writer_entered_>>

Next ==
  \E t \in Threads :
    RLock(t) \/ WLock(t) \/ WLockDrain(t) \/ RUnlock(t) \/ WUnlock(t) \/ SpuriousWakeup(t)

\* A thread that has the latch releases it, and a woken thread gets mutex_ in the
\* end.  Nobody has to call RLock or WLock, and nobody has to wake up by accident.
Fairness ==
  \A t \in Threads :
    /\ WF_vars(RUnlock(t)) /\ WF_vars(WUnlock(t))
    /\ WF_vars(pc[t] = "RWoken" /\ RLock(t))
    /\ WF_vars(pc[t] = "WWoken" /\ WLock(t))
    /\ WF_vars(WLockDrain(t))

Spec == Init /\ [][Next]_vars
FairSpec == Spec /\ Fairness

-----------------------------------------------------------------------------
(* Properties.                                                             *)

Reading == {t \in Threads : pc[t] = "reading"}
Entered == {t \in Threads : pc[t] \in {"DSleep", "DWoken", "writing"}}

\* Type invariant: the latch's counter and flag, and the place each thread is at.
TypeOK ==
  /\ reader_count_ \in Nat
  /\ writer_entered_ \in BOOLEAN
  /\ pc \in [Threads -> DOMAIN Woken]

\* A writer is alone: it returns from WLock only after every reader has left, and
\* no reader gets past it on the way (rwlatch.cpp:8-14, 31).
MutualExclusion ==
  \A t, u \in Threads :
    pc[t] = "writing" /\ t # u => pc[u] \notin {"reading", "writing"}

\* The two fields describe who is inside: reader_count_ counts the readers, and
\* writer_entered_ stands for exactly one writer, draining or writing.
FieldsAgree ==
  /\ reader_count_ = Cardinality(Reading)
  /\ writer_entered_ <=> Entered # {}
  /\ \A t, u \in Entered : t = u
  /\ \A t \in Threads : pc[t] = "writing" => reader_count_ = 0

\* No wakeup is lost: a thread that sleeps still has a reason to, and whoever
\* ends that reason will notify it (rwlatch.cpp:23, 45, 49).
NoLostWakeup ==
  /\ \A t \in Threads : pc[t] \in {"RSleep", "WSleep"} => writer_entered_
  /\ \A t \in Threads : pc[t] = "DSleep" => reader_count_ > 0

\* A writer that has entered gets to write: readers cannot keep coming in
\* (rwlatch.cpp:11-14, 31).
DrainEnds ==
  \A t \in Threads : (pc[t] \in {"DSleep", "DWoken"}) ~> (pc[t] = "writing")

\* A waiting thread is not forgotten: if the others stay away from the latch from
\* some time on, it gets in.  (Among contending threads WLock and RLock make no
\* promise: they may starve each other.)
NobodyForgotten ==
  \A t \in Threads :
    <>[](\A u \in Threads \ {t} : pc[u] = "idle")
      => [](pc[t] # "idle" => <>(pc[t] \in {"reading", "writing"}))

\* The inductive invariant.
LatchInv == TypeOK /\ FieldsAgree /\ NoLostWakeup
==============================================================================
