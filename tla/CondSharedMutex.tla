-------------------------- MODULE CondSharedMutex --------------------------
(***************************************************************************)
(* sm::shared_mutex (2.sharedmutex/second/shared_mutex.hpp): a             *)
(* readers/writer lock of a mutex and two condition variables.  m_mutex is *)
(* held for the whole of every member function and released only inside    *)
(* wait(), so one action is one stretch of code between two waits.         *)
(*                                                                         *)
(* Both waiting readers and the writer that waits for the readers to leave *)
(* sleep on m_readCond; writers that wait for another writer sleep on      *)
(* m_writeCond.  A thread may also wake without having been notified.      *)
(***************************************************************************)
EXTENDS Naturals, FiniteSets

CONSTANT Threads

ASSUME ThreadsAssumption == IsFiniteSet(Threads)

VARIABLES
  m_writeInProgress,
  m_readerCount,
  pc,       \* "idle", or the wait the thread is in
  notified, \* the sleeping threads that a notify has released
  xheld,    \* 1 between lock() and unlock()
  sheld     \* 1 between lock_shared() and unlock_shared()

held == <<xheld, sheld>>
vars == <<m_writeInProgress, m_readerCount, pc, notified, xheld, sheld>>

Init ==
  /\ m_writeInProgress = FALSE
  /\ m_readerCount = 0
  /\ pc = [t \in Threads |-> "idle"]
  /\ notified = {}
  /\ xheld = [t \in Threads |-> 0]
  /\ sheld = [t \in Threads |-> 0]

(* The mutex is not recursive: a caller that holds it does not ask again.  *)
Free(t) == pc[t] = "idle" /\ xheld[t] = 0 /\ sheld[t] = 0

OnWriteCond == {t \in Threads : pc[t] = "wait_write"}
OnReadCond  == {t \in Threads : pc[t] \in {"wait_read", "wait_drain"}}

(* Sleep (again) on the wait with this label, or go on with it.            *)
Sleep(t, label) == pc' = [pc EXCEPT ![t] = label] /\ notified' = notified \ {t}
Resume(t)       == Sleep(t, "idle")

(* What notify_one() may do to the sleepers of one condition variable: it  *)
(* releases one of those not yet released, if there is one.                *)
OneOf(sleepers) ==
  IF sleepers \subseteq notified THEN {{}} ELSE {{t} : t \in sleepers \ notified}

-----------------------------------------------------------------------------
(* lock(): first the other writer, then, with m_writeInProgress raised,    *)
(* the readers.                                                            *)

WaitForReaders(t) ==
  IF m_readerCount = 0
    THEN Resume(t) /\ xheld' = [xheld EXCEPT ![t] = 1]
    ELSE Sleep(t, "wait_drain") /\ UNCHANGED xheld

WaitForWriter(t) ==
  /\ IF ~m_writeInProgress
       THEN m_writeInProgress' = TRUE /\ WaitForReaders(t)
       ELSE Sleep(t, "wait_write") /\ UNCHANGED <<m_writeInProgress, xheld>>
  /\ UNCHANGED <<m_readerCount, sheld>>

Lock(t) == Free(t) /\ WaitForWriter(t)

(* Released by a notify or spuriously, the thread tests its condition.     *)
WakeInWriteWait(t) == pc[t] = "wait_write" /\ WaitForWriter(t)

WakeInDrain(t) ==
  /\ pc[t] = "wait_drain"
  /\ WaitForReaders(t)
  /\ UNCHANGED <<m_writeInProgress, m_readerCount, sheld>>

(* Mutant: looks at the writer only.                                       *)
TryLockNoReaders(t) ==
  /\ Free(t)
  /\ ~m_writeInProgress
  /\ m_writeInProgress' = TRUE
  /\ xheld' = [xheld EXCEPT ![t] = 1]
  /\ UNCHANGED <<m_readerCount, pc, notified, sheld>>

(* try_lock() that returns true; one that returns false changes nothing.   *)
TryLock(t) ==
  /\ Free(t)
  /\ ~m_writeInProgress
  /\ m_readerCount = 0
  /\ m_writeInProgress' = TRUE
  /\ xheld' = [xheld EXCEPT ![t] = 1]
  /\ UNCHANGED <<m_readerCount, pc, notified, sheld>>

(* Mutant: notifies the writers only.                                      *)
UnlockNoReaders(t) ==
  /\ pc[t] = "idle" /\ xheld[t] = 1
  /\ m_writeInProgress' = FALSE
  /\ \E w \in OneOf(OnWriteCond) : notified' = notified \cup w
  /\ xheld' = [xheld EXCEPT ![t] = 0]
  /\ UNCHANGED <<m_readerCount, pc, sheld>>

Unlock(t) ==
  /\ pc[t] = "idle" /\ xheld[t] = 1
  /\ m_writeInProgress' = FALSE
  /\ \E w \in OneOf(OnWriteCond), r \in OneOf(OnReadCond) :
       notified' = notified \cup w \cup r
  /\ xheld' = [xheld EXCEPT ![t] = 0]
  /\ UNCHANGED <<m_readerCount, pc, sheld>>

-----------------------------------------------------------------------------
(* lock_shared()                                                           *)

WaitWhileWriting(t) ==
  /\ IF ~m_writeInProgress
       THEN /\ Resume(t)
            /\ m_readerCount' = m_readerCount + 1
            /\ sheld' = [sheld EXCEPT ![t] = 1]
       ELSE Sleep(t, "wait_read") /\ UNCHANGED <<m_readerCount, sheld>>
  /\ UNCHANGED <<m_writeInProgress, xheld>>

LockShared(t) == Free(t) /\ WaitWhileWriting(t)

WakeInReadWait(t) == pc[t] = "wait_read" /\ WaitWhileWriting(t)

(* Mutant: a writer in progress does not matter.                           *)
TryLockSharedAlways(t) ==
  /\ Free(t)
  /\ m_readerCount' = m_readerCount + 1
  /\ sheld' = [sheld EXCEPT ![t] = 1]
  /\ UNCHANGED <<m_writeInProgress, pc, notified, xheld>>

TryLockShared(t) ==
  /\ Free(t)
  /\ ~m_writeInProgress
  /\ m_readerCount' = m_readerCount + 1
  /\ sheld' = [sheld EXCEPT ![t] = 1]
  /\ UNCHANGED <<m_writeInProgress, pc, notified, xheld>>

(* Mutant: a single sleeper is notified.                                   *)
UnlockSharedOne(t) ==
  /\ pc[t] = "idle" /\ sheld[t] = 1
  /\ m_readerCount' = m_readerCount - 1
  /\ \E r \in OneOf(OnReadCond) : notified' = notified \cup r
  /\ sheld' = [sheld EXCEPT ![t] = 0]
  /\ UNCHANGED <<m_writeInProgress, pc, xheld>>

UnlockShared(t) ==
  /\ pc[t] = "idle" /\ sheld[t] = 1
  /\ m_readerCount' = m_readerCount - 1
  /\ notified' = notified \cup OnReadCond
  /\ sheld' = [sheld EXCEPT ![t] = 0]
  /\ UNCHANGED <<m_writeInProgress, pc, xheld>>

-----------------------------------------------------------------------------
Calls(t) == Lock(t) \/ TryLock(t) \/ LockShared(t) \/ TryLockShared(t)

Releases(t) == Unlock(t) \/ UnlockShared(t)

Wakes(t) == WakeInWriteWait(t) \/ WakeInDrain(t) \/ WakeInReadWait(t)

Next == \E t \in Threads : Calls(t) \/ Releases(t) \/ Wakes(t)

Spec == Init /\ [][Next]_vars

(* A thread that was notified runs, and a holder releases.  A spurious     *)
(* wake-up is never owed to anyone.                                        *)
Fairness ==
  \A t \in Threads :
    WF_vars(t \in notified /\ Wakes(t)) /\ WF_vars(Releases(t))

FairSpec == Spec /\ Fairness

-----------------------------------------------------------------------------
TypeOK ==
  /\ m_writeInProgress \in BOOLEAN
  /\ m_readerCount \in 0 .. Cardinality(Threads)
  /\ pc \in [Threads -> {"idle", "wait_write", "wait_drain", "wait_read"}]
  /\ notified \subseteq OnWriteCond \cup OnReadCond
  /\ xheld \in [Threads -> {0, 1}]
  /\ sheld \in [Threads -> {0, 1}]

(* A writer between lock() or a successful try_lock() and unlock() is      *)
(* alone.                                                                  *)
MutualExclusion ==
  \A t, u \in Threads : xheld[t] = 1 /\ u # t => xheld[u] = 0 /\ sheld[u] = 0

(* No wake-up is lost although unlock() notifies one sleeper of each       *)
(* condition variable only: a sleeper whose condition holds has been       *)
(* notified itself, or another thread is about to run, or to unlock, that  *)
(* will notify it.                                                         *)
NoLostWakeup ==
  \A t \in Threads \ notified :
    /\ pc[t] = "wait_write" => m_writeInProgress \/ OnWriteCond \cap notified # {}
    /\ pc[t] = "wait_drain" => m_readerCount > 0
    /\ pc[t] = "wait_read"  => \/ m_writeInProgress \/ m_readerCount > 0
                               \/ OnReadCond \cap notified # {}

(* A writer that has announced itself gets in: readers that come later     *)
(* wait for it.                                                            *)
AnnouncedWriterGetsIn ==
  \A t \in Threads : pc[t] = "wait_drain" ~> xheld[t] = 1

(* Once no more writers come, every waiting reader gets in, although       *)
(* unlock() wakes just one of them: the others are woken as it leaves.     *)
ReadersGetInAfterWriters ==
  \A t \in Threads :
    <>[](~m_writeInProgress) => (pc[t] = "wait_read" ~> sheld[t] = 1)

(* The mutex implements the abstract readers/writer lock.                  *)
Abstract == INSTANCE RWLock

ImplementsRWLock == Abstract!Spec
=============================================================================
