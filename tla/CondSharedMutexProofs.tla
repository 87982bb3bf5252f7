----------------------- MODULE CondSharedMutexProofs -----------------------
(***************************************************************************)
(* Mutual exclusion of the mutex on condition variables, that none of its  *)
(* notifications is lost, and that it implements the abstract lock RWLock, *)
(* for any finite set of threads.                                          *)
(*                                                                         *)
(* IInv is the inductive invariant: m_readerCount counts the readers       *)
(* (CountInv), one writer at a time is behind m_writeInProgress, from the  *)
(* moment it starts to drain (AnnounceInv), and a writer holds the mutex   *)
(* only while there are no readers (HoldInv).                              *)
(***************************************************************************)
EXTENDS CondSharedMutex, FiniteSetTheorems, TLAPS

Readers == {t \in Threads : sheld[t] = 1}

(* The thread has raised m_writeInProgress and not lowered it yet.         *)
Announced(t) == xheld[t] = 1 \/ pc[t] = "wait_drain"

CountInv == m_readerCount = Cardinality(Readers)

AnnounceInv ==
  /\ \A t \in Threads : Announced(t) => m_writeInProgress
  /\ \A t, u \in Threads : Announced(t) /\ Announced(u) => t = u

HoldInv ==
  \A t \in Threads :
    /\ xheld[t] = 1 => m_readerCount = 0
    /\ pc[t] # "idle" => xheld[t] = 0 /\ sheld[t] = 0

IInv == TypeOK /\ CountInv /\ AnnounceInv /\ HoldInv

USE ThreadsAssumption

(* What an operation of t does to the holds, and when.                     *)
HoldsStep(t) ==
  \/ UNCHANGED <<held, m_readerCount>>
  \/ /\ m_readerCount = 0 /\ xheld[t] = 0
     /\ \A u \in Threads \ {t} : ~Announced(u)
     /\ xheld' = [xheld EXCEPT ![t] = 1]
     /\ UNCHANGED <<sheld, m_readerCount>>
  \/ /\ xheld[t] = 1
     /\ xheld' = [xheld EXCEPT ![t] = 0]
     /\ UNCHANGED <<sheld, m_readerCount>>
  \/ /\ ~m_writeInProgress /\ sheld[t] = 0
     /\ sheld' = [sheld EXCEPT ![t] = 1]
     /\ m_readerCount' = m_readerCount + 1
     /\ UNCHANGED xheld
  \/ /\ sheld[t] = 1
     /\ sheld' = [sheld EXCEPT ![t] = 0]
     /\ m_readerCount' = m_readerCount - 1
     /\ UNCHANGED xheld

LEMMA HoldsChange ==
  ASSUME IInv, NEW t \in Threads, Calls(t) \/ Releases(t) \/ Wakes(t)
  PROVE  HoldsStep(t)
  <1> USE DEF IInv, TypeOK, held, HoldsStep
  <1>1. CASE Lock(t)
    BY <1>1 DEF Lock, Free, WaitForWriter, WaitForReaders, AnnounceInv
  <1>2. CASE WakeInWriteWait(t)
    BY <1>2 DEF WakeInWriteWait, WaitForWriter, WaitForReaders, AnnounceInv, HoldInv
  <1>3. CASE WakeInDrain(t)
    BY <1>3 DEF WakeInDrain, WaitForReaders, AnnounceInv, Announced, HoldInv
  <1>4. CASE TryLock(t)
    BY <1>4 DEF TryLock, Free, AnnounceInv
  <1>5. CASE Unlock(t)
    BY <1>5 DEF Unlock
  <1>6. CASE LockShared(t)
    BY <1>6 DEF LockShared, Free, WaitWhileWriting
  <1>7. CASE WakeInReadWait(t)
    BY <1>7 DEF WakeInReadWait, WaitWhileWriting, HoldInv
  <1>8. CASE TryLockShared(t)
    BY <1>8 DEF TryLockShared, Free
  <1>9. CASE UnlockShared(t)
    BY <1>9 DEF UnlockShared
  <1> QED BY <1>1, <1>2, <1>3, <1>4, <1>5, <1>6, <1>7, <1>8, <1>9
       DEF Calls, Releases, Wakes

(* m_readerCount follows the set of readers.                               *)
LEMMA CountStep ==
  ASSUME IInv, NEW t \in Threads, Calls(t) \/ Releases(t) \/ Wakes(t)
  PROVE  CountInv' /\ m_readerCount' \in 0 .. Cardinality(Threads)
  <1>a. IsFiniteSet(Readers) /\ Cardinality(Readers) \in Nat
    BY FS_Subset, FS_CardinalityType DEF Readers
  <1>b. sheld \in [Threads -> {0, 1}] /\ m_readerCount = Cardinality(Readers)
    BY DEF IInv, TypeOK, CountInv
  <1>1. HoldsStep(t)
    BY HoldsChange
  <1>2. CASE UNCHANGED <<sheld, m_readerCount>>
    <2>1. Readers' = Readers
      BY <1>2 DEF Readers
    <2> QED BY <2>1, <1>2, <1>b DEF IInv, TypeOK, CountInv
  <1>3. CASE /\ sheld[t] = 0 /\ sheld' = [sheld EXCEPT ![t] = 1]
             /\ m_readerCount' = m_readerCount + 1
    <2>1. Readers' = Readers \cup {t} /\ t \notin Readers
      BY <1>3, <1>b DEF Readers
    <2>2. Cardinality(Readers') = Cardinality(Readers) + 1
      BY <2>1, <1>a, FS_AddElement
    <2>3. CountInv'
      BY <2>2, <1>3, <1>b DEF CountInv
    <2>4. Readers' \in SUBSET Threads
      BY DEF Readers
    <2>5. Cardinality(Readers') <= Cardinality(Threads)
      BY <2>4, FS_Subset
    <2>6. Cardinality(Threads) \in Nat
      BY FS_CardinalityType
    <2> QED BY <2>2, <2>3, <2>5, <2>6, <1>a, <1>b, <1>3
  <1>4. CASE /\ sheld[t] = 1 /\ sheld' = [sheld EXCEPT ![t] = 0]
             /\ m_readerCount' = m_readerCount - 1
    <2>1. Readers' = Readers \ {t} /\ t \in Readers
      BY <1>4, <1>b DEF Readers
    <2>2. Cardinality(Readers') = Cardinality(Readers) - 1
      BY <2>1, <1>a, FS_RemoveElement
    <2>3. IsFiniteSet(Readers')
      BY <2>1, <1>a, FS_RemoveElement
    <2>4. Cardinality(Readers') \in Nat
      BY <2>3, FS_CardinalityType
    <2>5. CountInv'
      BY <2>2, <1>4, <1>b DEF CountInv
    <2>6. Cardinality(Threads) \in Nat /\ m_readerCount \in 0 .. Cardinality(Threads)
      BY FS_CardinalityType DEF IInv, TypeOK
    <2>7. m_readerCount' = Cardinality(Readers')
      BY <2>5 DEF CountInv
    <2> QED BY <2>4, <2>5, <2>6, <2>7, <1>4
  <1> QED BY <1>1, <1>2, <1>3, <1>4 DEF HoldsStep, held

(* The types of the other variables.                                       *)
LEMMA TypeStep ==
  ASSUME IInv, NEW t \in Threads, Calls(t) \/ Releases(t) \/ Wakes(t)
  PROVE  TypeOK'
  <1> USE DEF IInv, TypeOK, OnWriteCond, OnReadCond
  <1>a. m_readerCount' \in 0 .. Cardinality(Threads)
    BY CountStep
  <1>1. CASE Lock(t)
    BY <1>1, <1>a DEF Lock, Free, WaitForWriter, WaitForReaders, Sleep, Resume
  <1>2. CASE WakeInWriteWait(t)
    BY <1>2, <1>a DEF WakeInWriteWait, WaitForWriter, WaitForReaders, Sleep, Resume
  <1>3. CASE WakeInDrain(t)
    BY <1>3, <1>a DEF WakeInDrain, WaitForReaders, Sleep, Resume
  <1>4. CASE TryLock(t)
    BY <1>4, <1>a DEF TryLock, Free
  <1>5. CASE Unlock(t)
    <2>1. \A w \in OneOf(OnWriteCond) : w \subseteq OnWriteCond
      BY DEF OneOf
    <2>2. \A r \in OneOf(OnReadCond) : r \subseteq OnReadCond
      BY DEF OneOf
    <2>3. notified' \subseteq OnWriteCond \cup OnReadCond
      BY <2>1, <2>2, <1>5 DEF Unlock
    <2> QED BY <2>3, <1>5, <1>a DEF Unlock
  <1>6. CASE LockShared(t)
    BY <1>6, <1>a DEF LockShared, Free, WaitWhileWriting, Sleep, Resume
  <1>7. CASE WakeInReadWait(t)
    BY <1>7, <1>a DEF WakeInReadWait, WaitWhileWriting, Sleep, Resume
  <1>8. CASE TryLockShared(t)
    BY <1>8, <1>a DEF TryLockShared, Free
  <1>9. CASE UnlockShared(t)
    BY <1>9, <1>a DEF UnlockShared
  <1> QED BY <1>1, <1>2, <1>3, <1>4, <1>5, <1>6, <1>7, <1>8, <1>9
       DEF Calls, Releases, Wakes

(* A writer announces itself only when no other has.                       *)
LEMMA AnnounceStep ==
  ASSUME IInv, NEW t \in Threads, Calls(t) \/ Releases(t) \/ Wakes(t)
  PROVE  AnnounceInv'
  <1> USE DEF IInv, TypeOK, AnnounceInv, Announced, HoldInv
  <1>1. CASE Lock(t)
    BY <1>1 DEF Lock, Free, WaitForWriter, WaitForReaders, Sleep, Resume
  <1>2. CASE WakeInWriteWait(t)
    BY <1>2 DEF WakeInWriteWait, WaitForWriter, WaitForReaders, Sleep, Resume
  <1>3. CASE WakeInDrain(t)
    BY <1>3 DEF WakeInDrain, WaitForReaders, Sleep, Resume
  <1>4. CASE TryLock(t)
    BY <1>4 DEF TryLock, Free
  <1>5. CASE Unlock(t)
    BY <1>5 DEF Unlock
  <1>6. CASE LockShared(t)
    BY <1>6 DEF LockShared, Free, WaitWhileWriting, Sleep, Resume
  <1>7. CASE WakeInReadWait(t)
    BY <1>7 DEF WakeInReadWait, WaitWhileWriting, Sleep, Resume
  <1>8. CASE TryLockShared(t)
    BY <1>8 DEF TryLockShared, Free
  <1>9. CASE UnlockShared(t)
    BY <1>9 DEF UnlockShared
  <1> QED BY <1>1, <1>2, <1>3, <1>4, <1>5, <1>6, <1>7, <1>8, <1>9
       DEF Calls, Releases, Wakes

(* Readers come in only while no writer is announced, and a writer holds   *)
(* the mutex only after the readers have left.                             *)
LEMMA HoldStep ==
  ASSUME IInv, NEW t \in Threads, Calls(t) \/ Releases(t) \/ Wakes(t)
  PROVE  HoldInv'
  <1> USE DEF IInv, TypeOK, AnnounceInv, Announced, HoldInv
  <1>1. CASE Lock(t)
    BY <1>1 DEF Lock, Free, WaitForWriter, WaitForReaders, Sleep, Resume
  <1>2. CASE WakeInWriteWait(t)
    BY <1>2 DEF WakeInWriteWait, WaitForWriter, WaitForReaders, Sleep, Resume
  <1>3. CASE WakeInDrain(t)
    BY <1>3 DEF WakeInDrain, WaitForReaders, Sleep, Resume
  <1>4. CASE TryLock(t)
    BY <1>4 DEF TryLock, Free
  <1>5. CASE Unlock(t)
    BY <1>5 DEF Unlock
  <1>6. CASE LockShared(t)
    BY <1>6 DEF LockShared, Free, WaitWhileWriting, Sleep, Resume
  <1>7. CASE WakeInReadWait(t)
    BY <1>7 DEF WakeInReadWait, WaitWhileWriting, Sleep, Resume
  <1>8. CASE TryLockShared(t)
    BY <1>8 DEF TryLockShared, Free
  <1>9. CASE UnlockShared(t)
    <2>1. sheld[t] = 1 => Cardinality(Readers) # 0
      <3>1. IsFiniteSet(Readers)
        BY FS_Subset DEF Readers
      <3> QED BY <3>1, FS_EmptySet DEF Readers
    <2>2. m_readerCount # 0
      BY <2>1, <1>9 DEF UnlockShared, CountInv
    <2> QED BY <1>9, <2>2 DEF UnlockShared
  <1> QED BY <1>1, <1>2, <1>3, <1>4, <1>5, <1>6, <1>7, <1>8, <1>9
       DEF Calls, Releases, Wakes

(* IInv holds throughout.                                                  *)
THEOREM Invariance == Spec => []IInv
  <1>1. Init => IInv
    <2> SUFFICES ASSUME Init PROVE IInv
      OBVIOUS
    <2>1. Readers = {} /\ Cardinality(Threads) \in Nat
      BY FS_CardinalityType DEF Init, Readers
    <2>2. Cardinality(Readers) = 0
      BY <2>1, FS_EmptySet
    <2>3. TypeOK
      <3>1. m_readerCount \in 0 .. Cardinality(Threads)
        BY <2>1 DEF Init
      <3>2. notified \subseteq OnWriteCond \cup OnReadCond
        BY DEF Init
      <3> QED BY <3>1, <3>2 DEF Init, TypeOK
    <2>4. AnnounceInv /\ HoldInv
      BY DEF Init, AnnounceInv, Announced, HoldInv
    <2>5. CountInv
      BY <2>2 DEF Init, CountInv
    <2> QED BY <2>3, <2>4, <2>5 DEF IInv
  <1>2. IInv /\ [Next]_vars => IInv'
    <2>1. ASSUME IInv, Next PROVE IInv'
      BY <2>1, TypeStep, CountStep, AnnounceStep, HoldStep DEF Next, IInv
    <2>2. ASSUME IInv, UNCHANGED vars PROVE IInv'
      BY <2>2 DEF vars, IInv, TypeOK, CountInv, Readers, AnnounceInv, Announced, HoldInv,
                  OnWriteCond, OnReadCond
    <2> QED BY <2>1, <2>2
  <1> QED BY <1>1, <1>2, PTL DEF Spec

(* Each variable stays in its type; m_readerCount never exceeds the number *)
(* of threads and never goes below 0 (it is unsigned in the code).         *)
THEOREM TypeCorrect == Spec => []TypeOK
  <1>1. IInv => TypeOK
    BY DEF IInv
  <1> QED BY <1>1, Invariance, PTL

LEMMA InvExcludes == IInv => MutualExclusion
  <1> SUFFICES ASSUME IInv, NEW t \in Threads, NEW u \in Threads, xheld[t] = 1, u # t
               PROVE  xheld[u] = 0 /\ sheld[u] = 0
    BY DEF MutualExclusion
  <1>1. xheld[u] = 0
    BY DEF IInv, TypeOK, AnnounceInv, Announced
  <1>2. Cardinality(Readers) = 0
    BY DEF IInv, CountInv, HoldInv
  <1>3. Readers = {}
    <2>1. IsFiniteSet(Readers)
      BY FS_Subset DEF Readers
    <2> QED BY <2>1, <1>2, FS_EmptySet
  <1> QED BY <1>1, <1>3 DEF Readers, IInv, TypeOK

(* A writer that lock() or try_lock() let in shares the mutex with nobody. *)
THEOREM MutualExclusionHolds == Spec => []MutualExclusion
  BY InvExcludes, Invariance, PTL

-----------------------------------------------------------------------------
(* Whoever goes to sleep has seen its condition false, and whoever makes a *)
(* condition true notifies.                                                *)
LEMMA NotifyStep ==
  ASSUME IInv, NoLostWakeup, NEW t \in Threads, Calls(t) \/ Releases(t) \/ Wakes(t)
  PROVE  NoLostWakeup'
  <1> USE DEF IInv, TypeOK, AnnounceInv, Announced, NoLostWakeup, OnWriteCond, OnReadCond
  <1>a. m_readerCount \in Nat
    BY FS_CardinalityType
  <1>1. CASE Lock(t)
    BY <1>1, <1>a DEF Lock, Free, WaitForWriter, WaitForReaders, Sleep, Resume
  <1>2. CASE WakeInWriteWait(t)
    BY <1>2, <1>a DEF WakeInWriteWait, WaitForWriter, WaitForReaders, Sleep, Resume
  <1>3. CASE WakeInDrain(t)
    BY <1>3, <1>a DEF WakeInDrain, WaitForReaders, Sleep, Resume
  <1>4. CASE TryLock(t)
    BY <1>4, <1>a DEF TryLock, Free
  <1>5. CASE Unlock(t)
    BY <1>5, <1>a DEF Unlock, OneOf
  <1>6. CASE LockShared(t)
    BY <1>6, <1>a DEF LockShared, Free, WaitWhileWriting, Sleep, Resume
  <1>7. CASE WakeInReadWait(t)
    BY <1>7, <1>a DEF WakeInReadWait, WaitWhileWriting, Sleep, Resume
  <1>8. CASE TryLockShared(t)
    BY <1>8, <1>a DEF TryLockShared, Free
  <1>9. CASE UnlockShared(t)
    BY <1>9, <1>a DEF UnlockShared
  <1> QED BY <1>1, <1>2, <1>3, <1>4, <1>5, <1>6, <1>7, <1>8, <1>9
       DEF Calls, Releases, Wakes

(* No wake-up is lost, although unlock() notifies one sleeper of each      *)
(* condition variable only and waiting readers share theirs with the       *)
(* writer that drains.                                                     *)
THEOREM NoWakeupIsLost == Spec => []NoLostWakeup
  <1>1. Init => NoLostWakeup
    BY DEF Init, NoLostWakeup
  <1>2. IInv /\ NoLostWakeup /\ [Next]_vars => NoLostWakeup'
    <2>1. ASSUME IInv, NoLostWakeup, Next PROVE NoLostWakeup'
      BY <2>1, NotifyStep DEF Next
    <2>2. ASSUME NoLostWakeup, UNCHANGED vars PROVE NoLostWakeup'
      BY <2>2 DEF vars, NoLostWakeup, OnWriteCond, OnReadCond
    <2> QED BY <2>1, <2>2
  <1> QED BY <1>1, <1>2, Invariance, PTL DEF Spec

-----------------------------------------------------------------------------
(* Every operation is an operation of the abstract lock or a stutter.      *)
LEMMA RefineStep ==
  ASSUME IInv, MutualExclusion', NEW t \in Threads, Calls(t) \/ Releases(t) \/ Wakes(t)
  PROVE  [Abstract!Next]_(Abstract!vars)
  <1>1. HoldsStep(t)
    BY HoldsChange
  <1>2. xheld \in [Threads -> {0, 1}] /\ sheld \in [Threads -> {0, 1}]
    BY DEF IInv, TypeOK
  <1>3. CASE UNCHANGED held
    BY <1>3 DEF held, Abstract!vars
  <1>4. CASE xheld[t] = 0 /\ xheld' = [xheld EXCEPT ![t] = 1] /\ UNCHANGED sheld
    <2>1. Abstract!AcquireExclusive(t)
      BY <1>2, <1>4 DEF MutualExclusion, Abstract!AcquireExclusive
    <2> QED BY <2>1 DEF Abstract!Next
  <1>5. CASE xheld[t] = 1 /\ xheld' = [xheld EXCEPT ![t] = 0] /\ UNCHANGED sheld
    <2>1. Abstract!ReleaseExclusive(t)
      BY <1>2, <1>5 DEF Abstract!ReleaseExclusive
    <2> QED BY <2>1 DEF Abstract!Next
  <1>6. CASE sheld[t] = 0 /\ sheld' = [sheld EXCEPT ![t] = 1] /\ UNCHANGED xheld
    <2>1. Abstract!AcquireShared(t)
      BY <1>2, <1>6 DEF MutualExclusion, Abstract!AcquireShared
    <2> QED BY <2>1 DEF Abstract!Next
  <1>7. CASE sheld[t] = 1 /\ sheld' = [sheld EXCEPT ![t] = 0] /\ UNCHANGED xheld
    <2>1. Abstract!ReleaseShared(t)
      BY <1>2, <1>7 DEF Abstract!ReleaseShared
    <2> QED BY <2>1 DEF Abstract!Next
  <1> QED BY <1>1, <1>3, <1>4, <1>5, <1>6, <1>7 DEF HoldsStep, held

(* The mutex implements the abstract lock RWLock.                          *)
THEOREM Refinement == Spec => ImplementsRWLock
  <1>1. Init => Abstract!Init
    BY DEF Init, Abstract!Init
  <1>2. IInv /\ MutualExclusion' /\ [Next]_vars => [Abstract!Next]_(Abstract!vars)
    <2>1. ASSUME IInv, MutualExclusion', Next PROVE [Abstract!Next]_(Abstract!vars)
      BY <2>1, RefineStep DEF Next
    <2>2. ASSUME UNCHANGED vars PROVE UNCHANGED Abstract!vars
      BY <2>2 DEF vars, Abstract!vars
    <2> QED BY <2>1, <2>2
  <1> QED BY <1>1, <1>2, Invariance, MutualExclusionHolds, PTL
       DEF Spec, ImplementsRWLock, Abstract!Spec
=============================================================================
