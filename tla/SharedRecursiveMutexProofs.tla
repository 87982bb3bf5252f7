--------------------- MODULE SharedRecursiveMutexProofs ---------------------
(***************************************************************************)
(* What the recursive wrapper keeps about its holds is backed by the mutex *)
(* it wraps, that mutex loses no wake-up, and the wrapper implements the   *)
(* abstract lock RWLock, for any finite set of threads and any nesting of  *)
(* their calls.                                                            *)
(*                                                                         *)
(* IInv is the inductive invariant.  MutexInv is about the wrapped mutex,  *)
(* for callers that nest as those of the wrapper do: one writer at a time, *)
(* while there are no readers.  WrapInv is about each thread: at which     *)
(* points of the wrapper's code it has which holds of the wrapped mutex.   *)
(***************************************************************************)
EXTENDS SharedRecursiveMutex, FiniteSetTheorems, TLAPS

Readers == {t \in Threads : msheld[t] = 1}

Announced(t) == mxheld[t] = 1 \/ pc[t] = "wait_drain"

CountInv == m_readerCount = Cardinality(Readers)

AnnounceInv ==
  /\ \A t \in Threads : Announced(t) => m_writeInProgress
  /\ \A t, u \in Threads : Announced(t) /\ Announced(u) => t = u

HoldInv ==
  \A t \in Threads :
    /\ mxheld[t] = 1 => m_readerCount = 0
    /\ pc[t] \in {"wait_write", "wait_drain"} => mxheld[t] = 0
    /\ pc[t] = "wait_read" => msheld[t] = 0

MutexInv == M!TypeOK /\ CountInv /\ AnnounceInv /\ HoldInv

WrapType ==
  /\ owner \in Threads \cup {None}
  /\ count \in Nat
  /\ at \in [Threads -> {"caller", "lock", "set_count", "clear_count", "unlock",
                         "lock_shared", "count_shared", "unlock_shared"}]
  /\ xheld \in [Threads -> Nat]
  /\ sheld \in [Threads -> Nat]
  /\ shared_counts = sheld

(* The thread is between m.lock() and m.unlock() without a hold of its own.*)
Changing == {"set_count", "clear_count", "unlock"}

ExclusiveInv(t) ==
  /\ xheld[t] > 0 =>
       mxheld[t] = 1 /\ count = xheld[t] /\ at[t] \notin Changing \cup {"lock"}
  /\ at[t] \in Changing => mxheld[t] = 1
  /\ xheld[t] = 0 /\ at[t] \notin Changing \cup {"lock"} => mxheld[t] = 0
  /\ owner = t <=> xheld[t] > 0 \/ at[t] = "set_count"

SharedInv(t) ==
  /\ sheld[t] > 0 => msheld[t] = 1 /\ at[t] \notin {"lock_shared", "unlock_shared"}
  /\ at[t] = "unlock_shared" => msheld[t] = 1
  /\ at[t] = "count_shared" => sheld[t] > 0
  /\ sheld[t] = 0 /\ at[t] \notin {"lock_shared", "unlock_shared"} => msheld[t] = 0

WaitInv(t) ==
  /\ pc[t] \in {"wait_write", "wait_drain"} => at[t] = "lock"
  /\ pc[t] = "wait_read" => at[t] = "lock_shared"

WrapInv ==
  WrapType /\ \A t \in Threads : ExclusiveInv(t) /\ SharedInv(t) /\ WaitInv(t)

IInv == MutexInv /\ WrapInv

USE SRMAssumption

-----------------------------------------------------------------------------
(* The wrapped mutex                                                       *)

(* What a step of the wrapper does to the mutex inside.                    *)
LockStep(t) ==
  \/ mxheld[t] = 0 /\ pc[t] \in {"idle", "wait_write"} /\ M!WaitForWriter(t)
  \/ M!WakeInDrain(t)

SharedStep(t) ==
  msheld[t] = 0 /\ pc[t] \in {"idle", "wait_read"} /\ M!WaitWhileWriting(t)

MutexStep(t) ==
  \/ LockStep(t) \/ SharedStep(t) \/ M!Unlock(t) \/ M!UnlockShared(t) \/ UNCHANGED m

LEMMA Invokes ==
  ASSUME IInv, NEW t \in Threads,
         Calls(t) \/ Releases(t) \/ Steps(t) \/ Inner(t)
  PROVE  MutexStep(t)
  <1> USE DEF MutexStep
  <1>1. CASE Calls(t)
    BY <1>1 DEF Calls, CallLock, CallLockShared
  <1>2. CASE Releases(t)
    BY <1>2 DEF Releases, CallUnlock, CallUnlockShared
  <1>3. CASE Steps(t)
    BY <1>3
       DEF Steps, SetOwner, SetCount, ClearCount, InMUnlock, CountShared, InMUnlockShared
  <1>4. CASE InMLock(t)
    BY <1>4 DEF InMLock, LockStep, M!WakeInWriteWait, IInv, MutexInv, HoldInv, M!TypeOK
  <1>5. CASE InMLockShared(t)
    BY <1>5
       DEF InMLockShared, SharedStep, M!WakeInReadWait, IInv, MutexInv, HoldInv, M!TypeOK
  <1> QED BY <1>1, <1>2, <1>3, <1>4, <1>5 DEF Inner

(* CondSharedMutex counts its threads with the same operator.              *)
LEMMA SameCardinality == M!Cardinality(Threads) = Cardinality(Threads)
  BY DEF M!Cardinality, Cardinality

LEMMA NoReaders ==
  ASSUME M!TypeOK, CountInv
  PROVE  /\ m_readerCount \in Nat
         /\ m_readerCount = 0 => \A t \in Threads : msheld[t] = 0
  <1>1. IsFiniteSet(Readers) /\ Cardinality(Readers) \in Nat
    BY FS_Subset, FS_CardinalityType DEF Readers
  <1>2. m_readerCount = 0 => Readers = {}
    BY <1>1, FS_EmptySet DEF CountInv
  <1> QED BY <1>1, <1>2 DEF CountInv, Readers, M!TypeOK

(* A holder of the wrapped mutex is alone.                                 *)
LEMMA Excludes ==
  ASSUME MutexInv, NEW t \in Threads, mxheld[t] = 1
  PROVE  \A u \in Threads : msheld[u] = 0 /\ (u # t => mxheld[u] = 0)
  <1>1. \A u \in Threads : msheld[u] = 0
    BY NoReaders DEF MutexInv, HoldInv
  <1>2. \A u \in Threads : u # t => mxheld[u] = 0
    BY DEF MutexInv, AnnounceInv, Announced, M!TypeOK
  <1> QED BY <1>1, <1>2

(* m_readerCount follows the set of readers.                               *)
LEMMA CountStep ==
  ASSUME MutexInv, NEW t \in Threads, MutexStep(t)
  PROVE  CountInv' /\ m_readerCount' \in 0 .. Cardinality(Threads)
  <1> USE DEF M!TypeOK
  <1>a. /\ IsFiniteSet(Readers) /\ Cardinality(Readers) \in Nat
        /\ Cardinality(Threads) \in Nat
    BY FS_Subset, FS_CardinalityType DEF Readers
  <1>b. /\ msheld \in [Threads -> {0, 1}] /\ m_readerCount = Cardinality(Readers)
        /\ m_readerCount \in 0 .. Cardinality(Threads)
    BY SameCardinality DEF MutexInv, CountInv
  <1>1. \/ UNCHANGED <<msheld, m_readerCount>>
        \/ /\ msheld[t] = 0 /\ msheld' = [msheld EXCEPT ![t] = 1]
           /\ m_readerCount' = m_readerCount + 1
        \/ /\ msheld[t] = 1 /\ msheld' = [msheld EXCEPT ![t] = 0]
           /\ m_readerCount' = m_readerCount - 1
    BY DEF MutexStep, LockStep, SharedStep, M!WaitForWriter, M!WakeInDrain,
           M!WaitWhileWriting, M!Unlock, M!UnlockShared, m
  <1>2. CASE UNCHANGED <<msheld, m_readerCount>>
    <2>1. Readers' = Readers
      BY <1>2 DEF Readers
    <2> QED BY <2>1, <1>2, <1>b DEF CountInv
  <1>3. CASE /\ msheld[t] = 0 /\ msheld' = [msheld EXCEPT ![t] = 1]
             /\ m_readerCount' = m_readerCount + 1
    <2>1. Readers' = Readers \cup {t} /\ t \notin Readers
      BY <1>3, <1>b DEF Readers
    <2>2. Cardinality(Readers') = Cardinality(Readers) + 1
      BY <2>1, <1>a, FS_AddElement
    <2>3. Readers' \in SUBSET Threads
      BY DEF Readers
    <2>4. Cardinality(Readers') <= Cardinality(Threads)
      BY <2>3, FS_Subset
    <2>5. m_readerCount' = Cardinality(Readers')
      BY <2>2, <1>3, <1>b
    <2> QED BY <2>2, <2>4, <2>5, <1>a DEF CountInv
  <1>4. CASE /\ msheld[t] = 1 /\ msheld' = [msheld EXCEPT ![t] = 0]
             /\ m_readerCount' = m_readerCount - 1
    <2>1. Readers' = Readers \ {t} /\ t \in Readers
      BY <1>4, <1>b DEF Readers
    <2>2. /\ Cardinality(Readers') = Cardinality(Readers) - 1
          /\ IsFiniteSet(Readers')
      BY <2>1, <1>a, FS_RemoveElement
    <2>3. Cardinality(Readers') \in Nat
      BY <2>2, FS_CardinalityType
    <2>4. m_readerCount' = Cardinality(Readers')
      BY <2>2, <1>4, <1>b
    <2> QED BY <2>3, <2>4, <1>4, <1>a, <1>b DEF CountInv
  <1> QED BY <1>1, <1>2, <1>3, <1>4

(* A step of its caller keeps the wrapped mutex consistent.                *)
LEMMA MutexStays ==
  ASSUME MutexInv, NEW t \in Threads, MutexStep(t)
  PROVE  MutexInv'
  <1> USE DEF M!TypeOK, M!OnWriteCond, M!OnReadCond, AnnounceInv, Announced, HoldInv
  <1>a. CountInv' /\ m_readerCount' \in 0 .. M!Cardinality(Threads)
    BY CountStep, SameCardinality
  <1>b. m_readerCount \in Nat /\ (m_readerCount = 0 => \A u \in Threads : msheld[u] = 0)
    BY NoReaders DEF MutexInv
  <1>1. CASE mxheld[t] = 0 /\ pc[t] \in {"idle", "wait_write"} /\ M!WaitForWriter(t)
    <2> USE <1>1 DEF MutexInv, M!WaitForWriter, M!WaitForReaders, M!Sleep, M!Resume
    <2>1. M!TypeOK'
      <3>1. /\ m_writeInProgress' \in BOOLEAN
            /\ mxheld' \in [Threads -> {0, 1}] /\ msheld' \in [Threads -> {0, 1}]
        OBVIOUS
      <3>2. pc' \in [Threads -> {"idle", "wait_write", "wait_drain", "wait_read"}]
        OBVIOUS
      <3>3. \A u \in Threads \ {t} : pc'[u] = pc[u]
        OBVIOUS
      <3>4. notified' = notified \ {t}
        OBVIOUS
      <3>5. notified' \subseteq (M!OnWriteCond \cup M!OnReadCond)'
        BY <3>3, <3>4
      <3> QED BY <3>1, <3>2, <3>5, <1>a
    <2>2. AnnounceInv' /\ HoldInv'
      OBVIOUS
    <2> QED BY <1>a, <2>1, <2>2
  <1>2. CASE M!WakeInDrain(t)
    <2> USE <1>2 DEF MutexInv, M!WakeInDrain, M!WaitForReaders, M!Sleep, M!Resume
    <2>1. M!TypeOK'
      BY <1>a
    <2>2. AnnounceInv' /\ HoldInv'
      OBVIOUS
    <2> QED BY <1>a, <2>1, <2>2
  <1>3. CASE SharedStep(t)
    <2> USE <1>3 DEF MutexInv, SharedStep, M!WaitWhileWriting, M!Sleep, M!Resume
    <2>1. M!TypeOK'
      BY <1>a
    <2>2. AnnounceInv' /\ HoldInv'
      OBVIOUS
    <2> QED BY <1>a, <2>1, <2>2
  <1>4. CASE M!Unlock(t)
    <2>1. \A w \in M!OneOf(M!OnWriteCond) : w \subseteq M!OnWriteCond
      BY DEF M!OneOf
    <2>2. \A r \in M!OneOf(M!OnReadCond) : r \subseteq M!OnReadCond
      BY DEF M!OneOf
    <2>3. notified' \subseteq M!OnWriteCond \cup M!OnReadCond
      BY <2>1, <2>2, <1>4 DEF M!Unlock, MutexInv
    <2>4. M!TypeOK'
      BY <2>3, <1>4, <1>a DEF M!Unlock, MutexInv
    <2>5. AnnounceInv' /\ HoldInv'
      BY <1>4 DEF M!Unlock, MutexInv
    <2> QED BY <1>a, <2>4, <2>5 DEF MutexInv
  <1>5. CASE M!UnlockShared(t)
    <2>1. m_readerCount # 0
      BY <1>5, <1>b DEF M!UnlockShared
    <2>2. M!TypeOK'
      BY <1>5, <1>a DEF M!UnlockShared, MutexInv
    <2>3. AnnounceInv' /\ HoldInv'
      BY <1>5, <2>1 DEF M!UnlockShared, MutexInv
    <2> QED BY <1>a, <2>2, <2>3 DEF MutexInv
  <1>6. CASE UNCHANGED m
    <2>1. M!TypeOK'
      BY <1>6, <1>a DEF m, MutexInv
    <2>2. AnnounceInv' /\ HoldInv'
      BY <1>6 DEF m, MutexInv
    <2> QED BY <1>a, <2>1, <2>2 DEF MutexInv
  <1> QED BY <1>1, <1>2, <1>3, <1>4, <1>5, <1>6 DEF MutexStep, LockStep

(* Nor does such a step lose a wake-up: whoever goes to sleep has seen its *)
(* condition false, and whoever makes a condition true notifies.           *)
LEMMA NotifyStep ==
  ASSUME MutexInv, M!NoLostWakeup, NEW t \in Threads, MutexStep(t)
  PROVE  M!NoLostWakeup'
  <1> USE DEF M!NoLostWakeup, M!OnWriteCond, M!OnReadCond, M!TypeOK
  <1>a. m_readerCount \in Nat
    BY NoReaders DEF MutexInv
  <1>b. \A u \in Threads : mxheld[u] = 1 => m_writeInProgress /\ pc[u] # "wait_drain"
    BY DEF MutexInv, AnnounceInv, Announced, HoldInv
  <1>1. CASE LockStep(t)
    BY <1>1, <1>a, <1>b DEF LockStep, M!WaitForWriter, M!WakeInDrain, M!WaitForReaders, M!Sleep,
       M!Resume, MutexInv, AnnounceInv, Announced
  <1>2. CASE SharedStep(t)
    BY <1>2, <1>a DEF SharedStep, M!WaitWhileWriting, M!Sleep, M!Resume, MutexInv,
       AnnounceInv, Announced
  <1>3. CASE M!Unlock(t)
    BY <1>3, <1>a, <1>b DEF M!Unlock, M!OneOf, MutexInv, AnnounceInv, Announced
  <1>4. CASE M!UnlockShared(t)
    BY <1>4, <1>a DEF M!UnlockShared, MutexInv
  <1>5. CASE UNCHANGED m
    BY <1>5 DEF m
  <1> QED BY <1>1, <1>2, <1>3, <1>4, <1>5 DEF MutexStep

-----------------------------------------------------------------------------
(* The wrapper                                                             *)

(* A step of t leaves what WrapInv says of the other threads.              *)
LEMMA WrapStep ==
  ASSUME IInv, NEW t \in Threads,
         Calls(t) \/ Releases(t) \/ Steps(t) \/ Inner(t)
  PROVE  WrapInv'
  <1> USE DEF WrapInv, WrapType, ExclusiveInv, SharedInv, WaitInv, Changing, Go, Plus,
      Minus
  <1>a. WrapInv /\ MutexInv
    BY DEF IInv
  <1>b. /\ pc \in [Threads -> {"idle", "wait_write", "wait_drain", "wait_read"}]
        /\ mxheld \in [Threads -> {0, 1}]
        /\ msheld \in [Threads -> {0, 1}]
    BY DEF IInv, MutexInv, M!TypeOK
  <1>c. \A u, w \in Threads : mxheld[u] = 1 /\ mxheld[w] = 1 => u = w
    BY DEF IInv, MutexInv, AnnounceInv, Announced
  <1>1. CASE CallLock(t)
    BY <1>1, <1>a, <1>b, <1>c
       DEF CallLock, m, MayAcquire
  <1>2. CASE InMLock(t)
    BY <1>2, <1>a, <1>b, <1>c
       DEF InMLock, M!WakeInWriteWait, M!WakeInDrain, M!WaitForWriter,
       M!WaitForReaders, M!Sleep, M!Resume
  <1>3. CASE SetOwner(t)
    BY <1>3, <1>a, <1>b, <1>c
       DEF SetOwner, m, MayAcquire
  <1>4. CASE SetCount(t)
    BY <1>4, <1>a, <1>b, <1>c
       DEF SetCount, m, MayAcquire
  <1>5. CASE CallUnlock(t)
    BY <1>5, <1>a, <1>b, <1>c
       DEF CallUnlock, m, MayAcquire
  <1>6. CASE ClearCount(t)
    BY <1>6, <1>a, <1>b, <1>c
       DEF ClearCount, m, MayAcquire
  <1>7. CASE InMUnlock(t)
    BY <1>7, <1>a, <1>b, <1>c
       DEF InMUnlock, M!Unlock
  <1>8. CASE CallLockShared(t)
    BY <1>8, <1>a, <1>b, <1>c
       DEF CallLockShared, m, MayAcquire
  <1>9. CASE InMLockShared(t)
    BY <1>9, <1>a, <1>b, <1>c
       DEF InMLockShared, M!WakeInReadWait, M!WaitWhileWriting, M!Sleep, M!Resume
  <1>10. CASE CountShared(t)
    BY <1>10, <1>a, <1>b, <1>c
       DEF CountShared, m, MayAcquire
  <1>11. CASE CallUnlockShared(t)
    BY <1>11, <1>a, <1>b, <1>c
       DEF CallUnlockShared, m, MayAcquire
  <1>12. CASE InMUnlockShared(t)
    BY <1>12, <1>a, <1>b, <1>c
       DEF InMUnlockShared, M!UnlockShared
  <1> QED BY <1>1, <1>2, <1>3, <1>4, <1>5, <1>6, <1>7, <1>8, <1>9, <1>10, <1>11, <1>12
       DEF Calls, Releases, Steps, Inner

(* IInv holds throughout.                                                  *)
THEOREM Invariance == Spec => []IInv
  <1>1. Init => IInv
    <2> SUFFICES ASSUME Init PROVE IInv
      OBVIOUS
    <2>1. Readers = {} /\ Cardinality(Threads) \in Nat
      BY FS_CardinalityType DEF Init, M!Init, Readers
    <2>2. Cardinality(Readers) = 0
      BY <2>1, FS_EmptySet
    <2>3. M!TypeOK
      <3>1. m_readerCount \in 0 .. M!Cardinality(Threads)
        BY <2>1, SameCardinality DEF Init, M!Init
      <3>2. notified \subseteq M!OnWriteCond \cup M!OnReadCond
        BY DEF Init, M!Init
      <3> QED BY <3>1, <3>2 DEF Init, M!Init, M!TypeOK
    <2>4. CountInv /\ AnnounceInv /\ HoldInv
      BY <2>2 DEF Init, M!Init, CountInv, AnnounceInv, Announced, HoldInv
    <2>5. WrapInv
      BY DEF Init, M!Init, WrapInv, WrapType, ExclusiveInv, SharedInv, WaitInv, Changing
    <2> QED BY <2>3, <2>4, <2>5 DEF IInv, MutexInv
  <1>2. IInv /\ [Next]_vars => IInv'
    <2>1. ASSUME IInv, NEW t \in Threads,
                 Calls(t) \/ Releases(t) \/ Steps(t) \/ Inner(t)
          PROVE  IInv'
      <3>1. MutexInv'
        BY <2>1, Invokes, MutexStays DEF IInv
      <3> QED BY <2>1, <3>1, WrapStep DEF IInv
    <2>2. ASSUME IInv, UNCHANGED vars PROVE IInv'
      <3>1. MutexInv'
        BY <2>2 DEF vars, m, IInv, MutexInv, M!TypeOK, M!OnWriteCond, M!OnReadCond,
                    CountInv, Readers, AnnounceInv, Announced, HoldInv
      <3>2. WrapInv'
        BY <2>2 DEF vars, m, IInv, WrapInv, WrapType, ExclusiveInv, SharedInv, WaitInv
      <3> QED BY <3>1, <3>2 DEF IInv
    <2> QED BY <2>1, <2>2 DEF Next
  <1> QED BY <1>1, <1>2, PTL DEF Spec

(* Each variable of the wrapper and of the mutex inside stays in its type. *)
THEOREM TypeCorrect == Spec => []TypeOK
  <1>1. IInv => TypeOK
    BY DEF IInv, MutexInv, WrapInv, WrapType, TypeOK
  <1> QED BY <1>1, Invariance, PTL

(* owner, count and the map, written outside the critical sections of the  *)
(* mutex inside, agree with what the callers hold and with what that mutex *)
(* believes.                                                               *)
THEOREM HoldsAreBackedHolds == Spec => []HoldsAreBacked
  <1>1. IInv => HoldsAreBacked
    <2> SUFFICES ASSUME IInv, NEW t \in Threads
                 PROVE  /\ xheld[t] > 0 => mxheld[t] = 1 /\ owner = t /\ count = xheld[t]
                        /\ sheld[t] > 0 => msheld[t] = 1
                        /\ owner = t => mxheld[t] = 1
                        /\ at[t] = "caller" => shared_counts[t] = sheld[t]
      BY DEF HoldsAreBacked
    <2> QED BY DEF IInv, WrapInv, WrapType, ExclusiveInv, SharedInv, Changing
  <1> QED BY <1>1, Invariance, PTL

(* The mutex inside loses no wake-up either, although the wrapper's callers *)
(* may ask for it while they hold it (a reader that nests lock() waits for *)
(* itself, but keeps nobody else asleep whose condition holds).            *)
THEOREM NoWakeupIsLost == Spec => []M!NoLostWakeup
  <1>1. Init => M!NoLostWakeup
    BY DEF Init, M!Init, M!NoLostWakeup
  <1>2. IInv /\ M!NoLostWakeup /\ [Next]_vars => M!NoLostWakeup'
    <2>1. ASSUME IInv, M!NoLostWakeup, Next PROVE M!NoLostWakeup'
      BY <2>1, Invokes, NotifyStep DEF Next, IInv
    <2>2. ASSUME M!NoLostWakeup, UNCHANGED vars PROVE M!NoLostWakeup'
      BY <2>2 DEF vars, m, M!NoLostWakeup, M!OnWriteCond, M!OnReadCond
    <2> QED BY <2>1, <2>2
  <1> QED BY <1>1, <1>2, Invariance, PTL DEF Spec

-----------------------------------------------------------------------------
(* Every step is an operation of the abstract lock or a stutter.           *)
LEMMA RefineStep ==
  ASSUME IInv, IInv', NEW t \in Threads,
         Calls(t) \/ Releases(t) \/ Steps(t) \/ Inner(t)
  PROVE  [Abstract!Next]_(Abstract!vars)
  <1> USE DEF Plus, Minus
  <1>a. /\ xheld \in [Threads -> Nat] /\ sheld \in [Threads -> Nat]
        /\ shared_counts = sheld
    BY DEF IInv, WrapInv, WrapType
  <1>1. CASE xheld' = Plus(xheld, t, 1) /\ UNCHANGED <<sheld, m>>
    <2>1. xheld'[t] > 0
      BY <1>1, <1>a
    <2>2. mxheld[t] = 1
      BY <2>1, <1>1 DEF IInv, WrapInv, ExclusiveInv, m
    <2>3. \A u \in Threads \ {t} : xheld[u] = 0 /\ sheld[u] = 0
      BY <2>2, <1>a, Excludes DEF IInv, WrapInv, ExclusiveInv, SharedInv
    <2>4. Abstract!AcquireExclusive(t)
      BY <1>1, <2>3 DEF Abstract!AcquireExclusive
    <2> QED BY <2>4 DEF Abstract!Next
  <1>2. CASE xheld[t] > 0 /\ xheld' = Minus(xheld, t, 1) /\ UNCHANGED sheld
    <2>1. Abstract!ReleaseExclusive(t)
      BY <1>2 DEF Abstract!ReleaseExclusive
    <2> QED BY <2>1 DEF Abstract!Next
  <1>3. CASE sheld' = Plus(sheld, t, 1) /\ UNCHANGED <<xheld, m>>
    <2>1. sheld'[t] > 0
      BY <1>3, <1>a
    <2>2. msheld[t] = 1
      BY <2>1, <1>3 DEF IInv, WrapInv, SharedInv, m
    <2>3. \A u \in Threads : mxheld[u] # 1
      BY <2>2, Excludes DEF IInv
    <2>4. \A u \in Threads \ {t} : xheld[u] = 0
      BY <2>3, <1>a DEF IInv, WrapInv, ExclusiveInv
    <2>5. Abstract!AcquireShared(t)
      BY <1>3, <2>4 DEF Abstract!AcquireShared
    <2> QED BY <2>5 DEF Abstract!Next
  <1>4. CASE sheld[t] > 0 /\ sheld' = Minus(sheld, t, 1) /\ UNCHANGED xheld
    <2>1. Abstract!ReleaseShared(t)
      BY <1>4 DEF Abstract!ReleaseShared
    <2> QED BY <2>1 DEF Abstract!Next
  <1>5. CASE UNCHANGED <<xheld, sheld>>
    BY <1>5 DEF Abstract!vars
  <1>6. CASE CallLock(t) \/ SetCount(t)
    BY <1>6, <1>1, <1>5 DEF CallLock, SetCount
  <1>7. CASE CallUnlock(t)
    BY <1>7, <1>2 DEF CallUnlock
  <1>8. CASE CountShared(t)
    BY <1>8, <1>3 DEF CountShared
  <1>9. CASE CallUnlockShared(t)
    BY <1>9, <1>4 DEF CallUnlockShared
  <1>10. CASE CallLockShared(t) \/ Inner(t)
    BY <1>10, <1>5 DEF CallLockShared, Inner, InMLock, InMLockShared
  <1>11. CASE SetOwner(t) \/ ClearCount(t) \/ InMUnlock(t) \/ InMUnlockShared(t)
    BY <1>11, <1>5 DEF SetOwner, ClearCount, InMUnlock, InMUnlockShared
  <1> QED BY <1>6, <1>7, <1>8, <1>9, <1>10, <1>11 DEF Calls, Releases, Steps

(* The recursive wrapper implements the abstract lock RWLock: a thread     *)
(* that holds it exclusively is alone however the others interleave with   *)
(* its updates of owner, count and the map.                                *)
THEOREM Refinement == Spec => ImplementsRWLock
  <1>1. Init => Abstract!Init
    BY DEF Init, Abstract!Init
  <1>2. IInv /\ IInv' /\ [Next]_vars => [Abstract!Next]_(Abstract!vars)
    <2>1. ASSUME IInv, IInv', Next PROVE [Abstract!Next]_(Abstract!vars)
      BY <2>1, RefineStep DEF Next
    <2>2. ASSUME UNCHANGED vars PROVE UNCHANGED Abstract!vars
      BY <2>2 DEF vars, Abstract!vars
    <2> QED BY <2>1, <2>2
  <1> QED BY <1>1, <1>2, Invariance, PTL DEF Spec, ImplementsRWLock, Abstract!Spec
=============================================================================
