--------------------- MODULE RecursiveSharedMutexProofs ---------------------
(***************************************************************************)
(* The recursive shared mutex, for any finite set of threads.  Without     *)
(* try_lock(), whose test of the state word is inverted, it excludes, its  *)
(* state word and its recursion count say what the callers hold, it        *)
(* implements the abstract lock RWLock and, as long as there are not more  *)
(* threads than the word can count readers, it loses no wake-up.  With     *)
(* try_lock() the recursion count still counts the holds.                  *)
(*                                                                         *)
(* IInv is the inductive invariant without try_lock(): who has m_mutex and *)
(* what a label says (ControlInv), what the bits of the state word count   *)
(* (CountInv), and what m_write_thread and m_write_recurses say of the     *)
(* writer (WriterInv).  CoreInv is the one of all operations: whose turn   *)
(* it is on m_mutex (TurnInv), and the count of the holds, finitely many.  *)
(***************************************************************************)
EXTENDS RecursiveSharedMutex, FiniteSetTheorems, TLAPS

NoTryLock == "try_lock" \notin Operations

NoReaderLimit == Cardinality(Threads) <= MaxReaders

(* The threads the word counts: unlock_shared() has still to take t off.   *)
Readers == {t \in Threads : sheld[t] = 1 \/ pc[t] = "unlock_shared"}

(* Whose turn it is on m_mutex, whatever is called.                        *)
TurnInv ==
  \A t \in Threads :
    /\ m_mutex = t <=> pc[t] \in {"lock", "unlock", "lock_shared", "unlock_shared"}
    /\ sheld[t] = 1 => pc[t] = "idle" /\ xheld[t] = 0
    /\ pc[t] \in {"lock_shared", "wait_reader"} => xheld[t] = 0

ControlInv ==
  \A t \in Threads :
    /\ m_mutex = t <=> pc[t] \in {"lock", "unlock", "lock_shared", "unlock_shared"}
    /\ sheld[t] = 1 => pc[t] = "idle" /\ xheld[t] = 0
    /\ pc[t] \in {"lock_shared", "unlock_shared", "wait_writer", "wait_drain",
                  "wait_reader"} => xheld[t] = 0

CountInv == readers = Cardinality(Readers)

(* The thread is the writer, or is about to give back what it held.        *)
Writes(t) == xheld[t] > 0 \/ (pc[t] = "unlock" /\ m_write_recurses > 0)

WriterInv ==
  /\ \A t \in Threads : Writes(t) => m_write_recurses > 0 /\ m_write_thread = t
  /\ m_write_recurses > 0 =>
       /\ m_write_thread \in Threads
       /\ m_write_recurses = xheld[m_write_thread]
                               + IF pc[m_write_thread] = "unlock" THEN 1 ELSE 0
       /\ m_write_entered /\ readers = 0
  /\ \A t \in Threads : pc[t] = "wait_drain" => m_write_entered /\ m_write_recurses = 0
  /\ \A t, u \in Threads : pc[t] = "wait_drain" /\ pc[u] = "wait_drain" => t = u

IInv == TypeOK /\ ControlInv /\ CountInv /\ WriterInv

USE RSMAssumption DEF state, writer

(* An operation of one thread touches nothing private to another.          *)
LEMMA OthersStep ==
  ASSUME TypeOK, NEW t \in Threads,
         Calls(t) \/ Releases(t) \/ Bodies(t) \/ Wakes(t),
         NEW u \in Threads, u # t
  PROVE  pc'[u] = pc[u] /\ xheld'[u] = xheld[u] /\ sheld'[u] = sheld[u]
  <1> USE DEF TypeOK
  <1>1. CASE EnterLock(t)
    BY <1>1 DEF EnterLock, MayCall, Enter, Goto
  <1>2. CASE EnterUnlockUnlocked(t)
    BY <1>2 DEF EnterUnlockUnlocked, MayCall, Enter, Goto
  <1>3. CASE TryLock(t)
    BY <1>3 DEF TryLock, MayCall, Granted
  <1>4. CASE TryLockShared(t)
    BY <1>4 DEF TryLockShared, MayCall
  <1>5. CASE EnterUnlock(t)
    BY <1>5 DEF EnterUnlock, Enter, Goto
  <1>6. CASE EnterUnlockShared(t)
    BY <1>6 DEF EnterUnlockShared, Enter, Goto
  <1>7. CASE LockBody(t)
    BY <1>7 DEF LockBody, Running, do_exclusive_lock, Drain, Granted, Goto
  <1>8. CASE UnlockBody(t)
    BY <1>8 DEF UnlockBody, Running, Goto
  <1>9. CASE NotifyAll(t)
    BY <1>9 DEF NotifyAll
  <1>10. CASE LockSharedBody(t)
    BY <1>10 DEF LockSharedBody, Running, do_lock_shared, Goto
  <1>11. CASE UnlockSharedBody(t)
    BY <1>11 DEF UnlockSharedBody, Running, decrement_readers
  <1>12. CASE WakeInWriterWait(t)
    BY <1>12 DEF WakeInWriterWait, Woken, do_exclusive_lock, Drain, Granted, Goto
  <1>13. CASE WakeInDrain(t)
    BY <1>13 DEF WakeInDrain, Woken, Drain, Granted, Goto
  <1>14. CASE WakeInReaderWait(t)
    BY <1>14 DEF WakeInReaderWait, Woken, do_lock_shared, Goto
  <1> QED BY <1>1, <1>2, <1>3, <1>4, <1>5, <1>6, <1>7, <1>8, <1>9,
            <1>10, <1>11, <1>12, <1>13, <1>14
       DEF Calls, Releases, Bodies, Wakes

(* What an operation of t does to the readers and their count.             *)
ReadersStep(t) ==
  \/ Readers' = Readers /\ readers' = readers
  \/ /\ t \notin Readers /\ Readers' = Readers \cup {t}
     /\ readers < MaxReaders /\ ~m_write_entered /\ readers' = readers + 1
  \/ /\ t \in Readers /\ Readers' = Readers \ {t}
     /\ decrement_readers
  \/ Readers' = Readers /\ m_write_recurses = 1 /\ readers' = 0

LEMMA ReadersChange ==
  ASSUME NoTryLock, IInv, NEW t \in Threads,
         Calls(t) \/ Releases(t) \/ Bodies(t) \/ Wakes(t)
  PROVE  ReadersStep(t)
  <1> USE DEF IInv, TypeOK
  <1>a. \A u \in Threads : u # t => (u \in Readers' <=> u \in Readers)
    BY OthersStep DEF Readers
  <1>b. t \in Readers <=> sheld[t] = 1 \/ pc[t] = "unlock_shared"
    BY DEF Readers
  <1>c. t \in Readers' <=> sheld'[t] = 1 \/ pc'[t] = "unlock_shared"
    BY DEF Readers
  <1>d. Readers \subseteq Threads /\ Readers' \subseteq Threads
    BY DEF Readers
  <1>e. /\ (t \in Readers' <=> t \in Readers) => Readers' = Readers
        /\ t \in Readers' /\ t \notin Readers => Readers' = Readers \cup {t}
        /\ t \notin Readers' /\ t \in Readers => Readers' = Readers \ {t}
    BY <1>a, <1>d
  <1>1. CASE EnterLock(t)
    BY <1>1, <1>b, <1>c, <1>e DEF EnterLock, MayCall, Enter, Goto, ControlInv,
         ReadersStep
  <1>2. CASE EnterUnlockUnlocked(t)
    BY <1>2, <1>b, <1>c, <1>e DEF EnterUnlockUnlocked, MayCall, Enter, Goto,
         ControlInv, ReadersStep
  <1>3. CASE TryLock(t)
    BY <1>3, <1>b, <1>c, <1>e DEF TryLock, MayCall, NoTryLock, Granted,
         ControlInv, ReadersStep
  <1>4. CASE TryLockShared(t)
    BY <1>4, <1>b, <1>c, <1>e DEF TryLockShared, MayCall, ControlInv, ReadersStep
  <1>5. CASE EnterUnlock(t)
    BY <1>5, <1>b, <1>c, <1>e DEF EnterUnlock, Enter, Goto, ControlInv, ReadersStep
  <1>6. CASE EnterUnlockShared(t)
    BY <1>6, <1>b, <1>c, <1>e DEF EnterUnlockShared, Enter, Goto, ControlInv,
         ReadersStep
  <1>7. CASE LockBody(t)
    BY <1>7, <1>b, <1>c, <1>e DEF LockBody, Running, do_exclusive_lock, Drain,
         Granted, Goto, ControlInv, ReadersStep
  <1>8. CASE UnlockBody(t)
    BY <1>8, <1>b, <1>c, <1>e DEF UnlockBody, Running, Goto, ControlInv, ReadersStep
  <1>9. CASE NotifyAll(t)
    BY <1>9, <1>b, <1>c, <1>e DEF NotifyAll, ControlInv, ReadersStep
  <1>10. CASE LockSharedBody(t)
    BY <1>10, <1>b, <1>c, <1>e DEF LockSharedBody, Running, do_lock_shared, Goto,
         ControlInv, ReadersStep
  <1>11. CASE UnlockSharedBody(t)
    BY <1>11, <1>b, <1>c, <1>e DEF UnlockSharedBody, Running, decrement_readers,
         ControlInv, ReadersStep
  <1>12. CASE WakeInWriterWait(t)
    BY <1>12, <1>b, <1>c, <1>e DEF WakeInWriterWait, Woken, do_exclusive_lock,
         Drain, Granted, Goto, ControlInv, ReadersStep
  <1>13. CASE WakeInDrain(t)
    BY <1>13, <1>b, <1>c, <1>e DEF WakeInDrain, Woken, Drain, Granted, Goto,
         ControlInv, ReadersStep
  <1>14. CASE WakeInReaderWait(t)
    BY <1>14, <1>b, <1>c, <1>e DEF WakeInReaderWait, Woken, do_lock_shared, Goto,
         ControlInv, ReadersStep
  <1> QED BY <1>1, <1>2, <1>3, <1>4, <1>5, <1>6, <1>7, <1>8, <1>9,
            <1>10, <1>11, <1>12, <1>13, <1>14
       DEF Calls, Releases, Bodies, Wakes

(* The state word counts the readers; the unlock() of a writer clears it   *)
(* when it counts nobody.                                                  *)
LEMMA CountStep ==
  ASSUME NoTryLock, IInv, NEW t \in Threads,
         Calls(t) \/ Releases(t) \/ Bodies(t) \/ Wakes(t)
  PROVE  CountInv' /\ readers' \in 0 .. MaxReaders
  <1>a. IsFiniteSet(Readers) /\ Cardinality(Readers) \in Nat
    BY FS_Subset, FS_CardinalityType DEF Readers
  <1>b. readers = Cardinality(Readers) /\ readers \in 0 .. MaxReaders
    BY DEF IInv, TypeOK, CountInv
  <1>1. ReadersStep(t)
    BY ReadersChange
  <1>2. CASE Readers' = Readers /\ readers' = readers
    BY <1>2, <1>b DEF CountInv
  <1>3. CASE /\ t \notin Readers /\ Readers' = Readers \cup {t}
             /\ readers < MaxReaders /\ readers' = readers + 1
    <2>1. Cardinality(Readers') = Cardinality(Readers) + 1
      BY <1>3, <1>a, FS_AddElement
    <2> QED BY <2>1, <1>3, <1>b DEF CountInv
  <1>4. CASE t \in Readers /\ Readers' = Readers \ {t} /\ decrement_readers
    <2>1. Cardinality(Readers') = Cardinality(Readers) - 1 /\ IsFiniteSet(Readers')
      BY <1>4, <1>a, FS_RemoveElement
    <2>2. Cardinality(Readers') \in Nat
      BY <2>1, FS_CardinalityType
    <2>3. readers > 0
      BY <2>1, <2>2, <1>a, <1>b
    <2>4. readers' = readers - 1
      BY <2>3, <1>4 DEF decrement_readers
    <2> QED BY <2>1, <2>3, <2>4, <1>b DEF CountInv
  <1>5. CASE Readers' = Readers /\ m_write_recurses = 1 /\ readers' = 0
    <2>1. readers = 0
      BY <1>5 DEF IInv, WriterInv
    <2> QED BY <2>1, <1>5, <1>b DEF CountInv
  <1> QED BY <1>1, <1>2, <1>3, <1>4, <1>5 DEF ReadersStep

(* A thread that gives a shared hold back is counted.                      *)
LEMMA CountedReader ==
  ASSUME IInv, NEW t \in Threads, t \in Readers
  PROVE  readers > 0
  <1>1. IsFiniteSet(Readers)
    BY FS_Subset DEF Readers
  <1>2. Cardinality(Readers) # 0 /\ Cardinality(Readers) \in Nat
    BY <1>1, FS_EmptySet, FS_CardinalityType
  <1> QED BY <1>2 DEF IInv, CountInv

LEMMA UnlockSharedNotifies ==
  ASSUME NEW t \in Threads, UnlockSharedBody(t)
  PROVE  notified' \subseteq notified \cup OnSharedRelease \cup OnExclusiveRelease
  <1>1. \A S : \A s \in OneOf(S) : s \subseteq S
    BY DEF OneOf
  <1>2. \/ notified' = notified
        \/ \E s \in OneOf(OnSharedRelease) : notified' = notified \cup s
        \/ \E s \in OneOf(OnExclusiveRelease) : notified' = notified \cup s
    BY DEF UnlockSharedBody
  <1> QED BY <1>1, <1>2

(* Only sleepers are notified, and who leaves its wait is not any more.    *)
LEMMA NotifiedStep ==
  ASSUME TypeOK, NEW t \in Threads,
         Calls(t) \/ Releases(t) \/ Bodies(t) \/ Wakes(t)
  PROVE  notified' \subseteq (OnExclusiveRelease \cup OnSharedRelease)'
  <1> USE DEF OnExclusiveRelease, OnSharedRelease
  <1>a. /\ pc \in [Threads -> {"idle", "lock", "unlock", "lock_shared", "unlock_shared",
                               "wait_writer", "wait_drain", "wait_reader", "notify"}]
        /\ notified \subseteq OnExclusiveRelease \cup OnSharedRelease
    BY DEF TypeOK
  <1>1. CASE EnterLock(t)
    BY <1>1, <1>a DEF EnterLock, MayCall, Enter, Goto
  <1>2. CASE EnterUnlockUnlocked(t)
    BY <1>2, <1>a DEF EnterUnlockUnlocked, MayCall, Enter, Goto
  <1>3. CASE TryLock(t)
    BY <1>3, <1>a DEF TryLock, MayCall, Granted
  <1>4. CASE TryLockShared(t)
    BY <1>4, <1>a DEF TryLockShared, MayCall
  <1>5. CASE EnterUnlock(t)
    BY <1>5, <1>a DEF EnterUnlock, Enter, Goto
  <1>6. CASE EnterUnlockShared(t)
    BY <1>6, <1>a DEF EnterUnlockShared, Enter, Goto
  <1>7. CASE LockBody(t)
    <2>1. \E l \in {"idle", "wait_writer", "wait_drain"} : Goto(t, l)
      BY <1>7 DEF LockBody, do_exclusive_lock, Drain
    <2> QED BY <2>1, <1>a DEF Goto
  <1>8. CASE UnlockBody(t)
    BY <1>8, <1>a DEF UnlockBody, Running, Goto
  <1>9. CASE NotifyAll(t)
    BY <1>9, <1>a DEF NotifyAll
  <1>10. CASE LockSharedBody(t)
    BY <1>10, <1>a DEF LockSharedBody, Running, do_lock_shared, Goto
  <1>11. CASE UnlockSharedBody(t)
    <2>1. notified' \subseteq notified \cup OnSharedRelease \cup OnExclusiveRelease
      BY <1>11, UnlockSharedNotifies
    <2> QED BY <2>1, <1>a, <1>11 DEF UnlockSharedBody, Running
  <1>12. CASE WakeInWriterWait(t)
    <2>1. \E l \in {"idle", "wait_writer", "wait_drain"} : Goto(t, l)
      BY <1>12 DEF WakeInWriterWait, do_exclusive_lock, Drain
    <2> QED BY <2>1, <1>a DEF Goto
  <1>13. CASE WakeInDrain(t)
    BY <1>13, <1>a DEF WakeInDrain, Woken, Drain, Granted, Goto
  <1>14. CASE WakeInReaderWait(t)
    BY <1>14, <1>a DEF WakeInReaderWait, Woken, do_lock_shared, Goto
  <1> QED BY <1>1, <1>2, <1>3, <1>4, <1>5, <1>6, <1>7, <1>8, <1>9,
            <1>10, <1>11, <1>12, <1>13, <1>14
       DEF Calls, Releases, Bodies, Wakes

(* The count of the state word stays in its bits, if need be by wrapping.  *)
LEMMA RangeStep ==
  ASSUME TypeOK, NEW t \in Threads,
         Calls(t) \/ Releases(t) \/ Bodies(t) \/ Wakes(t)
  PROVE  readers' \in 0 .. MaxReaders
  <1>a. readers \in 0 .. MaxReaders /\ MaxReaders \in Nat
    BY DEF TypeOK
  <1>1. CASE readers' = readers
    BY <1>1, <1>a
  <1>2. CASE readers' = 0
    BY <1>2, <1>a
  <1>3. CASE readers # MaxReaders /\ readers' = readers + 1
    BY <1>3, <1>a
  <1>4. CASE decrement_readers
    BY <1>4, <1>a DEF decrement_readers
  <1>5. CASE Calls(t) \/ Releases(t)
    BY <1>1, <1>3, <1>5, <1>a DEF Calls, Releases, EnterLock, EnterUnlockUnlocked, TryLock,
         TryLockShared, EnterUnlock, EnterUnlockShared, Enter
  <1>6. CASE Bodies(t)
    BY <1>1, <1>2, <1>3, <1>4, <1>6 DEF Bodies, LockBody, UnlockBody, NotifyAll,
         LockSharedBody, UnlockSharedBody, do_exclusive_lock, do_lock_shared
  <1>7. CASE Wakes(t)
    BY <1>1, <1>3, <1>7 DEF Wakes, WakeInWriterWait, WakeInDrain, WakeInReaderWait,
         do_exclusive_lock, do_lock_shared
  <1> QED BY <1>5, <1>6, <1>7

(* The types of all the variables, whatever is called.                     *)
LEMMA TypeStep ==
  ASSUME TypeOK, TurnInv, NEW t \in Threads,
         Calls(t) \/ Releases(t) \/ Bodies(t) \/ Wakes(t)
  PROVE  TypeOK'
  <1> USE DEF TypeOK
  <1>a. readers' \in 0 .. MaxReaders
    BY RangeStep
  <1>b. notified' \subseteq (OnExclusiveRelease \cup OnSharedRelease)'
    BY NotifiedStep
  <1>c. TypeOK /\ TurnInv
    OBVIOUS
  <1>1. CASE EnterLock(t)
    BY <1>1, <1>a, <1>b, <1>c DEF EnterLock, MayCall, Enter, Goto, TurnInv
  <1>2. CASE EnterUnlockUnlocked(t)
    BY <1>2, <1>a, <1>b, <1>c DEF EnterUnlockUnlocked, MayCall, Enter, Goto, TurnInv
  <1>3. CASE TryLock(t)
    <2>1. /\ m_write_recurses' \in Nat /\ m_write_thread' \in Threads \cup {None}
          /\ xheld' \in [Threads -> Nat] /\ m_write_entered' \in BOOLEAN
      <3>1. m_write_recurses' \in Nat /\ m_write_thread' \in Threads \cup {None}
        BY <1>3, <1>c DEF TryLock, Granted
      <3>2. xheld' \in [Threads -> Nat]
        BY <1>3, <1>c DEF TryLock, Granted
      <3>3. m_write_entered' = m_write_entered \/ m_write_entered' = TRUE
        BY <1>3 DEF TryLock
      <3> QED BY <3>1, <3>2, <3>3, <1>c
    <2> QED BY <1>3, <2>1, <1>a, <1>b, <1>c DEF TryLock
  <1>4. CASE TryLockShared(t)
    BY <1>4, <1>a, <1>b, <1>c DEF TryLockShared, MayCall, TurnInv
  <1>5. CASE EnterUnlock(t)
    BY <1>5, <1>a, <1>b, <1>c DEF EnterUnlock, Enter, Goto, TurnInv
  <1>6. CASE EnterUnlockShared(t)
    BY <1>6, <1>a, <1>b, <1>c DEF EnterUnlockShared, Enter, Goto, TurnInv
  <1>7. CASE LockBody(t)
    <2>1. /\ m_write_recurses' \in Nat /\ m_write_thread' \in Threads \cup {None}
          /\ xheld' \in [Threads -> Nat]
      BY <1>7, <1>c DEF LockBody, do_exclusive_lock, Drain, Granted
    <2>2. \E l \in {"idle", "wait_writer", "wait_drain"} : Goto(t, l)
      BY <1>7 DEF LockBody, do_exclusive_lock, Drain
    <2>3. pc' \in [Threads -> {"idle", "lock", "unlock", "lock_shared", "unlock_shared",
                              "wait_writer", "wait_drain", "wait_reader", "notify"}]
      BY <2>2, <1>c DEF Goto
    <2>4. m_write_entered' \in BOOLEAN /\ m_mutex' = None /\ sheld' = sheld
      BY <1>7, <1>c DEF LockBody, do_exclusive_lock, Running
    <2> QED BY <2>1, <2>3, <2>4, <1>a, <1>b, <1>c
  <1>8. CASE UnlockBody(t)
    <2>1. m_write_recurses' \in Nat /\ m_write_entered' \in BOOLEAN
      <3>1. m_write_recurses \in Nat /\ m_write_entered \in BOOLEAN
        BY <1>c
      <3>2. CASE m_write_recurses = 0
        BY <3>1, <3>2, <1>8 DEF UnlockBody
      <3>3. CASE m_write_recurses # 0
        <4>1. m_write_recurses' = m_write_recurses - 1
          BY <3>3, <1>8 DEF UnlockBody
        <4>2. m_write_entered' = FALSE \/ m_write_entered' = m_write_entered
          BY <3>3, <1>8 DEF UnlockBody
        <4>3. m_write_recurses - 1 \in Nat
          BY <3>1, <3>3
        <4> QED BY <4>1, <4>2, <4>3, <3>1
      <3> QED BY <3>2, <3>3
    <2>2. \E l \in {"idle", "notify"} : Goto(t, l)
      BY <1>8 DEF UnlockBody
    <2>3. pc' \in [Threads -> {"idle", "lock", "unlock", "lock_shared", "unlock_shared",
                              "wait_writer", "wait_drain", "wait_reader", "notify"}]
      BY <2>2, <1>c DEF Goto
    <2>4. m_mutex' = None /\ UNCHANGED <<m_write_thread, xheld, sheld>>
      BY <1>8 DEF UnlockBody, Running
    <2> QED BY <2>1, <2>3, <2>4, <1>a, <1>b, <1>c
  <1>9. CASE NotifyAll(t)
    BY <1>9, <1>a, <1>b, <1>c DEF NotifyAll, TurnInv
  <1>10. CASE LockSharedBody(t)
    BY <1>10, <1>a, <1>b, <1>c DEF LockSharedBody, Running, do_lock_shared, Goto,
         TurnInv
  <1>11. CASE UnlockSharedBody(t)
    BY <1>11, <1>a, <1>b, <1>c DEF UnlockSharedBody, Running, decrement_readers,
         TurnInv
  <1>12. CASE WakeInWriterWait(t)
    <2>1. /\ m_write_recurses' \in Nat /\ m_write_thread' \in Threads \cup {None}
          /\ xheld' \in [Threads -> Nat]
      BY <1>12, <1>c DEF WakeInWriterWait, do_exclusive_lock, Drain, Granted
    <2>2. \E l \in {"idle", "wait_writer", "wait_drain"} : Goto(t, l)
      BY <1>12 DEF WakeInWriterWait, do_exclusive_lock, Drain
    <2>3. pc' \in [Threads -> {"idle", "lock", "unlock", "lock_shared", "unlock_shared",
                              "wait_writer", "wait_drain", "wait_reader", "notify"}]
      BY <2>2, <1>c DEF Goto
    <2>4. m_write_entered' \in BOOLEAN /\ UNCHANGED <<m_mutex, sheld>>
      BY <1>12, <1>c DEF WakeInWriterWait, do_exclusive_lock, Woken
    <2> QED BY <2>1, <2>3, <2>4, <1>a, <1>b, <1>c
  <1>13. CASE WakeInDrain(t)
    BY <1>13, <1>a, <1>b, <1>c DEF WakeInDrain, Woken, Drain, Granted, Goto, TurnInv
  <1>14. CASE WakeInReaderWait(t)
    BY <1>14, <1>a, <1>b, <1>c DEF WakeInReaderWait, Woken, do_lock_shared, Goto,
         TurnInv
  <1> QED BY <1>1, <1>2, <1>3, <1>4, <1>5, <1>6, <1>7, <1>8, <1>9,
            <1>10, <1>11, <1>12, <1>13, <1>14
       DEF Calls, Releases, Bodies, Wakes

(* m_mutex says who is inside.                                             *)
LEMMA ControlStep ==
  ASSUME NoTryLock, IInv, NEW t \in Threads,
         Calls(t) \/ Releases(t) \/ Bodies(t) \/ Wakes(t)
  PROVE  ControlInv'
  <1> USE DEF IInv, TypeOK, ControlInv
  <1>a. None \notin Threads
    OBVIOUS
  <1>1. CASE EnterLock(t)
    BY <1>1, <1>a DEF EnterLock, MayCall, Enter, Goto, WriterInv, Writes
  <1>2. CASE EnterUnlockUnlocked(t)
    BY <1>2, <1>a DEF EnterUnlockUnlocked, MayCall, Enter, Goto, WriterInv, Writes
  <1>3. CASE TryLock(t)
    BY <1>3, <1>a DEF TryLock, MayCall, NoTryLock, Granted, WriterInv, Writes
  <1>4. CASE TryLockShared(t)
    BY <1>4, <1>a DEF TryLockShared, MayCall, WriterInv, Writes
  <1>5. CASE EnterUnlock(t)
    BY <1>5, <1>a DEF EnterUnlock, Enter, Goto, WriterInv, Writes
  <1>6. CASE EnterUnlockShared(t)
    BY <1>6, <1>a DEF EnterUnlockShared, Enter, Goto, WriterInv, Writes
  <1>7. CASE LockBody(t)
    BY <1>7, <1>a DEF LockBody, Running, do_exclusive_lock, Drain, Granted, Goto,
         WriterInv, Writes
  <1>8. CASE UnlockBody(t)
    BY <1>8, <1>a DEF UnlockBody, Running, Goto, WriterInv, Writes
  <1>9. CASE NotifyAll(t)
    BY <1>9, <1>a DEF NotifyAll, WriterInv, Writes
  <1>10. CASE LockSharedBody(t)
    BY <1>10, <1>a DEF LockSharedBody, Running, do_lock_shared, Goto, WriterInv, Writes
  <1>11. CASE UnlockSharedBody(t)
    BY <1>11, <1>a DEF UnlockSharedBody, Running, decrement_readers, WriterInv, Writes
  <1>12. CASE WakeInWriterWait(t)
    BY <1>12, <1>a DEF WakeInWriterWait, Woken, do_exclusive_lock, Drain, Granted,
         Goto, WriterInv, Writes
  <1>13. CASE WakeInDrain(t)
    BY <1>13, <1>a DEF WakeInDrain, Woken, Drain, Granted, Goto, WriterInv, Writes
  <1>14. CASE WakeInReaderWait(t)
    BY <1>14, <1>a DEF WakeInReaderWait, Woken, do_lock_shared, Goto, WriterInv, Writes
  <1> QED BY <1>1, <1>2, <1>3, <1>4, <1>5, <1>6, <1>7, <1>8, <1>9,
            <1>10, <1>11, <1>12, <1>13, <1>14
       DEF Calls, Releases, Bodies, Wakes

(* One writer at a time, which the recursion count describes.              *)
LEMMA WriterStep ==
  ASSUME NoTryLock, IInv, NEW t \in Threads,
         Calls(t) \/ Releases(t) \/ Bodies(t) \/ Wakes(t)
  PROVE  WriterInv'
  <1> USE DEF IInv, TypeOK, ControlInv, WriterInv, Writes
  <1>a. pc[t] = "unlock_shared" => readers > 0
    BY CountedReader DEF Readers
  <1>1. CASE EnterLock(t)
    BY <1>1, <1>a DEF EnterLock, MayCall, Enter, Goto
  <1>2. CASE EnterUnlockUnlocked(t)
    BY <1>2, <1>a DEF EnterUnlockUnlocked, MayCall, Enter, Goto
  <1>3. CASE TryLock(t)
    BY <1>3, <1>a DEF TryLock, MayCall, NoTryLock, Granted
  <1>4. CASE TryLockShared(t)
    BY <1>4, <1>a DEF TryLockShared, MayCall
  <1>5. CASE EnterUnlock(t)
    BY <1>5, <1>a DEF EnterUnlock, Enter, Goto
  <1>6. CASE EnterUnlockShared(t)
    BY <1>6, <1>a DEF EnterUnlockShared, Enter, Goto
  <1>7. CASE LockBody(t)
    BY <1>7, <1>a DEF LockBody, Running, do_exclusive_lock, Drain, Granted, Goto
  <1>8. CASE UnlockBody(t)
    BY <1>8, <1>a DEF UnlockBody, Running, Goto
  <1>9. CASE NotifyAll(t)
    BY <1>9, <1>a DEF NotifyAll
  <1>10. CASE LockSharedBody(t)
    BY <1>10, <1>a DEF LockSharedBody, Running, do_lock_shared, Goto
  <1>11. CASE UnlockSharedBody(t)
    BY <1>11, <1>a DEF UnlockSharedBody, Running, decrement_readers
  <1>12. CASE WakeInWriterWait(t)
    BY <1>12, <1>a DEF WakeInWriterWait, Woken, do_exclusive_lock, Drain, Granted, Goto
  <1>13. CASE WakeInDrain(t)
    BY <1>13, <1>a DEF WakeInDrain, Woken, Drain, Granted, Goto
  <1>14. CASE WakeInReaderWait(t)
    BY <1>14, <1>a DEF WakeInReaderWait, Woken, do_lock_shared, Goto
  <1> QED BY <1>1, <1>2, <1>3, <1>4, <1>5, <1>6, <1>7, <1>8, <1>9,
            <1>10, <1>11, <1>12, <1>13, <1>14
       DEF Calls, Releases, Bodies, Wakes

(* IInv holds throughout.                                                  *)
THEOREM Invariance ==
  ASSUME NoTryLock
  PROVE  Spec => []IInv
  <1>1. Init => IInv
    <2> SUFFICES ASSUME Init PROVE IInv
      OBVIOUS
    <2>1. Readers = {}
      BY DEF Init, Readers
    <2>2. Cardinality(Readers) = 0
      BY <2>1, FS_EmptySet
    <2>3. TypeOK
      <3>1. notified \subseteq OnExclusiveRelease \cup OnSharedRelease
        BY DEF Init
      <3>2. readers \in 0 .. MaxReaders
        BY DEF Init
      <3>3. m_write_recurses \in Nat
        BY DEF Init
      <3> QED BY <3>1, <3>2, <3>3 DEF Init, TypeOK
    <2>4. ControlInv /\ WriterInv
      BY DEF Init, ControlInv, WriterInv, Writes
    <2>5. CountInv
      BY <2>2 DEF Init, CountInv
    <2> QED BY <2>3, <2>4, <2>5 DEF IInv
  <1>2. IInv /\ [Next]_vars => IInv'
    <2>1. ASSUME IInv, Next PROVE IInv'
      <3>1. TypeOK /\ TurnInv
        BY <2>1 DEF IInv, ControlInv, TurnInv
      <3> QED BY <2>1, <3>1, TypeStep, ControlStep, CountStep, WriterStep DEF Next, IInv
    <2>2. ASSUME IInv, UNCHANGED vars PROVE IInv'
      BY <2>2 DEF vars, IInv, TypeOK, ControlInv, CountInv, Readers, WriterInv, Writes,
                  OnExclusiveRelease, OnSharedRelease
    <2> QED BY <2>1, <2>2
  <1> QED BY <1>1, <1>2, PTL DEF Spec

(* Two holds of different threads are never exclusive.                     *)
LEMMA InvExcludes == IInv => MutualExclusion
  <1> SUFFICES ASSUME IInv, NEW t \in Threads, NEW u \in Threads, xheld[t] > 0, u # t
               PROVE  xheld[u] = 0 /\ sheld[u] = 0
    BY DEF MutualExclusion
  <1>1. readers = 0 /\ ~(xheld[u] > 0)
    BY DEF IInv, WriterInv, Writes
  <1>2. u \notin Readers
    BY <1>1, CountedReader
  <1> QED BY <1>1, <1>2 DEF Readers, IInv, TypeOK

(* A writer that lock() let in shares the mutex with nobody.               *)
THEOREM MutualExclusionHolds ==
  ASSUME NoTryLock
  PROVE  Spec => []MutualExclusion
  BY InvExcludes, Invariance, PTL

(* The assertion of lock() never fails: a thread that becomes the writer   *)
(* finds the recursion count at zero.                                      *)
THEOREM StartsAtZero ==
  ASSUME NoTryLock
  PROVE  Spec => []NewWriterStartsAtZero
  <1>1. IInv => NewWriterStartsAtZero
    BY DEF IInv, TypeOK, WriterInv, NewWriterStartsAtZero, OnSharedRelease
  <1> QED BY <1>1, Invariance, PTL

-----------------------------------------------------------------------------
(* What NoLostWakeup comes down to while the word can count every thread.  *)
WakeInv ==
  \A t \in Threads \ notified :
    /\ pc[t] = "wait_drain" => readers > 0
    /\ pc[t] \in {"wait_writer", "wait_reader"} =>
         m_write_entered \/ \E u \in Threads : pc[u] = "notify"

(* A thread that is about to read the word finds room for itself in it.    *)
LEMMA RoomForReader ==
  ASSUME NoReaderLimit, IInv, NEW t \in Threads, t \notin Readers
  PROVE  readers < MaxReaders
  <1>1. Readers \in SUBSET (Threads \ {t}) /\ IsFiniteSet(Threads \ {t})
    BY FS_RemoveElement DEF Readers
  <1>2. Cardinality(Readers) <= Cardinality(Threads \ {t})
    BY <1>1, FS_Subset
  <1>3. Cardinality(Threads \ {t}) = Cardinality(Threads) - 1
    BY FS_RemoveElement
  <1>4. Cardinality(Threads) \in Nat /\ Cardinality(Readers) \in Nat
    BY <1>1, FS_Subset, FS_CardinalityType
  <1> QED BY <1>2, <1>3, <1>4 DEF NoReaderLimit, IInv, CountInv

LEMMA WakeStep ==
  ASSUME NoTryLock, NoReaderLimit, IInv, WakeInv, NEW t \in Threads,
         Calls(t) \/ Releases(t) \/ Bodies(t) \/ Wakes(t)
  PROVE  WakeInv'
  <1> USE DEF WakeInv, OnExclusiveRelease, OnSharedRelease
  <1>t. TypeOK /\ ControlInv /\ WriterInv
    BY DEF IInv
  <1>a. pc[t] \in {"lock_shared", "wait_reader"} => readers # MaxReaders
    <2>1. pc[t] \in {"lock_shared", "wait_reader"} => t \notin Readers
      BY DEF Readers, IInv, ControlInv, TypeOK
    <2> QED BY <2>1, RoomForReader DEF IInv, TypeOK
  <1>b. pc[t] = "unlock_shared" => readers > 0
    BY CountedReader DEF Readers
  <1>1. CASE EnterLock(t)
    BY <1>1, <1>t, <1>a, <1>b DEF EnterLock, MayCall, Enter, Goto, TypeOK,
         ControlInv, WriterInv
  <1>2. CASE EnterUnlockUnlocked(t)
    BY <1>2, <1>t, <1>a, <1>b DEF EnterUnlockUnlocked, MayCall, Enter, Goto,
         TypeOK, ControlInv, WriterInv
  <1>3. CASE TryLock(t)
    BY <1>3, <1>t, <1>a, <1>b DEF TryLock, MayCall, NoTryLock, Granted, TypeOK,
         ControlInv, WriterInv
  <1>4. CASE TryLockShared(t)
    BY <1>4, <1>t, <1>a, <1>b DEF TryLockShared, MayCall, TypeOK, ControlInv, WriterInv
  <1>5. CASE EnterUnlock(t)
    BY <1>5, <1>t, <1>a, <1>b DEF EnterUnlock, Enter, Goto, TypeOK, ControlInv,
         WriterInv
  <1>6. CASE EnterUnlockShared(t)
    BY <1>6, <1>t, <1>a, <1>b DEF EnterUnlockShared, Enter, Goto, TypeOK,
         ControlInv, WriterInv
  <1>7. CASE LockBody(t)
    BY <1>7, <1>t, <1>a, <1>b DEF LockBody, Running, do_exclusive_lock, Drain,
         Granted, Goto, TypeOK, ControlInv, WriterInv
  <1>8. CASE UnlockBody(t)
    BY <1>8, <1>t, <1>a, <1>b DEF UnlockBody, Running, Goto, TypeOK, ControlInv,
         WriterInv
  <1>9. CASE NotifyAll(t)
    BY <1>9, <1>t, <1>a, <1>b DEF NotifyAll, TypeOK, ControlInv, WriterInv
  <1>10. CASE LockSharedBody(t)
    BY <1>10, <1>t, <1>a, <1>b DEF LockSharedBody, Running, do_lock_shared, Goto,
         TypeOK, ControlInv, WriterInv
  <1>11. CASE UnlockSharedBody(t)
    <2>1. /\ pc[t] = "unlock_shared" /\ pc' = [pc EXCEPT ![t] = "idle"]
          /\ readers > 0 /\ readers' = readers - 1 /\ UNCHANGED m_write_entered
      BY <1>11, <1>b DEF UnlockSharedBody, Running, decrement_readers
    <2>2. notified \subseteq notified'
      BY <1>11 DEF UnlockSharedBody
    <2>3. ASSUME NEW u \in Threads, u \notin notified', pc'[u] = "wait_drain"
          PROVE  readers' > 0
      <3>1. m_write_entered' /\ OnSharedRelease = {u} /\ readers' \in Nat
        BY <2>1, <2>3, <1>t DEF TypeOK, WriterInv
      <3>2. readers' = 0 => u \in notified'
        BY <3>1, <2>3, <1>11 DEF UnlockSharedBody, OneOf
      <3> QED BY <3>1, <3>2, <2>3
    <2>4. ASSUME NEW u \in Threads, u \notin notified',
                 pc'[u] \in {"wait_writer", "wait_reader"}
          PROVE  m_write_entered' \/ \E v \in Threads : pc'[v] = "notify"
      BY <2>1, <2>2, <2>4, <1>t DEF TypeOK
    <2> QED BY <2>3, <2>4
  <1>12. CASE WakeInWriterWait(t)
    BY <1>12, <1>t, <1>a, <1>b DEF WakeInWriterWait, Woken, do_exclusive_lock,
         Drain, Granted, Goto, TypeOK, ControlInv, WriterInv
  <1>13. CASE WakeInDrain(t)
    BY <1>13, <1>t, <1>a, <1>b DEF WakeInDrain, Woken, Drain, Granted, Goto,
         TypeOK, ControlInv, WriterInv
  <1>14. CASE WakeInReaderWait(t)
    BY <1>14, <1>t, <1>a, <1>b DEF WakeInReaderWait, Woken, do_lock_shared, Goto,
         TypeOK, ControlInv, WriterInv
  <1> QED BY <1>1, <1>2, <1>3, <1>4, <1>5, <1>6, <1>7, <1>8, <1>9,
            <1>10, <1>11, <1>12, <1>13, <1>14
       DEF Calls, Releases, Bodies, Wakes

(* No wake-up is lost, although unlock() gives m_mutex back before it      *)
(* notifies, provided the word can count all the threads.                  *)
THEOREM NoWakeupIsLost ==
  ASSUME NoTryLock, NoReaderLimit
  PROVE  Spec => []NoLostWakeup
  <1>1. Init => WakeInv
    BY DEF Init, WakeInv
  <1>2. IInv /\ WakeInv /\ [Next]_vars => WakeInv'
    <2>1. ASSUME IInv, WakeInv, Next PROVE WakeInv'
      BY <2>1, WakeStep DEF Next
    <2>2. ASSUME WakeInv, UNCHANGED vars PROVE WakeInv'
      BY <2>2 DEF vars, WakeInv
    <2> QED BY <2>1, <2>2
  <1>3. WakeInv => NoLostWakeup
    BY DEF WakeInv, NoLostWakeup
  <1> QED BY <1>1, <1>2, <1>3, Invariance, PTL DEF Spec

-----------------------------------------------------------------------------
(* What an operation of t does to the holds of its caller.                 *)
HoldsStep(t) ==
  \/ UNCHANGED <<xheld, sheld>>
  \/ xheld' = [xheld EXCEPT ![t] = @ + 1] /\ UNCHANGED sheld
  \/ xheld[t] > 0 /\ xheld' = [xheld EXCEPT ![t] = @ - 1] /\ UNCHANGED sheld
  \/ sheld' = [sheld EXCEPT ![t] = @ + 1] /\ UNCHANGED xheld
  \/ sheld[t] > 0 /\ sheld' = [sheld EXCEPT ![t] = @ - 1] /\ UNCHANGED xheld

LEMMA HoldsChange ==
  ASSUME NEW t \in Threads,
         Calls(t) \/ Releases(t) \/ Bodies(t) \/ Wakes(t)
  PROVE  HoldsStep(t)
  <1>1. CASE EnterLock(t)
    BY <1>1 DEF EnterLock, MayCall, Enter, Goto, HoldsStep
  <1>2. CASE EnterUnlockUnlocked(t)
    BY <1>2 DEF EnterUnlockUnlocked, MayCall, Enter, Goto, HoldsStep
  <1>3. CASE TryLock(t)
    BY <1>3 DEF TryLock, MayCall, Granted, HoldsStep
  <1>4. CASE TryLockShared(t)
    BY <1>4 DEF TryLockShared, MayCall, HoldsStep
  <1>5. CASE EnterUnlock(t)
    BY <1>5 DEF EnterUnlock, Enter, Goto, HoldsStep
  <1>6. CASE EnterUnlockShared(t)
    BY <1>6 DEF EnterUnlockShared, Enter, Goto, HoldsStep
  <1>7. CASE LockBody(t)
    BY <1>7 DEF LockBody, Running, do_exclusive_lock, Drain, Granted, Goto, HoldsStep
  <1>8. CASE UnlockBody(t)
    BY <1>8 DEF UnlockBody, Running, Goto, HoldsStep
  <1>9. CASE NotifyAll(t)
    BY <1>9 DEF NotifyAll, HoldsStep
  <1>10. CASE LockSharedBody(t)
    BY <1>10 DEF LockSharedBody, Running, do_lock_shared, Goto, HoldsStep
  <1>11. CASE UnlockSharedBody(t)
    BY <1>11 DEF UnlockSharedBody, Running, decrement_readers, HoldsStep
  <1>12. CASE WakeInWriterWait(t)
    BY <1>12 DEF WakeInWriterWait, Woken, do_exclusive_lock, Drain, Granted, Goto,
         HoldsStep
  <1>13. CASE WakeInDrain(t)
    BY <1>13 DEF WakeInDrain, Woken, Drain, Granted, Goto, HoldsStep
  <1>14. CASE WakeInReaderWait(t)
    BY <1>14 DEF WakeInReaderWait, Woken, do_lock_shared, Goto, HoldsStep
  <1> QED BY <1>1, <1>2, <1>3, <1>4, <1>5, <1>6, <1>7, <1>8, <1>9,
            <1>10, <1>11, <1>12, <1>13, <1>14
       DEF Calls, Releases, Bodies, Wakes

(* Every operation is an operation of the abstract lock or a stutter.      *)
LEMMA RefineStep ==
  ASSUME IInv, MutualExclusion',
         NEW t \in Threads,
         Calls(t) \/ Releases(t) \/ Bodies(t) \/ Wakes(t)
  PROVE  [Abstract!Next]_(Abstract!vars)
  <1>1. HoldsStep(t)
    BY HoldsChange
  <1>2. xheld \in [Threads -> Nat] /\ sheld \in [Threads -> {0, 1}]
    BY DEF IInv, TypeOK
  <1>3. CASE UNCHANGED <<xheld, sheld>>
    BY <1>3 DEF Abstract!vars
  <1>4. CASE xheld' = [xheld EXCEPT ![t] = @ + 1] /\ UNCHANGED sheld
    <2>1. xheld'[t] > 0 /\ \A u \in Threads \ {t} : xheld'[u] = xheld[u]
      BY <1>2, <1>4
    <2>2. Abstract!AcquireExclusive(t)
      BY <2>1, <1>2, <1>4 DEF MutualExclusion, Abstract!AcquireExclusive
    <2> QED BY <2>2 DEF Abstract!Next
  <1>5. CASE xheld[t] > 0 /\ xheld' = [xheld EXCEPT ![t] = @ - 1] /\ UNCHANGED sheld
    <2>1. Abstract!ReleaseExclusive(t)
      BY <1>5 DEF Abstract!ReleaseExclusive
    <2> QED BY <2>1 DEF Abstract!Next
  <1>6. CASE sheld' = [sheld EXCEPT ![t] = @ + 1] /\ UNCHANGED xheld
    <2>1. sheld'[t] # 0
      BY <1>2, <1>6
    <2>2. \A u \in Threads \ {t} : ~(xheld[u] > 0)
      BY <2>1, <1>6 DEF MutualExclusion
    <2>3. Abstract!AcquireShared(t)
      BY <2>2, <1>2, <1>6 DEF Abstract!AcquireShared
    <2> QED BY <2>3 DEF Abstract!Next
  <1>7. CASE sheld[t] > 0 /\ sheld' = [sheld EXCEPT ![t] = @ - 1] /\ UNCHANGED xheld
    <2>1. Abstract!ReleaseShared(t)
      BY <1>7 DEF Abstract!ReleaseShared
    <2> QED BY <2>1 DEF Abstract!Next
  <1> QED BY <1>1, <1>3, <1>4, <1>5, <1>6, <1>7 DEF HoldsStep

(* Without try_lock() the mutex implements the abstract lock RWLock.       *)
THEOREM Refinement ==
  ASSUME NoTryLock
  PROVE  Spec => ImplementsRWLock
  <1>1. Init => Abstract!Init
    BY DEF Init, Abstract!Init
  <1>2. IInv /\ MutualExclusion' /\ [Next]_vars => [Abstract!Next]_(Abstract!vars)
    <2>1. ASSUME IInv, MutualExclusion', Next PROVE [Abstract!Next]_(Abstract!vars)
      BY <2>1, RefineStep DEF Next
    <2>2. ASSUME UNCHANGED vars PROVE UNCHANGED Abstract!vars
      BY <2>2 DEF vars, Abstract!vars
    <2> QED BY <2>1, <2>2
  <1> QED BY <1>1, <1>2, Invariance, MutualExclusionHolds, PTL
       DEF Spec, ImplementsRWLock, Abstract!Spec

-----------------------------------------------------------------------------
(* Every operation, try_lock() included: what the recursion count counts.  *)
(* Pending: the unlock() that has not yet taken its hold off.              *)
Pending == {t \in Threads : pc[t] = "unlock" /\ m_write_recurses > 0}

CoreInv == TypeOK /\ TurnInv /\ IsFiniteSet(Holds) /\ HoldsAreCounted

(* One hold more of t is one pair more.                                    *)
LEMMA HoldAdded ==
  ASSUME TypeOK, NEW t \in Threads, xheld' = [xheld EXCEPT ![t] = @ + 1]
  PROVE  Holds' = Holds \cup {<<t, xheld[t] + 1>>} /\ <<t, xheld[t] + 1>> \notin Holds
  <1>1. /\ xheld[t] \in Nat /\ xheld'[t] = xheld[t] + 1
        /\ \A u \in Threads : u # t => xheld'[u] = xheld[u]
    BY DEF TypeOK
  <1>2. 1 .. xheld[t] + 1 = (1 .. xheld[t]) \cup {xheld[t] + 1} /\ xheld[t] + 1 \notin 1 .. xheld[t]
    BY <1>1
  <1>3. {t} \X (1 .. xheld'[t]) = ({t} \X (1 .. xheld[t])) \cup {<<t, xheld[t] + 1>>}
    BY <1>1, <1>2
  <1> QED BY <1>1, <1>2, <1>3 DEF Holds

(* One hold less of t is one pair less.                                    *)
LEMMA HoldRemoved ==
  ASSUME TypeOK, NEW t \in Threads, xheld[t] > 0, xheld' = [xheld EXCEPT ![t] = @ - 1]
  PROVE  Holds' = Holds \ {<<t, xheld[t]>>} /\ <<t, xheld[t]>> \in Holds
  <1>1. /\ xheld[t] \in Nat /\ xheld'[t] = xheld[t] - 1
        /\ \A u \in Threads : u # t => xheld'[u] = xheld[u]
    BY DEF TypeOK
  <1>2. 1 .. xheld[t] - 1 = (1 .. xheld[t]) \ {xheld[t]} /\ xheld[t] \in 1 .. xheld[t]
    BY <1>1
  <1>3. {t} \X (1 .. xheld'[t]) = ({t} \X (1 .. xheld[t])) \ {<<t, xheld[t]>>}
    BY <1>1, <1>2
  <1> QED BY <1>1, <1>2, <1>3 DEF Holds

(* What an operation of t does to the holds and their count: nothing, one  *)
(* hold more, one that unlock() has still to take off, and taking it off.  *)
CountedStep(t) ==
  \/ UNCHANGED <<xheld, m_write_recurses>> /\ Pending' = Pending
  \/ /\ Pending = {} /\ Pending' = {}
     /\ xheld' = [xheld EXCEPT ![t] = @ + 1] /\ m_write_recurses' = m_write_recurses + 1
  \/ /\ Pending = {} /\ (m_write_recurses > 0 => Pending' = {t})
     /\ xheld[t] > 0 /\ xheld' = [xheld EXCEPT ![t] = @ - 1] /\ UNCHANGED m_write_recurses
  \/ /\ Pending = {t} /\ Pending' = {}
     /\ UNCHANGED xheld /\ m_write_recurses' = m_write_recurses - 1

(* Unlocks take their turn on m_mutex: none is pending when another thread *)
(* has it, or nobody.                                                      *)
LEMMA PendingTurn ==
  ASSUME TurnInv
  PROVE  /\ m_mutex = None => Pending = {}
         /\ \A t \in Threads : m_mutex = t /\ pc[t] # "unlock" => Pending = {}
         /\ \A t \in Threads :
               m_mutex = t /\ pc[t] = "unlock" /\ m_write_recurses > 0 => Pending = {t}
  BY DEF TurnInv, Pending

(* The same after a step that keeps the turns.                             *)
LEMMA PendingTurnNext ==
  ASSUME TurnInv'
  PROVE  /\ m_mutex' = None => Pending' = {}
         /\ \A t \in Threads : m_mutex' = t /\ pc'[t] # "unlock" => Pending' = {}
         /\ \A t \in Threads :
               m_mutex' = t /\ pc'[t] = "unlock" /\ m_write_recurses' > 0 => Pending' = {t}
  BY DEF TurnInv, Pending

(* m_mutex goes from hand to hand, and a shared hold is of an idle thread. *)
LEMMA TurnStep ==
  ASSUME TypeOK, TurnInv, NEW t \in Threads,
         Calls(t) \/ Releases(t) \/ Bodies(t) \/ Wakes(t)
  PROVE  TurnInv'
  <1> USE DEF TypeOK, TurnInv
  <1>a. None \notin Threads
    OBVIOUS
  <1>1. CASE EnterLock(t)
    BY <1>1, <1>a DEF EnterLock, MayCall, Enter, Goto
  <1>2. CASE EnterUnlockUnlocked(t)
    BY <1>2, <1>a DEF EnterUnlockUnlocked, MayCall, Enter, Goto
  <1>3. CASE TryLock(t)
    BY <1>3, <1>a DEF TryLock, MayCall, Granted
  <1>4. CASE TryLockShared(t)
    BY <1>4, <1>a DEF TryLockShared, MayCall
  <1>5. CASE EnterUnlock(t)
    BY <1>5, <1>a DEF EnterUnlock, Enter, Goto
  <1>6. CASE EnterUnlockShared(t)
    BY <1>6, <1>a DEF EnterUnlockShared, Enter, Goto
  <1>7. CASE LockBody(t)
    BY <1>7, <1>a DEF LockBody, Running, do_exclusive_lock, Drain, Granted, Goto
  <1>8. CASE UnlockBody(t)
    BY <1>8, <1>a DEF UnlockBody, Running, Goto
  <1>9. CASE NotifyAll(t)
    BY <1>9, <1>a DEF NotifyAll
  <1>10. CASE LockSharedBody(t)
    BY <1>10, <1>a DEF LockSharedBody, Running, do_lock_shared, Goto
  <1>11. CASE UnlockSharedBody(t)
    BY <1>11, <1>a DEF UnlockSharedBody, Running
  <1>12. CASE WakeInWriterWait(t)
    BY <1>12, <1>a DEF WakeInWriterWait, Woken, do_exclusive_lock, Drain, Granted, Goto
  <1>13. CASE WakeInDrain(t)
    BY <1>13, <1>a DEF WakeInDrain, Woken, Drain, Granted, Goto
  <1>14. CASE WakeInReaderWait(t)
    BY <1>14, <1>a DEF WakeInReaderWait, Woken, do_lock_shared, Goto
  <1> QED BY <1>1, <1>2, <1>3, <1>4, <1>5, <1>6, <1>7, <1>8, <1>9,
            <1>10, <1>11, <1>12, <1>13, <1>14
       DEF Calls, Releases, Bodies, Wakes

(* Every operation is one of the four kinds of step.                       *)
LEMMA CountedChange ==
  ASSUME TypeOK, TurnInv, TurnInv', NEW t \in Threads,
         Calls(t) \/ Releases(t) \/ Bodies(t) \/ Wakes(t)
  PROVE  CountedStep(t)
  <1>a. /\ m_mutex = None => Pending = {}
        /\ m_mutex = t /\ pc[t] # "unlock" => Pending = {}
        /\ m_mutex = t /\ pc[t] = "unlock" /\ m_write_recurses > 0 => Pending = {t}
    BY PendingTurn
  <1>b. /\ m_mutex' = None => Pending' = {}
        /\ m_mutex' = t /\ pc'[t] # "unlock" => Pending' = {}
        /\ m_mutex' = t /\ pc'[t] = "unlock" /\ m_write_recurses' > 0 => Pending' = {t}
    BY PendingTurnNext
  <1>c. m_write_recurses \in Nat /\ DOMAIN pc = Threads
    BY DEF TypeOK
  <1>1. CASE EnterLock(t)
    <2>1. pc'[t] \in {"lock", "lock_shared"}
      BY <1>1, <1>c DEF EnterLock, Enter, Goto
    <2> QED BY <1>1, <1>a, <1>b, <2>1 DEF EnterLock, Enter, CountedStep
  <1>2. CASE EnterUnlockUnlocked(t)
    BY <1>2 DEF EnterUnlockUnlocked, Enter, CountedStep, Pending
  <1>3. CASE TryLock(t)
    BY <1>3, <1>a, <1>b DEF TryLock, Granted, CountedStep
  <1>4. CASE TryLockShared(t)
    BY <1>4 DEF TryLockShared, CountedStep, Pending
  <1>5. CASE EnterUnlock(t)
    <2>1. pc'[t] = "unlock"
      BY <1>5, <1>c DEF EnterUnlock, Enter, Goto
    <2> QED BY <1>5, <1>a, <1>b, <2>1 DEF EnterUnlock, Enter, CountedStep
  <1>6. CASE EnterUnlockShared(t)
    <2>1. pc'[t] = "unlock_shared"
      BY <1>6, <1>c DEF EnterUnlockShared, Enter, Goto
    <2> QED BY <1>6, <1>a, <1>b, <2>1 DEF EnterUnlockShared, Enter, CountedStep
  <1>7. CASE LockBody(t)
    <2>1. Pending = {} /\ Pending' = {}
      BY <1>7, <1>a, <1>b DEF LockBody, Running
    <2>2. UNCHANGED <<xheld, m_write_recurses>> \/ Granted(t)
      BY <1>7 DEF LockBody, do_exclusive_lock, Drain
    <2> QED BY <2>1, <2>2 DEF Granted, CountedStep
  <1>8. CASE UnlockBody(t)
    <2>1. Pending' = {}
      BY <1>8, <1>b DEF UnlockBody, Running
    <2>2. CASE m_write_recurses = 0
      BY <1>8, <2>1, <2>2 DEF UnlockBody, CountedStep, Pending
    <2>3. CASE m_write_recurses # 0
      <3>1. Pending = {t}
        BY <1>8, <1>a, <1>c, <2>3 DEF UnlockBody, Running
      <3> QED BY <1>8, <2>1, <2>3, <3>1 DEF UnlockBody, CountedStep
    <2> QED BY <2>2, <2>3
  <1>9. CASE NotifyAll(t)
    <2>1. \A u \in Threads : pc'[u] = "unlock" <=> pc[u] = "unlock"
      BY <1>9 DEF NotifyAll, TypeOK
    <2> QED BY <1>9, <2>1 DEF NotifyAll, CountedStep, Pending
  <1>10. CASE LockSharedBody(t) \/ UnlockSharedBody(t)
    BY <1>10, <1>a, <1>b DEF LockSharedBody, UnlockSharedBody, Running, do_lock_shared,
         CountedStep
  <1>11. CASE Wakes(t)
    <2>1. Pending = {} /\ Pending' = {}
      BY <1>11, <1>a, <1>b DEF Wakes, WakeInWriterWait, WakeInDrain, WakeInReaderWait, Woken
    <2>2. UNCHANGED <<xheld, m_write_recurses>> \/ Granted(t)
      BY <1>11 DEF Wakes, WakeInWriterWait, WakeInDrain, WakeInReaderWait,
           do_exclusive_lock, do_lock_shared, Drain
    <2> QED BY <2>1, <2>2 DEF Granted, CountedStep
  <1> QED BY <1>1, <1>2, <1>3, <1>4, <1>5, <1>6, <1>7, <1>8, <1>9, <1>10, <1>11
       DEF Calls, Releases, Bodies

(* The count goes with the holds.                                          *)
LEMMA HoldsStayCounted ==
  ASSUME CoreInv, TurnInv', NEW t \in Threads,
         Calls(t) \/ Releases(t) \/ Bodies(t) \/ Wakes(t)
  PROVE  IsFiniteSet(Holds)' /\ HoldsAreCounted'
  <1>0. TypeOK /\ IsFiniteSet(Holds) /\ m_write_recurses \in Nat
    BY DEF CoreInv, TypeOK
  <1>1. /\ m_write_recurses = Cardinality(Holds) + Cardinality(Pending)
        /\ Cardinality(Holds) \in Nat
    BY <1>0, FS_CardinalityType DEF CoreInv, HoldsAreCounted, Pending
  <1>2. /\ HoldsAreCounted' <=> m_write_recurses' = Cardinality(Holds') + Cardinality(Pending')
        /\ IsFiniteSet(Holds)' <=> IsFiniteSet(Holds')
    BY DEF HoldsAreCounted, Pending
  <1>3. Cardinality({}) = 0 /\ Cardinality({t}) = 1
    BY FS_EmptySet, FS_Singleton
  <1>4. CASE UNCHANGED <<xheld, m_write_recurses>> /\ Pending' = Pending
    <2>1. Holds' = Holds
      BY <1>4 DEF Holds
    <2> QED BY <1>0, <1>1, <1>2, <1>4, <2>1
  <1>5. CASE /\ Pending = {} /\ Pending' = {}
             /\ xheld' = [xheld EXCEPT ![t] = @ + 1]
             /\ m_write_recurses' = m_write_recurses + 1
    <2>1. IsFiniteSet(Holds') /\ Cardinality(Holds') = Cardinality(Holds) + 1
      <3>1. Holds' = Holds \cup {<<t, xheld[t] + 1>>} /\ <<t, xheld[t] + 1>> \notin Holds
        BY <1>0, <1>5, HoldAdded
      <3> QED BY <1>0, <3>1, FS_AddElement
    <2> QED BY <1>1, <1>2, <1>3, <1>5, <2>1
  <1>6. CASE /\ Pending = {} /\ (m_write_recurses > 0 => Pending' = {t})
             /\ xheld[t] > 0 /\ xheld' = [xheld EXCEPT ![t] = @ - 1]
             /\ UNCHANGED m_write_recurses
    <2>1. /\ IsFiniteSet(Holds') /\ Cardinality(Holds') = Cardinality(Holds) - 1
          /\ Holds # {}
      <3>1. Holds' = Holds \ {<<t, xheld[t]>>} /\ <<t, xheld[t]>> \in Holds
        BY <1>0, <1>6, HoldRemoved
      <3> QED BY <1>0, <3>1, FS_RemoveElement
    <2>2. Cardinality(Holds) > 0
      BY <1>0, <1>1, <2>1, FS_EmptySet
    <2>3. m_write_recurses > 0
      BY <1>1, <1>3, <1>6, <2>2
    <2>4. Cardinality(Pending) = 0 /\ Cardinality(Pending') = 1
      BY <1>3, <1>6, <2>3
    <2>5. m_write_recurses' = m_write_recurses
      BY <1>6
    <2>6. m_write_recurses' = Cardinality(Holds') + Cardinality(Pending')
      BY <1>1, <2>1, <2>4, <2>5
    <2> QED BY <1>2, <2>1, <2>6
  <1>7. CASE /\ Pending = {t} /\ Pending' = {}
             /\ UNCHANGED xheld /\ m_write_recurses' = m_write_recurses - 1
    <2>1. Holds' = Holds
      BY <1>7 DEF Holds
    <2> QED BY <1>0, <1>1, <1>2, <1>3, <1>7, <2>1
  <1>8. CountedStep(t)
    BY <1>0, CountedChange DEF CoreInv
  <1> QED BY <1>4, <1>5, <1>6, <1>7, <1>8 DEF CountedStep

(* CoreInv holds throughout, whatever the program calls.                   *)
THEOREM CoreInvariance == Spec => []CoreInv
  <1>1. Init => CoreInv
    <2> SUFFICES ASSUME Init PROVE CoreInv
      OBVIOUS
    <2>1. TypeOK
      <3>1. notified \subseteq OnExclusiveRelease \cup OnSharedRelease
        BY DEF Init
      <3>2. readers \in 0 .. MaxReaders
        BY DEF Init
      <3>3. m_write_recurses \in Nat
        BY DEF Init
      <3> QED BY <3>1, <3>2, <3>3 DEF Init, TypeOK
    <2>2. TurnInv
      BY DEF Init, TurnInv
    <2>3. Holds = {}
      <3>1. \A t \in Threads : {t} \X (1 .. xheld[t]) = {}
        BY DEF Init
      <3> QED BY <3>1 DEF Holds
    <2>4. {t \in Threads : pc[t] = "unlock" /\ m_write_recurses > 0} = {}
      BY DEF Init
    <2>5. IsFiniteSet(Holds) /\ HoldsAreCounted
      BY <2>3, <2>4, FS_EmptySet DEF Init, HoldsAreCounted
    <2> QED BY <2>1, <2>2, <2>5 DEF CoreInv
  <1>2. CoreInv /\ [Next]_vars => CoreInv'
    <2>1. ASSUME CoreInv, NEW t \in Threads,
                 Calls(t) \/ Releases(t) \/ Bodies(t) \/ Wakes(t)
          PROVE  CoreInv'
      <3>1. TypeOK' /\ TurnInv'
        BY <2>1, TypeStep, TurnStep DEF CoreInv
      <3> QED BY <2>1, <3>1, HoldsStayCounted DEF CoreInv
    <2>2. ASSUME CoreInv, UNCHANGED vars PROVE CoreInv'
      BY <2>2 DEF vars, CoreInv, TypeOK, TurnInv, OnExclusiveRelease, OnSharedRelease,
                  Holds, HoldsAreCounted
    <2> QED BY <2>1, <2>2 DEF Next
  <1> QED BY <1>1, <1>2, PTL DEF Spec

(* Each variable stays in its type, whatever the program calls: a count of *)
(* the state word that goes below zero wraps, and stays in the word.       *)
THEOREM TypeCorrect == Spec => []TypeOK
  <1>1. CoreInv => TypeOK
    BY DEF CoreInv
  <1> QED BY <1>1, CoreInvariance, PTL

(* The recursion count is the number of exclusive holds of all threads,    *)
(* although try_lock() lets several in: no unlock() of a holder throws,    *)
(* and the one that takes the count to zero is the last.                   *)
THEOREM HoldsCounted == Spec => []HoldsAreCounted
  <1>1. CoreInv => HoldsAreCounted
    BY DEF CoreInv
  <1> QED BY <1>1, CoreInvariance, PTL

=============================================================================
