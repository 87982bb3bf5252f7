------------------------ MODULE RecursiveSharedMutex ------------------------
(***************************************************************************)
(* recursive_shared_mutex (2.sharedmutex/best/shared_mutex.hpp and .cpp):  *)
(* a state word guarded by a recursive mutex m_mutex, and two condition    *)
(* variables.  Writers and readers that find a writer sleep on             *)
(* m_exclusive_release, the writer that waits for the readers to leave on  *)
(* m_shared_release.                                                       *)
(*                                                                         *)
(* m_mutex is a variable of the model, because try_lock() and              *)
(* try_lock_shared() give up when they find it taken: a blocking call      *)
(* enters (takes m_mutex) in one action and runs its body, up to a wait or *)
(* to its end, in another.  unlock() notifies after it has left.           *)
(***************************************************************************)
EXTENDS Naturals, FiniteSets

CONSTANTS Threads,
          None,          \* no thread
          MaxReaders,    \* m_num_readers: the largest count the word holds
          MaxRecursion,  \* numeric_limits<int>::max()
          Operations     \* which of the member functions the program calls

ASSUME RSMAssumption ==
  /\ IsFiniteSet(Threads)
  /\ None \notin Threads
  /\ MaxReaders \in Nat \ {0}
  /\ MaxRecursion \in Nat \ {0}
  /\ Operations \subseteq {"lock", "try_lock", "lock_shared", "try_lock_shared",
                           "unlock_unlocked"}

VARIABLES
  m_mutex,
  m_write_entered,   \* the top bit of m_state
  readers,           \* the other bits of m_state
  m_write_thread,
  m_write_recurses,
  pc,        \* "idle", the call whose body runs, or the wait it sleeps in
  notified,  \* the sleepers a notify has released
  xheld,     \* lock()s and successful try_lock()s not yet unlocked
  sheld      \* the same of the shared side

state == <<m_write_entered, readers>>
writer == <<m_write_thread, m_write_recurses>>
vars == <<m_mutex, state, writer, pc, notified, xheld, sheld>>

Init ==
  /\ m_mutex = None
  /\ m_write_entered = FALSE
  /\ readers = 0
  /\ m_write_thread = None
  /\ m_write_recurses = 0
  /\ pc = [t \in Threads |-> "idle"]
  /\ notified = {}
  /\ xheld = [t \in Threads |-> 0]
  /\ sheld = [t \in Threads |-> 0]

OnExclusiveRelease == {t \in Threads : pc[t] \in {"wait_writer", "wait_reader"}}
OnSharedRelease    == {t \in Threads : pc[t] = "wait_drain"}

Goto(t, label) == pc' = [pc EXCEPT ![t] = label] /\ notified' = notified \ {t}

OneOf(sleepers) ==
  IF sleepers \subseteq notified THEN {{}} ELSE {{t} : t \in sleepers \ notified}

(* A caller nests lock() in lock() only; it releases what it holds.        *)
MayCall(t, op) ==
  /\ pc[t] = "idle"
  /\ op \in Operations
  /\ sheld[t] = 0
  /\ op \in {"lock_shared", "try_lock_shared"} => xheld[t] = 0
  /\ m_write_recurses <= MaxRecursion  \* bound: try_lock() does not look at it

-----------------------------------------------------------------------------
(* The beginning of a call: std::unique_lock lk(m_mutex).                  *)
Enter(t, op) ==
  /\ m_mutex = None
  /\ m_mutex' = t
  /\ Goto(t, op)
  /\ UNCHANGED <<state, writer>>

EnterLock(t) ==
  /\ \E op \in {"lock", "lock_shared"} : MayCall(t, op) /\ Enter(t, op)
  /\ UNCHANGED <<xheld, sheld>>

(* A caller that unlocks what nobody has locked.                           *)
EnterUnlockUnlocked(t) ==
  /\ MayCall(t, "unlock_unlocked")
  /\ m_write_recurses = 0
  /\ Enter(t, "unlock")
  /\ UNCHANGED <<xheld, sheld>>

EnterUnlock(t) ==
  /\ pc[t] = "idle" /\ xheld[t] > 0
  /\ xheld' = [xheld EXCEPT ![t] = @ - 1]
  /\ Enter(t, "unlock")
  /\ UNCHANGED sheld

EnterUnlockShared(t) ==
  /\ pc[t] = "idle" /\ sheld[t] > 0
  /\ sheld' = [sheld EXCEPT ![t] = @ - 1]
  /\ Enter(t, "unlock_shared")
  /\ UNCHANGED xheld

(* The body has m_mutex, from the beginning or again after a wait, and     *)
(* gives it back.                                                          *)
Running(t, label) ==
  /\ pc[t] = label
  /\ m_mutex = t
  /\ m_mutex' = None

Woken(t, label) ==
  /\ pc[t] = label
  /\ m_mutex = None
  /\ UNCHANGED m_mutex

-----------------------------------------------------------------------------
(* m_write_recurses++ and m_write_thread = this thread.                    *)
Granted(t) ==
  /\ m_write_recurses' = m_write_recurses + 1
  /\ m_write_thread' = t
  /\ xheld' = [xheld EXCEPT ![t] = @ + 1]

Drain(t) ==
  IF readers > 0
    THEN Goto(t, "wait_drain") /\ UNCHANGED <<writer, xheld>>
    ELSE Granted(t) /\ Goto(t, "idle")

do_exclusive_lock(t) ==
  /\ IF m_write_entered
       THEN /\ Goto(t, "wait_writer")
            /\ UNCHANGED <<m_write_entered, writer, xheld>>
       ELSE m_write_entered' = TRUE /\ Drain(t)
  /\ UNCHANGED <<readers, sheld>>

(* Mutant: another thread's recursion is taken for one's own.              *)
LockBodyAnyone(t) ==
  /\ Running(t, "lock")
  /\ \/ m_write_recurses = 0 /\ do_exclusive_lock(t)
     \/ /\ m_write_recurses > 0
        /\ Granted(t)
        /\ Goto(t, "idle")
        /\ UNCHANGED <<state, sheld>>

(* lock().  Too deep a recursion throws and leaves everything as it was.   *)
LockBody(t) ==
  /\ Running(t, "lock")
  /\ \/ /\ m_write_recurses = 0 \/ m_write_thread # t
        /\ do_exclusive_lock(t)
     \/ /\ m_write_recurses > 0 /\ m_write_thread = t
        /\ IF m_write_recurses = MaxRecursion
             THEN UNCHANGED <<writer, xheld>>
             ELSE Granted(t)
        /\ Goto(t, "idle")
        /\ UNCHANGED <<state, sheld>>

WakeInWriterWait(t) == Woken(t, "wait_writer") /\ do_exclusive_lock(t)

WakeInDrain(t) ==
  /\ Woken(t, "wait_drain")
  /\ Drain(t)
  /\ UNCHANGED <<state, sheld>>

(* no_one_has_any_lock() as the code has it: m_state != 0.                 *)
no_one_has_any_lock == m_write_entered \/ readers > 0

(* Mutant: the owner's recursion is not counted.                           *)
TryLockUncounted(t) ==
  /\ MayCall(t, "try_lock")
  /\ m_mutex = None
  /\ m_write_recurses > 0 /\ m_write_thread = t
  /\ xheld' = [xheld EXCEPT ![t] = @ + 1]
  /\ UNCHANGED <<m_mutex, state, writer, pc, notified, sheld>>

(* try_lock() that obtains m_mutex and returns true.  One that returns     *)
(* false, because m_mutex is taken (which refuses the owner's recursive    *)
(* calls as well) or because of the state, changes nothing.  The code has  *)
(* no limit here: MaxRecursion bounds the model, which stops before the    *)
(* int m_write_recurses would overflow.                                    *)
TryLock(t) ==
  /\ MayCall(t, "try_lock")
  /\ m_mutex = None
  /\ \/ /\ m_write_recurses > 0 /\ m_write_thread = t
        /\ UNCHANGED m_write_entered
     \/ /\ ~(m_write_recurses > 0 /\ m_write_thread = t)
        /\ no_one_has_any_lock
        /\ m_write_entered' = TRUE
  /\ m_write_recurses < MaxRecursion  \* bound, not a test of the code
  /\ Granted(t)
  /\ UNCHANGED <<m_mutex, readers, pc, notified, sheld>>

-----------------------------------------------------------------------------
(* Mutant: every unlock() clears the word, not only the last one.          *)
UnlockBodyEarly(t) ==
  /\ Running(t, "unlock")
  /\ m_write_recurses' = m_write_recurses - 1
  /\ m_write_entered' = FALSE
  /\ readers' = 0
  /\ Goto(t, "notify")
  /\ UNCHANGED <<m_write_thread, xheld, sheld>>

(* unlock(): the last one clears the whole word; notify_all() comes after  *)
(* m_mutex has been given back.                                            *)
UnlockBody(t) ==
  /\ Running(t, "unlock")
  /\ IF m_write_recurses = 0
       THEN Goto(t, "idle") /\ UNCHANGED <<state, m_write_recurses>>  \* throws
       ELSE /\ m_write_recurses' = m_write_recurses - 1
            /\ IF m_write_recurses = 1
                 THEN /\ m_write_entered' = FALSE
                      /\ readers' = 0
                      /\ Goto(t, "notify")
                 ELSE Goto(t, "idle") /\ UNCHANGED state
  /\ UNCHANGED <<m_write_thread, xheld, sheld>>

(* Mutant: notify_one() for all the sleepers.                              *)
NotifyOne(t) ==
  /\ pc[t] = "notify"
  /\ pc' = [pc EXCEPT ![t] = "idle"]
  /\ \E s \in OneOf(OnExclusiveRelease) : notified' = notified \cup s
  /\ UNCHANGED <<m_mutex, state, writer, xheld, sheld>>

NotifyAll(t) ==
  /\ pc[t] = "notify"
  /\ pc' = [pc EXCEPT ![t] = "idle"]
  /\ notified' = notified \cup OnExclusiveRelease
  /\ UNCHANGED <<m_mutex, state, writer, xheld, sheld>>

-----------------------------------------------------------------------------
do_lock_shared(t) ==
  /\ IF m_write_entered \/ readers = MaxReaders
       THEN Goto(t, "wait_reader") /\ UNCHANGED <<readers, sheld>>
       ELSE /\ readers' = readers + 1
            /\ sheld' = [sheld EXCEPT ![t] = @ + 1]
            /\ Goto(t, "idle")
  /\ UNCHANGED <<m_write_entered, writer, xheld>>

LockSharedBody(t) == Running(t, "lock_shared") /\ do_lock_shared(t)

WakeInReaderWait(t) == Woken(t, "wait_reader") /\ do_lock_shared(t)

(* try_lock_shared() that returns true.                                    *)
TryLockShared(t) ==
  /\ MayCall(t, "try_lock_shared")
  /\ m_mutex = None
  /\ ~m_write_entered /\ readers < MaxReaders
  /\ readers' = readers + 1
  /\ sheld' = [sheld EXCEPT ![t] = @ + 1]
  /\ UNCHANGED <<m_mutex, m_write_entered, writer, pc, notified, xheld>>

(* The count is OR-ed into the word: below zero it sets every bit.         *)
decrement_readers ==
  IF readers > 0
    THEN readers' = readers - 1 /\ UNCHANGED m_write_entered
    ELSE readers' = MaxReaders /\ m_write_entered' = TRUE

(* Mutant: the writer that waits for the readers is not told.              *)
UnlockSharedSilent(t) ==
  /\ Running(t, "unlock_shared")
  /\ decrement_readers
  /\ pc' = [pc EXCEPT ![t] = "idle"]
  /\ UNCHANGED <<notified, writer, xheld, sheld>>

UnlockSharedBody(t) ==
  /\ Running(t, "unlock_shared")
  /\ decrement_readers
  /\ pc' = [pc EXCEPT ![t] = "idle"]
  /\ \/ /\ m_write_entered' /\ readers' = 0
        /\ \E s \in OneOf(OnSharedRelease) : notified' = notified \cup s
     \/ /\ ~m_write_entered' /\ readers' = MaxReaders - 1
        /\ \E s \in OneOf(OnExclusiveRelease) : notified' = notified \cup s
     \/ /\ IF m_write_entered' THEN readers' # 0 ELSE readers' # MaxReaders - 1
        /\ UNCHANGED notified
  /\ UNCHANGED <<writer, xheld, sheld>>

-----------------------------------------------------------------------------
Calls(t) ==
  \/ EnterLock(t) \/ EnterUnlockUnlocked(t)
  \/ TryLock(t) \/ TryLockShared(t)

Releases(t) == EnterUnlock(t) \/ EnterUnlockShared(t)

Bodies(t) ==
  \/ LockBody(t) \/ UnlockBody(t) \/ NotifyAll(t)
  \/ LockSharedBody(t) \/ UnlockSharedBody(t)

Wakes(t) == WakeInWriterWait(t) \/ WakeInDrain(t) \/ WakeInReaderWait(t)

Next == \E t \in Threads : Calls(t) \/ Releases(t) \/ Bodies(t) \/ Wakes(t)

Spec == Init /\ [][Next]_vars

(* Threads run, and a holder releases, once it is its turn on m_mutex:     *)
(* m_mutex is free again and again, so strong fairness says that nobody is *)
(* kept from it for ever.                                                  *)
Fairness ==
  \A t \in Threads :
    /\ WF_vars(Bodies(t))
    /\ SF_vars(Releases(t))
    /\ SF_vars(t \in notified /\ Wakes(t))

FairSpec == Spec /\ Fairness

-----------------------------------------------------------------------------
TypeOK ==
  /\ m_mutex \in Threads \cup {None}
  /\ m_write_entered \in BOOLEAN
  /\ readers \in 0 .. MaxReaders
  /\ m_write_thread \in Threads \cup {None}
  /\ m_write_recurses \in Nat
  /\ pc \in [Threads -> {"idle", "lock", "unlock", "lock_shared", "unlock_shared",
                         "wait_writer", "wait_drain", "wait_reader", "notify"}]
  /\ notified \subseteq OnExclusiveRelease \cup OnSharedRelease
  /\ xheld \in [Threads -> Nat]
  /\ sheld \in [Threads -> {0, 1}]

(* A thread that holds the mutex exclusively is alone.                     *)
(* "Attempts to exclusively lock this mutex." (shared_mutex.hpp:57)        *)
MutualExclusion ==
  \A t, u \in Threads : xheld[t] > 0 /\ u # t => xheld[u] = 0 /\ sheld[u] = 0

(* The assertion of lock(): a thread that becomes the writer finds no      *)
(* recursion count left over from the last one (shared_mutex.cpp:115).     *)
NewWriterStartsAtZero ==
  ~m_write_entered \/ OnSharedRelease # {} => m_write_recurses = 0

(* The exclusive holds: every lock() and try_lock() not yet unlocked.      *)
Holds == UNION {{t} \X (1 .. xheld[t]) : t \in Threads}

(* m_write_recurses counts the exclusive holds of all threads together, so *)
(* unlock() by a thread that holds never throws.                           *)
HoldsAreCounted ==
  m_write_recurses = Cardinality(Holds)
    + Cardinality({t \in Threads : pc[t] = "unlock" /\ m_write_recurses > 0})

(* No wake-up is lost, although unlock() notifies after it has given       *)
(* m_mutex back: a sleeper that could go on has been notified, or someone  *)
(* is about to notify it.                                                  *)
NoLostWakeup ==
  \A t \in Threads \ notified :
    /\ pc[t] = "wait_drain" => readers > 0
    /\ pc[t] \in {"wait_writer", "wait_reader"} =>
         \/ m_write_entered
         \/ pc[t] = "wait_reader" /\ readers = MaxReaders
         \/ \E u \in Threads : pc[u] = "notify"
         \/ OnExclusiveRelease \cap notified # {}

(* A writer that has set the bit gets in: later readers wait.              *)
AnnouncedWriterGetsIn ==
  \A t \in Threads : pc[t] = "wait_drain" ~> xheld[t] > 0

(* Once no more writers come every waiting reader gets in.                 *)
ReadersGetInAfterWriters ==
  \A t \in Threads :
    <>[](~m_write_entered) => (pc[t] = "wait_reader" ~> sheld[t] > 0)

(* The mutex implements the abstract lock.                                 *)
Abstract == INSTANCE RWLock

ImplementsRWLock == Abstract!Spec
=============================================================================
