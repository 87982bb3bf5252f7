------------------------ MODULE SharedRecursiveMutex ------------------------
(***************************************************************************)
(* shared_recursive_mutex (2.sharedmutex/second/shared_recursive_mutex.hpp)*)
(* makes sm::shared_mutex recursive: the exclusive side with an owner and  *)
(* a count, both atomics, the shared side with a map from thread to count  *)
(* behind a mutex of its own.                                              *)
(*                                                                         *)
(* The wrapped mutex is the module CondSharedMutex, whose actions the      *)
(* actions below invoke; mxheld and msheld are its holds, xheld and sheld  *)
(* what the callers of the wrapper hold.  One action is one access to an   *)
(* atomic or one locked access to the map, with what the thread does to    *)
(* its own data before it.                                                 *)
(***************************************************************************)
EXTENDS Naturals, FiniteSets

CONSTANTS Threads,
          None,      \* std::thread::id(): no thread
          MaxHold,   \* bound: acquisitions one thread nests
          Nesting    \* which same-thread nestings the callers use:
                     \* "XX", "SS", "XS", "SX"

ASSUME SRMAssumption ==
  /\ IsFiniteSet(Threads)
  /\ None \notin Threads
  /\ MaxHold \in Nat \ {0}
  /\ Nesting \subseteq {"XX", "SS", "XS", "SX"}

VARIABLES
  m_writeInProgress, m_readerCount, pc, notified, mxheld, msheld,  \* m
  owner,
  count,
  shared_counts,  \* 0 stands for a thread without an entry
  at,             \* where in the wrapper's code a thread is
  xheld, sheld

m == <<m_writeInProgress, m_readerCount, pc, notified, mxheld, msheld>>
vars == <<m, owner, count, shared_counts, at, xheld, sheld>>

M == INSTANCE CondSharedMutex WITH xheld <- mxheld, sheld <- msheld

Init ==
  /\ M!Init
  /\ owner = None
  /\ count = 0
  /\ shared_counts = [t \in Threads |-> 0]
  /\ at = [t \in Threads |-> "caller"]
  /\ xheld = [t \in Threads |-> 0]
  /\ sheld = [t \in Threads |-> 0]

Go(t, label) == at' = [at EXCEPT ![t] = label]

Plus(f, t, n)  == [f EXCEPT ![t] = @ + n]
Minus(f, t, n) == [f EXCEPT ![t] = @ - n]

(* The callers nest as Nesting says.                                       *)
MayAcquire(t, nested) ==
  /\ at[t] = "caller"
  /\ xheld[t] + sheld[t] < MaxHold
  /\ xheld[t] > 0 => nested[1] \in Nesting
  /\ sheld[t] > 0 => nested[2] \in Nesting

-----------------------------------------------------------------------------
(* lock()                                                                  *)

(* Mutant: the owner is not recognised.                                    *)
CallLockPlain(t) ==
  /\ MayAcquire(t, <<"XX", "SX">>)
  /\ Go(t, "lock")
  /\ UNCHANGED <<m, owner, count, shared_counts, xheld, sheld>>

CallLock(t) ==
  /\ MayAcquire(t, <<"XX", "SX">>)
  /\ \/ /\ owner = t
        /\ count' = count + 1
        /\ xheld' = Plus(xheld, t, 1)
        /\ UNCHANGED at
     \/ /\ owner # t
        /\ Go(t, "lock")
        /\ UNCHANGED <<count, xheld>>
  /\ UNCHANGED <<m, owner, shared_counts, sheld>>

(* m.lock(): the call, and the waking up inside it.                        *)
InMLock(t) ==
  /\ at[t] = "lock"
  /\ \/ pc[t] = "idle" /\ mxheld[t] = 0 /\ M!WaitForWriter(t)
     \/ M!WakeInWriteWait(t)
     \/ M!WakeInDrain(t)
  /\ UNCHANGED <<owner, count, shared_counts, at, xheld, sheld>>

SetOwner(t) ==
  /\ at[t] = "lock" /\ pc[t] = "idle" /\ mxheld[t] = 1
  /\ owner' = t
  /\ Go(t, "set_count")
  /\ UNCHANGED <<m, count, shared_counts, xheld, sheld>>

SetCount(t) ==
  /\ at[t] = "set_count"
  /\ count' = 1
  /\ xheld' = Plus(xheld, t, 1)
  /\ Go(t, "caller")
  /\ UNCHANGED <<m, owner, shared_counts, sheld>>

(* unlock()                                                                *)
CallUnlock(t) ==
  /\ at[t] = "caller" /\ xheld[t] > 0
  /\ xheld' = Minus(xheld, t, 1)
  /\ \/ /\ count > 1
        /\ count' = count - 1
        /\ UNCHANGED <<owner, at>>
     \/ /\ count <= 1
        /\ owner' = None
        /\ Go(t, "clear_count")
        /\ UNCHANGED count
  /\ UNCHANGED <<m, shared_counts, sheld>>

(* Mutant: count = 0 after m.unlock() instead of before it.                *)
ClearCountLate(t) ==
  /\ at[t] = "clear_count"
  /\ \/ /\ mxheld[t] = 1
        /\ M!Unlock(t)
        /\ UNCHANGED <<count, at>>
     \/ /\ mxheld[t] = 0
        /\ count' = 0
        /\ Go(t, "caller")
        /\ UNCHANGED m
  /\ UNCHANGED <<owner, shared_counts, xheld, sheld>>

ClearCount(t) ==
  /\ at[t] = "clear_count"
  /\ count' = 0
  /\ Go(t, "unlock")
  /\ UNCHANGED <<m, owner, shared_counts, xheld, sheld>>

InMUnlock(t) ==
  /\ at[t] = "unlock"
  /\ M!Unlock(t)
  /\ Go(t, "caller")
  /\ UNCHANGED <<owner, count, shared_counts, xheld, sheld>>

-----------------------------------------------------------------------------
(* lock_shared(): the thread's entry in the map tells recursion.           *)
CallLockShared(t) ==
  /\ MayAcquire(t, <<"XS", "SS">>)
  /\ Go(t, IF shared_counts[t] > 0 THEN "count_shared" ELSE "lock_shared")
  /\ UNCHANGED <<m, owner, count, shared_counts, xheld, sheld>>

InMLockShared(t) ==
  /\ at[t] = "lock_shared"
  /\ \/ pc[t] = "idle" /\ msheld[t] = 0 /\ M!WaitWhileWriting(t)
     \/ M!WakeInReadWait(t)
  /\ UNCHANGED <<owner, count, shared_counts, at, xheld, sheld>>

CountShared(t) ==
  /\ \/ /\ at[t] = "count_shared"
        /\ shared_counts' = Plus(shared_counts, t, 1)
     \/ /\ at[t] = "lock_shared" /\ pc[t] = "idle" /\ msheld[t] = 1
        /\ shared_counts' = [shared_counts EXCEPT ![t] = 1]
  /\ sheld' = Plus(sheld, t, 1)
  /\ Go(t, "caller")
  /\ UNCHANGED <<m, owner, count, xheld>>

(* Mutant: an off-by-one, the shared side is released one unlock too soon. *)
CallUnlockSharedEarly(t) ==
  /\ at[t] = "caller" /\ sheld[t] > 0
  /\ sheld' = Minus(sheld, t, 1)
  /\ \/ /\ shared_counts[t] > 2
        /\ shared_counts' = Minus(shared_counts, t, 1)
        /\ UNCHANGED at
     \/ /\ shared_counts[t] <= 2
        /\ shared_counts' = [shared_counts EXCEPT ![t] = 0]
        /\ Go(t, "unlock_shared")
  /\ UNCHANGED <<m, owner, count, xheld>>

(* unlock_shared(): the entry is found, then counted down or erased.       *)
CallUnlockShared(t) ==
  /\ at[t] = "caller" /\ sheld[t] > 0
  /\ sheld' = Minus(sheld, t, 1)
  /\ \/ /\ shared_counts[t] > 1
        /\ shared_counts' = Minus(shared_counts, t, 1)
        /\ UNCHANGED at
     \/ /\ shared_counts[t] <= 1
        /\ shared_counts' = [shared_counts EXCEPT ![t] = 0]
        /\ Go(t, "unlock_shared")
  /\ UNCHANGED <<m, owner, count, xheld>>

InMUnlockShared(t) ==
  /\ at[t] = "unlock_shared"
  /\ M!UnlockShared(t)
  /\ Go(t, "caller")
  /\ UNCHANGED <<owner, count, shared_counts, xheld, sheld>>

-----------------------------------------------------------------------------
Calls(t) == CallLock(t) \/ CallLockShared(t)

Releases(t) == CallUnlock(t) \/ CallUnlockShared(t)

Steps(t) ==
  \/ SetOwner(t) \/ SetCount(t) \/ ClearCount(t) \/ InMUnlock(t)
  \/ CountShared(t) \/ InMUnlockShared(t)

Inner(t) == InMLock(t) \/ InMLockShared(t)

Next == \E t \in Threads : Calls(t) \/ Releases(t) \/ Steps(t) \/ Inner(t)

Spec == Init /\ [][Next]_vars

(* As for the wrapped mutex: threads run, notified sleepers wake, holders  *)
(* release.                                                                *)
Fairness ==
  \A t \in Threads :
    /\ WF_vars(Steps(t))
    /\ WF_vars(Releases(t))
    /\ WF_vars((pc[t] = "idle" \/ t \in notified) /\ Inner(t))

FairSpec == Spec /\ Fairness

-----------------------------------------------------------------------------
TypeOK ==
  /\ M!TypeOK
  /\ owner \in Threads \cup {None}
  /\ count \in Nat
  /\ shared_counts \in [Threads -> Nat]
  /\ at \in [Threads -> {"caller", "lock", "set_count", "clear_count", "unlock",
                         "lock_shared", "count_shared", "unlock_shared"}]
  /\ xheld \in [Threads -> Nat]
  /\ sheld \in [Threads -> Nat]

(* The two sides of the bookkeeping agree with what the callers hold and   *)
(* with what the wrapped mutex believes: a caller's hold is backed by one  *)
(* hold of m, and owner, count and the map, written outside m's critical   *)
(* sections, never describe somebody else's hold.                          *)
HoldsAreBacked ==
  \A t \in Threads :
    /\ xheld[t] > 0 => mxheld[t] = 1 /\ owner = t /\ count = xheld[t]
    /\ sheld[t] > 0 => msheld[t] = 1
    /\ owner = t => mxheld[t] = 1
    /\ at[t] = "caller" => shared_counts[t] = sheld[t]

(* The wrapper implements the abstract recursive readers/writer lock.      *)
Abstract == INSTANCE RWLock

ImplementsRWLock == Abstract!Spec

(* "Implement a shared_mutex of your own that supports recursion"          *)
(* (README.md:20): a thread that holds the mutex gets out of a nested      *)
(* acquisition, a reader even while a writer waits for it to leave.        *)
NestedCallReturns ==
  \A t \in Threads :
    (xheld[t] + sheld[t] > 0 /\ at[t] # "caller") ~> at[t] = "caller"

(* Seen from the wrapper a writer that has announced itself still gets in, *)
(* provided no reader nests for ever: the recursion does not look at the   *)
(* writer, so a reader can keep it out, but a new reader cannot.           *)
AnnouncedWriterGetsIn ==
  (\A u \in Threads : []<>(sheld[u] = 0))
    => \A t \in Threads : pc[t] = "wait_drain" ~> xheld[t] > 0
=============================================================================
