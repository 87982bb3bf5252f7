------------------------ MODULE ContentionFreeMutex ------------------------
(***************************************************************************)
(* sf::recursive_free_shared_mutex (2.sharedmutex/first/recsharedmutex.h). *)
(*                                                                         *)
(* A reader owns one slot of an array and only ever writes that slot; a    *)
(* writer raises want_x_lock and then waits, slot by slot, until no slot   *)
(* is busy.  A thread for which no slot is left takes want_x_lock even for *)
(* a shared acquisition.  One action is one atomic operation of the code;  *)
(* what a thread does to variables nobody else reads in between is folded  *)
(* into the neighbouring operation.  The operations of the Dekker pattern  *)
(* (slot, then want_x_lock) are seq_cst in the code, so interleaving       *)
(* semantics is the semantics of the code.                                 *)
(***************************************************************************)
EXTENDS Integers, FiniteSets

CONSTANTS Threads,   \* the threads that use the mutex
          N,         \* contention_free_count: slots in shared_locks_array
          None,      \* thread_id_t(): no thread
          MaxHold,   \* bound: acquisitions one thread nests
          Nesting    \* which calls a thread makes while it holds the mutex:
                     \* lock/lock "XX", lock/lock_shared "XS", lock_shared
                     \* twice "SS", register_thread under lock_shared "SR"

ASSUME CFAssumption ==
  /\ N \in Nat \ {0}
  /\ None \notin Threads
  /\ MaxHold \in Nat \ {0}
  /\ Nesting \subseteq {"XX", "XS", "SS", "SR"}

VARIABLES
  want,     \* want_x_lock
  owner,    \* owner_thread_id
  xcount,   \* recursive_xlock_count
  slot,     \* shared_locks_array: 0 free, 1 registered, k + 1 held k times
  reg,      \* the thread's entry for this mutex in thread_local_index_hashmap
  pc,       \* the atomic operation the thread performs next
  call,     \* the member function the thread is in
  idx,      \* loop index of the scan over the slots
  xheld,    \* lock()s returned and not yet unlocked, as the caller counts
  sheld,    \* lock_shared()s granted through the thread's slot
  fheld     \* lock_shared()s granted through want_x_lock, without a slot

code == <<want, owner, xcount, slot, reg>>
held == <<xheld, sheld, fheld>>
vars == <<want, owner, xcount, slot, reg, pc, call, idx, xheld, sheld, fheld>>

Slots == 0 .. N - 1
Unregistered == -1

Init ==
  /\ want = FALSE
  /\ owner = None
  /\ xcount = 0
  /\ slot = [i \in Slots |-> 0]
  /\ reg = [t \in Threads |-> Unregistered]
  /\ pc = [t \in Threads |-> "idle"]
  /\ call = [t \in Threads |-> "none"]
  /\ idx = [t \in Threads |-> 0]
  /\ xheld = [t \in Threads |-> 0]
  /\ sheld = [t \in Threads |-> 0]
  /\ fheld = [t \in Threads |-> 0]

Goto(t, label) == pc' = [pc EXCEPT ![t] = label]

(* One reference is the mutex's own, one is held by every entry of a       *)
(* thread's map.                                                           *)
use_count == 1 + Cardinality({t \in Threads : reg[t] # Unregistered})

-----------------------------------------------------------------------------
(* The callers.  They nest only what the class comment allows (X->X, X->S  *)
(* and S->S, never S->X), and only the nestings in Nesting.                *)

MayLock(t) ==
  /\ pc[t] = "idle"
  /\ xheld[t] < MaxHold
  /\ sheld[t] + fheld[t] = 0
  /\ xheld[t] > 0 => "XX" \in Nesting

MayLockShared(t) ==
  /\ pc[t] = "idle"
  /\ xheld[t] + sheld[t] + fheld[t] < MaxHold
  /\ xheld[t] > 0 => "XS" \in Nesting
  /\ sheld[t] + fheld[t] > 0 => "SS" \in Nesting

-----------------------------------------------------------------------------
(* register_thread()                                                       *)

(* A public call; a thread that already has its entry returns at once.     *)
CallRegister(t) ==
  /\ pc[t] = "idle"
  /\ reg[t] = Unregistered
  /\ fheld[t] > 0 => "SR" \in Nesting
  /\ call' = [call EXCEPT ![t] = "register_thread"]
  /\ Goto(t, "use_count")
  /\ UNCHANGED <<code, idx, held>>

(* Where the caller goes on when register_thread() returns.                *)
AfterRegister(t, registered) ==
  IF call[t] # "lock_shared" THEN "idle"
  ELSE IF registered THEN "publish" ELSE "owner"

CheckUseCount(t) ==
  /\ pc[t] = "use_count"
  /\ idx' = [idx EXCEPT ![t] = 0]
  /\ Goto(t, IF use_count <= N THEN "scan" ELSE AfterRegister(t, FALSE))
  /\ UNCHANGED <<code, call, held>>

(* Mutant: takes a slot that is registered but idle for a free one.        *)
ScanSlotIdle(t) ==
  /\ pc[t] = "scan"
  /\ slot[idx[t]] <= 1
  /\ slot' = [slot EXCEPT ![idx[t]] = 1]
  /\ Goto(t, "emplace")
  /\ UNCHANGED <<want, owner, xcount, reg, call, idx, held>>

(* The load of the slot and the compare_exchange 0 -> 1 on it.             *)
ScanSlot(t) ==
  /\ pc[t] = "scan"
  /\ \/ /\ slot[idx[t]] = 0
        /\ slot' = [slot EXCEPT ![idx[t]] = 1]
        /\ Goto(t, "emplace")
        /\ UNCHANGED idx
     \/ /\ slot[idx[t]] # 0
        /\ IF idx[t] + 1 < N
             THEN /\ idx' = [idx EXCEPT ![t] = @ + 1]
                  /\ UNCHANGED pc
             ELSE /\ Goto(t, AfterRegister(t, FALSE))
                  /\ UNCHANGED idx
        /\ UNCHANGED slot
  /\ UNCHANGED <<want, owner, xcount, reg, call, held>>

EmplaceEntry(t) ==
  /\ pc[t] = "emplace"
  /\ reg' = [reg EXCEPT ![t] = idx[t]]
  /\ Goto(t, AfterRegister(t, TRUE))
  /\ UNCHANGED <<want, owner, xcount, slot, call, idx, held>>

(* unregister_thread(), and the destructor of the thread's map when the    *)
(* thread ends: the slot is given back, then the reference is dropped.     *)
Unregister(t) ==
  /\ pc[t] = "idle"
  /\ reg[t] # Unregistered
  /\ slot[reg[t]] = 1
  /\ slot' = [slot EXCEPT ![reg[t]] = @ - 1]
  /\ Goto(t, "drop")
  /\ UNCHANGED <<want, owner, xcount, reg, call, idx, held>>

DropEntry(t) ==
  /\ pc[t] = "drop"
  /\ reg' = [reg EXCEPT ![t] = Unregistered]
  /\ Goto(t, "idle")
  /\ UNCHANGED <<want, owner, xcount, slot, call, idx, held>>

-----------------------------------------------------------------------------
(* lock_shared() with a slot                                               *)

CallLockShared(t) ==
  /\ MayLockShared(t)
  /\ call' = [call EXCEPT ![t] = "lock_shared"]
  /\ Goto(t, IF reg[t] = Unregistered THEN "use_count" ELSE "publish")
  /\ UNCHANGED <<code, idx, held>>

(* A busy slot is the thread's own recursion and is only incremented; a    *)
(* free one is marked busy and want_x_lock is looked at afterwards.        *)
Publish(t) ==
  /\ pc[t] = "publish"
  /\ slot' = [slot EXCEPT ![reg[t]] = @ + 1]
  /\ \/ /\ slot[reg[t]] > 1
        /\ sheld' = [sheld EXCEPT ![t] = @ + 1]
        /\ Goto(t, "idle")
     \/ /\ slot[reg[t]] <= 1
        /\ Goto(t, "verify")
        /\ UNCHANGED sheld
  /\ UNCHANGED <<want, owner, xcount, reg, call, idx, xheld, fheld>>

(* Mutant: the flag is not looked at again once the slot is published.     *)
VerifyUnchecked(t) ==
  /\ pc[t] = "verify"
  /\ sheld' = [sheld EXCEPT ![t] = @ + 1]
  /\ Goto(t, "idle")
  /\ UNCHANGED <<code, call, idx, xheld, fheld>>

Verify(t) ==
  /\ pc[t] = "verify"
  /\ \/ /\ want
        /\ Goto(t, "backoff")
        /\ UNCHANGED sheld
     \/ /\ ~want
        /\ sheld' = [sheld EXCEPT ![t] = @ + 1]
        /\ Goto(t, "idle")
  /\ UNCHANGED <<code, call, idx, xheld, fheld>>

(* Mutant: the slot stays published.                                       *)
BackOffPublished(t) ==
  /\ pc[t] = "backoff"
  /\ Goto(t, "spin")
  /\ UNCHANGED <<code, call, idx, held>>

BackOff(t) ==
  /\ pc[t] = "backoff"
  /\ slot' = [slot EXCEPT ![reg[t]] = 1]
  /\ Goto(t, "spin")
  /\ UNCHANGED <<want, owner, xcount, reg, call, idx, held>>

(* The inner loop ends when want_x_lock is seen down; the slot is then     *)
(* published again and the flag looked at again.                           *)
EndSpin(t) ==
  /\ pc[t] = "spin"
  /\ ~want
  /\ Goto(t, "publish")
  /\ UNCHANGED <<code, call, idx, held>>

UnlockShared(t) ==
  /\ pc[t] = "idle"
  /\ reg[t] # Unregistered
  /\ sheld[t] > 0
  /\ slot' = [slot EXCEPT ![reg[t]] = @ - 1]
  /\ sheld' = [sheld EXCEPT ![t] = @ - 1]
  /\ UNCHANGED <<want, owner, xcount, reg, pc, call, idx, xheld, fheld>>

-----------------------------------------------------------------------------
(* lock(), and lock_shared() without a slot, which takes the same flag     *)

CallLock(t) ==
  /\ MayLock(t)
  /\ call' = [call EXCEPT ![t] = "lock"]
  /\ Goto(t, "owner")
  /\ UNCHANGED <<code, idx, held>>

(* ++recursive_xlock_count and return.                                     *)
Granted(t) ==
  /\ xcount' = xcount + 1
  /\ Goto(t, "idle")
  /\ \/ /\ call[t] = "lock"
        /\ xheld' = [xheld EXCEPT ![t] = @ + 1]
        /\ UNCHANGED fheld
     \/ /\ call[t] = "lock_shared"
        /\ fheld' = [fheld EXCEPT ![t] = @ + 1]
        /\ UNCHANGED xheld
  /\ UNCHANGED sheld

(* Mutant: the recursion test is missing.                                  *)
CheckOwnerNever(t) ==
  /\ pc[t] = "owner"
  /\ Goto(t, "cas")
  /\ UNCHANGED <<code, call, idx, held>>

CheckOwner(t) ==
  /\ pc[t] = "owner"
  /\ \/ owner = t /\ Granted(t)
     \/ owner # t /\ Goto(t, "cas") /\ UNCHANGED <<xcount, held>>
  /\ UNCHANGED <<want, owner, slot, reg, call, idx>>

(* The compare_exchange_weak that succeeds; the failing ones change        *)
(* nothing.                                                                *)
RaiseWant(t) ==
  /\ pc[t] = "cas"
  /\ ~want
  /\ want' = TRUE
  /\ Goto(t, "own")
  /\ UNCHANGED <<owner, xcount, slot, reg, call, idx, held>>

StoreOwner(t) ==
  /\ pc[t] = "own"
  /\ owner' = t
  /\ \/ /\ call[t] = "lock"
        /\ idx' = [idx EXCEPT ![t] = 0]
        /\ Goto(t, "drain")
        /\ UNCHANGED <<xcount, held>>
     \/ /\ call[t] = "lock_shared"
        /\ Granted(t)
        /\ UNCHANGED idx
  /\ UNCHANGED <<want, slot, reg, call>>

(* Mutant: the loop over the slots stops one short.                        *)
DrainSlotShort(t) ==
  /\ pc[t] = "drain"
  /\ IF idx[t] + 1 < N
       THEN /\ slot[idx[t]] <= 1
            /\ idx' = [idx EXCEPT ![t] = @ + 1]
            /\ UNCHANGED <<xcount, pc, held>>
       ELSE /\ Granted(t)
            /\ UNCHANGED idx
  /\ UNCHANGED <<want, owner, slot, reg, call>>

(* One load of the loop over the slots that leaves the inner while.        *)
DrainSlot(t) ==
  /\ pc[t] = "drain"
  /\ slot[idx[t]] <= 1
  /\ IF idx[t] + 1 < N
       THEN /\ idx' = [idx EXCEPT ![t] = @ + 1]
            /\ UNCHANGED <<xcount, pc, held>>
       ELSE /\ Granted(t)
            /\ UNCHANGED idx
  /\ UNCHANGED <<want, owner, slot, reg, call>>

(* --recursive_xlock_count; the last release clears the owner first.       *)
ReleaseCount(t) ==
  /\ xcount' = xcount - 1
  /\ IF xcount = 1
       THEN owner' = None /\ Goto(t, "release")
       ELSE UNCHANGED <<owner, pc>>
  /\ UNCHANGED <<want, slot, reg, call, idx, sheld>>

Unlock(t) ==
  /\ pc[t] = "idle"
  /\ xheld[t] > 0
  /\ xheld' = [xheld EXCEPT ![t] = @ - 1]
  /\ ReleaseCount(t)
  /\ UNCHANGED fheld

UnlockSharedFlag(t) ==
  /\ pc[t] = "idle"
  /\ reg[t] = Unregistered
  /\ fheld[t] > 0
  /\ fheld' = [fheld EXCEPT ![t] = @ - 1]
  /\ ReleaseCount(t)
  /\ UNCHANGED xheld

(* ... and lowers want_x_lock last.                                        *)
LowerWant(t) ==
  /\ pc[t] = "release"
  /\ want' = FALSE
  /\ Goto(t, "idle")
  /\ UNCHANGED <<owner, xcount, slot, reg, call, idx, held>>

-----------------------------------------------------------------------------
Calls(t) == CallRegister(t) \/ CallLockShared(t) \/ CallLock(t) \/ Unregister(t)

Releases(t) == UnlockShared(t) \/ Unlock(t) \/ UnlockSharedFlag(t)

(* The rest of a call that has been made.                                  *)
Steps(t) ==
  \/ CheckUseCount(t) \/ ScanSlot(t) \/ EmplaceEntry(t) \/ DropEntry(t)
  \/ Publish(t) \/ Verify(t) \/ BackOff(t) \/ EndSpin(t)
  \/ CheckOwner(t) \/ RaiseWant(t) \/ StoreOwner(t) \/ DrainSlot(t)
  \/ LowerWant(t)

Next == \E t \in Threads : Calls(t) \/ Releases(t) \/ Steps(t)

Spec == Init /\ [][Next]_vars

(* Every thread is scheduled, and a caller that holds the mutex eventually *)
(* releases it.  Nothing makes the compare_exchange loop fair to one       *)
(* thread, so RaiseWant has weak fairness only.                            *)
Fairness == \A t \in Threads : WF_vars(Steps(t)) /\ WF_vars(Releases(t))

FairSpec == Spec /\ Fairness

-----------------------------------------------------------------------------
Labels == {"idle", "use_count", "scan", "emplace", "drop", "publish", "verify",
           "backoff", "spin", "owner", "cas", "own", "drain", "release"}

TypeOK ==
  /\ want \in BOOLEAN
  /\ owner \in Threads \cup {None}
  /\ xcount \in Nat
  /\ slot \in [Slots -> Nat]
  /\ reg \in [Threads -> Slots \cup {Unregistered}]
  /\ pc \in [Threads -> Labels]
  /\ call \in [Threads -> {"none", "register_thread", "lock_shared", "lock"}]
  /\ idx \in [Threads -> Slots]
  /\ xheld \in [Threads -> Nat]
  /\ sheld \in [Threads -> Nat]
  /\ fheld \in [Threads -> Nat]

(* Who has raised want_x_lock, and with what a thread is registered.  A    *)
(* thread owns a slot from the compare_exchange until the decrement, which *)
(* is not quite as long as its map entry exists.                           *)
HasFlag(t) == pc[t] \in {"own", "drain", "release"} \/ xheld[t] + fheld[t] > 0

OwnSlot(t) == IF pc[t] = "emplace" THEN idx[t]
              ELSE IF pc[t] = "drop" THEN Unregistered ELSE reg[t]

-----------------------------------------------------------------------------
(* A thread between a returned lock() and its unlock() is alone: no other  *)
(* thread is inside an exclusive section or a shared one, whether that one *)
(* was granted through a slot or through want_x_lock.                      *)
MutualExclusion ==
  \A t, u \in Threads :
    xheld[t] > 0 /\ u # t => xheld[u] = 0 /\ sheld[u] = 0 /\ fheld[u] = 0

(* No two threads ever count in the same slot, although slots are found by *)
(* scanning and are given back and taken again at any time.                *)
SlotsAreNotShared ==
  \A t, u \in Threads :
    t # u /\ OwnSlot(t) # Unregistered => OwnSlot(t) # OwnSlot(u)

(* owner_thread_id names the thread that holds the flag for as long as the *)
(* recursion test may rely on it, and the plain int recursive_xlock_count  *)
(* counts exactly that thread's holds: unlock() clears the owner before it *)
(* lowers the flag, so no late store can wipe out the next owner.          *)
OwnerIsHolder ==
  \A t \in Threads :
    xheld[t] + fheld[t] > 0 => owner = t /\ xcount = xheld[t] + fheld[t]

(* The assertions of lock(), lock_shared(), unlock_shared() and unlock()   *)
(* hold whenever a caller that obeys the class comment gets there.  (They  *)
(* do not for one that calls register_thread() inside a shared section.)   *)
AssertionsHold ==
  \A t \in Threads :
    /\ MayLock(t) /\ reg[t] # Unregistered => slot[reg[t]] = 1
    /\ pc[t] = "publish" => slot[reg[t]] >= 1
    /\ pc[t] = "idle" /\ sheld[t] + fheld[t] > 0 /\ reg[t] # Unregistered
         => slot[reg[t]] > 1
    /\ pc[t] = "idle" /\ xheld[t] > 0 => xcount > 0

(* The mutex implements the abstract recursive readers/writer lock.        *)
Abstract == INSTANCE RWLock WITH sheld <- [t \in Threads |-> sheld[t] + fheld[t]]

ImplementsRWLock == Abstract!Spec

(* A writer that has raised the flag is let in once the readers it found   *)
(* have left, provided none of them nests for ever: readers that come      *)
(* later back off, so the drain ends.                                      *)
WriterIsNotStarvedByReaders ==
  (\A u \in Threads : []<>(sheld[u] = 0))
    => \A t \in Threads : pc[t] = "drain" ~> xheld[t] > 0

(* "same-lock-type is recursive for X->X, X->S or S->S locks"              *)
(* (recsharedmutex.h:25): a caller that already holds the mutex gets out   *)
(* of a nested lock() ...                                                  *)
NestedLockReturns ==
  \A t \in Threads :
    (pc[t] # "idle" /\ call[t] = "lock" /\ xheld[t] > 0) ~> (pc[t] = "idle")

(* ... and of a nested lock_shared().                                      *)
NestedLockSharedReturns ==
  \A t \in Threads :
    (pc[t] # "idle" /\ call[t] = "lock_shared" /\ xheld[t] + sheld[t] + fheld[t] > 0)
      ~> (pc[t] = "idle")
=============================================================================
