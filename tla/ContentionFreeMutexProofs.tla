--------------------- MODULE ContentionFreeMutexProofs ---------------------
(***************************************************************************)
(* Mutual exclusion of the contention-free mutex for any number of threads *)
(* and slots, and that it implements the abstract lock RWLock.             *)
(*                                                                         *)
(* IInv is the inductive invariant.  Its parts follow the code: what a     *)
(* label says about its thread (ControlInv), who has raised want_x_lock    *)
(* (FlagInv), what owner_thread_id and recursive_xlock_count say then      *)
(* (OwnerInv), what a slot counts (SlotInv), and the Dekker argument that  *)
(* relates the flag to the slots (DrainInv).                               *)
(***************************************************************************)
EXTENDS ContentionFreeMutex, TLAPS

(* What each label says about the thread that is there.                    *)
Control(t) ==
  /\ pc[t] \in {"owner", "cas", "own", "drain"} => call[t] \in {"lock", "lock_shared"}
  /\ pc[t] = "drain" => call[t] = "lock"
  /\ pc[t] \in {"owner", "cas", "own", "drain"} /\ call[t] = "lock"
       => sheld[t] + fheld[t] = 0
  /\ pc[t] \in {"publish", "verify", "backoff", "spin"} => reg[t] # Unregistered
  /\ pc[t] \in {"verify", "backoff", "spin"} => sheld[t] = 0
  /\ sheld[t] > 0 => /\ pc[t] \in {"idle", "publish"}
                  /\ reg[t] # Unregistered /\ xheld[t] = 0 /\ fheld[t] = 0
  /\ pc[t] \in {"cas", "own", "drain", "release"} => xheld[t] + fheld[t] = 0
  /\ pc[t] = "idle" /\ fheld[t] > 0 => reg[t] = Unregistered
  /\ pc[t] = "drop" => reg[t] # Unregistered
  /\ pc[t] \in {"use_count", "scan", "emplace"} => reg[t] = Unregistered
  /\ pc[t] \in {"use_count", "scan", "emplace"} /\ call[t] # "lock_shared" => fheld[t] = 0
  /\ pc[t] \in {"owner", "cas", "own"} /\ call[t] = "lock_shared" => reg[t] = Unregistered

(* The owner field follows the flag, and the count its holder's holds.     *)
OwnerOf(t) ==
  /\ owner = t <=> (HasFlag(t) /\ pc[t] \notin {"own", "release"})
  /\ owner = t => xcount = xheld[t] + fheld[t]

(* A slot counts its thread's holds, one more while it is being tried.     *)
SlotOf(t) ==
  OwnSlot(t) # Unregistered =>
    slot[OwnSlot(t)] = IF pc[t] \in {"verify", "backoff"} THEN 2 ELSE 1 + sheld[t]

ControlInv == \A t \in Threads : Control(t)

FlagInv ==
  /\ \A t \in Threads : HasFlag(t) => want
  /\ \A t, u \in Threads : HasFlag(t) /\ HasFlag(u) => t = u

OwnerInv ==
  /\ \A t \in Threads : OwnerOf(t)
  /\ owner = None => xcount = 0

SlotInv ==
  /\ SlotsAreNotShared
  /\ \A t \in Threads : SlotOf(t)

(* The Dekker argument: a thread whose slot the draining writer has passed *)
(* holds nothing, and cannot get in while the flag is up.                  *)
DrainInv ==
  \A t, u \in Threads : u # t =>
    /\ xheld[t] > 0 => sheld[u] = 0
    /\ pc[t] = "drain" /\ OwnSlot(u) \in 0 .. idx[t] - 1 => sheld[u] = 0

IInv == TypeOK /\ ControlInv /\ FlagInv /\ OwnerInv /\ SlotInv /\ DrainInv

(* Callers do not register a thread while it holds the flag for a shared   *)
(* section: without this the assertion in unlock_shared() fails, and so do *)
(* the invariants below.                                                   *)
NoLateRegistration == "SR" \notin Nesting

USE CFAssumption DEF Slots, Unregistered

(* An operation of one thread touches nothing private to another.          *)
LEMMA OthersStep ==
  ASSUME IInv, NEW t \in Threads, Calls(t) \/ Releases(t) \/ Steps(t),
         NEW u \in Threads, u # t
  PROVE
    /\ pc'[u] = pc[u] /\ call'[u] = call[u] /\ idx'[u] = idx[u] /\ reg'[u] = reg[u]
    /\ xheld'[u] = xheld[u] /\ sheld'[u] = sheld[u] /\ fheld'[u] = fheld[u]
  <1> USE DEF IInv, code, held
  <1>1. CASE CallRegister(t)
    BY <1>1 DEF CallRegister, TypeOK, Goto
  <1>2. CASE CallLockShared(t)
    BY <1>2 DEF CallLockShared, MayLockShared, TypeOK, Goto
  <1>3. CASE CallLock(t)
    BY <1>3 DEF CallLock, MayLock, TypeOK, Goto
  <1>4. CASE Unregister(t)
    BY <1>4 DEF Unregister, TypeOK, Goto
  <1>5. CASE UnlockShared(t)
    BY <1>5 DEF UnlockShared, TypeOK, Goto
  <1>6. CASE Unlock(t)
    BY <1>6 DEF Unlock, ReleaseCount, TypeOK, Goto
  <1>7. CASE UnlockSharedFlag(t)
    BY <1>7 DEF UnlockSharedFlag, ReleaseCount, TypeOK, Goto
  <1>8. CASE CheckUseCount(t)
    BY <1>8 DEF CheckUseCount, AfterRegister, TypeOK, Goto
  <1>9. CASE ScanSlot(t)
    BY <1>9 DEF ScanSlot, AfterRegister, TypeOK, Goto
  <1>10. CASE EmplaceEntry(t)
    BY <1>10 DEF EmplaceEntry, AfterRegister, TypeOK, Goto
  <1>11. CASE DropEntry(t)
    BY <1>11 DEF DropEntry, TypeOK, Goto
  <1>12. CASE Publish(t)
    BY <1>12 DEF Publish, TypeOK, Goto
  <1>13. CASE Verify(t)
    BY <1>13 DEF Verify, TypeOK, Goto
  <1>14. CASE BackOff(t)
    BY <1>14 DEF BackOff, TypeOK, Goto
  <1>15. CASE EndSpin(t)
    BY <1>15 DEF EndSpin, TypeOK, Goto
  <1>16. CASE CheckOwner(t)
    BY <1>16 DEF CheckOwner, Granted, TypeOK, Goto
  <1>17. CASE RaiseWant(t)
    BY <1>17 DEF RaiseWant, TypeOK, Goto
  <1>18. CASE StoreOwner(t)
    BY <1>18 DEF StoreOwner, Granted, TypeOK, Goto
  <1>19. CASE DrainSlot(t)
    BY <1>19 DEF DrainSlot, Granted, TypeOK, Goto
  <1>20. CASE LowerWant(t)
    BY <1>20 DEF LowerWant, TypeOK, Goto
  <1> QED BY <1>1, <1>2, <1>3, <1>4, <1>5, <1>6, <1>7, <1>8, <1>9, <1>10, <1>11, <1>12,
      <1>13, <1>14, <1>15, <1>16, <1>17, <1>18, <1>19, <1>20
       DEF Calls, Releases, Steps

(* The thread that moves is where its new label says.                      *)
LEMMA ControlStep ==
  ASSUME NoLateRegistration, IInv,
         NEW t \in Threads, Calls(t) \/ Releases(t) \/ Steps(t)
  PROVE  Control(t)'
  <1> USE DEF IInv, code, held
  <1>a. TypeOK /\ Control(t)
    BY DEF ControlInv
  <1>b. OwnerOf(t) /\ SlotOf(t) /\ (HasFlag(t) => want)
    BY DEF OwnerInv, SlotInv, FlagInv
  <1>c. xcount \in Nat /\ xheld[t] \in Nat /\ sheld[t] \in Nat /\ fheld[t] \in Nat
    BY DEF TypeOK
  <1>1. CASE CallRegister(t)
    BY <1>1, <1>a, <1>b, <1>c
       DEF NoLateRegistration, CallRegister, TypeOK, Control, Goto
  <1>2. CASE CallLockShared(t)
    BY <1>2, <1>a, <1>b, <1>c
       DEF CallLockShared, MayLockShared, TypeOK, Control, Goto, OwnerOf, SlotOf, OwnSlot,
           HasFlag
  <1>3. CASE CallLock(t)
    BY <1>3, <1>a, <1>b, <1>c
       DEF CallLock, MayLock, TypeOK, Control, Goto, OwnerOf, SlotOf, OwnSlot, HasFlag
  <1>4. CASE Unregister(t)
    BY <1>4, <1>a, <1>b, <1>c
       DEF Unregister, TypeOK, Control, Goto, OwnerOf, SlotOf, OwnSlot, HasFlag
  <1>5. CASE UnlockShared(t)
    BY <1>5, <1>a, <1>b, <1>c
       DEF UnlockShared, TypeOK, Control, Goto, OwnerOf, SlotOf, OwnSlot, HasFlag
  <1>6. CASE Unlock(t)
    <2>0. xcount = xheld[t] + fheld[t]
      BY <1>6, <1>a, <1>b, <1>c DEF Unlock, OwnerOf, HasFlag
    <2>1. CASE xcount = 1
      <3>1. xheld'[t] = 0 /\ fheld'[t] = 0
        BY <2>1, <2>0, <1>6, <1>c DEF Unlock, ReleaseCount, TypeOK
      <3>2. pc[t] = "idle" /\ pc'[t] = "release"
        BY <2>1, <1>6 DEF Unlock, ReleaseCount, Goto, TypeOK
      <3>3. sheld'[t] = sheld[t] /\ reg'[t] = reg[t] /\ call'[t] = call[t]
        BY <1>6 DEF Unlock, ReleaseCount
      <3>4. sheld[t] = 0
        BY <1>6, <1>a, <1>c DEF Unlock, Control
      <3> QED BY <3>1, <3>2, <3>3, <3>4 DEF Control
    <2>2. CASE xcount # 1
      BY <2>2, <2>0, <1>6, <1>a, <1>b, <1>c
         DEF Unlock, ReleaseCount, TypeOK, Control, Goto, OwnerOf, SlotOf, OwnSlot, HasFlag
    <2> QED BY <2>1, <2>2
  <1>7. CASE UnlockSharedFlag(t)
    BY <1>7, <1>a, <1>b, <1>c
       DEF UnlockSharedFlag, ReleaseCount, TypeOK, Control, Goto, OwnerOf, SlotOf,
           OwnSlot, HasFlag
  <1>8. CASE CheckUseCount(t)
    BY <1>8, <1>a, <1>b, <1>c
       DEF CheckUseCount, AfterRegister, TypeOK, Control, Goto, OwnerOf, SlotOf, OwnSlot,
           HasFlag
  <1>9. CASE ScanSlot(t)
    <2>1. pc'[t] \in {"scan", "emplace", "idle", "owner"}
      BY <1>9, <1>a DEF ScanSlot, AfterRegister, Goto, TypeOK
    <2>2. /\ pc[t] = "scan"
          /\ pc'[t] = "idle" <=>
               (pc'[t] \notin {"scan", "emplace"} /\ call[t] # "lock_shared")
      BY <1>9, <1>a DEF ScanSlot, AfterRegister, Goto, TypeOK
    <2>3. UNCHANGED <<call, reg, xheld, sheld, fheld>>
      BY <1>9 DEF ScanSlot
    <2> QED BY <2>1, <2>2, <2>3, <1>a DEF Control
  <1>10. CASE EmplaceEntry(t)
    BY <1>10, <1>a, <1>b, <1>c
       DEF EmplaceEntry, AfterRegister, TypeOK, Control, Goto, OwnerOf, SlotOf, OwnSlot,
           HasFlag
  <1>11. CASE DropEntry(t)
    BY <1>11, <1>a, <1>b, <1>c
       DEF DropEntry, TypeOK, Control, Goto, OwnerOf, SlotOf, OwnSlot, HasFlag
  <1>12. CASE Publish(t)
    <2>1. CASE slot[reg[t]] > 1
      <3>1. sheld[t] > 0
        BY <2>1, <1>12, <1>a, <1>b, <1>c DEF Publish, Control, SlotOf, OwnSlot
      <3>0. ~(slot[reg[t]] <= 1)
        <4>1. reg[t] \in Slots
          BY <1>12, <1>a DEF Publish, Control, TypeOK
        <4>2. slot[reg[t]] \in Nat
          BY <4>1 DEF TypeOK
        <4> QED BY <4>2, <2>1
      <3>4. pc' = [pc EXCEPT ![t] = "idle"] /\ sheld' = [sheld EXCEPT ![t] = sheld[t] + 1]
        BY <3>0, <1>12 DEF Publish, Goto
      <3>2. pc'[t] = "idle" /\ sheld'[t] = sheld[t] + 1
        BY <3>4 DEF TypeOK
      <3>3. UNCHANGED <<call, reg, xheld, fheld>>
        BY <1>12 DEF Publish
      <3> QED BY <3>1, <3>2, <3>3, <1>12, <1>a, <1>c DEF Publish, Control
    <2>2. CASE ~(slot[reg[t]] > 1)
      <3>1. sheld[t] = 0
        BY <2>2, <1>12, <1>a, <1>b, <1>c DEF Publish, Control, SlotOf, OwnSlot
      <3>2. pc'[t] = "verify" /\ sheld' = sheld
        BY <2>2, <1>12, <1>a DEF Publish, Goto, TypeOK
      <3> QED BY <3>1, <3>2, <1>12, <1>a DEF Publish, Control
    <2> QED BY <2>1, <2>2
  <1>13. CASE Verify(t)
    <2>1. CASE want
      BY <2>1, <1>13, <1>a DEF Verify, TypeOK, Control, Goto
    <2>2. CASE ~want
      <3>1. xheld[t] = 0 /\ fheld[t] = 0
        BY <2>2, <1>b, <1>c DEF HasFlag
      <3>2. pc'[t] = "idle"
        BY <2>2, <1>13 DEF Verify, TypeOK, Goto
      <3> QED BY <3>1, <3>2, <1>13, <1>a DEF Verify, Control
    <2> QED BY <2>1, <2>2
  <1>14. CASE BackOff(t)
    BY <1>14, <1>a, <1>b, <1>c
       DEF BackOff, TypeOK, Control, Goto, OwnerOf, SlotOf, OwnSlot, HasFlag
  <1>15. CASE EndSpin(t)
    BY <1>15, <1>a, <1>b, <1>c
       DEF EndSpin, TypeOK, Control, Goto, OwnerOf, SlotOf, OwnSlot, HasFlag
  <1>16. CASE CheckOwner(t)
    <2>1. CASE owner = t
      BY <2>1, <1>16, <1>a, <1>b, <1>c
         DEF CheckOwner, Granted, TypeOK, Control, Goto, OwnerOf, SlotOf, OwnSlot, HasFlag
    <2>2. CASE owner # t
      BY <2>2, <1>16, <1>a, <1>b, <1>c
         DEF CheckOwner, Granted, TypeOK, Control, Goto, OwnerOf, SlotOf, OwnSlot, HasFlag
    <2> QED BY <2>1, <2>2
  <1>17. CASE RaiseWant(t)
    BY <1>17, <1>a, <1>b, <1>c
       DEF RaiseWant, TypeOK, Control, Goto, OwnerOf, SlotOf, OwnSlot, HasFlag
  <1>18. CASE StoreOwner(t)
    BY <1>18, <1>a, <1>b, <1>c
       DEF StoreOwner, Granted, TypeOK, Control, Goto, OwnerOf, SlotOf, OwnSlot, HasFlag
  <1>19. CASE DrainSlot(t)
    <2>1. CASE idx[t] + 1 < N
      BY <2>1, <1>19, <1>a, <1>b, <1>c
         DEF DrainSlot, Granted, TypeOK, Control, Goto, OwnerOf, SlotOf, OwnSlot, HasFlag
    <2>2. CASE ~(idx[t] + 1 < N)
      BY <2>2, <1>19, <1>a, <1>b, <1>c
         DEF DrainSlot, Granted, TypeOK, Control, Goto, OwnerOf, SlotOf, OwnSlot, HasFlag
    <2> QED BY <2>1, <2>2
  <1>20. CASE LowerWant(t)
    BY <1>20, <1>a, <1>b, <1>c
       DEF LowerWant, TypeOK, Control, Goto, OwnerOf, SlotOf, OwnSlot, HasFlag
  <1> QED BY <1>1, <1>2, <1>3, <1>4, <1>5, <1>6, <1>7, <1>8, <1>9, <1>10, <1>11, <1>12,
      <1>13, <1>14, <1>15, <1>16, <1>17, <1>18, <1>19, <1>20
       DEF Calls, Releases, Steps

(* The flag goes up only when it is down and down only by its holder.      *)
LEMMA FlagStep ==
  ASSUME IInv, NEW t \in Threads, Calls(t) \/ Releases(t) \/ Steps(t)
  PROVE
    /\ HasFlag(t)' => want'
    /\ HasFlag(t)' => HasFlag(t) \/ ~want
    /\ want => want' \/ HasFlag(t)
  <1> USE DEF IInv, code, held, FlagInv
  <1>a. TypeOK /\ Control(t)
    BY DEF ControlInv
  <1>b. OwnerOf(t) /\ SlotOf(t) /\ (HasFlag(t) => want)
    BY DEF OwnerInv, SlotInv, FlagInv
  <1>c. xcount \in Nat /\ xheld[t] \in Nat /\ sheld[t] \in Nat /\ fheld[t] \in Nat
    BY DEF TypeOK
  <1>1. CASE CallRegister(t)
    BY <1>1, <1>a, <1>b, <1>c DEF CallRegister, TypeOK, Control, Goto, OwnerOf, HasFlag
  <1>2. CASE CallLockShared(t)
    BY <1>2, <1>a, <1>b, <1>c
       DEF CallLockShared, MayLockShared, TypeOK, Control, Goto, OwnerOf, HasFlag
  <1>3. CASE CallLock(t)
    BY <1>3, <1>a, <1>b, <1>c DEF CallLock, MayLock, TypeOK, Control, Goto, OwnerOf, HasFlag
  <1>4. CASE Unregister(t)
    BY <1>4, <1>a, <1>b, <1>c DEF Unregister, TypeOK, Control, Goto, OwnerOf, HasFlag
  <1>5. CASE UnlockShared(t)
    BY <1>5, <1>a, <1>b, <1>c DEF UnlockShared, TypeOK, Control, Goto, OwnerOf, HasFlag
  <1>6. CASE Unlock(t)
    BY <1>6, <1>a, <1>b, <1>c
       DEF Unlock, ReleaseCount, TypeOK, Control, Goto, OwnerOf, HasFlag
  <1>7. CASE UnlockSharedFlag(t)
    BY <1>7, <1>a, <1>b, <1>c
       DEF UnlockSharedFlag, ReleaseCount, TypeOK, Control, Goto, OwnerOf, HasFlag
  <1>8. CASE CheckUseCount(t)
    BY <1>8, <1>a, <1>b, <1>c
       DEF CheckUseCount, AfterRegister, TypeOK, Control, Goto, OwnerOf, HasFlag
  <1>9. CASE ScanSlot(t)
    BY <1>9, <1>a, <1>b, <1>c
       DEF ScanSlot, AfterRegister, TypeOK, Control, Goto, OwnerOf, HasFlag
  <1>10. CASE EmplaceEntry(t)
    BY <1>10, <1>a, <1>b, <1>c
       DEF EmplaceEntry, AfterRegister, TypeOK, Control, Goto, OwnerOf, HasFlag
  <1>11. CASE DropEntry(t)
    BY <1>11, <1>a, <1>b, <1>c DEF DropEntry, TypeOK, Control, Goto, OwnerOf, HasFlag
  <1>12. CASE Publish(t)
    BY <1>12, <1>a, <1>b, <1>c DEF Publish, TypeOK, Control, Goto, OwnerOf, HasFlag
  <1>13. CASE Verify(t)
    BY <1>13, <1>a, <1>b, <1>c DEF Verify, TypeOK, Control, Goto, OwnerOf, HasFlag
  <1>14. CASE BackOff(t)
    BY <1>14, <1>a, <1>b, <1>c DEF BackOff, TypeOK, Control, Goto, OwnerOf, HasFlag
  <1>15. CASE EndSpin(t)
    BY <1>15, <1>a, <1>b, <1>c DEF EndSpin, TypeOK, Control, Goto, OwnerOf, HasFlag
  <1>16. CASE CheckOwner(t)
    BY <1>16, <1>a, <1>b, <1>c
       DEF CheckOwner, Granted, TypeOK, Control, Goto, OwnerOf, HasFlag
  <1>17. CASE RaiseWant(t)
    BY <1>17, <1>a, <1>b, <1>c DEF RaiseWant, TypeOK, Control, Goto, OwnerOf, HasFlag
  <1>18. CASE StoreOwner(t)
    BY <1>18, <1>a, <1>b, <1>c
       DEF StoreOwner, Granted, TypeOK, Control, Goto, OwnerOf, HasFlag
  <1>19. CASE DrainSlot(t)
    BY <1>19, <1>a, <1>b, <1>c
       DEF DrainSlot, Granted, TypeOK, Control, Goto, OwnerOf, HasFlag
  <1>20. CASE LowerWant(t)
    BY <1>20, <1>a, <1>b, <1>c DEF LowerWant, TypeOK, Control, Goto, OwnerOf, HasFlag
  <1> QED BY <1>1, <1>2, <1>3, <1>4, <1>5, <1>6, <1>7, <1>8, <1>9, <1>10, <1>11, <1>12,
      <1>13, <1>14, <1>15, <1>16, <1>17, <1>18, <1>19, <1>20
       DEF Calls, Releases, Steps

(* Only the holder of the flag writes the owner and the count.             *)
LEMMA OwnerStep ==
  ASSUME IInv, NEW t \in Threads, Calls(t) \/ Releases(t) \/ Steps(t)
  PROVE
    /\ OwnerOf(t)'
    /\ owner' = None => xcount' = 0
    /\ owner' = owner \/ (owner' \in {t, None} /\ HasFlag(t))
    /\ xcount' = xcount \/ HasFlag(t)
  <1> USE DEF IInv, code, held, OwnerInv
  <1>a. TypeOK /\ Control(t)
    BY DEF ControlInv
  <1>b. OwnerOf(t) /\ SlotOf(t) /\ (HasFlag(t) => want)
    BY DEF OwnerInv, SlotInv, FlagInv
  <1>c. xcount \in Nat /\ xheld[t] \in Nat /\ sheld[t] \in Nat /\ fheld[t] \in Nat
    BY DEF TypeOK
  <1>1. CASE CallRegister(t)
    BY <1>1, <1>a, <1>b, <1>c DEF CallRegister, TypeOK, Control, Goto, OwnerOf, HasFlag
  <1>2. CASE CallLockShared(t)
    BY <1>2, <1>a, <1>b, <1>c
       DEF CallLockShared, MayLockShared, TypeOK, Control, Goto, OwnerOf, HasFlag
  <1>3. CASE CallLock(t)
    BY <1>3, <1>a, <1>b, <1>c DEF CallLock, MayLock, TypeOK, Control, Goto, OwnerOf, HasFlag
  <1>4. CASE Unregister(t)
    BY <1>4, <1>a, <1>b, <1>c DEF Unregister, TypeOK, Control, Goto, OwnerOf, HasFlag
  <1>5. CASE UnlockShared(t)
    BY <1>5, <1>a, <1>b, <1>c DEF UnlockShared, TypeOK, Control, Goto, OwnerOf, HasFlag
  <1>6. CASE Unlock(t)
    BY <1>6, <1>a, <1>b, <1>c
       DEF Unlock, ReleaseCount, TypeOK, Control, Goto, OwnerOf, HasFlag
  <1>7. CASE UnlockSharedFlag(t)
    BY <1>7, <1>a, <1>b, <1>c
       DEF UnlockSharedFlag, ReleaseCount, TypeOK, Control, Goto, OwnerOf, HasFlag
  <1>8. CASE CheckUseCount(t)
    BY <1>8, <1>a, <1>b, <1>c
       DEF CheckUseCount, AfterRegister, TypeOK, Control, Goto, OwnerOf, HasFlag
  <1>9. CASE ScanSlot(t)
    BY <1>9, <1>a, <1>b, <1>c
       DEF ScanSlot, AfterRegister, TypeOK, Control, Goto, OwnerOf, HasFlag
  <1>10. CASE EmplaceEntry(t)
    BY <1>10, <1>a, <1>b, <1>c
       DEF EmplaceEntry, AfterRegister, TypeOK, Control, Goto, OwnerOf, HasFlag
  <1>11. CASE DropEntry(t)
    BY <1>11, <1>a, <1>b, <1>c DEF DropEntry, TypeOK, Control, Goto, OwnerOf, HasFlag
  <1>12. CASE Publish(t)
    BY <1>12, <1>a, <1>b, <1>c DEF Publish, TypeOK, Control, Goto, OwnerOf, HasFlag
  <1>13. CASE Verify(t)
    BY <1>13, <1>a, <1>b, <1>c DEF Verify, TypeOK, Control, Goto, OwnerOf, HasFlag
  <1>14. CASE BackOff(t)
    BY <1>14, <1>a, <1>b, <1>c DEF BackOff, TypeOK, Control, Goto, OwnerOf, HasFlag
  <1>15. CASE EndSpin(t)
    BY <1>15, <1>a, <1>b, <1>c DEF EndSpin, TypeOK, Control, Goto, OwnerOf, HasFlag
  <1>16. CASE CheckOwner(t)
    <2>1. CASE owner = t
      BY <2>1, <1>16, <1>a, <1>b, <1>c
         DEF CheckOwner, Granted, TypeOK, Goto, OwnerOf, HasFlag
    <2>2. CASE owner # t
      BY <2>2, <1>16, <1>a, <1>b, <1>c
         DEF CheckOwner, TypeOK, Goto, OwnerOf, HasFlag
    <2> QED BY <2>1, <2>2
  <1>17. CASE RaiseWant(t)
    BY <1>17, <1>a, <1>b, <1>c DEF RaiseWant, TypeOK, Control, Goto, OwnerOf, HasFlag
  <1>18. CASE StoreOwner(t)
    <2>1. HasFlag(t) /\ owner # t /\ xheld[t] = 0 /\ fheld[t] = 0
      BY <1>18, <1>a, <1>b, <1>c DEF StoreOwner, Control, OwnerOf, HasFlag
    <2>2. xcount = 0
      BY <2>1 DEF TypeOK, FlagInv, OwnerInv, OwnerOf
    <2>3. owner' = t /\ pc'[t] \notin {"own", "release"}
      BY <1>18 DEF StoreOwner, Granted, Goto, TypeOK
    <2>4. HasFlag(t)' /\ xcount' = xheld'[t] + fheld'[t]
      <3>1. CASE call[t] = "lock"
        BY <3>1, <2>1, <2>2, <1>18 DEF StoreOwner, Granted, Goto, TypeOK, HasFlag
      <3>2. CASE call[t] = "lock_shared"
        BY <3>2, <2>1, <2>2, <1>18 DEF StoreOwner, Granted, Goto, TypeOK, HasFlag
      <3> QED BY <3>1, <3>2, <1>18 DEF StoreOwner, Granted
    <2> QED BY <2>1, <2>3, <2>4 DEF OwnerOf
  <1>19. CASE DrainSlot(t)
    <2>1. CASE idx[t] + 1 < N
      BY <2>1, <1>19, <1>a, <1>b, <1>c
         DEF DrainSlot, Granted, TypeOK, Control, Goto, OwnerOf, HasFlag
    <2>2. CASE ~(idx[t] + 1 < N)
      <3>1. HasFlag(t) /\ owner = t /\ xheld[t] = 0 /\ fheld[t] = 0 /\ xcount = 0
        BY <1>19, <1>a, <1>b, <1>c DEF DrainSlot, Control, OwnerOf, HasFlag
      <3>2. owner' = t /\ pc'[t] = "idle" /\ xcount' = 1 /\ xheld'[t] = 1 /\ fheld'[t] = 0
        BY <2>2, <3>1, <1>19, <1>a DEF DrainSlot, Granted, Control, TypeOK, Goto
      <3> QED BY <3>1, <3>2 DEF OwnerOf, HasFlag
    <2> QED BY <2>1, <2>2
  <1>20. CASE LowerWant(t)
    BY <1>20, <1>a, <1>b, <1>c DEF LowerWant, TypeOK, Control, Goto, OwnerOf, HasFlag
  <1> QED BY <1>1, <1>2, <1>3, <1>4, <1>5, <1>6, <1>7, <1>8, <1>9, <1>10, <1>11, <1>12,
      <1>13, <1>14, <1>15, <1>16, <1>17, <1>18, <1>19, <1>20
       DEF Calls, Releases, Steps

(* A thread writes no slot but its own, takes only a free one, and is      *)
(* counted in afresh only while the flag is down.                          *)
LEMMA SlotStep ==
  ASSUME IInv, NEW t \in Threads, Calls(t) \/ Releases(t) \/ Steps(t)
  PROVE
    /\ SlotOf(t)'
    /\ \/ OwnSlot(t)' \in {OwnSlot(t), Unregistered}
       \/ OwnSlot(t)' \in Slots /\ slot[OwnSlot(t)'] = 0
    /\ \A k \in Slots : k # OwnSlot(t) /\ k # OwnSlot(t)' => slot'[k] = slot[k]
    /\ sheld'[t] > 0 => (sheld[t] > 0 /\ OwnSlot(t)' = OwnSlot(t)) \/ ~want
  <1> USE DEF IInv, code, held
  <1>a. TypeOK /\ Control(t)
    BY DEF ControlInv
  <1>b. OwnerOf(t) /\ SlotOf(t) /\ (HasFlag(t) => want)
    BY DEF OwnerInv, SlotInv, FlagInv
  <1>c. xcount \in Nat /\ xheld[t] \in Nat /\ sheld[t] \in Nat /\ fheld[t] \in Nat
    BY DEF TypeOK
  <1>d. /\ slot \in [Slots -> Nat] /\ pc \in [Threads -> Labels]
        /\ reg \in [Threads -> Slots \cup {Unregistered}]
        /\ sheld \in [Threads -> Nat] /\ idx \in [Threads -> Slots]
    BY <1>a DEF TypeOK
  <1>1. CASE CallRegister(t)
    BY <1>1, <1>a, <1>b, <1>c DEF CallRegister, TypeOK, Control, Goto, SlotOf, OwnSlot
  <1>2. CASE CallLockShared(t)
    BY <1>2, <1>a, <1>b, <1>c
       DEF CallLockShared, MayLockShared, TypeOK, Control, Goto, SlotOf, OwnSlot
  <1>3. CASE CallLock(t)
    BY <1>3, <1>a, <1>b, <1>c DEF CallLock, MayLock, TypeOK, Control, Goto, SlotOf, OwnSlot
  <1>4. CASE Unregister(t)
    BY <1>4, <1>a, <1>b, <1>c DEF Unregister, TypeOK, Control, Goto, SlotOf, OwnSlot
  <1>5. CASE UnlockShared(t)
    BY <1>5, <1>a, <1>b, <1>c DEF UnlockShared, TypeOK, Control, Goto, SlotOf, OwnSlot
  <1>6. CASE Unlock(t)
    BY <1>6, <1>a, <1>b, <1>c
       DEF Unlock, ReleaseCount, TypeOK, Control, Goto, SlotOf, OwnSlot
  <1>7. CASE UnlockSharedFlag(t)
    BY <1>7, <1>a, <1>b, <1>c
       DEF UnlockSharedFlag, ReleaseCount, TypeOK, Control, Goto, SlotOf, OwnSlot
  <1>8. CASE CheckUseCount(t)
    BY <1>8, <1>a, <1>b, <1>c
       DEF CheckUseCount, AfterRegister, TypeOK, Control, Goto, SlotOf, OwnSlot
  <1>9. CASE ScanSlot(t)
    <2>1. CASE slot[idx[t]] = 0
      BY <2>1, <1>9, <1>a, <1>d DEF ScanSlot, Control, Goto, SlotOf, OwnSlot
    <2>2. CASE slot[idx[t]] # 0
      BY <2>2, <1>9, <1>a, <1>b, <1>c
         DEF ScanSlot, AfterRegister, TypeOK, Control, Goto, SlotOf, OwnSlot
    <2> QED BY <2>1, <2>2
  <1>10. CASE EmplaceEntry(t)
    BY <1>10, <1>a, <1>b, <1>c
       DEF EmplaceEntry, AfterRegister, TypeOK, Control, Goto, SlotOf, OwnSlot
  <1>11. CASE DropEntry(t)
    BY <1>11, <1>a, <1>b, <1>c DEF DropEntry, TypeOK, Control, Goto, SlotOf, OwnSlot
  <1>12. CASE Publish(t)
    <2>1. reg[t] \in Slots /\ slot[reg[t]] = 1 + sheld[t]
      BY <1>12, <1>a, <1>b DEF Publish, Control, TypeOK, SlotOf, OwnSlot
    <2>2. CASE slot[reg[t]] > 1
      BY <2>1, <2>2, <1>12, <1>d DEF Publish, Goto, SlotOf, OwnSlot
    <2>3. CASE ~(slot[reg[t]] > 1)
      BY <2>1, <2>3, <1>12, <1>d DEF Publish, Goto, SlotOf, OwnSlot
    <2> QED BY <2>2, <2>3
  <1>13. CASE Verify(t)
    <2>1. reg[t] \in Slots /\ slot[reg[t]] = 2 /\ sheld[t] = 0
      BY <1>13, <1>a, <1>b DEF Verify, Control, TypeOK, SlotOf, OwnSlot
    <2>2. CASE want
      BY <2>1, <2>2, <1>13, <1>d DEF Verify, Goto, SlotOf, OwnSlot
    <2>3. CASE ~want
      BY <2>1, <2>3, <1>13, <1>d DEF Verify, Goto, SlotOf, OwnSlot
    <2> QED BY <2>2, <2>3
  <1>14. CASE BackOff(t)
    BY <1>14, <1>a, <1>b, <1>c DEF BackOff, TypeOK, Control, Goto, SlotOf, OwnSlot
  <1>15. CASE EndSpin(t)
    BY <1>15, <1>a, <1>b, <1>c DEF EndSpin, TypeOK, Control, Goto, SlotOf, OwnSlot
  <1>16. CASE CheckOwner(t)
    BY <1>16, <1>a, <1>b, <1>c
       DEF CheckOwner, Granted, TypeOK, Control, Goto, SlotOf, OwnSlot
  <1>17. CASE RaiseWant(t)
    BY <1>17, <1>a, <1>b, <1>c DEF RaiseWant, TypeOK, Control, Goto, SlotOf, OwnSlot
  <1>18. CASE StoreOwner(t)
    BY <1>18, <1>a, <1>b, <1>c
       DEF StoreOwner, Granted, TypeOK, Control, Goto, SlotOf, OwnSlot
  <1>19. CASE DrainSlot(t)
    BY <1>19, <1>a, <1>b, <1>c
       DEF DrainSlot, Granted, TypeOK, Control, Goto, SlotOf, OwnSlot
  <1>20. CASE LowerWant(t)
    BY <1>20, <1>a, <1>b, <1>c DEF LowerWant, TypeOK, Control, Goto, SlotOf, OwnSlot
  <1> QED BY <1>1, <1>2, <1>3, <1>4, <1>5, <1>6, <1>7, <1>8, <1>9, <1>10, <1>11, <1>12,
      <1>13, <1>14, <1>15, <1>16, <1>17, <1>18, <1>19, <1>20
       DEF Calls, Releases, Steps

(* Types: the decrements never go below zero.                              *)
LEMMA TypeStep ==
  ASSUME IInv, NEW t \in Threads, Calls(t) \/ Releases(t) \/ Steps(t)
  PROVE  TypeOK'
  <1> USE DEF IInv, code, held
  <1>b. Control(t)
    BY DEF ControlInv
  <1>c. OwnerOf(t)
    BY DEF OwnerInv
  <1>d. SlotOf(t)
    BY DEF SlotInv
  <1>e. 0 \in Slots /\ xcount + 1 \in Nat
    BY DEF TypeOK
  <1>f. xheld[t] \in Nat /\ sheld[t] \in Nat /\ fheld[t] \in Nat
    BY DEF TypeOK
  <1>g. xheld[t] + 1 \in Nat /\ fheld[t] + 1 \in Nat
    BY <1>f
  <1>i. pc \in [Threads -> Labels]
    BY DEF TypeOK
  <1>h. idx[t] \in Slots
    BY DEF TypeOK
  <1>1. CASE CallRegister(t)
    <2>1. call' \in [Threads -> {"none", "register_thread", "lock_shared", "lock"}]
      BY <1>1, <1>e DEF CallRegister, TypeOK
    <2>2. pc' \in [Threads -> Labels]
      BY <1>1, <1>i DEF CallRegister, Goto, Labels
    <2> QED BY <1>1, <2>1, <2>2 DEF CallRegister, TypeOK
  <1>2. CASE CallLockShared(t)
    <2>1. call' \in [Threads -> {"none", "register_thread", "lock_shared", "lock"}]
      BY <1>2, <1>e DEF CallLockShared, MayLockShared, TypeOK
    <2>2. pc' \in [Threads -> Labels]
      BY <1>2, <1>i DEF CallLockShared, MayLockShared, Goto, Labels
    <2> QED BY <1>2, <2>1, <2>2 DEF CallLockShared, TypeOK, MayLockShared
  <1>3. CASE CallLock(t)
    <2>1. call' \in [Threads -> {"none", "register_thread", "lock_shared", "lock"}]
      BY <1>3, <1>e DEF CallLock, MayLock, TypeOK
    <2>2. pc' \in [Threads -> Labels]
      BY <1>3, <1>i DEF CallLock, MayLock, Goto, Labels
    <2> QED BY <1>3, <2>1, <2>2 DEF CallLock, TypeOK, MayLock
  <1>4. CASE Unregister(t)
    <2>1. reg[t] \in Slots
      BY <1>4 DEF Unregister, TypeOK
    <2>2. slot' \in [Slots -> Nat]
      BY <1>4, <1>e, <2>1 DEF Unregister, TypeOK
    <2>3. pc' \in [Threads -> Labels]
      BY <1>4, <1>i DEF Unregister, Goto, Labels
    <2> QED BY <1>4, <2>2, <2>3 DEF Unregister, TypeOK
  <1>5. CASE UnlockShared(t)
    <2>0. slot[reg[t]] = 1 + sheld[t] /\ sheld[t] > 0
      BY <1>5, <1>d DEF UnlockShared, SlotOf, OwnSlot
    <2>a. reg[t] \in Slots
      BY <1>5 DEF UnlockShared, TypeOK
    <2>1. reg[t] \in Slots /\ sheld[t] - 1 \in Nat /\ slot[reg[t]] - 1 \in Nat
      BY <2>a, <2>0, <1>f
    <2>2. slot' \in [Slots -> Nat]
      BY <1>5, <1>e, <2>1 DEF UnlockShared, TypeOK
    <2>3. sheld' \in [Threads -> Nat]
      BY <1>5, <1>e, <2>1 DEF UnlockShared, TypeOK
    <2> QED BY <1>5, <2>2, <2>3 DEF UnlockShared, TypeOK
  <1>6. CASE Unlock(t)
    <2>1. xheld[t] - 1 \in Nat /\ xcount - 1 \in Nat
      BY <1>6, <1>c DEF Unlock, TypeOK, OwnerOf, HasFlag
    <2>2. xcount' \in Nat
      BY <1>6, <1>e, <2>1 DEF Unlock, ReleaseCount, TypeOK
    <2>3. owner' \in Threads \cup {None}
      BY <1>6, <1>e, <2>1 DEF Unlock, ReleaseCount, TypeOK
    <2>4. pc' \in [Threads -> Labels]
      BY <1>6, <1>i DEF Unlock, ReleaseCount, Goto, Labels
    <2>5. xheld' \in [Threads -> Nat]
      BY <1>6, <1>e, <2>1 DEF Unlock, ReleaseCount, TypeOK
    <2> QED BY <1>6, <2>2, <2>3, <2>4, <2>5 DEF Unlock, TypeOK, ReleaseCount
  <1>7. CASE UnlockSharedFlag(t)
    <2>1. fheld[t] - 1 \in Nat /\ xcount - 1 \in Nat
      BY <1>7, <1>c DEF UnlockSharedFlag, TypeOK, OwnerOf, HasFlag
    <2>2. xcount' \in Nat
      BY <1>7, <1>e, <2>1 DEF UnlockSharedFlag, ReleaseCount, TypeOK
    <2>3. owner' \in Threads \cup {None}
      BY <1>7, <1>e, <2>1 DEF UnlockSharedFlag, ReleaseCount, TypeOK
    <2>4. pc' \in [Threads -> Labels]
      BY <1>7, <1>i DEF UnlockSharedFlag, ReleaseCount, Goto, Labels
    <2>5. fheld' \in [Threads -> Nat]
      BY <1>7, <1>e, <2>1 DEF UnlockSharedFlag, ReleaseCount, TypeOK
    <2> QED BY <1>7, <2>2, <2>3, <2>4, <2>5 DEF UnlockSharedFlag, TypeOK, ReleaseCount
  <1>8. CASE CheckUseCount(t)
    <2>1. idx' \in [Threads -> Slots]
      BY <1>8, <1>e DEF CheckUseCount, AfterRegister, TypeOK
    <2>2. pc' \in [Threads -> Labels]
      BY <1>8, <1>i DEF CheckUseCount, AfterRegister, Goto, Labels
    <2> QED BY <1>8, <2>1, <2>2 DEF CheckUseCount, TypeOK, AfterRegister
  <1>9. CASE ScanSlot(t)
    <2>1. idx[t] \in Slots /\ (idx[t] + 1 < N => idx[t] + 1 \in Slots)
      BY <1>h
    <2>2. slot' = slot \/ slot' = [slot EXCEPT ![idx[t]] = 1]
      BY <1>9 DEF ScanSlot
    <2>0. slot \in [Slots -> Nat] /\ idx[t] \in Slots
      BY DEF TypeOK
    <2>5. slot' \in [Slots -> Nat]
      <3>1. CASE slot' = slot
        BY <2>0, <3>1
      <3>2. CASE slot' = [slot EXCEPT ![idx[t]] = 1]
        BY <2>0, <3>2
      <3> QED BY <2>2, <3>1, <3>2
    <2>3. idx' \in [Threads -> Slots]
      BY <1>9, <1>e, <2>1 DEF ScanSlot, AfterRegister, TypeOK
    <2>4. pc' \in [Threads -> Labels]
      BY <1>9, <1>i DEF ScanSlot, AfterRegister, Goto, Labels
    <2> QED BY <1>9, <2>3, <2>4, <2>5 DEF ScanSlot, TypeOK, AfterRegister
  <1>10. CASE EmplaceEntry(t)
    <2>1. idx[t] \in Slots
      BY <1>10 DEF TypeOK
    <2>2. reg' \in [Threads -> Slots \cup {Unregistered}]
      BY <1>10, <1>e, <2>1 DEF EmplaceEntry, AfterRegister, TypeOK
    <2>3. pc' \in [Threads -> Labels]
      BY <1>10, <1>i DEF EmplaceEntry, AfterRegister, Goto, Labels
    <2> QED BY <1>10, <2>2, <2>3 DEF EmplaceEntry, TypeOK, AfterRegister
  <1>11. CASE DropEntry(t)
    <2>1. reg' \in [Threads -> Slots \cup {Unregistered}]
      BY <1>11, <1>e DEF DropEntry, TypeOK
    <2>2. pc' \in [Threads -> Labels]
      BY <1>11, <1>i DEF DropEntry, Goto, Labels
    <2> QED BY <1>11, <2>1, <2>2 DEF DropEntry, TypeOK
  <1>12. CASE Publish(t)
    <2>1. reg[t] \in Slots
      BY <1>12, <1>b DEF Publish, TypeOK, Control
    <2>0. slot[reg[t]] \in Nat /\ sheld[t] \in Nat
      BY <2>1 DEF TypeOK
    <2>2. slot[reg[t]] + 1 \in Nat /\ sheld[t] + 1 \in Nat
      BY <2>0
    <2>3. slot' \in [Slots -> Nat]
      BY <1>12, <1>e, <2>1, <2>2 DEF Publish, TypeOK
    <2>4. sheld' \in [Threads -> Nat]
      BY <1>12, <1>e, <2>1, <2>2 DEF Publish, TypeOK
    <2>5. pc' \in [Threads -> Labels]
      BY <1>12, <1>i DEF Publish, Goto, Labels
    <2> QED BY <1>12, <2>3, <2>4, <2>5 DEF Publish, TypeOK
  <1>13. CASE Verify(t)
    <2>1. sheld[t] + 1 \in Nat
      BY <1>13 DEF TypeOK
    <2>2. sheld' \in [Threads -> Nat]
      BY <1>13, <1>e, <2>1 DEF Verify, TypeOK
    <2>3. pc' \in [Threads -> Labels]
      BY <1>13, <1>i DEF Verify, Goto, Labels
    <2> QED BY <1>13, <2>2, <2>3 DEF Verify, TypeOK
  <1>14. CASE BackOff(t)
    <2>1. reg[t] \in Slots
      BY <1>14 DEF BackOff, TypeOK, ControlInv, Control
    <2>2. slot' \in [Slots -> Nat]
      BY <1>14, <1>e, <2>1 DEF BackOff, TypeOK
    <2>3. pc' \in [Threads -> Labels]
      BY <1>14, <1>i DEF BackOff, Goto, Labels
    <2> QED BY <1>14, <2>2, <2>3 DEF BackOff, TypeOK
  <1>15. CASE EndSpin(t)
    <2>1. pc' \in [Threads -> Labels]
      BY <1>15, <1>i DEF EndSpin, Goto, Labels
    <2> QED BY <1>15, <2>1 DEF EndSpin, TypeOK
  <1>16. CASE CheckOwner(t)
    <2>1. xheld[t] + 1 \in Nat /\ fheld[t] + 1 \in Nat
      BY <1>g
    <2>2. xcount' \in Nat
      BY <1>16, <1>e, <2>1 DEF CheckOwner, Granted, TypeOK
    <2>3. pc' \in [Threads -> Labels]
      BY <1>16, <1>i DEF CheckOwner, Granted, Goto, Labels
    <2>4. xheld' \in [Threads -> Nat]
      BY <1>16, <1>e, <2>1 DEF CheckOwner, Granted, TypeOK
    <2>5. fheld' \in [Threads -> Nat]
      BY <1>16, <1>e, <2>1 DEF CheckOwner, Granted, TypeOK
    <2> QED BY <1>16, <2>2, <2>3, <2>4, <2>5 DEF CheckOwner, TypeOK, Granted
  <1>17. CASE RaiseWant(t)
    <2>1. want' \in BOOLEAN
      BY <1>17, <1>e DEF RaiseWant, TypeOK
    <2>2. pc' \in [Threads -> Labels]
      BY <1>17, <1>i DEF RaiseWant, Goto, Labels
    <2> QED BY <1>17, <2>1, <2>2 DEF RaiseWant, TypeOK
  <1>18. CASE StoreOwner(t)
    <2>1. xheld[t] + 1 \in Nat /\ fheld[t] + 1 \in Nat
      BY <1>g
    <2>2. owner' \in Threads \cup {None}
      BY <1>18, <1>e, <2>1 DEF StoreOwner, Granted, TypeOK
    <2>3. idx' \in [Threads -> Slots]
      BY <1>18, <1>e, <2>1 DEF StoreOwner, Granted, TypeOK
    <2>4. xcount' \in Nat
      BY <1>18, <1>e, <2>1 DEF StoreOwner, Granted, TypeOK
    <2>5. pc' \in [Threads -> Labels]
      BY <1>18, <1>i DEF StoreOwner, Granted, Goto, Labels
    <2>6. xheld' \in [Threads -> Nat]
      BY <1>18, <1>e, <2>1 DEF StoreOwner, Granted, TypeOK
    <2>7. fheld' \in [Threads -> Nat]
      BY <1>18, <1>e, <2>1 DEF StoreOwner, Granted, TypeOK
    <2> QED BY <1>18, <2>2, <2>3, <2>4, <2>5, <2>6, <2>7 DEF StoreOwner, TypeOK, Granted
  <1>19. CASE DrainSlot(t)
    <2>0. idx[t] \in Slots /\ xheld[t] \in Nat /\ fheld[t] \in Nat
      BY DEF TypeOK
    <2>1. (idx[t] + 1 < N => idx[t] + 1 \in Slots) /\ xheld[t] + 1 \in Nat /\ fheld[t] + 1 \in Nat
      BY <2>0
    <2>2. idx' \in [Threads -> Slots]
      BY <1>19, <1>e, <2>1 DEF DrainSlot, Granted, TypeOK
    <2>3. xcount' \in Nat
      BY <1>19, <1>e, <2>1 DEF DrainSlot, Granted, TypeOK
    <2>4. pc' \in [Threads -> Labels]
      BY <1>19, <1>i DEF DrainSlot, Granted, Goto, Labels
    <2>5. xheld' \in [Threads -> Nat]
      BY <1>19, <1>e, <2>1 DEF DrainSlot, Granted, TypeOK
    <2>6. fheld' \in [Threads -> Nat]
      BY <1>19, <1>e, <2>1 DEF DrainSlot, Granted, TypeOK
    <2> QED BY <1>19, <2>2, <2>3, <2>4, <2>5, <2>6 DEF DrainSlot, TypeOK, Granted
  <1>20. CASE LowerWant(t)
    <2>1. want' \in BOOLEAN
      BY <1>20, <1>e DEF LowerWant, TypeOK
    <2>2. pc' \in [Threads -> Labels]
      BY <1>20, <1>i DEF LowerWant, Goto, Labels
    <2> QED BY <1>20, <2>1, <2>2 DEF LowerWant, TypeOK
  <1> QED BY <1>1, <1>2, <1>3, <1>4, <1>5, <1>6, <1>7, <1>8, <1>9, <1>10, <1>11, <1>12,
      <1>13, <1>14, <1>15, <1>16, <1>17, <1>18, <1>19, <1>20
       DEF Calls, Releases, Steps

(* A writer that gets in, or that moves on to the next slot, leaves no     *)
(* reader behind it.                                                       *)
LEMMA WriterStep ==
  ASSUME IInv, NEW t \in Threads, Calls(t) \/ Releases(t) \/ Steps(t),
         NEW u \in Threads, u # t
  PROVE  /\ xheld'[t] > 0 => sheld[u] = 0
         /\ pc'[t] = "drain" /\ OwnSlot(u) \in 0 .. idx'[t] - 1 => sheld[u] = 0
  <1> USE DEF IInv, code, held
  <1>a. TypeOK /\ Control(t) /\ Control(u)
    BY DEF ControlInv
  <1>b. OwnerOf(t) /\ SlotOf(u)
    BY DEF OwnerInv, SlotInv
  <1>c. xheld[t] \in Nat /\ sheld[u] \in Nat /\ idx[t] \in Slots
    BY DEF TypeOK
  <1>d. /\ xheld[t] > 0 => sheld[u] = 0
        /\ pc[t] = "drain" /\ OwnSlot(u) \in 0 .. idx[t] - 1 => sheld[u] = 0
    BY DEF DrainInv
  <1>e. pc[t] = "drain" /\ OwnSlot(u) \in 0 .. idx[t] /\ slot[idx[t]] <= 1 => sheld[u] = 0
    BY <1>a, <1>b, <1>c, <1>d DEF SlotOf, Control, OwnSlot
  <1>f. sheld[u] > 0 => OwnSlot(u) \in Slots
    BY <1>a DEF Control, OwnSlot, TypeOK
  <1>g. OwnSlot(u) \in Slots => OwnSlot(u) \in 0 .. N - 1
    OBVIOUS
  <1>1. CASE DrainSlot(t)
    <2>1. CASE idx[t] + 1 < N
      BY <2>1, <1>1, <1>a, <1>c, <1>d, <1>e DEF DrainSlot, TypeOK
    <2>2. CASE ~(idx[t] + 1 < N)
      <3>1. sheld[u] = 0
        BY <2>2, <1>1, <1>c, <1>e, <1>f DEF DrainSlot
      <3> QED BY <3>1
    <2> QED BY <2>1, <2>2
  <1>2. CASE StoreOwner(t)
    BY <1>2, <1>a, <1>c, <1>d DEF StoreOwner, Granted, Goto, Control, TypeOK
  <1>3. CASE CheckOwner(t)
    <2>1. pc'[t] # "drain"
      BY <1>3, <1>a DEF CheckOwner, Granted, Goto, TypeOK
    <2>2. CASE owner = t
      <3>1. xheld[t] > 0 \/ xheld'[t] = xheld[t]
        BY <2>2, <1>3, <1>a, <1>b, <1>c
           DEF CheckOwner, Granted, Control, OwnerOf, HasFlag, TypeOK
      <3> QED BY <3>1, <2>1, <1>d
    <2>3. CASE owner # t
      BY <2>1, <2>3, <1>3, <1>d DEF CheckOwner
    <2> QED BY <2>2, <2>3
  <1>4. CASE CallRegister(t)
    BY <1>4, <1>a, <1>c, <1>d DEF CallRegister, Goto, TypeOK
  <1>5. CASE CallLockShared(t)
    BY <1>5, <1>a, <1>c, <1>d DEF CallLockShared, MayLockShared, Goto, TypeOK
  <1>6. CASE CallLock(t)
    BY <1>6, <1>a, <1>c, <1>d DEF CallLock, MayLock, Goto, TypeOK
  <1>7. CASE Unregister(t)
    BY <1>7, <1>a, <1>c, <1>d DEF Unregister, Goto, TypeOK
  <1>8. CASE UnlockShared(t)
    BY <1>8, <1>a, <1>c, <1>d DEF UnlockShared, Goto, TypeOK
  <1>9. CASE Unlock(t)
    BY <1>9, <1>a, <1>c, <1>d DEF Unlock, ReleaseCount, Goto, TypeOK
  <1>10. CASE UnlockSharedFlag(t)
    BY <1>10, <1>a, <1>c, <1>d DEF UnlockSharedFlag, ReleaseCount, Goto, TypeOK
  <1>11. CASE CheckUseCount(t)
    BY <1>11, <1>a, <1>c, <1>d DEF CheckUseCount, AfterRegister, Goto, TypeOK
  <1>12. CASE ScanSlot(t)
    BY <1>12, <1>a, <1>c, <1>d DEF ScanSlot, AfterRegister, Goto, TypeOK
  <1>13. CASE EmplaceEntry(t)
    BY <1>13, <1>a, <1>c, <1>d DEF EmplaceEntry, AfterRegister, Goto, TypeOK
  <1>14. CASE DropEntry(t)
    BY <1>14, <1>a, <1>c, <1>d DEF DropEntry, Goto, TypeOK
  <1>15. CASE Publish(t)
    BY <1>15, <1>a, <1>c, <1>d DEF Publish, Goto, TypeOK
  <1>16. CASE Verify(t)
    BY <1>16, <1>a, <1>c, <1>d DEF Verify, Goto, TypeOK
  <1>17. CASE BackOff(t)
    BY <1>17, <1>a, <1>c, <1>d DEF BackOff, Goto, TypeOK
  <1>18. CASE EndSpin(t)
    BY <1>18, <1>a, <1>c, <1>d DEF EndSpin, Goto, TypeOK
  <1>19. CASE RaiseWant(t)
    BY <1>19, <1>a, <1>c, <1>d DEF RaiseWant, Goto, TypeOK
  <1>20. CASE LowerWant(t)
    BY <1>20, <1>a, <1>c, <1>d DEF LowerWant, Goto, TypeOK
  <1> QED BY <1>1, <1>2, <1>3, <1>4, <1>5, <1>6, <1>7, <1>8, <1>9, <1>10, <1>11, <1>12,
      <1>13, <1>14, <1>15, <1>16, <1>17, <1>18, <1>19, <1>20
       DEF Calls, Releases, Steps

(* One atomic operation preserves the inductive invariant: the thread that *)
(* moves by the lemmas above, the others because nothing of theirs moves.  *)
LEMMA ThreadStep ==
  ASSUME NoLateRegistration, IInv,
         NEW t \in Threads, Calls(t) \/ Releases(t) \/ Steps(t)
  PROVE  IInv'
  <1>1. TypeOK'
    BY TypeStep
  <1>2. ASSUME NEW u \in Threads, u # t
        PROVE  /\ pc'[u] = pc[u] /\ call'[u] = call[u] /\ idx'[u] = idx[u] /\ reg'[u] = reg[u]
               /\ xheld'[u] = xheld[u] /\ sheld'[u] = sheld[u] /\ fheld'[u] = fheld[u]
    BY <1>2, OthersStep
  <1>3. ASSUME NEW u \in Threads, u # t
        PROVE  HasFlag(u)' = HasFlag(u) /\ OwnSlot(u)' = OwnSlot(u)
    BY <1>2, <1>3 DEF HasFlag, OwnSlot
  <1>4. ControlInv'
    <2> SUFFICES ASSUME NEW u \in Threads PROVE Control(u)'
      BY DEF ControlInv
    <2>1. CASE u = t
      BY <2>1, ControlStep
    <2>2. CASE u # t
      BY <2>2, <1>2 DEF IInv, ControlInv, Control
    <2> QED BY <2>1, <2>2
  <1>5. FlagInv'
    <2>1. /\ HasFlag(t)' => want'
          /\ HasFlag(t)' => HasFlag(t) \/ ~want
          /\ want => want' \/ HasFlag(t)
      BY FlagStep
    <2> QED BY <2>1, <1>3 DEF IInv, FlagInv
  <1>6. OwnerInv'
    <2>1. /\ OwnerOf(t)'
          /\ owner' = None => xcount' = 0
          /\ owner' = owner \/ (owner' \in {t, None} /\ HasFlag(t))
          /\ xcount' = xcount \/ HasFlag(t)
      BY OwnerStep
    <2>2. ASSUME NEW u \in Threads, u # t
          PROVE  OwnerOf(u)'
      <3>1. OwnerOf(u) /\ ~(HasFlag(t) /\ HasFlag(u))
        BY <2>2 DEF IInv, OwnerInv, FlagInv
      <3>2. u # None
        OBVIOUS
      <3> QED BY <3>1, <3>2, <2>1, <2>2, <1>2, <1>3 DEF OwnerOf
    <2> QED BY <2>1, <2>2 DEF OwnerInv
  <1>7. SlotInv'
    <2>1. /\ SlotOf(t)'
          /\ \/ OwnSlot(t)' \in {OwnSlot(t), Unregistered}
             \/ OwnSlot(t)' \in Slots /\ slot[OwnSlot(t)'] = 0
          /\ \A k \in Slots : k # OwnSlot(t) /\ k # OwnSlot(t)' => slot'[k] = slot[k]
      BY SlotStep
    <2>2. ASSUME NEW u \in Threads, u # t, OwnSlot(u) # Unregistered
          PROVE  OwnSlot(u) \in Slots /\ slot[OwnSlot(u)] > 0 /\ OwnSlot(u) # OwnSlot(t)
      <3>1. SlotOf(u) /\ OwnSlot(u) # OwnSlot(t)
        BY <2>2 DEF IInv, SlotInv, SlotsAreNotShared
      <3>2. OwnSlot(u) \in Slots /\ sheld[u] \in Nat
        BY <2>2 DEF IInv, TypeOK, OwnSlot
      <3> QED BY <3>1, <3>2, <2>2 DEF SlotOf
    <2>3. ASSUME NEW u \in Threads, u # t, OwnSlot(u) # Unregistered
          PROVE  OwnSlot(u) # OwnSlot(t)'
      BY <2>1, <2>2, <2>3
    <2>4. SlotsAreNotShared'
      BY <2>3, <1>3 DEF SlotsAreNotShared, IInv, SlotInv
    <2>5. ASSUME NEW u \in Threads, u # t
          PROVE  SlotOf(u)'
      BY <2>1, <2>2, <2>3, <2>5, <1>2, <1>3 DEF SlotOf, IInv, SlotInv
    <2> QED BY <2>1, <2>4, <2>5 DEF SlotInv
  <1>8. DrainInv'
    <2>1. sheld'[t] > 0 => (sheld[t] > 0 /\ OwnSlot(t)' = OwnSlot(t)) \/ ~want
      BY SlotStep
    <2>2. ASSUME NEW u \in Threads, u # t,
                 xheld[u] > 0 \/ (pc[u] = "drain" /\ OwnSlot(t)' \in 0 .. idx[u] - 1)
          PROVE  sheld'[t] = 0
      <3>1. want
        BY <2>2 DEF IInv, FlagInv, HasFlag, TypeOK
      <3>2. sheld'[t] \in Nat
        BY <1>1 DEF TypeOK
      <3>3. sheld[t] > 0 => OwnSlot(t)' # OwnSlot(t)
        BY <2>2 DEF IInv, DrainInv
      <3> QED BY <3>1, <3>2, <3>3, <2>1
    <2>3. ASSUME NEW u \in Threads, u # t
          PROVE  /\ xheld'[t] > 0 => sheld[u] = 0
                 /\ pc'[t] = "drain" /\ OwnSlot(u) \in 0 .. idx'[t] - 1 => sheld[u] = 0
      BY <2>3, WriterStep
    <2>4. ASSUME NEW u \in Threads, NEW v \in Threads, u # v, u # t, v # t
          PROVE  /\ xheld'[u] > 0 => sheld'[v] = 0
                 /\ pc'[u] = "drain" /\ OwnSlot(v)' \in 0 .. idx'[u] - 1 => sheld'[v] = 0
      BY <2>4, <1>2, <1>3 DEF IInv, DrainInv
    <2> QED BY <2>2, <2>3, <2>4, <1>2, <1>3 DEF DrainInv
  <1> QED BY <1>1, <1>4, <1>5, <1>6, <1>7, <1>8 DEF IInv

(* The inductive step and the base.                                        *)
LEMMA StepInv ==
  ASSUME NoLateRegistration
  PROVE  IInv /\ [Next]_vars => IInv'
  <1>1. ASSUME IInv, Next PROVE IInv'
    BY <1>1, ThreadStep DEF Next
  <1>2. ASSUME IInv, UNCHANGED vars PROVE IInv'
    <2>1. TypeOK' /\ ControlInv'
      BY <1>2 DEF IInv, vars, TypeOK, ControlInv, Control
    <2>2. FlagInv' /\ OwnerInv'
      BY <1>2 DEF IInv, vars, FlagInv, OwnerInv, OwnerOf, HasFlag
    <2>3. SlotInv' /\ DrainInv'
      BY <1>2 DEF IInv, vars, SlotInv, SlotsAreNotShared, SlotOf, DrainInv, OwnSlot
    <2> QED BY <2>1, <2>2, <2>3 DEF IInv
  <1> QED BY <1>1, <1>2

LEMMA InitInv == Init => IInv
  <1> SUFFICES ASSUME Init PROVE IInv
    OBVIOUS
  <1>0. 0 \in Slots
    OBVIOUS
  <1>1. /\ want \in BOOLEAN /\ owner \in Threads \cup {None} /\ xcount \in Nat
        /\ slot \in [Slots -> Nat] /\ reg \in [Threads -> Slots \cup {Unregistered}]
    BY DEF Init
  <1>a. idx \in [Threads -> Slots]
    BY <1>0 DEF Init
  <1>2. pc \in [Threads -> Labels]
    BY DEF Init, Labels
  <1>3. /\ call \in [Threads -> {"none", "register_thread", "lock_shared", "lock"}]
        /\ xheld \in [Threads -> Nat] /\ sheld \in [Threads -> Nat] /\ fheld \in [Threads -> Nat]
    BY DEF Init
  <1>4. TypeOK
    BY <1>1, <1>a, <1>2, <1>3 DEF TypeOK
  <1>5. ControlInv
    BY DEF Init, ControlInv, Control
  <1>6. FlagInv
    BY DEF Init, FlagInv, HasFlag
  <1>7. OwnerInv
    BY DEF Init, OwnerInv, OwnerOf, HasFlag
  <1>8. SlotInv
    BY DEF Init, SlotInv, SlotsAreNotShared, SlotOf, OwnSlot
  <1>9. DrainInv
    BY DEF Init, DrainInv, OwnSlot
  <1> QED BY <1>4, <1>5, <1>6, <1>7, <1>8, <1>9 DEF IInv

LEMMA Invariance ==
  ASSUME NoLateRegistration
  PROVE  Spec => []IInv
  <1>1. IInv /\ [Next]_vars => IInv'
    BY StepInv
  <1> QED BY InitInv, <1>1, PTL DEF Spec

-----------------------------------------------------------------------------
(* Every variable keeps its type, for any number of threads and slots.     *)
THEOREM TypeCorrect ==
  ASSUME NoLateRegistration
  PROVE  Spec => []TypeOK
  <1>1. Spec => []IInv
    BY Invariance
  <1>2. IInv => TypeOK
    BY DEF IInv
  <1> QED BY <1>1, <1>2, PTL

(* Two holders would both have raised the flag, or the reader would sit in *)
(* a slot the writer has drained.                                          *)
LEMMA ExclusionFromIInv == IInv => MutualExclusion
  <1> SUFFICES ASSUME IInv, NEW t \in Threads, NEW u \in Threads, xheld[t] > 0, u # t
               PROVE  xheld[u] = 0 /\ sheld[u] = 0 /\ fheld[u] = 0
    BY DEF MutualExclusion
  <1>1. /\ xheld[t] \in Nat /\ fheld[t] \in Nat /\ xheld[u] \in Nat /\ fheld[u] \in Nat
    BY DEF IInv, TypeOK
  <1>2. HasFlag(t)
    BY <1>1 DEF HasFlag
  <1>3. ~HasFlag(u)
    BY <1>2 DEF IInv, FlagInv
  <1>4. xheld[u] = 0 /\ fheld[u] = 0
    BY <1>1, <1>3 DEF HasFlag
  <1>5. sheld[u] = 0
    BY DEF IInv, DrainInv
  <1> QED BY <1>4, <1>5

(* While one thread is between lock() and unlock(), nobody else is in any  *)
(* section guarded by the mutex.                                           *)
THEOREM MutualExclusionHolds ==
  ASSUME NoLateRegistration
  PROVE  Spec => []MutualExclusion
  <1>1. Spec => []IInv
    BY Invariance
  <1> QED BY <1>1, ExclusionFromIInv, PTL

(* No slot of shared_locks_array ever counts for two threads.              *)
THEOREM SlotsStayApart ==
  ASSUME NoLateRegistration
  PROVE  Spec => []SlotsAreNotShared
  <1>1. IInv => SlotsAreNotShared
    BY DEF IInv, SlotInv
  <1>2. Spec => []IInv
    BY Invariance
  <1> QED BY <1>1, <1>2, PTL

(* owner_thread_id and recursive_xlock_count describe the flag's holder.   *)
THEOREM OwnerDescribesHolder ==
  ASSUME NoLateRegistration
  PROVE  Spec => []OwnerIsHolder
  <1>1. ASSUME IInv, NEW t \in Threads, xheld[t] + fheld[t] > 0
        PROVE  owner = t /\ xcount = xheld[t] + fheld[t]
    <2>1. Control(t) /\ OwnerOf(t)
      BY <1>1 DEF IInv, ControlInv, OwnerInv
    <2>2. xheld[t] + fheld[t] # 0
      BY <1>1
    <2>3. HasFlag(t) /\ pc[t] \notin {"own", "release"}
      BY <1>1, <2>1, <2>2 DEF HasFlag, Control
    <2> QED BY <2>1, <2>3 DEF OwnerOf
  <1>2. IInv => OwnerIsHolder
    BY <1>1 DEF OwnerIsHolder
  <1>3. Spec => []IInv
    BY Invariance
  <1> QED BY <1>2, <1>3, PTL

(* None of the four assertions fires under a caller that keeps to the      *)
(* class comment.                                                          *)
THEOREM NoAssertionFires ==
  ASSUME NoLateRegistration
  PROVE  Spec => []AssertionsHold
  <1>1. ASSUME IInv, NEW t \in Threads
        PROVE  /\ MayLock(t) /\ reg[t] # Unregistered => slot[reg[t]] = 1
               /\ pc[t] = "publish" => slot[reg[t]] >= 1
               /\ pc[t] = "idle" /\ sheld[t] + fheld[t] > 0 /\ reg[t] # Unregistered
                    => slot[reg[t]] > 1
               /\ pc[t] = "idle" /\ xheld[t] > 0 => xcount > 0
    <2>1. Control(t) /\ OwnerOf(t) /\ SlotOf(t)
      BY <1>1 DEF IInv, ControlInv, OwnerInv, SlotInv
    <2>2. xheld[t] \in Nat /\ sheld[t] \in Nat /\ fheld[t] \in Nat
      BY <1>1 DEF IInv, TypeOK
    <2>3. MayLock(t) /\ reg[t] # Unregistered => slot[reg[t]] = 1
      BY <2>1, <2>2 DEF MayLock, SlotOf, OwnSlot
    <2>4. pc[t] = "publish" => slot[reg[t]] >= 1
      BY <2>1, <2>2 DEF Control, SlotOf, OwnSlot
    <2>5. pc[t] = "idle" /\ sheld[t] + fheld[t] > 0 /\ reg[t] # Unregistered
            => slot[reg[t]] > 1
      BY <2>1, <2>2 DEF Control, SlotOf, OwnSlot
    <2>6. pc[t] = "idle" /\ xheld[t] > 0 => xcount > 0
      BY <2>1, <2>2 DEF OwnerOf, HasFlag
    <2> QED BY <2>3, <2>4, <2>5, <2>6
  <1>2. IInv => AssertionsHold
    BY <1>1 DEF AssertionsHold
  <1>3. Spec => []IInv
    BY Invariance
  <1> QED BY <1>2, <1>3, PTL

-----------------------------------------------------------------------------
(* What one operation does to the counts of holds.                         *)
HoldsStep(t) ==
  \/ UNCHANGED held
  \/ UNCHANGED <<sheld, fheld>> /\ xheld' = [xheld EXCEPT ![t] = @ + 1]
  \/ UNCHANGED <<sheld, fheld>> /\ xheld[t] > 0 /\ xheld' = [xheld EXCEPT ![t] = @ - 1]
  \/ UNCHANGED <<xheld, fheld>> /\ sheld' = [sheld EXCEPT ![t] = @ + 1]
  \/ UNCHANGED <<xheld, fheld>> /\ sheld[t] > 0 /\ sheld' = [sheld EXCEPT ![t] = @ - 1]
  \/ UNCHANGED <<xheld, sheld>> /\ fheld' = [fheld EXCEPT ![t] = @ + 1]
  \/ UNCHANGED <<xheld, sheld>> /\ fheld[t] > 0 /\ fheld' = [fheld EXCEPT ![t] = @ - 1]

LEMMA HoldsChange ==
  ASSUME IInv, NEW t \in Threads, Calls(t) \/ Releases(t) \/ Steps(t)
  PROVE  HoldsStep(t)
  <1> USE DEF code, held, HoldsStep
  <1>1. CASE \/ CallRegister(t) \/ CallLockShared(t) \/ CallLock(t) \/ Unregister(t)
             \/ CheckUseCount(t) \/ ScanSlot(t) \/ EmplaceEntry(t) \/ DropEntry(t)
             \/ BackOff(t) \/ EndSpin(t) \/ RaiseWant(t) \/ LowerWant(t)
    BY <1>1
       DEF CallRegister, CallLockShared, CallLock, Unregister, CheckUseCount, ScanSlot,
           EmplaceEntry, DropEntry, BackOff, EndSpin, RaiseWant, LowerWant
  <1>2. CASE UnlockShared(t)
    BY <1>2 DEF UnlockShared
  <1>3. CASE Unlock(t)
    BY <1>3 DEF Unlock, ReleaseCount
  <1>4. CASE UnlockSharedFlag(t)
    BY <1>4 DEF UnlockSharedFlag, ReleaseCount
  <1>5. CASE Publish(t)
    BY <1>5 DEF Publish
  <1>6. CASE Verify(t)
    BY <1>6 DEF Verify
  <1>7. CASE CheckOwner(t)
    BY <1>7 DEF CheckOwner, Granted
  <1>8. CASE StoreOwner(t)
    BY <1>8 DEF StoreOwner, Granted
  <1>9. CASE DrainSlot(t)
    BY <1>9 DEF DrainSlot, Granted
  <1> QED BY <1>1, <1>2, <1>3, <1>4, <1>5, <1>6, <1>7, <1>8, <1>9
       DEF Calls, Releases, Steps

(* Every operation is an operation of the abstract lock or a stutter.      *)
LEMMA RefineStep ==
  ASSUME IInv, MutualExclusion', NEW t \in Threads, Calls(t) \/ Releases(t) \/ Steps(t)
  PROVE  [Abstract!Next]_(Abstract!vars)
  <1> DEFINE s == [v \in Threads |-> sheld[v] + fheld[v]]
  <1>1. HoldsStep(t)
    BY HoldsChange
  <1>2. /\ xheld \in [Threads -> Nat] /\ sheld \in [Threads -> Nat]
        /\ fheld \in [Threads -> Nat]
    BY DEF IInv, TypeOK
  <1>3. \A v, u \in Threads :
          xheld'[v] > 0 /\ u # v => xheld'[u] = 0 /\ sheld'[u] = 0 /\ fheld'[u] = 0
    BY DEF MutualExclusion
  <1>4. CASE UNCHANGED held
    BY <1>4 DEF held, Abstract!vars
  <1>5. CASE UNCHANGED <<sheld, fheld>> /\ xheld' = [xheld EXCEPT ![t] = @ + 1]
    <2>1. xheld'[t] > 0 /\ \A u \in Threads \ {t} : xheld'[u] = xheld[u]
      BY <1>2, <1>5
    <2>2. \A u \in Threads \ {t} : xheld[u] = 0 /\ sheld[u] = 0 /\ fheld[u] = 0
      BY <2>1, <1>3, <1>5
    <2>3. \A u \in Threads \ {t} : xheld[u] = 0 /\ s[u] = 0
      BY <2>2
    <2>4. s' = s
      BY <1>5
    <2>5. Abstract!AcquireExclusive(t)
      BY <2>3, <2>4, <1>5 DEF Abstract!AcquireExclusive
    <2> QED BY <2>5 DEF Abstract!Next
  <1>6. CASE UNCHANGED <<sheld, fheld>> /\ xheld[t] > 0 /\ xheld' = [xheld EXCEPT ![t] = @ - 1]
    <2>1. Abstract!ReleaseExclusive(t)
      BY <1>6 DEF Abstract!ReleaseExclusive
    <2> QED BY <2>1 DEF Abstract!Next
  <1>7. ASSUME UNCHANGED xheld, sheld'[t] + fheld'[t] > 0, s' = [s EXCEPT ![t] = @ + 1],
               sheld'[t] \in Nat, fheld'[t] \in Nat
        PROVE  Abstract!Next
    <2>1. sheld'[t] > 0 \/ fheld'[t] > 0
      BY <1>7
    <2>2. \A u \in Threads \ {t} : ~(xheld'[u] > 0)
      BY <2>1, <1>3
    <2>3. \A u \in Threads \ {t} : xheld[u] = 0
      BY <2>2, <1>2, <1>7
    <2>4. Abstract!AcquireShared(t)
      BY <2>3, <1>7 DEF Abstract!AcquireShared
    <2> QED BY <2>4 DEF Abstract!Next
  <1>8. ASSUME UNCHANGED xheld, s[t] > 0, s' = [s EXCEPT ![t] = @ - 1]
        PROVE  Abstract!Next
    <2>1. Abstract!ReleaseShared(t)
      BY <1>8 DEF Abstract!ReleaseShared
    <2> QED BY <2>1 DEF Abstract!Next
  <1>9. CASE UNCHANGED <<xheld, fheld>> /\ sheld' = [sheld EXCEPT ![t] = @ + 1]
    <2>1. sheld'[t] \in Nat /\ fheld'[t] \in Nat /\ sheld'[t] + fheld'[t] > 0
      BY <1>2, <1>9
    <2>3. \A v \in Threads : s'[v] = IF v = t THEN s[v] + 1 ELSE s[v]
      BY <1>2, <1>9
    <2>2. s' = [s EXCEPT ![t] = @ + 1]
      BY <2>3
    <2> QED BY <2>1, <2>2, <1>7, <1>9
  <1>10. CASE UNCHANGED <<xheld, fheld>> /\ sheld[t] > 0 /\ sheld' = [sheld EXCEPT ![t] = @ - 1]
    <2>2. \A v \in Threads : s'[v] = IF v = t THEN s[v] - 1 ELSE s[v]
      BY <1>2, <1>10
    <2>1. s' = [s EXCEPT ![t] = @ - 1]
      BY <2>2
    <2>3. s[t] > 0
      BY <1>2, <1>10
    <2> QED BY <2>1, <2>3, <1>8, <1>10
  <1>11. CASE UNCHANGED <<xheld, sheld>> /\ fheld' = [fheld EXCEPT ![t] = @ + 1]
    <2>1. sheld'[t] \in Nat /\ fheld'[t] \in Nat /\ sheld'[t] + fheld'[t] > 0
      BY <1>2, <1>11
    <2>3. \A v \in Threads : s'[v] = IF v = t THEN s[v] + 1 ELSE s[v]
      BY <1>2, <1>11
    <2>2. s' = [s EXCEPT ![t] = @ + 1]
      BY <2>3
    <2> QED BY <2>1, <2>2, <1>7, <1>11
  <1>12. CASE UNCHANGED <<xheld, sheld>> /\ fheld[t] > 0 /\ fheld' = [fheld EXCEPT ![t] = @ - 1]
    <2>2. \A v \in Threads : s'[v] = IF v = t THEN s[v] - 1 ELSE s[v]
      BY <1>2, <1>12
    <2>1. s' = [s EXCEPT ![t] = @ - 1]
      BY <2>2
    <2>3. s[t] > 0
      BY <1>2, <1>12
    <2> QED BY <2>1, <2>3, <1>8, <1>12
  <1> QED BY <1>1, <1>4, <1>5, <1>6, <1>9, <1>10, <1>11, <1>12 DEF HoldsStep

(* The mutex implements the abstract lock RWLock, with the holds granted   *)
(* through a slot and those granted through the flag taken together.       *)
THEOREM Refinement ==
  ASSUME NoLateRegistration
  PROVE  Spec => ImplementsRWLock
  <1>1. Init => Abstract!Init
    BY DEF Init, Abstract!Init
  <1>2. IInv /\ MutualExclusion' /\ [Next]_vars => [Abstract!Next]_(Abstract!vars)
    <2>1. ASSUME IInv, MutualExclusion', Next PROVE [Abstract!Next]_(Abstract!vars)
      BY <2>1, RefineStep DEF Next
    <2>2. ASSUME UNCHANGED vars PROVE UNCHANGED Abstract!vars
      BY <2>2 DEF vars, Abstract!vars
    <2> QED BY <2>1, <2>2
  <1>3. Spec => []IInv
    BY Invariance
  <1>4. Spec => []MutualExclusion
    BY MutualExclusionHolds
  <1> QED BY <1>1, <1>2, <1>3, <1>4, PTL
     DEF Spec, ImplementsRWLock, Abstract!Spec
=============================================================================
