------------------------------- MODULE RWLock -------------------------------
(***************************************************************************)
(* What a recursive readers/writer lock promises its callers, whatever it  *)
(* is built from.  A thread holds the lock exclusively xheld[t] times and  *)
(* shared sheld[t] times.  The three implementations under 2.sharedmutex   *)
(* are shown to implement this specification.                              *)
(***************************************************************************)
EXTENDS Naturals

CONSTANT Threads

VARIABLES xheld,   \* xheld[t]: exclusive acquisitions t has not released
          sheld    \* sheld[t]: shared acquisitions t has not released

vars == <<xheld, sheld>>

Init ==
  /\ xheld = [t \in Threads |-> 0]
  /\ sheld = [t \in Threads |-> 0]

(* Exclusive means alone: another acquisition by the same thread is        *)
(* recursion, any hold of another thread excludes it.                      *)
AcquireExclusive(t) ==
  /\ \A u \in Threads \ {t} : xheld[u] = 0 /\ sheld[u] = 0
  /\ xheld' = [xheld EXCEPT ![t] = @ + 1]
  /\ UNCHANGED sheld

ReleaseExclusive(t) ==
  /\ xheld[t] > 0
  /\ xheld' = [xheld EXCEPT ![t] = @ - 1]
  /\ UNCHANGED sheld

AcquireShared(t) ==
  /\ \A u \in Threads \ {t} : xheld[u] = 0
  /\ sheld' = [sheld EXCEPT ![t] = @ + 1]
  /\ UNCHANGED xheld

ReleaseShared(t) ==
  /\ sheld[t] > 0
  /\ sheld' = [sheld EXCEPT ![t] = @ - 1]
  /\ UNCHANGED xheld

Next ==
  \E t \in Threads : \/ AcquireExclusive(t) \/ ReleaseExclusive(t)
                     \/ AcquireShared(t)    \/ ReleaseShared(t)

Spec == Init /\ [][Next]_vars
=============================================================================
