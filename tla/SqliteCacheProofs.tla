-------------------------- MODULE SqliteCacheProofs --------------------------
(***************************************************************************)
(* For any keys, values and users of the SQLite cache: set() returns with  *)
(* its transaction closed, whatever fails and whatever transactions the    *)
(* users open themselves; and while no statement fails, nobody else writes *)
(* and no user opens a transaction, the cache holds what the table holds,  *)
(* and a set() that returns has written its value, also when the refresher *)
(* has failed to open the file.                                            *)
(*                                                                         *)
(* ControlInv is the inductive invariant of the first: whose transaction   *)
(* is open, and that everybody inside set() has g_mutex.  MatchInv is that *)
(* of the second: the cache agrees with what `db` sees of the table, also  *)
(* between the statements of a set().                                      *)
(***************************************************************************)
EXTENDS SqliteCache, TLAPS

Requests == [at : {"save", "commit", "abort", "finish"}, key : Keys, val : Values]

(* The points of set() at which the open transaction is its own.           *)
Open == {"save", "commit", "abort"}

ControlInv ==
    /\ \A u \in Users :
          /\ call[u].at # "idle" => g_mutex = u /\ loader.at = "done"
          /\ call[u].at \in Open => txn # "none" /\ owner = None
    /\ refresher.at = "refresh" => g_mutex = "refresher"
    /\ owner # None => txn # "none"
    /\ txn # "none" /\ owner = None => \E u \in Users : call[u].at \in Open

IInv == TypeOK /\ ControlInv

USE CacheAssumption

(* A user is outside set(), or inside with arguments.                      *)
LEMMA CallType ==
  ASSUME TypeOK, NEW u \in Users
  PROVE  \/ call[u] = Idle /\ call[u].at = "idle"
         \/ /\ call[u] # Idle /\ call[u] \in Requests
            /\ call[u].at \in {"save", "commit", "abort", "finish"}
            /\ call[u].key \in Keys /\ call[u].val \in Values
  <1>1. Idle.at = "idle"
    BY DEF Idle
  <1>2. call[u] \in {Idle} \cup Requests
    BY DEF TypeOK, Requests
  <1>3. \A q \in Requests : /\ q.at \in {"save", "commit", "abort", "finish"}
                            /\ q.key \in Keys /\ q.val \in Values
    BY DEF Requests
  <1> QED BY <1>1, <1>2, <1>3

(* What an action does to the call of one user.                            *)
CallStep ==
    \/ UNCHANGED call
    \/ \E u \in Users, q \in Requests \cup {Idle} : call' = [call EXCEPT ![u] = q]

DbType ==
    /\ rows' \in Tables /\ work' \in Tables
    /\ txn' \in {"none", "begun", "active"} /\ (txn' # "active" => work' = rows')

(* The two tables, and the transaction between them.                       *)
LEMMA DbTypeStep ==
  ASSUME TypeOK, Next
  PROVE  DbType
  <1> USE DEF DbType
  <1>a. /\ rows \in Tables /\ work \in Tables
        /\ txn \in {"none", "begun", "active"} /\ (txn # "active" => work = rows)
    BY DEF TypeOK
  <1>1. ASSUME CacheLoad PROVE DbType
    BY <1>1, <1>a DEF CacheLoad, db, Tables
  <1>2. ASSUME CachePut PROVE DbType
    BY <1>2, <1>a DEF CachePut, db, Tables
  <1>3. ASSUME NEW u \in Users, begin_transaction(u) PROVE DbType
    BY <1>3, <1>a DEF begin_transaction, BeginTransaction, db, Tables, CanBegin
  <1>4. ASSUME NEW u \in Users, commit_transaction(u) PROVE DbType
    BY <1>4, <1>a DEF commit_transaction, CommitTransaction, db, Tables
  <1>5. ASSUME NEW u \in Users, abort_transaction(u) PROVE DbType
    BY <1>5, <1>a DEF abort_transaction, AbortTransaction, db, Tables
  <1>6. ASSUME NEW u \in Users, get(u) PROVE DbType
    BY <1>6, <1>a DEF get, Execute, db, Tables
  <1>7. ASSUME NEW u \in Users, SetBegin(u) PROVE DbType
    BY <1>7, <1>a DEF SetBegin, BeginTransaction, db, Tables, CanBegin
  <1>8. ASSUME NEW u \in Users, SetSave(u) PROVE DbType
    <2>1. call[u].key \in Keys /\ call[u].val \in Values
      BY <1>8, CallType DEF SetSave
    <2> QED BY <1>8, <1>a, <2>1 DEF SetSave, AddOrUpdateInCache, Execute, db, Tables
  <1>9. ASSUME NEW u \in Users, SetCommit(u) PROVE DbType
    BY <1>9, <1>a DEF SetCommit, CommitTransaction, db, Tables
  <1>10. ASSUME NEW u \in Users, SetAbort(u) PROVE DbType
    BY <1>10, <1>a DEF SetAbort, AbortTransaction, db, Tables
  <1>11. ASSUME NEW u \in Users, SetFinish(u) PROVE DbType
    BY <1>11, <1>a DEF SetFinish, db, Tables
  <1>12. ASSUME NEW u \in Users, remove(u) PROVE DbType
    BY <1>12, <1>a DEF remove, DeleteByKey, Execute, db, Tables
  <1>13. ASSUME NEW u \in Users, Dispose(u) PROVE DbType
    BY <1>13, <1>a DEF Dispose, db, Tables
  <1>14. ASSUME RefreshLoop PROVE DbType
    BY <1>14, <1>a DEF RefreshLoop, db, Tables
  <1>15. ASSUME RefreshLock PROVE DbType
    BY <1>15, <1>a DEF RefreshLock, db, Tables
  <1>16. ASSUME RefreshKey PROVE DbType
    BY <1>16, <1>a DEF RefreshKey, db, Tables
  <1>17. ASSUME RefreshUnlock PROVE DbType
    BY <1>17, <1>a DEF RefreshUnlock, db, Tables
  <1>18. ASSUME Expire PROVE DbType
    BY <1>18, <1>a DEF Expire, db, Tables
  <1>19. ASSUME ExternalWrite PROVE DbType
    BY <1>19, <1>a DEF ExternalWrite, db, Tables
  <1>20. ASSUME RefreshThrows PROVE DbType
    BY <1>20, <1>a DEF RefreshThrows, db, Tables
  <1> QED BY <1>1, <1>2, <1>3, <1>4, <1>5, <1>6, <1>7, <1>8, <1>9, <1>10, <1>11, <1>12,
             <1>13, <1>14, <1>15, <1>16, <1>17, <1>18, <1>19, <1>20
       DEF Next, UserStep, SetStep, Refresh

CacheType == cache' \in [Keys -> Entries \cup {Absent}]

(* The entries.                                                            *)
LEMMA CacheTypeStep ==
  ASSUME TypeOK, Next
  PROVE  CacheType
  <1> USE DEF CacheType
  <1>a. cache \in [Keys -> Entries \cup {Absent}] /\ rows \in Tables /\ work \in Tables
    BY DEF TypeOK
  <1>b. \A v \in Values \cup {Empty} : Fresh(v) \in Entries
    BY DEF Fresh, Entries
  <1>c. \A t \in Tables, k \in Keys : GetValueByKey(t, k) \subseteq Values \cup {Empty}
    BY DEF Tables, GetValueByKey
  <1>d. ASSUME NEW k \in Keys, NEW v \in Values \cup {Empty}, put(k, v)
        PROVE  CacheType
    BY <1>a, <1>b, <1>d DEF put
  <1>1. ASSUME CacheLoad PROVE CacheType
    BY <1>1, <1>a DEF CacheLoad
  <1>2. ASSUME CachePut PROVE CacheType
    <2>1. loader.data \in Tables
      BY DEF TypeOK
    <2>2. \A k \in Keys : loader.data[k] # Absent => Fresh(loader.data[k]) \in Entries
      BY <2>1, <1>b DEF Tables
    <2> QED BY <1>2, <1>a, <2>2 DEF CachePut
  <1>3. ASSUME NEW u \in Users, begin_transaction(u) PROVE CacheType
    BY <1>3, <1>a DEF begin_transaction
  <1>4. ASSUME NEW u \in Users, commit_transaction(u) PROVE CacheType
    BY <1>4, <1>a DEF commit_transaction
  <1>5. ASSUME NEW u \in Users, abort_transaction(u) PROVE CacheType
    BY <1>5, <1>a DEF abort_transaction
  <1>6. ASSUME NEW u \in Users, get(u) PROVE CacheType
    <2>1. PICK k \in Keys : \E v \in GetValueByKey(work, k) : put(k, v)
      BY <1>6 DEF get
    <2> QED BY <1>a, <1>c, <1>d, <2>1
  <1>7. ASSUME NEW u \in Users, SetBegin(u) PROVE CacheType
    BY <1>7, <1>a DEF SetBegin
  <1>8. ASSUME NEW u \in Users, SetSave(u) PROVE CacheType
    <2>1. call[u].key \in Keys /\ call[u].val \in Values
      BY <1>8, CallType DEF SetSave
    <2>2. put(call[u].key, call[u].val)
      BY <1>8 DEF SetSave
    <2> QED BY <1>d, <2>1, <2>2
  <1>9. ASSUME NEW u \in Users, SetCommit(u) PROVE CacheType
    BY <1>9, <1>a DEF SetCommit
  <1>10. ASSUME NEW u \in Users, SetAbort(u) PROVE CacheType
    BY <1>10, <1>a DEF SetAbort
  <1>11. ASSUME NEW u \in Users, SetFinish(u) PROVE CacheType
    <2>1. [val |-> Empty, expired |-> TRUE] \in Entries
      BY DEF Entries
    <2> QED BY <1>11, <1>a, <2>1 DEF SetFinish
  <1>12. ASSUME NEW u \in Users, remove(u) PROVE CacheType
    BY <1>12, <1>a DEF remove
  <1>13. ASSUME NEW u \in Users, Dispose(u) PROVE CacheType
    BY <1>13, <1>a DEF Dispose
  <1>14. ASSUME RefreshLoop PROVE CacheType
    BY <1>14, <1>a DEF RefreshLoop
  <1>15. ASSUME RefreshLock PROVE CacheType
    BY <1>15, <1>a DEF RefreshLock
  <1>16. ASSUME RefreshKey PROVE CacheType
    <2>1. \A k \in refresher.todo : k \in Keys
      BY DEF TypeOK
    <2>2. UNCHANGED cache \/ \E k \in Keys : \E v \in GetValueByKey(rows, k) : put(k, v)
      BY <1>16, <2>1 DEF RefreshKey
    <2> QED BY <1>a, <1>c, <1>d, <2>2
  <1>17. ASSUME RefreshUnlock PROVE CacheType
    BY <1>17, <1>a DEF RefreshUnlock
  <1>18. ASSUME Expire PROVE CacheType
    <2>1. PICK k \in Keys : cache[k] # Absent /\ cache' = [cache EXCEPT ![k].expired = TRUE]
      BY <1>18 DEF Expire
    <2>2. [cache[k] EXCEPT !.expired = TRUE] \in Entries
      BY <1>a, <2>1 DEF Entries
    <2>3. cache' = [cache EXCEPT ![k] = [cache[k] EXCEPT !.expired = TRUE]]
      BY <2>1
    <2> QED BY <1>a, <2>2, <2>3
  <1>19. ASSUME ExternalWrite PROVE CacheType
    BY <1>19, <1>a DEF ExternalWrite
  <1>20. ASSUME RefreshThrows PROVE CacheType
    BY <1>20, <1>a DEF RefreshThrows
  <1> QED BY <1>1, <1>2, <1>3, <1>4, <1>5, <1>6, <1>7, <1>8, <1>9, <1>10, <1>11, <1>12,
             <1>13, <1>14, <1>15, <1>16, <1>17, <1>18, <1>19, <1>20
       DEF Next, UserStep, SetStep, Refresh

(* A call is begun, goes on or ends with arguments of its own.             *)
LEMMA CallStepHolds ==
  ASSUME TypeOK, Next
  PROVE  CallStep
  <1>1. ASSUME CacheLoad PROVE CallStep
    BY <1>1 DEF CacheLoad, CallStep
  <1>2. ASSUME CachePut PROVE CallStep
    BY <1>2 DEF CachePut, CallStep
  <1>3. ASSUME NEW u \in Users, begin_transaction(u) PROVE CallStep
    BY <1>3 DEF begin_transaction, CallStep
  <1>4. ASSUME NEW u \in Users, commit_transaction(u) PROVE CallStep
    BY <1>4 DEF commit_transaction, CallStep
  <1>5. ASSUME NEW u \in Users, abort_transaction(u) PROVE CallStep
    BY <1>5 DEF abort_transaction, CallStep
  <1>6. ASSUME NEW u \in Users, get(u) PROVE CallStep
    BY <1>6 DEF get, CallStep
  <1>7. ASSUME NEW u \in Users, SetBegin(u) PROVE CallStep
    <2>1. PICK k \in Keys, v \in Values, l \in {"save", "finish"} :
             call' = [call EXCEPT ![u] = [at |-> l, key |-> k, val |-> v]]
      BY <1>7 DEF SetBegin
    <2>2. [at |-> l, key |-> k, val |-> v] \in Requests
      BY DEF Requests
    <2> QED BY <2>1, <2>2 DEF CallStep
  <1>8. ASSUME NEW u \in Users, SetSave(u) PROVE CallStep
    <2>1. call[u] \in Requests
      BY <1>8, CallType DEF SetSave
    <2>2. PICK l \in {"commit", "abort", "finish"} :
             call' = [call EXCEPT ![u] = [call[u] EXCEPT !.at = l]]
      BY <1>8 DEF SetSave
    <2>3. [call[u] EXCEPT !.at = l] \in Requests
      BY <2>1 DEF Requests
    <2> QED BY <2>2, <2>3 DEF CallStep
  <1>9. ASSUME NEW u \in Users, SetCommit(u) PROVE CallStep
    <2>1. call[u] \in Requests
      BY <1>9, CallType DEF SetCommit
    <2>2. PICK l \in {"commit", "abort", "finish"} :
             call' = [call EXCEPT ![u] = [call[u] EXCEPT !.at = l]]
      BY <1>9 DEF SetCommit
    <2>3. [call[u] EXCEPT !.at = l] \in Requests
      BY <2>1 DEF Requests
    <2> QED BY <2>2, <2>3 DEF CallStep
  <1>10. ASSUME NEW u \in Users, SetAbort(u) PROVE CallStep
    <2>1. call[u] \in Requests
      BY <1>10, CallType DEF SetAbort
    <2>2. PICK l \in {"commit", "abort", "finish"} :
             call' = [call EXCEPT ![u] = [call[u] EXCEPT !.at = l]]
      BY <1>10 DEF SetAbort
    <2>3. [call[u] EXCEPT !.at = l] \in Requests
      BY <2>1 DEF Requests
    <2> QED BY <2>2, <2>3 DEF CallStep
  <1>11. ASSUME NEW u \in Users, SetFinish(u) PROVE CallStep
    BY <1>11 DEF SetFinish, CallStep
  <1>12. ASSUME NEW u \in Users, remove(u) PROVE CallStep
    BY <1>12 DEF remove, CallStep
  <1>13. ASSUME NEW u \in Users, Dispose(u) PROVE CallStep
    BY <1>13 DEF Dispose, CallStep
  <1>14. ASSUME RefreshLoop PROVE CallStep
    BY <1>14 DEF RefreshLoop, CallStep
  <1>15. ASSUME RefreshLock PROVE CallStep
    BY <1>15 DEF RefreshLock, CallStep
  <1>16. ASSUME RefreshKey PROVE CallStep
    BY <1>16 DEF RefreshKey, CallStep
  <1>17. ASSUME RefreshUnlock PROVE CallStep
    BY <1>17 DEF RefreshUnlock, CallStep
  <1>18. ASSUME Expire PROVE CallStep
    BY <1>18 DEF Expire, CallStep
  <1>19. ASSUME ExternalWrite PROVE CallStep
    BY <1>19 DEF ExternalWrite, CallStep
  <1>20. ASSUME RefreshThrows PROVE CallStep
    BY <1>20 DEF RefreshThrows, CallStep
  <1> QED BY <1>1, <1>2, <1>3, <1>4, <1>5, <1>6, <1>7, <1>8, <1>9, <1>10, <1>11, <1>12,
             <1>13, <1>14, <1>15, <1>16, <1>17, <1>18, <1>19, <1>20
       DEF Next, UserStep, SetStep, Refresh

RestType ==
    /\ owner' \in Users \cup {None}
    /\ g_mutex' \in Users \cup {"constructor", "refresher", None}
    /\ loader' \in [at : {"load", "put", "done"}, data : Tables]
    /\ refresher' \in [at : {"loop", "sleep", "refresh", "ended"}, todo : SUBSET Keys]
    /\ cycle' \in BOOLEAN

(* The other variables.                                                    *)
LEMMA RestTypeStep ==
  ASSUME TypeOK, Next
  PROVE  RestType
  <1>a. /\ owner \in Users \cup {None}
        /\ g_mutex \in Users \cup {"constructor", "refresher", None}
        /\ loader \in [at : {"load", "put", "done"}, data : Tables]
        /\ refresher \in [at : {"loop", "sleep", "refresh", "ended"}, todo : SUBSET Keys]
        /\ cycle \in BOOLEAN /\ work \in Tables
    BY DEF TypeOK
  <1>1. ASSUME CacheLoad PROVE RestType
    <2>1. PICK data \in GetCacheData : loader' = [at |-> "put", data |-> data]
      BY <1>1 DEF CacheLoad
    <2>2. data \in Tables
      BY <2>1, <1>a DEF GetCacheData, Tables
    <2> QED BY <1>1, <1>a, <2>1, <2>2 DEF RestType, CacheLoad
  <1>2. ASSUME CachePut PROVE RestType
    BY <1>2, <1>a DEF RestType, CachePut
  <1>3. ASSUME NEW u \in Users, begin_transaction(u) PROVE RestType
    BY <1>3, <1>a DEF RestType, begin_transaction, MayCall
  <1>4. ASSUME NEW u \in Users, commit_transaction(u) PROVE RestType
    BY <1>4, <1>a DEF RestType, commit_transaction
  <1>5. ASSUME NEW u \in Users, abort_transaction(u) PROVE RestType
    BY <1>5, <1>a DEF RestType, abort_transaction
  <1>6. ASSUME NEW u \in Users, get(u) PROVE RestType
    BY <1>6, <1>a DEF RestType, get
  <1>7. ASSUME NEW u \in Users, SetBegin(u) PROVE RestType
    BY <1>7, <1>a DEF RestType, SetBegin
  <1>8. ASSUME NEW u \in Users, SetSave(u) PROVE RestType
    BY <1>8, <1>a DEF RestType, SetSave
  <1>9. ASSUME NEW u \in Users, SetCommit(u) PROVE RestType
    BY <1>9, <1>a DEF RestType, SetCommit
  <1>10. ASSUME NEW u \in Users, SetAbort(u) PROVE RestType
    BY <1>10, <1>a DEF RestType, SetAbort
  <1>11. ASSUME NEW u \in Users, SetFinish(u) PROVE RestType
    BY <1>11, <1>a DEF RestType, SetFinish
  <1>12. ASSUME NEW u \in Users, remove(u) PROVE RestType
    BY <1>12, <1>a DEF RestType, remove
  <1>13. ASSUME NEW u \in Users, Dispose(u) PROVE RestType
    BY <1>13, <1>a DEF RestType, Dispose
  <1>14. ASSUME RefreshLoop PROVE RestType
    BY <1>14, <1>a DEF RestType, RefreshLoop
  <1>15. ASSUME RefreshLock PROVE RestType
    BY <1>15, <1>a DEF RestType, RefreshLock
  <1>16. ASSUME RefreshKey PROVE RestType
    BY <1>16, <1>a DEF RestType, RefreshKey
  <1>17. ASSUME RefreshUnlock PROVE RestType
    BY <1>17, <1>a DEF RestType, RefreshUnlock
  <1>18. ASSUME Expire PROVE RestType
    BY <1>18, <1>a DEF RestType, Expire
  <1>19. ASSUME ExternalWrite PROVE RestType
    BY <1>19, <1>a DEF RestType, ExternalWrite
  <1>20. ASSUME RefreshThrows PROVE RestType
    BY <1>20, <1>a DEF RestType, RefreshThrows
  <1> QED BY <1>1, <1>2, <1>3, <1>4, <1>5, <1>6, <1>7, <1>8, <1>9, <1>10, <1>11, <1>12,
             <1>13, <1>14, <1>15, <1>16, <1>17, <1>18, <1>19, <1>20
       DEF Next, UserStep, SetStep, Refresh

LEMMA TypeStep ==
  ASSUME TypeOK, Next
  PROVE  TypeOK'
  <1>1. call' \in [Users -> {Idle} \cup Requests]
    BY CallStepHolds DEF TypeOK, Requests, CallStep
  <1> QED BY <1>1, DbTypeStep, CacheTypeStep, RestTypeStep
       DEF DbType, CacheType, RestType, TypeOK, Requests

(* set() ends the transaction it began, and nobody else can.               *)
LEMMA ControlStep ==
  ASSUME IInv, Next
  PROVE  ControlInv'
  <1>a. None # "refresher" /\ \A u \in Users : u # None /\ u # "refresher"
    OBVIOUS
  <1>b. \A u, w \in Users : call[u].at # "idle" /\ call[w].at # "idle" => u = w
    BY DEF IInv, ControlInv
  <1>c. call \in [Users -> {Idle} \cup Requests]
    BY DEF IInv, TypeOK, Requests
  <1>d. Idle.at = "idle"
    BY DEF Idle
  <1> USE DEF IInv, ControlInv, Open
  <1>1. ASSUME CacheLoad PROVE ControlInv'
    BY <1>1, <1>a, <1>d DEF CacheLoad
  <1>2. ASSUME CachePut PROVE ControlInv'
    BY <1>2, <1>a, <1>d DEF CachePut
  <1>3. ASSUME NEW u \in Users, begin_transaction(u) PROVE ControlInv'
    BY <1>3, <1>a, <1>d DEF begin_transaction, MayCall, CanBegin, BeginTransaction
  <1>4. ASSUME NEW u \in Users, commit_transaction(u) PROVE ControlInv'
    BY <1>4, <1>a, <1>d DEF commit_transaction, MayCall, CommitTransaction
  <1>5. ASSUME NEW u \in Users, abort_transaction(u) PROVE ControlInv'
    BY <1>5, <1>a, <1>d DEF abort_transaction, MayCall, AbortTransaction
  <1>6. ASSUME NEW u \in Users, get(u) PROVE ControlInv'
    BY <1>6, <1>a, <1>d DEF get, Execute, MayCall
  <1>7. ASSUME NEW u \in Users, SetBegin(u) PROVE ControlInv'
    <2>1. \A w \in Users \ {u} : call'[w] = call[w] /\ call'[w].at = "idle"
      BY <1>7, <1>a, <1>b, <1>c, <1>d DEF SetBegin, MayCall
    <2>2. /\ g_mutex' = u /\ loader.at = "done" /\ UNCHANGED <<owner, loader, refresher>>
          /\ g_mutex = None /\ call[u].at = "idle"
      BY <1>7, <1>d DEF SetBegin, MayCall
    <2>3. CASE txn = "none"
      <3>1. txn' = "begun" /\ call'[u].at = "save"
        BY <1>7, <2>3, <1>c DEF SetBegin, CanBegin, BeginTransaction
      <3>2. owner = None
        BY <2>3
      <3> QED BY <2>1, <2>2, <3>1, <3>2, <1>a
    <2>4. CASE txn # "none"
      <3>1. txn' = txn /\ call'[u].at = "finish"
        BY <1>7, <2>4, <1>c DEF SetBegin, CanBegin, db
      <3>2. owner # None
        BY <2>1, <2>2, <2>4, <1>a
      <3> QED BY <2>1, <2>2, <2>4, <3>1, <3>2, <1>a
    <2> QED BY <2>3, <2>4
  <1>8. ASSUME NEW u \in Users, SetSave(u) PROVE ControlInv'
    <2>1. \A w \in Users \ {u} : call'[w] = call[w]
      BY <1>8, <1>c DEF SetSave
    <2>2. call'[u].at = "commit"
      BY <1>8, <1>c, <1>d, CallType DEF SetSave, Requests
    <2>3. \A w \in Users \ {u} : call[w].at = "idle"
      BY <1>8, <1>a, <1>b, <1>d DEF SetSave
    <2> QED BY <1>8, <1>a, <1>d, <2>1, <2>2, <2>3
               DEF SetSave, AddOrUpdateInCache, Execute, db
  <1>9. ASSUME NEW u \in Users, SetCommit(u) PROVE ControlInv'
    <2>1. \A w \in Users \ {u} : call'[w] = call[w] /\ call'[w].at = "idle"
      BY <1>9, <1>a, <1>b, <1>c, <1>d DEF SetCommit, MayCall
    <2>2. /\ UNCHANGED <<owner, g_mutex, loader, refresher>>
          /\ g_mutex = u /\ loader.at = "done" /\ owner = None /\ txn # "none"
      BY <1>9 DEF SetCommit
    <2>3. \/ txn' = "none" /\ call'[u].at = "finish"
          \/ txn' = txn /\ call'[u].at = "abort"
      <3>1. call[u] \in Requests
        BY <1>9, CallType DEF SetCommit
      <3> QED BY <1>9, <1>c, <3>1 DEF SetCommit, CommitTransaction, db, Requests
    <2> QED BY <2>1, <2>2, <2>3, <1>a
  <1>10. ASSUME NEW u \in Users, SetAbort(u) PROVE ControlInv'
    <2>1. \A w \in Users \ {u} : call'[w] = call[w]
      BY <1>10, <1>c DEF SetAbort
    <2>2. call'[u].at = "finish"
      BY <1>10, <1>c, <1>d, CallType DEF SetAbort, Requests
    <2>3. \A w \in Users \ {u} : call[w].at = "idle"
      BY <1>10, <1>a, <1>b, <1>d DEF SetAbort
    <2> QED BY <1>10, <1>a, <1>d, <2>1, <2>2, <2>3
               DEF SetAbort, AbortTransaction, CanEnd, db
  <1>11. ASSUME NEW u \in Users, SetFinish(u) PROVE ControlInv'
    <2>1. \A w \in Users \ {u} : call'[w] = call[w]
      BY <1>11, <1>c DEF SetFinish
    <2>2. call'[u].at = "idle"
      BY <1>11, <1>c, <1>d, CallType DEF SetFinish, Requests
    <2>3. \A w \in Users \ {u} : call[w].at = "idle"
      BY <1>11, <1>a, <1>b, <1>d DEF SetFinish
    <2> QED BY <1>11, <1>a, <1>d, <2>1, <2>2, <2>3 DEF SetFinish
  <1>12. ASSUME NEW u \in Users, remove(u) PROVE ControlInv'
    BY <1>12, <1>a, <1>d DEF remove, DeleteByKey, Execute, MayCall, db
  <1>13. ASSUME NEW u \in Users, Dispose(u) PROVE ControlInv'
    BY <1>13, <1>a, <1>d DEF Dispose, MayCall
  <1>14. ASSUME RefreshLoop PROVE ControlInv'
    BY <1>14, <1>a, <1>d DEF RefreshLoop
  <1>15. ASSUME RefreshLock PROVE ControlInv'
    BY <1>15, <1>a, <1>d DEF RefreshLock
  <1>16. ASSUME RefreshKey PROVE ControlInv'
    BY <1>16, <1>a, <1>d DEF RefreshKey
  <1>17. ASSUME RefreshUnlock PROVE ControlInv'
    BY <1>17, <1>a, <1>d DEF RefreshUnlock
  <1>18. ASSUME Expire PROVE ControlInv'
    BY <1>18, <1>a, <1>d DEF Expire
  <1>19. ASSUME ExternalWrite PROVE ControlInv'
    BY <1>19, <1>a, <1>d DEF ExternalWrite
  <1>20. ASSUME RefreshThrows PROVE ControlInv'
    BY <1>20, <1>a, <1>d DEF RefreshThrows
  <1> QED BY <1>1, <1>2, <1>3, <1>4, <1>5, <1>6, <1>7, <1>8, <1>9, <1>10, <1>11, <1>12,
             <1>13, <1>14, <1>15, <1>16, <1>17, <1>18, <1>19, <1>20
       DEF Next, UserStep, SetStep, Refresh

(* IInv holds throughout.                                                  *)
THEOREM Invariance == Spec => []IInv
  <1>1. Init => IInv
    <2> SUFFICES ASSUME Init PROVE IInv
      OBVIOUS
    <2>1. Idle.at = "idle"
      BY DEF Idle
    <2>2. TypeOK
      BY DEF Init, TypeOK, Tables
    <2>3. ControlInv
      BY <2>1 DEF Init, ControlInv, Open
    <2> QED BY <2>2, <2>3 DEF IInv
  <1>2. IInv /\ [Next]_vars => IInv'
    <2>1. ASSUME IInv, Next PROVE IInv'
      BY <2>1, TypeStep, ControlStep DEF IInv
    <2>2. ASSUME IInv, UNCHANGED vars PROVE IInv'
      BY <2>2 DEF vars, IInv, TypeOK, ControlInv
    <2> QED BY <2>1, <2>2
  <1> QED BY <1>1, <1>2, PTL DEF Spec

(* The variables stay in their types; in particular what `db` sees differs *)
(* from the committed table only inside a transaction that has written.    *)
THEOREM TypeCorrect == Spec => []TypeOK
  <1>1. IInv => TypeOK
    BY DEF IInv
  <1> QED BY <1>1, Invariance, PTL

(* Whatever statement of set() fails, however many users call the cache    *)
(* and open transactions of their own, set() leaves no transaction open.   *)
THEOREM NoTransactionIsLeftOpen == Spec => []NoTransactionLeftOpen
  <1>1. IInv => NoTransactionLeftOpen
    BY DEF IInv, ControlInv, NoTransactionLeftOpen, Open
  <1> QED BY <1>1, Invariance, PTL

-----------------------------------------------------------------------------
(* The cache and the table                                                 *)

NobodyInterferes == "transaction" \notin Ops /\ Faults \subseteq {"open"} /\ ~External

Matches(k, table) ==
    cache[k] # Absent /\ ~cache[k].expired /\ table[k] # Absent => cache[k].val = table[k]

MatchInv ==
    /\ owner = None
    /\ \A u \in Users : call[u].at # "abort"
    /\ loader.at = "put" => loader.data = work
    /\ loader.at # "done" => \A k \in Keys : cache[k] = Absent
    /\ \A k \in Keys : Matches(k, work)

(* A value that was read from the table may be put.                        *)
LEMMA PutMatches ==
  ASSUME TypeOK, NEW k \in Keys, NEW v, put(k, v), NEW t, NEW table,
         \A j \in Keys \ {k} : Matches(j, t) /\ table[j] = t[j],
         table[k] # Absent => v = table[k]
  PROVE  \A j \in Keys :
            cache'[j] # Absent /\ ~cache'[j].expired /\ table[j] # Absent
                => cache'[j].val = table[j]
  <1>1. cache'[k] = Fresh(v) /\ \A j \in Keys \ {k} : cache'[j] = cache[j]
    BY DEF put, TypeOK
  <1>2. Fresh(v).val = v
    BY DEF Fresh
  <1> QED BY <1>1, <1>2 DEF Matches

(* While the refresher works nobody is inside set(), so that dbtmp sees    *)
(* what `db` sees.                                                         *)
LEMMA NothingOpen ==
  ASSUME IInv, owner = None, g_mutex \notin Users
  PROVE  txn = "none" /\ work = rows
  BY DEF IInv, ControlInv, TypeOK, Open

(* set() changes the entry and the row together, and get() and the         *)
(* refresher put what the table has.                                       *)
LEMMA MatchStep ==
  ASSUME NobodyInterferes, IInv, MatchInv, Next
  PROVE  MatchInv'
  <1>a. \A k \in Keys : Matches(k, work)
    BY DEF MatchInv
  <1>b. None \notin Users /\ "refresher" \notin Users
    OBVIOUS
  <1>c. call \in [Users -> {Idle} \cup Requests] /\ Idle.at = "idle"
    BY DEF IInv, TypeOK, Requests, Idle
  <1>d. work \in Tables /\ loader \in [at : {"load", "put", "done"}, data : Tables]
    BY DEF IInv, TypeOK
  <1>e. cache \in [Keys -> Entries \cup {Absent}] /\ TypeOK
    BY DEF IInv, TypeOK
  <1>f. \A k \in Keys : Matches(k, work)' <=>
          (cache'[k] # Absent /\ ~cache'[k].expired /\ work'[k] # Absent
             => cache'[k].val = work'[k])
    BY DEF Matches
  <1>1. ASSUME CacheLoad PROVE MatchInv'
    <2>1. GetCacheData = {[k \in Keys |-> IF k \in Keys THEN work[k] ELSE Absent]}
      BY DEF GetCacheData, NobodyInterferes
    <2>2. [k \in Keys |-> IF k \in Keys THEN work[k] ELSE Absent] = work
      BY <1>d DEF Tables
    <2>3. loader' = [at |-> "put", data |-> work]
      BY <1>1, <2>1, <2>2 DEF CacheLoad
    <2> QED BY <1>1, <2>3, <1>a, <1>f DEF MatchInv, Matches, CacheLoad
  <1>2. ASSUME CachePut PROVE MatchInv'
    <2>1. loader.data = work
      BY <1>2 DEF CachePut, MatchInv
    <2>2. ASSUME NEW k \in Keys PROVE Matches(k, work)'
      <3>1. cache'[k] = IF work[k] = Absent THEN cache[k] ELSE Fresh(work[k])
        BY <1>2, <2>1 DEF CachePut
      <3>2. Fresh(work[k]).val = work[k]
        BY DEF Fresh
      <3>3. work' = work
        BY <1>2 DEF CachePut
      <3> QED BY <3>1, <3>2, <3>3, <1>f
    <2>3. loader'.at = "done"
      BY <1>2, <1>d DEF CachePut
    <2> QED BY <1>2, <2>2, <2>3 DEF CachePut, MatchInv
  <1>3. ASSUME NEW u \in Users, begin_transaction(u) PROVE MatchInv'
    BY <1>3 DEF begin_transaction, MayCall, NobodyInterferes
  <1>4. ASSUME NEW u \in Users, commit_transaction(u) PROVE MatchInv'
    BY <1>4 DEF commit_transaction, MayCall, NobodyInterferes
  <1>5. ASSUME NEW u \in Users, abort_transaction(u) PROVE MatchInv'
    BY <1>5 DEF abort_transaction, MayCall, NobodyInterferes
  <1>6. ASSUME NEW u \in Users, get(u) PROVE MatchInv'
    <2>1. PICK k \in Keys : \E v \in GetValueByKey(work, k) : put(k, v)
      BY <1>6 DEF get
    <2>2. PICK v \in GetValueByKey(work, k) : put(k, v)
      BY <2>1
    <2>3. work[k] # Absent => v = work[k]
      BY <2>2 DEF GetValueByKey, NobodyInterferes
    <2>4. work' = work
      BY <1>6 DEF get, Execute
    <2>5. \A j \in Keys : Matches(j, work)'
      BY <2>2, <2>3, <2>4, <1>a, <1>e, <1>f, PutMatches
    <2> QED BY <1>6, <2>5 DEF get, MayCall, MatchInv
  <1>7. ASSUME NEW u \in Users, SetBegin(u) PROVE MatchInv'
    <2>1. work' = work /\ loader.at = "done"
      BY <1>7 DEF SetBegin, BeginTransaction, db, MayCall
    <2>2. \A w \in Users : call'[w].at # "abort"
      BY <1>7, <1>c DEF SetBegin, MatchInv
    <2> QED BY <1>7, <1>a, <1>f, <2>1, <2>2 DEF SetBegin, MatchInv, Matches
  <1>8. ASSUME NEW u \in Users, SetSave(u) PROVE MatchInv'
    <2>1. call[u].key \in Keys /\ call[u].val \in Values /\ call[u].at = "save"
      BY <1>8, <1>e, CallType DEF SetSave
    <2>2. PICK k \in Keys, v \in Values : k = call[u].key /\ v = call[u].val
      BY <2>1
    <2>3. put(k, v)
      BY <1>8, <2>2 DEF SetSave
    <2>4. work' = IF work[k] = Absent THEN work ELSE [work EXCEPT ![k] = v]
      BY <1>8, <2>2 DEF SetSave, AddOrUpdateInCache, Execute, NobodyInterferes
    <2>5. (\A j \in Keys \ {k} : work'[j] = work[j]) /\ (work'[k] # Absent => v = work'[k])
      BY <2>4, <1>d DEF Tables
    <2>6. \A j \in Keys : Matches(j, work)'
      BY <2>3, <2>5, <1>a, <1>e, <1>f, PutMatches
    <2>7. loader.at = "done"
      BY <2>1 DEF IInv, ControlInv
    <2>8. \A w \in Users : call'[w].at # "abort"
      BY <1>8, <1>c, <2>1 DEF SetSave, MatchInv, Requests
    <2> QED BY <1>8, <2>6, <2>7, <2>8 DEF SetSave, MatchInv
  <1>9. ASSUME NEW u \in Users, SetCommit(u) PROVE MatchInv'
    <2>1. txn # "none" /\ call[u] \in Requests
      BY <1>9, <1>e, CallType DEF SetCommit, IInv, ControlInv, Open
    <2>2. call' = [call EXCEPT ![u].at = "finish"] /\ work' = work
      BY <1>9, <2>1 DEF SetCommit, CommitTransaction, CanEnd, NobodyInterferes
    <2>3. \A w \in Users : call'[w].at # "abort"
      BY <2>1, <2>2, <1>c DEF MatchInv, Requests
    <2> QED BY <1>9, <1>a, <1>f, <2>2, <2>3 DEF SetCommit, MatchInv, Matches
  <1>10. ASSUME NEW u \in Users, SetAbort(u) PROVE MatchInv'
    BY <1>10 DEF SetAbort, MatchInv
  <1>11. ASSUME NEW u \in Users, SetFinish(u) PROVE MatchInv'
    <2>1. \A k \in Keys : \/ cache'[k] = cache[k]
                          \/ cache'[k] = [val |-> Empty, expired |-> TRUE]
      BY <1>11, <1>e DEF SetFinish
    <2>2. \A w \in Users : call'[w].at # "abort"
      BY <1>11, <1>c DEF SetFinish, MatchInv
    <2>3. work' = work /\ loader' = loader /\ owner' = owner
      BY <1>11 DEF SetFinish
    <2>4. call[u].at = "finish"
      BY <1>11 DEF SetFinish
    <2>5. loader.at = "done"
      BY <2>4 DEF IInv, ControlInv
    <2>6. \A k \in Keys : Matches(k, work)'
      BY <2>1, <2>3, <1>a, <1>f DEF Matches
    <2> QED BY <2>2, <2>3, <2>5, <2>6 DEF MatchInv
  <1>12. ASSUME NEW u \in Users, remove(u) PROVE MatchInv'
    <2>1. \A j \in Keys : cache'[j] = cache[j] \/ cache'[j] = Absent
      BY <1>12 DEF remove
    <2>2. \A j \in Keys : cache'[j] # Absent => work'[j] = work[j]
      BY <1>12, <1>d DEF remove, DeleteByKey, Execute, NobodyInterferes, Tables
    <2>3. \A k \in Keys : Matches(k, work)'
      BY <2>1, <2>2, <1>a, <1>f DEF Matches
    <2> QED BY <1>12, <2>3 DEF remove, MayCall, MatchInv
  <1>13. ASSUME NEW u \in Users, Dispose(u) PROVE MatchInv'
    BY <1>13, <1>a, <1>f DEF MatchInv, Matches, Dispose
  <1>14. ASSUME RefreshLoop PROVE MatchInv'
    BY <1>14, <1>a, <1>f DEF MatchInv, Matches, RefreshLoop
  <1>15. ASSUME RefreshLock PROVE MatchInv'
    BY <1>15, <1>a, <1>f DEF MatchInv, Matches, RefreshLock
  <1>16. ASSUME RefreshKey PROVE MatchInv'
    <2>1. PICK k \in refresher.todo :
             IF isExpired(k) THEN \E v \in GetValueByKey(rows, k) : put(k, v)
                             ELSE UNCHANGED cache
      BY <1>16 DEF RefreshKey
    <2>2. k \in Keys /\ g_mutex = "refresher" /\ owner = None
      BY <1>16, <1>e DEF RefreshKey, TypeOK, IInv, ControlInv, MatchInv
    <2>3. work = rows
      BY <2>2, <1>b, NothingOpen
    <2>4. UNCHANGED <<work, owner, call, loader>>
      BY <1>16 DEF RefreshKey
    <2>5. CASE ~isExpired(k)
      BY <2>1, <2>4, <2>5, <1>a, <1>f DEF MatchInv, Matches
    <2>6. CASE isExpired(k)
      <3>1. PICK v \in GetValueByKey(work, k) : put(k, v)
        BY <2>1, <2>3, <2>6
      <3>2. work[k] # Absent => v = work[k]
        BY <3>1 DEF GetValueByKey, NobodyInterferes
      <3>3. \A j \in Keys : Matches(j, work)'
        BY <3>1, <3>2, <2>2, <2>4, <1>a, <1>e, <1>f, PutMatches
      <3>4. loader.at = "done"
        BY <2>2, <2>6 DEF isExpired, MatchInv
      <3> QED BY <2>4, <3>3, <3>4 DEF MatchInv
    <2> QED BY <2>5, <2>6
  <1>17. ASSUME RefreshUnlock PROVE MatchInv'
    BY <1>17, <1>a, <1>f DEF MatchInv, Matches, RefreshUnlock
  <1>18. ASSUME Expire PROVE MatchInv'
    <2>1. PICK k \in Keys : cache[k] # Absent /\ cache' = [cache EXCEPT ![k].expired = TRUE]
      BY <1>18 DEF Expire
    <2>2. /\ \A j \in Keys \ {k} : cache'[j] = cache[j]
          /\ cache'[k].expired
      BY <2>1, <1>e DEF Entries
    <2>3. UNCHANGED <<work, owner, call, loader>> /\ loader.at = "done"
      BY <1>18, <2>1 DEF Expire, MatchInv
    <2>4. \A j \in Keys : Matches(j, work)'
      BY <2>2, <2>3, <1>a, <1>f DEF Matches
    <2> QED BY <2>3, <2>4 DEF MatchInv
  <1>19. ASSUME ExternalWrite PROVE MatchInv'
    BY <1>19 DEF ExternalWrite, NobodyInterferes
  <1>20. ASSUME RefreshThrows PROVE MatchInv'
    BY <1>20, <1>a, <1>f DEF MatchInv, Matches, RefreshThrows
  <1> QED BY <1>1, <1>2, <1>3, <1>4, <1>5, <1>6, <1>7, <1>8, <1>9, <1>10, <1>11, <1>12,
             <1>13, <1>14, <1>15, <1>16, <1>17, <1>18, <1>19, <1>20
       DEF Next, UserStep, SetStep, Refresh

(* Between operations an entry of the cache whose ttl has not run out has  *)
(* the value of its row.                                                   *)
THEOREM CacheMatches ==
  ASSUME NobodyInterferes
  PROVE  Spec => []CacheMatchesDb
  <1>1. Init => MatchInv
    BY DEF Init, MatchInv, Matches, Idle
  <1>2. IInv /\ MatchInv /\ [Next]_vars => MatchInv'
    <2>1. ASSUME IInv, MatchInv, Next PROVE MatchInv'
      BY <2>1, MatchStep
    <2>2. ASSUME MatchInv, UNCHANGED vars PROVE MatchInv'
      BY <2>2 DEF vars, MatchInv, Matches
    <2> QED BY <2>1, <2>2
  <1>3. IInv /\ MatchInv => CacheMatchesDb
    <2> SUFFICES ASSUME IInv, MatchInv, Quiet, NEW k \in Keys
                 PROVE  Matches(k, rows)
      BY DEF CacheMatchesDb, Matches
    <2>1. work = rows
      BY DEF Quiet, IInv, TypeOK
    <2> QED BY <2>1 DEF MatchInv
  <1> QED BY <1>1, <1>2, <1>3, Invariance, PTL DEF Spec

-----------------------------------------------------------------------------
(* The value that set() writes                                             *)

RowsStay == StoredKeys = Keys /\ "remove" \notin Ops

(* From the UPDATE on the table that `db` sees has the value.              *)
SavedInv ==
    /\ owner = None
    /\ \A k \in Keys : work[k] # Absent
    /\ \A u \in Users :
          /\ call[u].at # "abort"
          /\ call[u].at \in {"commit", "finish"} => work[call[u].key] = call[u].val

(* Only the set() that has g_mutex changes the table.                      *)
LEMMA SavedStep ==
  ASSUME NobodyInterferes, RowsStay, IInv, SavedInv, Next
  PROVE  SavedInv'
  <1>a. \A u, w \in Users : call[u].at # "idle" /\ call[w].at # "idle" => u = w
    BY DEF IInv, ControlInv
  <1>c. call \in [Users -> {Idle} \cup Requests] /\ Idle.at = "idle"
    BY DEF IInv, TypeOK, Requests, Idle
  <1>d. work \in Tables /\ TypeOK
    BY DEF IInv, TypeOK
  <1>1. ASSUME CacheLoad PROVE SavedInv'
    BY <1>1 DEF CacheLoad, SavedInv
  <1>2. ASSUME CachePut PROVE SavedInv'
    BY <1>2 DEF CachePut, SavedInv
  <1>3. ASSUME NEW u \in Users, begin_transaction(u) PROVE SavedInv'
    BY <1>3 DEF begin_transaction, MayCall, NobodyInterferes
  <1>4. ASSUME NEW u \in Users, commit_transaction(u) PROVE SavedInv'
    BY <1>4 DEF commit_transaction, MayCall, NobodyInterferes
  <1>5. ASSUME NEW u \in Users, abort_transaction(u) PROVE SavedInv'
    BY <1>5 DEF abort_transaction, MayCall, NobodyInterferes
  <1>6. ASSUME NEW u \in Users, get(u) PROVE SavedInv'
    BY <1>6 DEF get, Execute, SavedInv
  <1>7. ASSUME NEW u \in Users, SetBegin(u) PROVE SavedInv'
    <2>1. txn = "none"
      BY <1>7, NothingOpen DEF SetBegin, SavedInv
    <2>2. PICK q \in Requests : q.at = "save" /\ call' = [call EXCEPT ![u] = q]
      BY <1>7, <2>1 DEF SetBegin, CanBegin, Requests
    <2>3. work' = work /\ owner' = owner
      BY <1>7, <2>1 DEF SetBegin, CanBegin, BeginTransaction
    <2> QED BY <2>2, <2>3, <1>c DEF SavedInv
  <1>8. ASSUME NEW u \in Users, SetSave(u) PROVE SavedInv'
    <2>1. call[u] \in Requests /\ call[u].at = "save"
      BY <1>8, <1>d, CallType DEF SetSave
    <2>2. PICK k \in Keys, v \in Values : k = call[u].key /\ v = call[u].val
      BY <2>1 DEF Requests
    <2>3. work' = [work EXCEPT ![k] = v]
      BY <1>8, <2>2 DEF SetSave, AddOrUpdateInCache, Execute, NobodyInterferes, SavedInv
    <2>4. \A j \in Keys : work'[j] # Absent
      BY <2>3, <1>d DEF SavedInv
    <2>5. call'[u].at = "commit" /\ call'[u].key = k /\ call'[u].val = v
      BY <1>8, <2>1, <2>2, <1>c DEF SetSave, Requests
    <2>6. \A w \in Users \ {u} : call'[w] = call[w] /\ call[w].at = "idle"
      BY <1>8, <2>1, <1>a, <1>c DEF SetSave
    <2>7. work'[k] = v
      BY <2>3, <1>d DEF Tables
    <2> QED BY <1>8, <2>4, <2>5, <2>6, <2>7 DEF SetSave, SavedInv
  <1>9. ASSUME NEW u \in Users, SetCommit(u) PROVE SavedInv'
    <2>1. txn # "none" /\ call[u] \in Requests /\ call[u].at = "commit"
      BY <1>9, <1>d, CallType DEF SetCommit, IInv, ControlInv, Open
    <2>2. call' = [call EXCEPT ![u].at = "finish"] /\ work' = work /\ owner' = owner
      BY <1>9, <2>1 DEF SetCommit, CommitTransaction, CanEnd, NobodyInterferes
    <2>3. call'[u].at = "finish" /\ call'[u].key = call[u].key /\ call'[u].val = call[u].val
      BY <2>1, <2>2, <1>c DEF Requests
    <2>4. \A w \in Users \ {u} : call'[w] = call[w]
      BY <2>2, <1>c
    <2> QED BY <2>1, <2>2, <2>3, <2>4 DEF SavedInv
  <1>10. ASSUME NEW u \in Users, SetAbort(u) PROVE SavedInv'
    BY <1>10 DEF SetAbort, SavedInv
  <1>11. ASSUME NEW u \in Users, SetFinish(u) PROVE SavedInv'
    <2>1. \A w \in Users : call'[w] = call[w] \/ call'[w] = Idle
      BY <1>11, <1>c DEF SetFinish
    <2> QED BY <1>11, <2>1, <1>c DEF SetFinish, SavedInv
  <1>12. ASSUME NEW u \in Users, remove(u) PROVE SavedInv'
    BY <1>12 DEF remove, MayCall, RowsStay
  <1>13. ASSUME NEW u \in Users, Dispose(u) PROVE SavedInv'
    BY <1>13 DEF Dispose, SavedInv
  <1>14. ASSUME RefreshLoop PROVE SavedInv'
    BY <1>14 DEF RefreshLoop, SavedInv
  <1>15. ASSUME RefreshLock PROVE SavedInv'
    BY <1>15 DEF RefreshLock, SavedInv
  <1>16. ASSUME RefreshKey PROVE SavedInv'
    BY <1>16 DEF RefreshKey, SavedInv
  <1>17. ASSUME RefreshUnlock PROVE SavedInv'
    BY <1>17 DEF RefreshUnlock, SavedInv
  <1>18. ASSUME Expire PROVE SavedInv'
    BY <1>18 DEF Expire, SavedInv
  <1>19. ASSUME ExternalWrite PROVE SavedInv'
    BY <1>19 DEF ExternalWrite, NobodyInterferes
  <1>20. ASSUME RefreshThrows PROVE SavedInv'
    BY <1>20 DEF RefreshThrows, SavedInv
  <1> QED BY <1>1, <1>2, <1>3, <1>4, <1>5, <1>6, <1>7, <1>8, <1>9, <1>10, <1>11, <1>12,
             <1>13, <1>14, <1>15, <1>16, <1>17, <1>18, <1>19, <1>20
       DEF Next, UserStep, SetStep, Refresh

(* A set() that returns has written its value where the next read of its   *)
(* caller finds it.                                                        *)
THEOREM SetsAreSaved ==
  ASSUME NobodyInterferes, RowsStay
  PROVE  Spec => SetIsSaved
  <1>1. Init => SavedInv
    BY DEF Init, SavedInv, Idle, RowsStay
  <1>2. IInv /\ SavedInv /\ [Next]_vars => SavedInv'
    <2>1. ASSUME IInv, SavedInv, Next PROVE SavedInv'
      BY <2>1, SavedStep
    <2>2. ASSUME SavedInv, UNCHANGED vars PROVE SavedInv'
      BY <2>2 DEF vars, SavedInv
    <2> QED BY <2>1, <2>2
  <1>3. SavedInv => \A u \in Users : SetFinish(u) => work[call[u].key] = call[u].val
    BY DEF SavedInv, SetFinish
  <1> QED BY <1>1, <1>2, <1>3, Invariance, PTL DEF Spec, SetIsSaved
=============================================================================
