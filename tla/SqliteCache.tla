----------------------------- MODULE SqliteCache -----------------------------
(***************************************************************************)
(* The database cache of 4.cache/sqlitecache: `Cache`, its background      *)
(* refresher, and the SQLite connection `db` behind it.                    *)
(*                                                                         *)
(* set(), get() and remove() run under g_mutex; begin_transaction(),       *)
(* commit_transaction() and abort_transaction() are public and take no     *)
(* lock, so they fall between the statements of another thread's set().    *)
(* All of them share the one connection `db`, hence one transaction.  The  *)
(* refresher opens a connection of its own (dbtmp) and therefore sees      *)
(* committed rows only.                                                    *)
(*                                                                         *)
(* Time is the flag `expired` of a cache entry: 30 s may pass at any       *)
(* moment (Expire).  SQLite is modelled by what these calls see of it: a   *)
(* deferred transaction starts to read and write at its first statement,   *)
(* and from then on no other process can commit.                           *)
(***************************************************************************)
EXTENDS FiniteSets, Naturals, TLC

CONSTANTS Keys, Values,
          Users,        \* the threads that call the cache
          Ops,          \* what they call
          StoredKeys,   \* the keys that have a row when the cache is built
          Faults,       \* what may fail: an "update", a "commit", a "read", or
                        \* the refresher when it tries to "open" the file
          External,     \* whether another process writes the table
          Empty,        \* the string "", as GetValueByKey returns for no row
          Absent,       \* no row, no cache entry
          None          \* nobody

ASSUME CacheAssumption ==
    /\ Ops \subseteq {"get", "set", "remove", "transaction", "dispose"}
    /\ StoredKeys \subseteq Keys
    /\ Faults \subseteq {"update", "commit", "read", "open"}
    /\ External \in BOOLEAN
    /\ Empty \notin Values /\ Absent \notin Values \cup {Empty}
    /\ None \notin Users \cup {"refresher"} /\ "refresher" \notin Users

VARIABLES
    rows,      \* the committed table, one value per key
    txn,       \* the transaction of `db`: "none", "begun" or "active"
    work,      \* the table as `db` sees it, its open transaction included
    owner,     \* the user whose begin_transaction() returned true, or None
    cache,     \* _cache
    g_mutex,   \* who holds it
    call,      \* where each user is inside set(), and its arguments
    loader,    \* how far the constructor is, and the rows it has read
    refresher, \* where refreshCashe is, and the keys of _cachetmp it has left
    cycle

vars == <<rows, txn, work, owner, cache, g_mutex, call, loader, refresher, cycle>>
db == <<rows, txn, work>>

Entries == [val : Values \cup {Empty}, expired : BOOLEAN]
Tables == [Keys -> Values \cup {Absent}]
Idle == [at |-> "idle"]

TypeOK ==
    /\ rows \in Tables /\ work \in Tables
    /\ txn \in {"none", "begun", "active"} /\ (txn # "active" => work = rows)
    /\ owner \in Users \cup {None}
    /\ cache \in [Keys -> Entries \cup {Absent}]
    /\ g_mutex \in Users \cup {"constructor", "refresher", None}
    /\ call \in [Users -> {Idle} \cup
                          [at : {"save", "commit", "abort", "finish"},
                           key : Keys, val : Values]]
    /\ loader \in [at : {"load", "put", "done"}, data : Tables]
    /\ refresher \in [at : {"loop", "sleep", "refresh", "ended"}, todo : SUBSET Keys]
    /\ cycle \in BOOLEAN

Init ==
    /\ rows \in {t \in Tables : \A k \in Keys : k \in StoredKeys <=> t[k] # Absent}
    /\ txn = "none" /\ work = rows /\ owner = None
    /\ cache = [k \in Keys |-> Absent]
    /\ g_mutex = None
    /\ call = [u \in Users |-> Idle]
    /\ loader = [at |-> "load", data |-> [k \in Keys |-> Absent]]
    /\ refresher = [at |-> "loop", todo |-> {}]
    /\ cycle = TRUE
-----------------------------------------------------------------------------
(* SqliteClient: the statements of one connection *)

\* The statements of BEGIN, COMMIT and ROLLBACK throw, and the public wrappers
\* return false, when a transaction is open already, or none is.
CanBegin == txn = "none"
CanEnd == txn # "none"

BeginTransaction == txn' = "begun" /\ UNCHANGED <<rows, work>>

CommitTransaction ==
    /\ rows' = work
    /\ txn' = "none"
    /\ UNCHANGED work

AbortTransaction ==
    /\ work' = rows
    /\ txn' = "none"
    /\ UNCHANGED rows

\* A statement of `db` that leaves the table as t: alone, it commits itself;
\* in a transaction, it changes what that transaction sees.
Execute(t) ==
    /\ work' = t
    /\ IF txn = "none" THEN rows' = t /\ UNCHANGED txn
                       ELSE txn' = "active" /\ UNCHANGED rows

\* AddOrUpdateInCache is an UPDATE: a key without a row stays without one, and
\* the exception of a failed statement ends in a log line.
AddOrUpdateInCache(k, v) ==
    \/ Execute(IF work[k] = Absent THEN work ELSE [work EXCEPT ![k] = v])
    \/ "update" \in Faults /\ UNCHANGED db

DeleteByKey(k) ==
    \/ Execute([work EXCEPT ![k] = Absent])
    \/ "update" \in Faults /\ UNCHANGED db

\* GetValueByKey on table t: "" for no row, and for a failed statement.
GetValueByKey(t, k) ==
    {IF t[k] = Absent THEN Empty ELSE t[k]}
        \cup (IF "read" \in Faults THEN {Empty} ELSE {})

\* Every row, as the constructor reads them through `db`.  A failure ends the
\* loop over the rows, and those read before it are returned.
GetCacheData ==
    {[k \in Keys |-> IF k \in read THEN work[k] ELSE Absent] :
        read \in IF "read" \in Faults THEN SUBSET Keys ELSE {Keys}}
-----------------------------------------------------------------------------
(* Cache *)

Fresh(v) == [val |-> v, expired |-> FALSE]

\* A cached key whose ttl has run out.
isExpired(k) == cache[k] # Absent /\ cache[k].expired

put(k, v) == cache' = [cache EXCEPT ![k] = Fresh(v)]

\* The constructor has started the refresher before it reads the table, and
\* reads it before it takes g_mutex.
CacheLoad ==
    /\ loader.at = "load"
    /\ \E data \in GetCacheData : loader' = [at |-> "put", data |-> data]
    /\ UNCHANGED <<rows, txn, work, owner, cache, g_mutex, call, refresher, cycle>>

CachePut ==
    /\ loader.at = "put" /\ g_mutex = None
    /\ loader' = [loader EXCEPT !.at = "done"]
    /\ cache' = [k \in Keys |-> IF loader.data[k] = Absent THEN cache[k]
                                ELSE Fresh(loader.data[k])]
    /\ UNCHANGED <<rows, txn, work, owner, g_mutex, call, refresher, cycle>>

\* A user can start an operation: the cache is built and it is in no other.
MayCall(u, op) == op \in Ops /\ loader.at = "done" /\ call[u] = Idle

\* begin_transaction(), commit_transaction() and abort_transaction(), called by
\* a user directly.  Users are well behaved: one ends a transaction only if its
\* own begin_transaction() returned true.
begin_transaction(u) ==
    /\ MayCall(u, "transaction") /\ CanBegin
    /\ BeginTransaction
    /\ owner' = u
    /\ UNCHANGED <<cache, g_mutex, call, loader, refresher, cycle>>

commit_transaction(u) ==
    /\ MayCall(u, "transaction") /\ owner = u /\ CanEnd
    /\ CommitTransaction
    /\ owner' = None
    /\ UNCHANGED <<cache, g_mutex, call, loader, refresher, cycle>>

abort_transaction(u) ==
    /\ MayCall(u, "transaction") /\ owner = u /\ CanEnd
    /\ AbortTransaction
    /\ owner' = None
    /\ UNCHANGED <<cache, g_mutex, call, loader, refresher, cycle>>

\* get(): only an expired entry makes it read the table, through `db`.  A key
\* that is not cached makes it construct a string from nullptr, which throws
\* and changes nothing.
get(u) ==
    /\ MayCall(u, "get") /\ g_mutex = None
    /\ \E k \in Keys :
        /\ isExpired(k)
        /\ \E v \in GetValueByKey(work, k) : put(k, v)
        /\ Execute(work)
    /\ UNCHANGED <<owner, g_mutex, call, loader, refresher, cycle>>

\* set(): takes g_mutex and begins; if a transaction is open already it goes
\* straight to its return statement.
SetBegin(u) ==
    /\ MayCall(u, "set") /\ g_mutex = None
    /\ g_mutex' = u
    /\ \E k \in Keys, v \in Values :
        IF CanBegin
        THEN /\ BeginTransaction
             /\ call' = [call EXCEPT ![u] = [at |-> "save", key |-> k, val |-> v]]
        ELSE /\ call' = [call EXCEPT ![u] = [at |-> "finish", key |-> k, val |-> v]]
             /\ UNCHANGED db
    /\ UNCHANGED <<owner, cache, loader, refresher, cycle>>

\* MUTANT: the statement is never executed.
SetSaveCacheOnly(u) ==
    /\ call[u].at = "save"
    /\ put(call[u].key, call[u].val)
    /\ call' = [call EXCEPT ![u].at = "commit"]
    /\ UNCHANGED <<rows, txn, work, owner, g_mutex, loader, refresher, cycle>>

SetSave(u) ==
    /\ call[u].at = "save"
    /\ AddOrUpdateInCache(call[u].key, call[u].val)
    /\ put(call[u].key, call[u].val)
    /\ call' = [call EXCEPT ![u].at = "commit"]
    /\ UNCHANGED <<owner, g_mutex, loader, refresher, cycle>>

\* A COMMIT that throws leaves the transaction open, for SetAbort.
SetCommit(u) ==
    /\ call[u].at = "commit"
    /\ \/ /\ CanEnd /\ CommitTransaction
          /\ call' = [call EXCEPT ![u].at = "finish"]
       \/ /\ ~CanEnd \/ "commit" \in Faults
          /\ call' = [call EXCEPT ![u].at = "abort"]
          /\ UNCHANGED db
    /\ UNCHANGED <<owner, cache, g_mutex, loader, refresher, cycle>>

\* MUTANT: a failed commit is not rolled back.
SetAbortNothing(u) ==
    /\ call[u].at = "abort"
    /\ call' = [call EXCEPT ![u].at = "finish"]
    /\ UNCHANGED <<rows, txn, work, owner, cache, g_mutex, loader, refresher, cycle>>

SetAbort(u) ==
    /\ call[u].at = "abort"
    /\ IF CanEnd THEN AbortTransaction ELSE UNCHANGED db
    /\ call' = [call EXCEPT ![u].at = "finish"]
    /\ UNCHANGED <<owner, cache, g_mutex, loader, refresher, cycle>>

\* return _cache[key].first: operator[] inserts an empty entry, whose time is
\* the epoch, for a key that is not there.
SetFinish(u) ==
    /\ call[u].at = "finish"
    /\ LET k == call[u].key
       IN  cache' = IF cache[k] # Absent THEN cache
                    ELSE [cache EXCEPT ![k] = [val |-> Empty, expired |-> TRUE]]
    /\ g_mutex' = None
    /\ call' = [call EXCEPT ![u] = Idle]
    /\ UNCHANGED <<rows, txn, work, owner, loader, refresher, cycle>>

\* remove(): erases from the key to the end of the unordered map, that is the
\* key and any set of the others, and deletes one row.
remove(u) ==
    /\ MayCall(u, "remove") /\ g_mutex = None
    /\ \E k \in Keys, after \in SUBSET Keys :
        /\ cache[k] # Absent
        /\ cache' = [j \in Keys |-> IF j = k \/ j \in after THEN Absent ELSE cache[j]]
        /\ DeleteByKey(k)
    /\ UNCHANGED <<owner, g_mutex, call, loader, refresher, cycle>>

Dispose(u) ==
    /\ MayCall(u, "dispose") /\ cycle
    /\ cycle' = FALSE
    /\ UNCHANGED <<rows, txn, work, owner, cache, g_mutex, call, loader, refresher>>
-----------------------------------------------------------------------------
(* refreshCashe *)

\* MUTANT: cycle is not looked at.
RefreshLoopForever ==
    /\ refresher.at = "loop"
    /\ refresher' = [refresher EXCEPT !.at = "sleep"]
    /\ UNCHANGED <<rows, txn, work, owner, cache, g_mutex, call, loader, cycle>>

RefreshLoop ==
    /\ refresher.at = "loop"
    /\ refresher' = [refresher EXCEPT !.at = IF cycle THEN "sleep" ELSE "ended"]
    /\ UNCHANGED <<rows, txn, work, owner, cache, g_mutex, call, loader, cycle>>

\* MUTANT: the refresher does not take g_mutex.
RefreshLockFree ==
    /\ refresher.at = "sleep"
    /\ refresher' = [at |-> "refresh", todo |-> {k \in Keys : cache[k] # Absent}]
    /\ UNCHANGED <<rows, txn, work, owner, cache, g_mutex, call, loader, cycle>>

RefreshLock ==
    /\ refresher.at = "sleep" /\ g_mutex = None
    /\ g_mutex' = "refresher"
    /\ refresher' = [at |-> "refresh", todo |-> {k \in Keys : cache[k] # Absent}]
    /\ UNCHANGED <<rows, txn, work, owner, cache, call, loader, cycle>>

\* No handler encloses the opening of the file for dbtmp, under g_mutex: the
\* exception gives g_mutex back and ends the thread, and nobody looks into its
\* future.
RefreshThrows ==
    /\ refresher.at = "sleep" /\ g_mutex = None /\ "open" \in Faults
    /\ refresher' = [at |-> "ended", todo |-> {}]
    /\ UNCHANGED <<rows, txn, work, owner, cache, g_mutex, call, loader, cycle>>

\* MUTANT: isExpired() the wrong way round.
RefreshKeyInverted ==
    /\ refresher.at = "refresh"
    /\ \E k \in refresher.todo :
        /\ refresher' = [refresher EXCEPT !.todo = @ \ {k}]
        /\ IF isExpired(k)
           THEN UNCHANGED cache
           ELSE \E v \in GetValueByKey(rows, k) : put(k, v)
    /\ UNCHANGED <<rows, txn, work, owner, g_mutex, call, loader, cycle>>

\* One key of _cachetmp, in any order: an expired one is read through dbtmp.
RefreshKey ==
    /\ refresher.at = "refresh"
    /\ \E k \in refresher.todo :
        /\ refresher' = [refresher EXCEPT !.todo = @ \ {k}]
        /\ IF isExpired(k)
           THEN \E v \in GetValueByKey(rows, k) : put(k, v)
           ELSE UNCHANGED cache
    /\ UNCHANGED <<rows, txn, work, owner, g_mutex, call, loader, cycle>>

RefreshUnlock ==
    /\ refresher.at = "refresh" /\ refresher.todo = {}
    /\ g_mutex' = None
    /\ refresher' = [at |-> "loop", todo |-> {}]
    /\ UNCHANGED <<rows, txn, work, owner, cache, call, loader, cycle>>

Refresh == RefreshLoop \/ RefreshLock \/ RefreshThrows \/ RefreshKey \/ RefreshUnlock
-----------------------------------------------------------------------------
(* The environment *)

\* The ttl of an entry runs out.
Expire ==
    /\ \E k \in Keys :
        /\ cache[k] # Absent /\ ~cache[k].expired
        /\ cache' = [cache EXCEPT ![k].expired = TRUE]
    /\ UNCHANGED <<rows, txn, work, owner, g_mutex, call, loader, refresher, cycle>>

\* Another process commits a row, which SQLite's file lock allows while the
\* transaction of `db` has touched nothing.
ExternalWrite ==
    /\ External /\ txn # "active"
    /\ \E k \in Keys, v \in Values \cup {Absent} : rows' = [rows EXCEPT ![k] = v]
    /\ work' = rows'
    /\ UNCHANGED <<txn, owner, cache, g_mutex, call, loader, refresher, cycle>>

SetStep(u) == SetSave(u) \/ SetCommit(u) \/ SetAbort(u) \/ SetFinish(u)

UserStep(u) ==
    \/ begin_transaction(u) \/ commit_transaction(u) \/ abort_transaction(u)
    \/ get(u) \/ SetBegin(u) \/ SetStep(u) \/ remove(u) \/ Dispose(u)

Next ==
    \/ CacheLoad \/ CachePut
    \/ \E u \in Users : UserStep(u)
    \/ Refresh \/ Expire \/ ExternalWrite

\* Threads keep running; a mutex that is released again and again is not kept
\* from the refresher, which asks for it once in 15 s, for ever, and then opens
\* the file or fails to; and the clock does not stop.
Fairness ==
    /\ WF_vars(CacheLoad) /\ SF_vars(CachePut)
    /\ \A u \in Users : WF_vars(SetStep(u))
    /\ WF_vars(RefreshLoop \/ RefreshKey \/ RefreshUnlock)
    /\ SF_vars(RefreshLock \/ RefreshThrows)
    /\ \A k \in Keys : WF_cache(Expire /\ cache'[k] # cache[k])

Spec == Init /\ [][Next]_vars /\ Fairness
-----------------------------------------------------------------------------
(* Properties *)

Quiet == g_mutex = None /\ txn = "none"

\* Between operations an entry whose ttl has not run out has the value of its
\* row: set() changes entry and row together, the refresher never writes back
\* a row it read before a set(), and a lookup never caches an uncommitted row.
CacheMatchesDb ==
    Quiet => \A k \in Keys :
        cache[k] # Absent /\ ~cache[k].expired /\ rows[k] # Absent
            => cache[k].val = rows[k]

\* Whatever fails inside set(), it returns with its transaction closed: the
\* next set() would otherwise skip its write.
NoTransactionLeftOpen == g_mutex = None /\ owner = None => txn = "none"

\* A set() that returns has written its value where the caller's next read
\* of the table finds it.
SetIsSaved ==
    [][\A u \in Users : SetFinish(u) => work[call[u].key] = call[u].val]_vars

Settled ==
    \A k \in Keys : cache[k] # Absent =>
        cache[k].val = IF rows[k] = Absent THEN Empty ELSE rows[k]

\* An empty value is cached for a missing row only, not for a failed read.
NoReadFails ==
    \A k \in Keys :
        cache'[k] = Fresh(Empty) => cache'[k] = cache[k] \/ rows[k] = Absent

\* Once nobody calls the cache or writes the table any more and reads succeed,
\* every entry comes to hold what its row holds, whatever statement failed before:
\* the ttl and the refresher heal it.  This takes a refresher that lives.  One
\* that has failed to open the file is not started again, and then an entry
\* stays as it is until somebody gets its key.
TtlHealsStaleEntries ==
    <>[][(Refresh \/ Expire) /\ NoReadFails]_vars /\ [](refresher.at # "ended")
        => <>[]Settled

\* Dispose() waits for the refresher, and the refresher ends, by an exception
\* or because it sees `cycle`.
DisposeReturns == ~cycle ~> refresher.at = "ended"
=============================================================================
