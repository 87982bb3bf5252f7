----------------------------- MODULE ServerCache -----------------------------
(***************************************************************************)
(* The caches of 4.cache/cassandracache and 4.cache/arangodbcache: the     *)
(* same class Cache and the same refresher in front of a database server.  *)
(*                                                                         *)
(* Both run set(), get() and remove() under g_mutex and have transactions  *)
(* in name only.  They differ in the client.  ArangoDbClient sends one     *)
(* UPSERT or REMOVE by key.  Cassandra has rows named by a uuid: it looks  *)
(* for the value of the key, then inserts, or looks for the uuid and       *)
(* updates or deletes that row.  Each statement is an action of its own,   *)
(* so another process, a failure or the end of the process may come        *)
(* between two of them.                                                    *)
(*                                                                         *)
(* A select returns the first matching row in the order of the uuids.      *)
(* Time is the flag `expired` of a cache entry.                            *)
(***************************************************************************)
EXTENDS FiniteSets, Naturals

CONSTANTS Keys, Values,
          Users,     \* the threads that call the cache
          Backends,  \* "cassandra", "arango"
          Troubles,  \* what may happen: a "select", a "write", the "load" of the
                     \* table or the "connection" to ArangoDB fails, the "other"
                     \* process writes, a "crash", an "empty" value is set
          MaxRows,   \* bound: the uuids there are
          Empty,     \* the string ""
          NoKey,     \* the key column is null
          Absent,    \* no cache entry
          None       \* nobody

ASSUME ServerCacheAssumption ==
    /\ Backends \subseteq {"cassandra", "arango"} /\ Backends # {}
    /\ Troubles \subseteq {"select", "write", "load", "connection", "other", "crash",
                           "empty"}
    /\ MaxRows \in Nat /\ NoKey \notin Keys
    /\ Empty \notin Values /\ None \notin Users \cup {"refresher", "other"}
    /\ Users \cap {"refresher", "other"} = {}

VARIABLES
    backend,
    rows,       \* the table: [id, key, val], an id at most once
    cache,      \* _cache
    g_mutex,    \* who holds it
    call,       \* the statement each client is about to send, and its arguments
    loader,     \* how far the constructor is, and what it has read
    refresher,  \* where refreshCashe is, and the keys of _cachetmp it has left
    troubles    \* what has happened so far

process == <<cache, g_mutex, loader, refresher>>
vars == <<backend, rows, process, call, troubles>>

Clients == Users \cup {"other"}
Idle == [at |-> "idle"]

Strings == Values \cup {Empty}

Init ==
    /\ backend \in Backends
    /\ rows \in {{}} \cup {{[id |-> 1, key |-> k, val |-> v]} : k \in Keys, v \in Values}
    /\ cache = [k \in Keys |-> Absent]
    /\ g_mutex = None
    /\ call = [c \in Clients |-> Idle]
    /\ loader = [at |-> "load", data |-> {}]
    /\ refresher = [at |-> "sleep", todo |-> {}]
    /\ troubles = {}

Happens(kind) == kind \in Troubles /\ troubles' = troubles \cup {kind}
-----------------------------------------------------------------------------
(* The tables *)

First(t) == CHOOSE r \in t : \A s \in t : r.id <= s.id

RowsOf(k) == {r \in rows : r.key = k}

\* The string a select of the value ends with: "" when there is no row.
Value(k) == IF RowsOf(k) = {} THEN Empty ELSE First(RowsOf(k)).val

\* The ids a uuid generator may return: no row and no client has them.
FreshIds ==
    {i \in 1 .. MaxRows :
        /\ \A r \in rows : r.id # i
        /\ \A c \in Clients : call[c] # Idle => call[c].id # i}

Without(i) == {r \in rows : r.id # i}

\* UPDATE ... WHERE id=?: a row that is not there is made, without a key.
Updated(i, v) ==
    Without(i) \cup {[id |-> i, val |-> v,
                      key |-> IF \E r \in rows : r.id = i
                              THEN (CHOOSE r \in rows : r.id = i).key ELSE NoKey]}

\* The last statement of c's call leaves the table t, or fails.  Cassandra may
\* have done what a client has waited for in vain.
Execute(c, t) ==
    \/ /\ rows' = t
       /\ call' = [call EXCEPT ![c] = [@ EXCEPT !.at = "done", !.id = 0]]
       /\ UNCHANGED troubles
    \/ /\ Happens("write")
       /\ call' = [call EXCEPT ![c] = [@ EXCEPT !.at = "done", !.id = 0, !.ok = FALSE]]
       /\ rows' \in IF backend = "cassandra" THEN {rows, t} ELSE {rows}

At(c, statement) == call[c].at = statement

Statement == UNCHANGED <<backend, process>>
-----------------------------------------------------------------------------
(* Cassandra *)

\* MUTANT: the value found is not looked at.
SelectValueInserts(c) ==
    /\ At(c, "select value")
    /\ call' = [call EXCEPT ![c].at = "insert"]
    /\ UNCHANGED <<rows, troubles>> /\ Statement

\* AddOrUpdateInCache(): GetValueByKey() decides what to do.
SelectValue(c) ==
    /\ At(c, "select value")
    /\ \/ /\ call' = [call EXCEPT ![c] = [@ EXCEPT !.at = IF Value(call[c].key) = Empty
                                                                 THEN "insert"
                                                                 ELSE "select id"]]
          /\ UNCHANGED troubles
       \/ /\ Happens("select")
          /\ call' = [call EXCEPT ![c] = [@ EXCEPT !.at = "insert", !.ok = FALSE]]
    /\ UNCHANGED rows /\ Statement

Insert(c) ==
    /\ At(c, "insert")
    /\ \E i \in FreshIds :
        Execute(c, rows \cup {[id |-> i, key |-> call[c].key, val |-> call[c].val]})
    /\ Statement

\* GetIdByKey(): a fresh uuid when there is no row or the select fails.
SelectId(c) ==
    /\ At(c, "select id")
    /\ LET found == RowsOf(call[c].key)
           next == IF call[c].op = "set" THEN "update" ELSE "delete"
           Take(i, ok) ==
               call' = [call EXCEPT ![c] = [@ EXCEPT !.at = next, !.id = i, !.ok = ok]]
       IN  \/ found # {} /\ Take(First(found).id, call[c].ok) /\ UNCHANGED troubles
           \/ found = {} /\ (\E i \in FreshIds : Take(i, call[c].ok)) /\ UNCHANGED troubles
           \/ (\E i \in FreshIds : Take(i, FALSE)) /\ Happens("select")
    /\ UNCHANGED rows /\ Statement

Update(c) ==
    /\ At(c, "update")
    /\ Execute(c, Updated(call[c].id, call[c].val))
    /\ Statement

Delete(c) ==
    /\ At(c, "delete")
    /\ Execute(c, Without(call[c].id))
    /\ Statement
-----------------------------------------------------------------------------
(* ArangoDB: the key names the document *)

\* The tables the UPSERT or REMOVE of c may leave.
Results(c) ==
    LET k == call[c].key
    IN  IF At(c, "remove") THEN {rows \ RowsOf(k)}
        ELSE IF RowsOf(k) # {} THEN {Updated(First(RowsOf(k)).id, call[c].val)}
        ELSE {rows \cup {[id |-> i, key |-> k, val |-> call[c].val]} : i \in FreshIds}

\* AddOrUpdateInCache() and DeleteByKey(): a status that says no is only logged.
Request(c) ==
    /\ call[c].at \in {"upsert", "remove"}
    /\ \E t \in Results(c) : Execute(c, t)
    /\ Statement

\* When the connection fails, sendRequest() throws an ErrorCondition, which is
\* not a std::exception: nobody in the client or the cache catches it.  The
\* server may have done what it was asked for.
RequestThrows(c) ==
    /\ call[c].at \in {"upsert", "remove"} /\ Happens("connection")
    /\ rows' \in {rows} \cup Results(c)
    /\ call' = [call EXCEPT ![c] = Idle]
    /\ g_mutex' = IF c = g_mutex THEN None ELSE g_mutex
    /\ UNCHANGED <<backend, cache, loader, refresher>>
-----------------------------------------------------------------------------
(* Cache *)

Fresh(v) == [val |-> v, expired |-> FALSE]

isExpired(k) == cache[k] # Absent /\ cache[k].expired

put(k, v) == cache' = [cache EXCEPT ![k] = Fresh(v)]

\* A client sends the first statement of this operation.
Starts(c, op, k, v) ==
    call' = [call EXCEPT ![c] = [op |-> op, key |-> k, val |-> v, id |-> 0, ok |-> TRUE,
                                 at |-> IF backend = "cassandra"
                                        THEN IF op = "set" THEN "select value" ELSE "select id"
                                        ELSE IF op = "set" THEN "upsert" ELSE "remove"]]

\* To set "" is legal.
Sets(v) == IF v = Empty THEN Happens("empty") ELSE UNCHANGED troubles

\* The constructor starts the refresher, reads the table and then takes g_mutex.
\* A row without a key makes it read an uninitialized pointer.  A select that
\* fails looks like an empty table.
CacheLoad ==
    /\ loader.at = "load"
    /\ \/ /\ loader' = [at |-> IF \E r \in rows : r.key = NoKey THEN "died" ELSE "put",
                        data |-> {r \in rows : r.key # NoKey /\ r = First(RowsOf(r.key))}]
          /\ UNCHANGED troubles
       \/ loader' = [at |-> "put", data |-> {}] /\ Happens("load")
    /\ UNCHANGED <<backend, rows, cache, g_mutex, refresher, call>>

\* An exception leaves the constructor by way of ~future(), which waits for a
\* refresher nobody has told to end.
CacheLoadThrows ==
    /\ loader.at = "load" /\ backend = "arango" /\ Happens("connection")
    /\ loader' = [loader EXCEPT !.at = "hangs"]
    /\ UNCHANGED <<backend, rows, cache, g_mutex, refresher, call>>

CachePut ==
    /\ loader.at = "put" /\ g_mutex = None
    /\ cache' = [k \in Keys |->
                    IF \E r \in loader.data : r.key = k
                    THEN Fresh((CHOOSE r \in loader.data : r.key = k).val) ELSE cache[k]]
    /\ loader' = [at |-> "done", data |-> {}]
    /\ UNCHANGED <<backend, rows, g_mutex, refresher, call, troubles>>

MayCall(u) == loader.at = "done" /\ call[u] = Idle

\* get(): an expired entry is read again; "" is cached when that fails, and
\* nothing changes when it throws.
get(u) ==
    /\ MayCall(u) /\ g_mutex = None
    /\ \E k \in Keys :
        /\ isExpired(k)
        /\ \/ put(k, Value(k)) /\ UNCHANGED troubles
           \/ put(k, Empty) /\ Happens("select")
    /\ UNCHANGED <<backend, rows, g_mutex, loader, refresher, call>>

\* MUTANT: set() does not wait for g_mutex.
SetUnlocked(u) ==
    /\ MayCall(u)
    /\ g_mutex' = u
    /\ \E k \in Keys, v \in Strings : Starts(u, "set", k, v) /\ Sets(v)
    /\ UNCHANGED <<backend, rows, cache, loader, refresher>>

set(u) ==
    /\ MayCall(u) /\ g_mutex = None
    /\ g_mutex' = u
    /\ \E k \in Keys, v \in Strings : Starts(u, "set", k, v) /\ Sets(v)
    /\ UNCHANGED <<backend, rows, cache, loader, refresher>>

\* remove() erases from the key to the end of the unordered map first.
remove(u) ==
    /\ MayCall(u) /\ g_mutex = None
    /\ g_mutex' = u
    /\ \E k \in Keys, after \in SUBSET Keys :
        /\ cache[k] # Absent
        /\ cache' = [j \in Keys |-> IF j = k \/ j \in after THEN Absent ELSE cache[j]]
        /\ Starts(u, "remove", k, Empty)
    /\ UNCHANGED <<backend, rows, loader, refresher, troubles>>

\* MUTANT: set() leaves the entry alone.
FinishWithoutPut(u) ==
    /\ At(u, "done")
    /\ g_mutex' = None
    /\ call' = [call EXCEPT ![u] = Idle]
    /\ UNCHANGED <<backend, rows, cache, loader, refresher, troubles>>

\* The client has returned, whatever came of its statements.
Finish(u) ==
    /\ At(u, "done")
    /\ IF call[u].op = "set" THEN put(call[u].key, call[u].val) ELSE UNCHANGED cache
    /\ g_mutex' = None
    /\ call' = [call EXCEPT ![u] = Idle]
    /\ UNCHANGED <<backend, rows, loader, refresher, troubles>>

\* refreshCashe
RefreshLock ==
    /\ refresher.at = "sleep" /\ g_mutex = None /\ loader.at # "died"
    /\ g_mutex' = "refresher"
    /\ refresher' = [at |-> "refresh", todo |-> {k \in Keys : isExpired(k)}]
    /\ UNCHANGED <<backend, rows, cache, loader, call, troubles>>

RefreshKey ==
    /\ refresher.at = "refresh"
    /\ \E k \in refresher.todo :
        /\ refresher' = [refresher EXCEPT !.todo = @ \ {k}]
        /\ \/ put(k, Value(k)) /\ UNCHANGED troubles
           \/ put(k, Empty) /\ Happens("select")
    /\ UNCHANGED <<backend, rows, g_mutex, loader, call>>

RefreshUnlock ==
    /\ refresher.at = "refresh" /\ refresher.todo = {}
    /\ g_mutex' = None
    /\ refresher' = [at |-> "sleep", todo |-> {}]
    /\ UNCHANGED <<backend, rows, cache, loader, call, troubles>>

\* The exception ends the thread, also when the constructor of dbtmp throws it.
RefreshThrows ==
    /\ backend = "arango" /\ Happens("connection")
    /\ \/ refresher.at = "sleep" /\ g_mutex = None
       \/ refresher.at = "refresh"
    /\ g_mutex' = None
    /\ refresher' = [at |-> "ended", todo |-> {}]
    /\ UNCHANGED <<backend, rows, cache, loader, call>>
-----------------------------------------------------------------------------
(* The environment *)

Expire ==
    /\ \E k \in Keys :
        /\ cache[k] # Absent /\ ~cache[k].expired
        /\ cache' = [cache EXCEPT ![k].expired = TRUE]
    /\ UNCHANGED <<backend, rows, g_mutex, loader, refresher, call, troubles>>

\* The client in another process, as main() uses it.
OtherStarts ==
    /\ call["other"] = Idle /\ Happens("other")
    /\ \E k \in Keys : \/ \E v \in Values : Starts("other", "set", k, v)
                       \/ Starts("other", "remove", k, Empty)
    /\ UNCHANGED <<backend, rows, process>>

OtherFinishes ==
    /\ At("other", "done")
    /\ call' = [call EXCEPT !["other"] = Idle]
    /\ UNCHANGED <<backend, rows, process, troubles>>

\* The process ends at any moment and is started again.
Crash ==
    /\ Happens("crash")
    /\ cache' = [k \in Keys |-> Absent] /\ g_mutex' = None
    /\ loader' = [at |-> "load", data |-> {}]
    /\ refresher' = [at |-> "sleep", todo |-> {}]
    /\ call' = [c \in Clients |-> IF c = "other" THEN call[c] ELSE Idle]
    /\ UNCHANGED <<backend, rows>>

ClientStep(c) ==
    \/ SelectValue(c) \/ Insert(c) \/ SelectId(c) \/ Update(c) \/ Delete(c)
    \/ Request(c) \/ RequestThrows(c)

UserStep(u) == get(u) \/ set(u) \/ remove(u) \/ Finish(u)

Next ==
    \/ CacheLoad \/ CacheLoadThrows \/ CachePut
    \/ \E c \in Clients : ClientStep(c)
    \/ \E u \in Users : UserStep(u)
    \/ RefreshLock \/ RefreshKey \/ RefreshUnlock \/ RefreshThrows
    \/ Expire \/ OtherStarts \/ OtherFinishes \/ Crash

Spec == Init /\ [][Next]_vars
-----------------------------------------------------------------------------
(* Properties *)

\* The select and the insert of a set() are two statements, so only g_mutex keeps
\* a key from getting two rows: it does, and an update hits the row it selected,
\* unless a select has failed, another process writes, or "" was set (which reads
\* like a missing row).  The server keeps a document of ArangoDB unique anyway.
OneRowPerKey ==
    troubles \cap {"select", "other", "empty"} = {} \/ backend = "arango" =>
        /\ \A r \in rows : r.key \in Keys
        /\ \A k \in Keys : Cardinality(RowsOf(k)) <= 1

\* A call whose own statements succeed leaves what it says in the table: set()
\* its value, even when earlier failures have left a key with several rows, and
\* remove(), when there was no such failure, no row.
CallIsStored ==
    [][\A u \in Users :
         Finish(u) /\ call[u].ok /\ troubles \cap {"other", "empty"} = {} =>
             IF call[u].op = "set" THEN Value(call[u].key) = call[u].val
             ELSE "select" \notin troubles => RowsOf(call[u].key) = {}]_vars

\* Between operations, and through restarts and loads that fail, an entry whose
\* ttl has not run out holds what a select of its key returns.
CacheMatchesTable ==
    g_mutex = None /\ loader.at = "done" /\ troubles \subseteq {"crash", "load"} =>
        \A k \in Keys : cache[k] # Absent /\ ~cache[k].expired => cache[k].val = Value(k)
=============================================================================
