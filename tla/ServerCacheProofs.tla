-------------------------- MODULE ServerCacheProofs --------------------------
(***************************************************************************)
(* One row per key in the table, agreement of the cache with it, and what  *)
(* a call leaves in it, for any sets of keys, values and users.            *)
(*                                                                         *)
(* IInv is the inductive invariant.  Whatever happens, a uuid names one    *)
(* row (TableInv) and a call in progress belongs to the holder of g_mutex  *)
(* (CallInv).  While nothing has happened that breaks the pairs of         *)
(* statements of Cassandra (Orderly), the rows have a key, one for each    *)
(* (RowInv), and what a call's first statement found is still so when its  *)
(* second is sent (StatementInv).  While nobody else writes and no value   *)
(* is empty (Alone), that is so of a call whose own statements have        *)
(* succeeded, however many rows its key has (SaysInv).  While nothing      *)
(* worse than a restart or a failed load has happened (Quiet), the cache   *)
(* agrees with the table but for the key of the call in progress           *)
(* (CacheInv).                                                             *)
(***************************************************************************)
EXTENDS ServerCache, FiniteSetTheorems, WellFoundedInduction, TLAPS

Orderly == troubles \cap {"select", "other", "empty"} = {} \/ backend = "arango"

Alone == troubles \cap {"other", "empty"} = {}

Quiet == troubles \subseteq {"crash", "load"}

Requests ==
    [op : {"set", "remove"}, key : Keys, val : Strings, id : Nat, ok : BOOLEAN,
     at : {"select value", "insert", "select id", "update", "delete",
           "upsert", "remove", "done"}]

BackendInv == backend \in {"cassandra", "arango"}

TableInv ==
    /\ rows \subseteq [id : Nat, key : Keys \cup {NoKey}, val : Strings]
    /\ \A r, s \in rows : r.id = s.id => r = s

RowInv ==
    /\ rows \subseteq [id : Nat, key : Keys, val : Strings]
    /\ \A r, s \in rows : r.id = s.id \/ r.key = s.key => r = s

CallInv ==
    /\ call \in [Clients -> {Idle} \cup Requests]
    /\ \A c \in Clients :
          call[c] # Idle =>
              IF backend = "arango" THEN call[c].at \in {"upsert", "remove", "done"}
                                    ELSE call[c].at \notin {"upsert", "remove"}
    /\ \A c \in Clients :
          call[c] # Idle /\ call[c].at \in {"delete", "remove"} => call[c].op = "remove"
    /\ \A u \in Users : call[u] # Idle => g_mutex = u /\ loader.at = "done"
    /\ g_mutex \in Users \cup {"refresher", None}
    /\ refresher.at = "refresh" => g_mutex = "refresher"

\* What the client of Cassandra knows of its key when it sends a statement.
StatementInv(c) ==
    /\ call[c].at \in {"select value", "insert", "update"} => call[c].op = "set"
    /\ call[c].op = "set" => call[c].val \in Values
    /\ At(c, "insert") => RowsOf(call[c].key) = {}
    /\ At(c, "select id") /\ call[c].op = "set" => RowsOf(call[c].key) # {}
    /\ At(c, "update") => \E r \in rows : r.id = call[c].id
    /\ call[c].at \in {"update", "delete"} =>
          \A r \in rows : r.id = call[c].id => r.key = call[c].key

CassandraInv ==
    backend = "cassandra" =>
        /\ call["other"] = Idle
        /\ \A r \in rows : r.val \in Values
        /\ \A u \in Users : call[u] # Idle => StatementInv(u)

\* What a call knows of its key as long as its own statements succeed.
SaysInv(u) ==
    LET k == call[u].key
    IN  /\ call[u].at \in {"select value", "insert", "update", "upsert"} => call[u].op = "set"
        /\ call[u].op = "set" => call[u].val \in Values
        /\ call[u].ok =>
              /\ At(u, "insert") => RowsOf(k) = {}
              /\ At(u, "select id") /\ call[u].op = "set" => RowsOf(k) # {}
              /\ At(u, "update") => RowsOf(k) # {} /\ call[u].id = First(RowsOf(k)).id
              /\ At(u, "delete") /\ "select" \notin troubles =>
                    \A r \in RowsOf(k) : r.id = call[u].id
              /\ At(u, "done") => IF call[u].op = "set" THEN Value(k) = call[u].val
                                  ELSE "select" \notin troubles => RowsOf(k) = {}

StoredInv ==
    /\ call["other"] = Idle
    /\ \A r \in rows : r.val \in Values
    /\ \A u \in Users : call[u] # Idle => SaysInv(u)

\* A set() of this key is under way: the entry is put when it returns.
BeingSet(k) == \E u \in Users : call[u] # Idle /\ call[u].op = "set" /\ call[u].key = k

CacheInv ==
    /\ loader.at \in {"load", "put", "done"}
    /\ loader.at = "put" => loader.data \in {rows, {}}
    /\ refresher.todo \subseteq Keys
    /\ loader.at # "done" => refresher.todo = {} /\ \A k \in Keys : cache[k] = Absent
    /\ cache \in [Keys -> {Absent} \cup [val : Strings, expired : BOOLEAN]]
    /\ \A k \in Keys :
          cache[k] # Absent /\ ~cache[k].expired => cache[k].val = Value(k) \/ BeingSet(k)
    /\ \A u \in Users :
          call[u] # Idle =>
              /\ At(u, "done") /\ call[u].op = "set" => Value(call[u].key) = call[u].val
              /\ call[u].op = "remove" => cache[call[u].key] = Absent
    /\ call["other"] = Idle

IInv ==
    /\ BackendInv /\ TableInv /\ CallInv
    /\ Orderly => RowInv /\ CassandraInv
    /\ Alone => StoredInv
    /\ Quiet => CacheInv

USE ServerCacheAssumption

(* A set of naturals has a least member, so a select has a first row.      *)
LEMMA LeastId ==
  ASSUME NEW T, T \subseteq Nat, T # {}
  PROVE  \E i \in T : \A j \in T : i <= j
  <1>1. PICK i \in T : \A j \in T : <<j, i>> \notin OpToRel(<, Nat)
    BY NatLessThanWellFounded, WFMin, Zenon
  <1>2. ASSUME NEW j \in T PROVE i <= j
    <2>1. ~(j < i)
      BY <1>1 DEF OpToRel
    <2> QED BY <2>1
  <1> QED BY <1>2

LEMMA FirstRow ==
  ASSUME NEW R, R # {}, \A r \in R : r.id \in Nat
  PROVE  First(R) \in R /\ \A r \in R : First(R).id <= r.id
  <1> DEFINE ids == {r.id : r \in R}
  <1>1. PICK i \in ids : \A j \in ids : i <= j
    <2>1. ids \subseteq Nat /\ ids # {}
      OBVIOUS
    <2> HIDE DEF ids
    <2> QED BY <2>1, LeastId
  <1>2. \E r \in R : \A s \in R : r.id <= s.id
    BY <1>1
  <1> QED BY <1>2 DEF First

LEMMA KeyedTable == RowInv => TableInv
  BY DEF RowInv, TableInv

(* Where keys are unique, a select finds the row of its key.               *)
LEMMA FoundRow ==
  ASSUME NEW R \in SUBSET [id : Nat, key : Keys, val : Strings],
         \A r, s \in R : r.id = s.id \/ r.key = s.key => r = s,
         NEW r \in R
  PROVE  LET found == {s \in R : s.key = r.key} IN found = {r} /\ First(found) = r
  <1> DEFINE found == {s \in R : s.key = r.key}
  <1>1. found = {r}
    OBVIOUS
  <1>2. r.id <= r.id
    OBVIOUS
  <1>3. First({r}) = r
    BY <1>2 DEF First
  <1> QED BY <1>1, <1>3

(* What a statement of c may do to the table: nothing, add the first row   *)
(* of the key, replace the value of the key's row, or take rows of the key *)
(* away.                                                                   *)
TableStep(c) ==
    LET k == call[c].key
        v == call[c].val
    IN  \/ UNCHANGED rows
        \/ /\ RowsOf(k) = {}
           /\ \E i \in Nat : /\ \A r \in rows : r.id # i
                             /\ rows' = rows \cup {[id |-> i, key |-> k, val |-> v]}
        \/ \E r \in rows : /\ r.key = k
                           /\ rows' = (rows \ {r})
                                       \cup {[id |-> r.id, key |-> k, val |-> v]}
        \/ rows' \subseteq rows /\ \A r \in rows \ rows' : r.key = k

(* A client whose label is that of a statement has a request.              *)
LEMMA HasRequest ==
  ASSUME CallInv, NEW c \in Clients
  PROVE  /\ call[c].at # "idle" => call[c] \in Requests
         /\ call[c] # Idle => call[c].at # "idle"
  <1>1. Idle.at = "idle"
    BY DEF Idle
  <1>2. \A q \in Requests : q.at # "idle"
    BY DEF Requests
  <1>3. call[c] = Idle \/ call[c] \in Requests
    BY DEF CallInv
  <1> QED BY <1>1, <1>2, <1>3

(* Only Cassandra is sent more than one statement.                         *)
LEMMA ToCassandra ==
  ASSUME BackendInv, CallInv, NEW c \in Clients, call[c].at # "idle",
         call[c].at \notin {"upsert", "remove", "done"}
  PROVE  backend = "cassandra" /\ call[c] # Idle
  <1>1. call[c] # Idle
    BY DEF Idle
  <1>2. backend # "arango"
    BY <1>1 DEF CallInv
  <1> QED BY <1>1, <1>2 DEF BackendInv

(* In Cassandra's case only users send statements, and know their key.     *)
LEMMA KnowsKey ==
  ASSUME BackendInv, CallInv, CassandraInv, NEW c \in Clients, call[c].at # "idle",
         call[c].at \notin {"upsert", "remove", "done"}
  PROVE  c \in Users /\ backend = "cassandra" /\ StatementInv(c)
  BY ToCassandra DEF CassandraInv, Clients

LEMMA UpdatedRow ==
  ASSUME TableInv, NEW r \in rows, NEW v
  PROVE  Updated(r.id, v) = (rows \ {r}) \cup {[id |-> r.id, key |-> r.key, val |-> v]}
  <1>1. Without(r.id) = rows \ {r}
    BY DEF TableInv, Without
  <1>2. (CHOOSE s \in rows : s.id = r.id) = r
    BY DEF TableInv
  <1>3. [id |-> r.id, val |-> v, key |-> r.key] = [id |-> r.id, key |-> r.key, val |-> v]
    OBVIOUS
  <1> QED BY <1>1, <1>2, <1>3 DEF Updated

LEMMA ResultsChange ==
  ASSUME RowInv, CallInv, NEW c \in Clients, call[c].at \in {"upsert", "remove"},
         rows' \in Results(c)
  PROVE  TableStep(c)
  <1> DEFINE k == call[c].key
             v == call[c].val
  <1>1. CASE At(c, "remove")
    BY <1>1 DEF Results, RowsOf, TableStep
  <1>2. CASE ~At(c, "remove") /\ RowsOf(k) # {}
    <2>1. PICK r \in rows : r.key = k
      BY <1>2 DEF RowsOf
    <2>2. First(RowsOf(k)) = r
      BY <2>1, FoundRow DEF RowInv, RowsOf
    <2>3. rows' = Updated(r.id, v)
      BY <1>2, <2>2 DEF Results
    <2>4. rows' = (rows \ {r}) \cup {[id |-> r.id, key |-> k, val |-> v]}
      BY <2>1, <2>3, UpdatedRow, KeyedTable
    <2> QED BY <2>1, <2>4 DEF TableStep
  <1>3. CASE ~At(c, "remove") /\ RowsOf(k) = {}
    <2>1. \E i \in FreshIds : rows' = rows \cup {[id |-> i, key |-> k, val |-> v]}
      BY <1>3 DEF Results
    <2> QED BY <2>1, <1>3 DEF FreshIds, TableStep
  <1> QED BY <1>1, <1>2, <1>3

LEMMA TableChange ==
  ASSUME BackendInv, RowInv, CallInv, CassandraInv, NEW c \in Clients, ClientStep(c)
  PROVE  TableStep(c)
  <1>1. CASE SelectValue(c)
    BY <1>1 DEF SelectValue, TableStep
  <1>2. CASE Insert(c)
    <2>1. StatementInv(c) /\ At(c, "insert")
      BY <1>2, KnowsKey DEF Insert, At
    <2>2. RowsOf(call[c].key) = {}
      BY <2>1 DEF StatementInv
    <2>3. PICK i \in FreshIds :
            Execute(c, rows \cup {[id |-> i, key |-> call[c].key, val |-> call[c].val]})
      BY <1>2 DEF Insert
    <2> QED BY <2>2, <2>3 DEF Execute, FreshIds, TableStep
  <1>3. CASE SelectId(c)
    BY <1>3 DEF SelectId, TableStep
  <1>4. CASE Update(c)
    <2>1. StatementInv(c) /\ At(c, "update")
      BY <1>4, KnowsKey DEF Update, At
    <2>2. PICK r \in rows : r.id = call[c].id /\ r.key = call[c].key
      BY <2>1 DEF StatementInv, At
    <2>3. UNCHANGED rows \/ rows' = Updated(r.id, call[c].val)
      BY <1>4, <2>2 DEF Update, Execute
    <2> QED BY <2>2, <2>3, UpdatedRow, KeyedTable DEF TableStep
  <1>5. CASE Delete(c)
    <2>1. StatementInv(c) /\ At(c, "delete")
      BY <1>5, KnowsKey DEF Delete, At
    <2>2. \A r \in rows : r.id = call[c].id => r.key = call[c].key
      BY <2>1 DEF StatementInv, At
    <2> QED BY <2>2, <1>5 DEF Delete, Execute, Without, TableStep
  <1>6. CASE Request(c)
    <2>1. UNCHANGED rows \/ rows' \in Results(c)
      BY <1>6 DEF Request, Execute
    <2> QED BY <2>1, <1>6, ResultsChange DEF Request, TableStep
  <1>7. CASE RequestThrows(c)
    BY <1>7, ResultsChange DEF RequestThrows, TableStep
  <1> QED BY <1>1, <1>2, <1>3, <1>4, <1>5, <1>6, <1>7 DEF ClientStep

(* Only the statements of the clients change the table.                    *)
LEMMA OthersKeepTable ==
  ASSUME Next, \A c \in Clients : ~ClientStep(c)
  PROVE  UNCHANGED rows
  <1>1. ASSUME NEW u \in Users, UserStep(u) PROVE UNCHANGED rows
    BY <1>1 DEF UserStep, get, set, remove, Finish
  <1> QED BY <1>1
       DEF Next, CacheLoad, CacheLoadThrows, CachePut, RefreshLock, RefreshKey,
           RefreshUnlock, RefreshThrows, Expire, OtherStarts, OtherFinishes, Crash

(* Keys stay unique.                                                       *)
LEMMA RowStep ==
  ASSUME BackendInv, RowInv, CallInv, CassandraInv, Next
  PROVE  RowInv'
  <1> USE DEF RowInv
  <1>1. CASE UNCHANGED rows
    BY <1>1
  <1>2. ASSUME NEW c \in Clients, ClientStep(c) PROVE RowInv'
    <2>1. TableStep(c)
      BY <1>2, TableChange
    <2>2. call[c] \in Requests
      BY <1>2, HasRequest
         DEF ClientStep, SelectValue, Insert, SelectId, Update, Delete, Request,
             RequestThrows, At
    <2>3. call[c].key \in Keys /\ call[c].val \in Strings
      BY <2>2 DEF Requests
    <2>4. ASSUME RowsOf(call[c].key) = {}, NEW i \in Nat, \A r \in rows : r.id # i,
                 rows' = rows \cup {[id |-> i, key |-> call[c].key, val |-> call[c].val]}
          PROVE  RowInv'
      BY <2>3, <2>4 DEF RowsOf
    <2>5. ASSUME NEW r \in rows, r.key = call[c].key,
                 rows' = (rows \ {r}) \cup {[id |-> r.id, key |-> call[c].key,
                                            val |-> call[c].val]}
          PROVE  RowInv'
      BY <2>3, <2>5
    <2>6. CASE rows' \subseteq rows
      BY <2>6
    <2> QED BY <2>1, <2>4, <2>5, <2>6 DEF TableStep
  <1> QED BY <1>1, <1>2, OthersKeepTable

(* A statement leaves the arguments of its call alone.                     *)
Goes(c, q) ==
    /\ call' = [call EXCEPT ![c] = q]
    /\ \/ q = Idle /\ RequestThrows(c)
       \/ /\ q \in Requests
          /\ q.op = call[c].op /\ q.key = call[c].key /\ q.val = call[c].val
          /\ q.at = "done" \/ (backend = "cassandra" /\ q.at \notin {"upsert", "remove"})
          /\ q.at = "delete" => q.op = "remove"

LEMMA ExecuteChange ==
  ASSUME CallInv, NEW c \in Clients, call[c] \in Requests, NEW T, Execute(c, T)
  PROVE  \E q : Goes(c, q) /\ q.at = "done" /\ ("write" \in troubles' \/ rows' = T)
  <1>1. ASSUME NEW q, q = [call[c] EXCEPT !.at = "done", !.id = 0]
        PROVE  /\ q \in Requests /\ q.op = call[c].op /\ q.key = call[c].key
               /\ q.val = call[c].val /\ q.at = "done"
    BY <1>1 DEF Requests
  <1>2. ASSUME NEW q, q = [call[c] EXCEPT !.at = "done", !.id = 0, !.ok = FALSE]
        PROVE  /\ q \in Requests /\ q.op = call[c].op /\ q.key = call[c].key
               /\ q.val = call[c].val /\ q.at = "done"
    BY <1>2 DEF Requests
  <1>3. CASE /\ call' = [call EXCEPT ![c] = [call[c] EXCEPT !.at = "done", !.id = 0]]
             /\ rows' = T
    BY <1>1, <1>3 DEF Goes, Execute, Happens
  <1>4. CASE /\ call' = [call EXCEPT ![c] = [call[c] EXCEPT !.at = "done", !.id = 0,
                                                            !.ok = FALSE]]
             /\ "write" \in troubles'
    BY <1>2, <1>4 DEF Goes, Execute, Happens
  <1> QED BY <1>3, <1>4 DEF Execute, Happens

LEMMA CallChange ==
  ASSUME BackendInv, TableInv, CallInv, NEW c \in Clients, ClientStep(c)
  PROVE  \E q : Goes(c, q)
  <1>1. CASE SelectValue(c)
    <2>1. call[c] \in Requests /\ backend = "cassandra"
      BY <1>1, HasRequest, ToCassandra DEF SelectValue, At
    <2>2. PICK ok \in BOOLEAN, at \in {"insert", "select id"} :
            \/ call' = [call EXCEPT ![c] = [call[c] EXCEPT !.at = at]]
            \/ call' = [call EXCEPT ![c] = [call[c] EXCEPT !.at = at, !.ok = ok]]
      BY <1>1 DEF SelectValue
    <2>3. ASSUME NEW q, q = [call[c] EXCEPT !.at = at]
                        \/ q = [call[c] EXCEPT !.at = at, !.ok = ok]
          PROVE  /\ q \in Requests /\ q.op = call[c].op /\ q.key = call[c].key
                 /\ q.val = call[c].val /\ q.at \in {"insert", "select id"}
      BY <2>1, <2>3 DEF Requests
    <2> QED BY <2>1, <2>2, <2>3 DEF Goes
  <1>2. CASE SelectId(c)
    <2>1. call[c] \in Requests /\ backend = "cassandra"
      BY <1>2, HasRequest, ToCassandra DEF SelectId, At
    <2> DEFINE found == RowsOf(call[c].key)
               at == IF call[c].op = "set" THEN "update" ELSE "delete"
               q(i, ok) == [call[c] EXCEPT !.at = at, !.id = i, !.ok = ok]
    <2>2. found # {} => First(found).id \in Nat
      <3>1. found \subseteq rows /\ \A r \in rows : r.id \in Nat
        BY DEF RowsOf, TableInv
      <3> QED BY <3>1, FirstRow
    <2>3. \A i \in FreshIds : i \in Nat
      BY DEF FreshIds
    <2>4. \A i \in Nat, ok \in BOOLEAN :
            /\ q(i, ok) \in Requests /\ q(i, ok).op = call[c].op
            /\ q(i, ok).key = call[c].key /\ q(i, ok).val = call[c].val
            /\ q(i, ok).at \notin {"upsert", "remove"}
      BY <2>1 DEF Requests
    <2>5. call[c].ok \in BOOLEAN
      BY <2>1 DEF Requests
    <2>6. PICK i \in Nat, ok \in BOOLEAN : call' = [call EXCEPT ![c] = q(i, ok)]
      BY <1>2, <2>2, <2>3, <2>5 DEF SelectId
    <2>7. q(i, ok).at = "delete" => call[c].op = "remove"
      BY <2>1 DEF Requests
    <2>8. ASSUME NEW p, p = q(i, ok) PROVE Goes(c, p)
      <3>1. /\ p \in Requests /\ p.op = call[c].op /\ p.key = call[c].key
            /\ p.val = call[c].val /\ p.at \notin {"upsert", "remove"}
            /\ p.at = "delete" => p.op = "remove"
        BY <2>4, <2>7, <2>8
      <3>2. call' = [call EXCEPT ![c] = p]
        BY <2>6, <2>8
      <3> QED BY <3>1, <3>2, <2>1 DEF Goes
    <2> QED BY <2>8
  <1>3. ASSUME \E T : Execute(c, T), call[c].at # "idle" PROVE \E q : Goes(c, q)
    <2>1. call[c] \in Requests
      BY <1>3, HasRequest
    <2> QED BY <2>1, <1>3, ExecuteChange
  <1>4. CASE Insert(c) \/ Update(c) \/ Delete(c) \/ Request(c)
    <2>1. call[c].at # "idle"
      BY <1>4 DEF Insert, Update, Delete, Request, At
    <2> QED BY <2>1, <1>3, <1>4 DEF Insert, Update, Delete, Request
  <1>5. CASE RequestThrows(c)
    BY <1>5 DEF RequestThrows, Goes
  <1> QED BY <1>1, <1>2, <1>4, <1>5 DEF ClientStep

(* What a client sends first.                                              *)
Sends(c, op, k, v) ==
    \E q \in Requests :
        /\ call' = [call EXCEPT ![c] = q]
        /\ q.op = op /\ q.key = k /\ q.val = v
        /\ q.at = IF backend = "arango" THEN IF op = "set" THEN "upsert" ELSE "remove"
                                        ELSE IF op = "set" THEN "select value" ELSE "select id"

LEMMA StartsChange ==
  ASSUME BackendInv, CallInv,
         NEW c \in Clients, NEW op \in {"set", "remove"}, NEW k \in Keys,
         NEW v \in Strings, Starts(c, op, k, v)
  PROVE  Sends(c, op, k, v)
  <1> DEFINE at == IF backend = "cassandra"
                   THEN IF op = "set" THEN "select value" ELSE "select id"
                   ELSE IF op = "set" THEN "upsert" ELSE "remove"
             q == [op |-> op, key |-> k, val |-> v, id |-> 0, ok |-> TRUE, at |-> at]
  <1>1. call' = [call EXCEPT ![c] = q]
    BY DEF Starts
  <1>2. at \in {"select value", "select id", "upsert", "remove"}
    OBVIOUS
  <1>3. q \in Requests
    BY <1>2 DEF Requests
  <1> QED BY <1>1, <1>3 DEF BackendInv, Sends

(* A call in progress is its client's, and a user's has g_mutex.           *)
LEMMA CallStep ==
  ASSUME BackendInv, TableInv, CallInv, Next
  PROVE  CallInv'
  <1>a. \A u \in Users : u \in Clients /\ u # "refresher" /\ u # "other"
    BY DEF Clients
  <1>b. ASSUME UNCHANGED <<backend, call, g_mutex, loader, refresher>> PROVE CallInv'
    BY <1>b DEF CallInv
  <1>c. ASSUME NEW c \in Clients, NEW q \in {Idle} \cup Requests,
               call' = [call EXCEPT ![c] = q], UNCHANGED <<backend, refresher, loader>>,
               q # Idle => IF backend = "arango" THEN q.at \in {"upsert", "remove", "done"}
                                                 ELSE q.at \notin {"upsert", "remove"},
               q # Idle /\ q.at \in {"delete", "remove"} => q.op = "remove",
               \/ UNCHANGED g_mutex /\ (c \in Users /\ q # Idle => call[c] # Idle)
               \/ g_mutex' = None /\ g_mutex = c /\ c \in Users /\ q = Idle
               \/ g_mutex' = c /\ g_mutex = None /\ c \in Users /\ loader.at = "done"
        PROVE  CallInv'
    BY <1>a, <1>c DEF CallInv
  <1>d. \A c \in Clients : call[c] \in {Idle} \cup Requests
    BY DEF CallInv
  <1>e. Idle \notin Requests
    BY DEF Idle, Requests
  <1>1. ASSUME NEW c \in Clients, ClientStep(c) PROVE CallInv'
    <2>1. PICK q : Goes(c, q)
      BY <1>1, CallChange, KeyedTable
    <2>2. call[c].at # "idle" /\ call[c] # Idle
      <3>1. call[c].at # "idle"
        BY <1>1
           DEF ClientStep, SelectValue, Insert, SelectId, Update, Delete, Request,
               RequestThrows, At
      <3> QED BY <3>1 DEF Idle
    <2>3. CASE RequestThrows(c)
      <3>1. UNCHANGED <<backend, refresher, loader>>
        BY <2>3 DEF RequestThrows
      <3>2. g_mutex' = IF c = g_mutex THEN None ELSE g_mutex
        BY <2>3 DEF RequestThrows
      <3>3. call' = [call EXCEPT ![c] = Idle]
        BY <2>3 DEF RequestThrows
      <3>4. c = g_mutex => c \in Users
        BY <2>2, <3>3 DEF CallInv, Clients
      <3>5. CASE c = g_mutex
        BY <3>1, <3>2, <3>3, <3>4, <3>5, <1>c
      <3>6. CASE c # g_mutex
        BY <3>1, <3>2, <3>3, <3>6, <1>c
      <3> QED BY <3>5, <3>6
    <2>4. CASE ~RequestThrows(c)
      <3>1. UNCHANGED <<backend, refresher, loader, g_mutex>>
        BY <1>1, <2>4
           DEF ClientStep, SelectValue, Insert, SelectId, Update, Delete, Request,
               Statement, process
      <3>2. /\ q \in Requests /\ call' = [call EXCEPT ![c] = q]
            /\ q.at = "done" \/ (backend = "cassandra" /\ q.at \notin {"upsert", "remove"})
            /\ q.at = "delete" => q.op = "remove"
        BY <2>1, <2>4 DEF Goes
      <3> QED BY <3>1, <3>2, <2>2, <1>c DEF BackendInv
    <2> QED BY <2>3, <2>4
  <1>2. ASSUME NEW u \in Users, set(u) \/ remove(u) PROVE CallInv'
    <2>1. /\ MayCall(u) /\ g_mutex = None /\ g_mutex' = u
          /\ UNCHANGED <<backend, loader, refresher>>
      BY <1>2 DEF set, remove
    <2>2. Empty \in Strings /\ Values \subseteq Strings
      BY DEF Strings
    <2>3. PICK op \in {"set", "remove"}, k \in Keys, v \in Strings : Starts(u, op, k, v)
      BY <1>2, <2>2 DEF set, remove
    <2>4. PICK q \in Requests :
            /\ call' = [call EXCEPT ![u] = q]
            /\ IF backend = "arango" THEN q.at \in {"upsert", "remove"}
               ELSE q.at \in {"select value", "select id"}
            /\ q.at = "remove" => q.op = "remove"
      <3>1. u \in Clients
        BY <1>a
      <3>2. Sends(u, op, k, v)
        BY <3>1, <2>3, StartsChange
      <3> QED BY <3>2 DEF Sends
    <2>5. IF backend = "arango" THEN q.at \in {"upsert", "remove", "done"}
                                ELSE q.at \notin {"upsert", "remove"}
      BY <2>4
    <2> QED BY <2>1, <2>4, <2>5, <1>a, <1>c DEF MayCall
  <1>3. ASSUME NEW u \in Users, get(u) PROVE CallInv'
    BY <1>3, <1>b DEF get
  <1>4. ASSUME NEW u \in Users, Finish(u) PROVE CallInv'
    <2>1. call[u] # Idle
      BY <1>4 DEF Finish, At, Idle
    <2>2. g_mutex = u
      BY <2>1 DEF CallInv
    <2> QED BY <2>2, <1>4, <1>a, <1>c DEF Finish
  <1>5. CASE CacheLoad \/ CacheLoadThrows \/ CachePut
    BY <1>5 DEF CacheLoad, CacheLoadThrows, CachePut, CallInv
  <1>6. CASE RefreshLock
    BY <1>6, <1>a DEF RefreshLock, CallInv
  <1>7. CASE RefreshKey
    BY <1>7 DEF RefreshKey, CallInv
  <1>8. CASE RefreshUnlock \/ RefreshThrows
    BY <1>8, <1>a DEF RefreshUnlock, RefreshThrows, CallInv
  <1>9. CASE Expire
    BY <1>9, <1>b DEF Expire
  <1>10. CASE OtherStarts
    <2>1. "other" \in Clients
      BY DEF Clients
    <2>2. Empty \in Strings /\ Values \subseteq Strings
      BY DEF Strings
    <2>3. PICK op \in {"set", "remove"}, k \in Keys, v \in Strings :
            Starts("other", op, k, v)
      BY <1>10, <2>2 DEF OtherStarts
    <2>4. PICK q \in Requests :
            /\ call' = [call EXCEPT !["other"] = q]
            /\ IF backend = "arango" THEN q.at \in {"upsert", "remove"}
               ELSE q.at \in {"select value", "select id"}
            /\ q.at = "remove" => q.op = "remove"
      <3>1. Sends("other", op, k, v)
        BY <2>1, <2>3, StartsChange
      <3> QED BY <3>1 DEF Sends
    <2>5. UNCHANGED <<backend, refresher, loader, g_mutex>>
      BY <1>10 DEF OtherStarts, process
    <2>6. IF backend = "arango" THEN q.at \in {"upsert", "remove", "done"}
                                ELSE q.at \notin {"upsert", "remove"}
      BY <2>4
    <2> QED BY <2>1, <2>4, <2>5, <2>6, <1>a, <1>c
  <1>11. CASE OtherFinishes
    <2>1. "other" \in Clients
      BY DEF Clients
    <2> QED BY <2>1, <1>11, <1>a, <1>c DEF OtherFinishes, process
  <1>12. CASE Crash
    BY <1>12, <1>a DEF Crash, CallInv, Clients
  <1> QED BY <1>1, <1>2, <1>3, <1>4, <1>5, <1>6, <1>7, <1>8, <1>9, <1>10, <1>11, <1>12
       DEF Next, UserStep

(* Nothing that happened is forgotten.                                     *)
LEMMA Remembers ==
  ASSUME Next
  PROVE  troubles \subseteq troubles' /\ UNCHANGED backend
  <1>1. ASSUME NEW c \in Clients, ClientStep(c)
        PROVE  troubles \subseteq troubles' /\ UNCHANGED backend
    <2>1. ASSUME NEW T, Execute(c, T) PROVE troubles \subseteq troubles'
      BY <2>1 DEF Execute, Happens
    <2> QED BY <1>1, <2>1
         DEF ClientStep, SelectValue, Insert, SelectId, Update, Delete, Request,
             RequestThrows, Statement, Happens
  <1>2. ASSUME NEW u \in Users, UserStep(u)
        PROVE  troubles \subseteq troubles' /\ UNCHANGED backend
    BY <1>2 DEF UserStep, get, set, remove, Finish, Sets, Happens
  <1> QED BY <1>1, <1>2
       DEF Next, CacheLoad, CacheLoadThrows, CachePut, RefreshLock, RefreshKey,
           RefreshUnlock, RefreshThrows, Expire, OtherStarts, OtherFinishes, Crash, Happens

LEMMA HappensNow ==
  ASSUME NEW kind, Happens(kind)
  PROVE  kind \in troubles'
  BY DEF Happens

(* Nobody but c is at work while c sends a statement to Cassandra.         *)
LEMMA WorksAlone ==
  ASSUME CallInv, call["other"] = Idle, NEW c \in Clients, call[c] # Idle
  PROVE  /\ c \in Users /\ g_mutex = c
         /\ \A u \in Clients \ {c} : call[u] = Idle
  BY DEF CallInv, Clients

LEMMA Sending ==
  ASSUME NEW c \in Clients, ClientStep(c)
  PROVE  call[c].at # "idle" /\ call[c] # Idle
  <1>1. call[c].at # "idle"
    BY DEF ClientStep, SelectValue, Insert, SelectId, Update, Delete, Request,
           RequestThrows, At
  <1> QED BY <1>1 DEF Idle

(* What the first statement found still holds for the second.              *)
LEMMA StatementStep ==
  ASSUME RowInv, CallInv, CassandraInv, backend = "cassandra",
         NEW c \in Clients, ClientStep(c), Orderly'
  PROVE  StatementInv(c)' /\ \A r \in rows' : r.val \in Values
  <1> USE DEF StatementInv, At
  <1>a. backend' = "cassandra" /\ backend # "arango" /\ BackendInv
    BY Remembers DEF Next, BackendInv
  <1>b. {"select", "empty", "other"} \cap troubles' = {}
    BY <1>a DEF Orderly
  <1>c. call[c].at # "idle" /\ call[c].at \notin {"upsert", "remove"} /\ call[c] # Idle
    BY <1>a, Sending DEF CallInv
  <1>d. c \in Users /\ StatementInv(c) /\ call[c] \in Requests
    BY <1>c, HasRequest DEF CassandraInv, Clients
  <1>e. \A r \in rows : r.val \in Values /\ r.val # Empty
    BY <1>a DEF CassandraInv
  <1>f. PICK q : Goes(c, q)
    BY <1>a, CallChange, KeyedTable
  <1>g. ~RequestThrows(c) /\ ~Request(c)
    BY <1>c DEF RequestThrows, Request
  <1>h. /\ q \in Requests /\ call'[c] = q
        /\ q.op = call[c].op /\ q.key = call[c].key /\ q.val = call[c].val
    BY <1>f, <1>g DEF Goes, CallInv
  <1>i. ASSUME NEW T, Execute(c, T) PROVE q.at = "done"
    <2>1. \/ q = [call[c] EXCEPT !.at = "done", !.id = 0]
          \/ q = [call[c] EXCEPT !.at = "done", !.id = 0, !.ok = FALSE]
      BY <1>i, <1>h DEF Execute, CallInv
    <2> QED BY <2>1, <1>d DEF Requests
  <1>1. CASE SelectValue(c)
    <2>1. rows' = rows /\ ~Happens("select")
      BY <1>1, <1>b, HappensNow DEF SelectValue
    <2>2. q.at = IF Value(call[c].key) = Empty THEN "insert" ELSE "select id"
      <3>1. q = [call[c] EXCEPT !.at = IF Value(call[c].key) = Empty THEN "insert"
                                                                      ELSE "select id"]
        BY <1>1, <1>h, <2>1 DEF SelectValue, CallInv
      <3> QED BY <3>1, <1>d DEF Requests
    <2>3. Value(call[c].key) = Empty <=> RowsOf(call[c].key) = {}
      <3>1. ASSUME NEW r \in rows, r.key = call[c].key
            PROVE  Value(call[c].key) # Empty /\ RowsOf(call[c].key) # {}
        <4>1. First(RowsOf(call[c].key)) = r
          BY <3>1, FoundRow DEF RowInv, RowsOf
        <4> QED BY <4>1, <3>1, <1>e DEF Value, RowsOf
      <3>2. RowsOf(call[c].key) = {} => Value(call[c].key) = Empty
        BY DEF Value
      <3> QED BY <3>1, <3>2 DEF RowsOf
    <2>4. call[c].op = "set" /\ call[c].val \in Values
      BY <1>1, <1>d DEF SelectValue
    <2> QED BY <2>1, <2>2, <2>3, <2>4, <1>e, <1>h DEF RowsOf
  <1>2. CASE Insert(c)
    <2>1. call[c].op = "set" /\ call[c].val \in Values
      BY <1>2, <1>d DEF Insert
    <2>2. PICK i \in FreshIds :
            Execute(c, rows \cup {[id |-> i, key |-> call[c].key, val |-> call[c].val]})
      BY <1>2 DEF Insert
    <2>3. q.at = "done"
      BY <2>2, <1>i
    <2>4. \A r \in rows' : r.val \in Values
      BY <2>1, <2>2, <1>e DEF Execute
    <2> QED BY <2>1, <2>3, <2>4, <1>h
  <1>3. CASE SelectId(c)
    <2> DEFINE found == RowsOf(call[c].key)
    <2>1. rows' = rows /\ ~Happens("select")
      BY <1>3, <1>b, HappensNow DEF SelectId
    <2> DEFINE at == IF call[c].op = "set" THEN "update" ELSE "delete"
    <2>6. \E i : /\ q = [call[c] EXCEPT !.at = at, !.id = i, !.ok = call[c].ok]
                /\ \/ found # {} /\ i = First(found).id
                   \/ found = {} /\ i \in FreshIds
      BY <1>3, <2>1, <1>h DEF SelectId, CallInv
    <2>2. q.at = IF q.op = "set" THEN "update" ELSE "delete"
      BY <2>6, <1>d, <1>h DEF Requests
    <2>3. \/ found # {} /\ q.id = First(found).id
          \/ found = {} /\ q.id \in FreshIds
      BY <2>6, <1>d DEF Requests
    <2>4. CASE found # {} /\ q.id = First(found).id
      <3>1. PICK r \in rows : r.key = call[c].key
        BY <2>4 DEF RowsOf
      <3>2. First(found) = r
        BY <3>1, FoundRow DEF RowInv, RowsOf
      <3>3. \A s \in rows : s.id = q.id => s = r
        BY <3>2, <2>4 DEF RowInv
      <3> QED BY <3>1, <3>2, <3>3, <2>4, <2>1, <2>2, <1>d, <1>e, <1>h
    <2>5. CASE found = {} /\ q.id \in FreshIds
      <3>1. \A r \in rows : r.id # q.id
        BY <2>5 DEF FreshIds
      <3>2. q.op # "set"
        BY <2>5, <1>3, <1>d, <1>h DEF SelectId
      <3> QED BY <3>1, <3>2, <2>1, <2>2, <1>e, <1>h
    <2> QED BY <2>3, <2>4, <2>5
  <1>4. CASE Update(c) \/ Delete(c)
    <2>1. q.at = "done"
      BY <1>4, <1>i DEF Update, Delete
    <2>2. Update(c) => call[c].val \in Values
      BY <1>d DEF Update
    <2>3. \A r \in rows' : r.val \in Values
      <3>1. CASE UNCHANGED rows
        BY <3>1, <1>e
      <3>2. CASE Delete(c) /\ rows' = Without(call[c].id)
        BY <3>2, <1>e DEF Without
      <3>3. CASE Update(c) /\ rows' = Updated(call[c].id, call[c].val)
        BY <3>3, <2>2, <1>e DEF Updated, Without
      <3> QED BY <3>1, <3>2, <3>3, <1>4 DEF Update, Delete, Execute
    <2> QED BY <2>1, <2>3, <1>d, <1>h
  <1> QED BY <1>1, <1>2, <1>3, <1>4, <1>g DEF ClientStep

LEMMA CassandraStep ==
  ASSUME BackendInv, RowInv, CallInv, CassandraInv, Next, Orderly'
  PROVE  CassandraInv'
  <1> SUFFICES ASSUME backend' = "cassandra" PROVE CassandraInv'
    BY DEF CassandraInv
  <1>a. backend = "cassandra" /\ backend' # "arango"
    BY Remembers
  <1>b. {"select", "empty", "other"} \cap troubles' = {}
    BY <1>a DEF Orderly
  <1>c. /\ call["other"] = Idle /\ \A r \in rows : r.val \in Values
        /\ \A u \in Users : call[u] # Idle => StatementInv(u)
    BY <1>a DEF CassandraInv
  <1>d. \A u \in Users : u \in Clients /\ u # "other"
    BY DEF Clients
  <1>1. ASSUME NEW c \in Clients, ClientStep(c) PROVE CassandraInv'
    <2>1. StatementInv(c)' /\ \A r \in rows' : r.val \in Values
      BY <1>1, <1>a, StatementStep
    <2>2. c \in Users /\ \A u \in Clients \ {c} : call[u] = Idle
      BY <1>1, <1>c, Sending, WorksAlone
    <2>3. PICK q : Goes(c, q)
      BY <1>1, CallChange, KeyedTable
    <2>4. \A u \in Clients \ {c} : call'[u] = Idle
      BY <2>2, <2>3 DEF Goes, CallInv
    <2>5. call'["other"] = Idle
      BY <2>2, <2>4, <1>d DEF Clients
    <2> QED BY <2>1, <2>4, <2>5, <1>d DEF CassandraInv
  <1>2. ASSUME NEW u \in Users, set(u) \/ remove(u) PROVE CassandraInv'
    <2>1. rows' = rows /\ g_mutex = None
      BY <1>2 DEF set, remove
    <2>2. PICK op \in {"set", "remove"}, k \in Keys, v \in Strings :
            Starts(u, op, k, v) /\ (op = "set" => v \in Values)
      <3>1. ~Happens("empty")
        BY <1>b, HappensNow
      <3> QED BY <3>1, <1>2 DEF set, remove, Sets, Strings
    <2>3. Sends(u, op, k, v)
      BY <2>2, <1>d, StartsChange
    <2>4. PICK q \in Requests :
            /\ call' = [call EXCEPT ![u] = q]
            /\ q.op = op /\ q.val = v
            /\ q.at = IF op = "set" THEN "select value" ELSE "select id"
      BY <2>3, <1>a DEF Sends
    <2>5. \A t \in Users : call[t] = Idle
      BY <2>1 DEF CallInv
    <2>6. call'[u] = q /\ \A t \in Clients \ {u} : call'[t] = Idle
      BY <2>4, <2>5, <1>c, <1>d DEF CallInv, Clients
    <2>7. StatementInv(u)'
      BY <2>2, <2>4, <2>6 DEF StatementInv, At
    <2>8. call'["other"] = Idle
      BY <2>6, <1>d DEF Clients
    <2> QED BY <2>1, <2>6, <2>7, <2>8, <1>c, <1>d DEF CassandraInv
  <1>3. ASSUME NEW u \in Users, Finish(u) PROVE CassandraInv'
    <2>1. call' = [call EXCEPT ![u] = Idle] /\ rows' = rows
      BY <1>3 DEF Finish
    <2>2. call'["other"] = Idle
      BY <2>1, <1>c, <1>d DEF CallInv, Clients
    <2>3. \A t \in Users : call'[t] # Idle => call'[t] = call[t]
      BY <2>1, <1>d DEF CallInv
    <2>4. ASSUME NEW t \in Users, call'[t] # Idle PROVE StatementInv(t)'
      <3>1. StatementInv(t) /\ call'[t] = call[t]
        BY <2>3, <2>4, <1>c
      <3> QED BY <3>1, <2>1 DEF StatementInv, At, RowsOf
    <2> QED BY <2>1, <2>2, <2>4, <1>c DEF CassandraInv
  <1>4. CASE UNCHANGED <<call, rows>>
    BY <1>4, <1>c DEF CassandraInv, StatementInv, At, RowsOf
  <1>5. ASSUME OtherStarts \/ OtherFinishes PROVE CassandraInv'
    <2>1. ~Happens("other") /\ ~At("other", "done")
      BY <1>b, <1>c, HappensNow DEF At, Idle
    <2> QED BY <2>1, <1>5 DEF OtherStarts, OtherFinishes
  <1>6. CASE Crash
    <2>1. \A t \in Clients : call'[t] = Idle
      BY <1>6, <1>c DEF Crash
    <2> QED BY <2>1, <1>6, <1>c, <1>d DEF Crash, CassandraInv, Clients
  <1>7. \A u \in Users : get(u) => UNCHANGED <<call, rows>>
    BY DEF get
  <1>8. CacheLoad \/ CacheLoadThrows \/ CachePut \/ RefreshLock \/ RefreshKey
          \/ RefreshUnlock \/ RefreshThrows \/ Expire => UNCHANGED <<call, rows>>
    BY DEF CacheLoad, CacheLoadThrows, CachePut, RefreshLock, RefreshKey, RefreshUnlock,
           RefreshThrows, Expire
  <1> QED BY <1>1, <1>2, <1>3, <1>4, <1>5, <1>6, <1>7, <1>8 DEF Next, UserStep

-----------------------------------------------------------------------------
(* The table, whatever happens.                                            *)

(* What a statement of c may do to it: take rows away, add one or write    *)
(* the row of a uuid.  Only a set() does the latter two.                   *)
Writes(c) ==
    \/ rows' \subseteq rows
    \/ /\ call[c].at \in {"insert", "update", "upsert"}
       /\ \/ \E i \in Nat : /\ \A r \in rows : r.id # i
                            /\ rows' = rows \cup {[id |-> i, key |-> call[c].key,
                                                   val |-> call[c].val]}
          \/ \E i \in Nat : rows' = Updated(i, call[c].val)

(* The first row of a key.                                                 *)
LEMMA FirstOfKey ==
  ASSUME TableInv, NEW k, RowsOf(k) # {}
  PROVE  /\ First(RowsOf(k)) \in rows /\ First(RowsOf(k)).key = k
         /\ First(RowsOf(k)).id \in Nat
         /\ \A r \in RowsOf(k) : First(RowsOf(k)).id <= r.id
  <1>1. RowsOf(k) \subseteq rows /\ \A r \in rows : r.id \in Nat
    BY DEF RowsOf, TableInv
  <1>2. First(RowsOf(k)) \in RowsOf(k) /\ \A r \in RowsOf(k) : First(RowsOf(k)).id <= r.id
    BY <1>1, FirstRow
  <1> QED BY <1>1, <1>2 DEF RowsOf

LEMMA ResultsWrite ==
  ASSUME TableInv, CallInv, NEW c \in Clients, call[c].at \in {"upsert", "remove"},
         rows' \in Results(c)
  PROVE  Writes(c)
  <1> DEFINE k == call[c].key
  <1>1. CASE At(c, "remove")
    BY <1>1 DEF Results, Writes
  <1>2. CASE ~At(c, "remove") /\ RowsOf(k) # {}
    <2>1. First(RowsOf(k)).id \in Nat
      BY <1>2, FirstOfKey
    <2>2. rows' = Updated(First(RowsOf(k)).id, call[c].val)
      BY <1>2 DEF Results
    <2> QED BY <2>1, <2>2, <1>2 DEF At, Writes
  <1>3. CASE ~At(c, "remove") /\ RowsOf(k) = {}
    <2>1. \E i \in FreshIds : rows' = rows \cup {[id |-> i, key |-> k, val |-> call[c].val]}
      BY <1>3 DEF Results
    <2> QED BY <2>1, <1>3 DEF FreshIds, At, Writes
  <1> QED BY <1>1, <1>2, <1>3

LEMMA StatementWrites ==
  ASSUME TableInv, CallInv, NEW c \in Clients, ClientStep(c)
  PROVE  Writes(c)
  <1>a. call[c] \in Requests
    BY Sending, HasRequest
  <1>1. CASE SelectValue(c) \/ SelectId(c)
    BY <1>1 DEF SelectValue, SelectId, Writes
  <1>2. CASE Insert(c)
    BY <1>2 DEF Insert, Execute, FreshIds, At, Writes
  <1>3. CASE Update(c)
    <2>1. call[c].id \in Nat
      BY <1>a DEF Requests
    <2> QED BY <2>1, <1>3 DEF Update, Execute, At, Writes
  <1>4. CASE Delete(c)
    BY <1>4 DEF Delete, Execute, Without, Writes
  <1>5. CASE Request(c)
    <2>1. UNCHANGED rows \/ rows' \in Results(c)
      BY <1>5 DEF Request, Execute
    <2> QED BY <2>1, <1>5, ResultsWrite DEF Request, Writes
  <1>6. CASE RequestThrows(c)
    BY <1>6, ResultsWrite DEF RequestThrows, Writes
  <1> QED BY <1>1, <1>2, <1>3, <1>4, <1>5, <1>6 DEF ClientStep

(* A uuid names one row.                                                   *)
LEMMA TableInvStep ==
  ASSUME TableInv, CallInv, Next
  PROVE  TableInv'
  <1>1. CASE UNCHANGED rows
    BY <1>1 DEF TableInv
  <1>2. ASSUME NEW c \in Clients, ClientStep(c) PROVE TableInv'
    <2> DEFINE k == call[c].key
               v == call[c].val
    <2>1. k \in Keys \cup {NoKey} /\ v \in Strings
      BY <1>2, Sending, HasRequest DEF Requests
    <2>2. Writes(c)
      BY <1>2, StatementWrites
    <2>3. CASE rows' \subseteq rows
      BY <2>3 DEF TableInv
    <2>4. ASSUME NEW i \in Nat, \A r \in rows : r.id # i,
                 rows' = rows \cup {[id |-> i, key |-> k, val |-> v]}
          PROVE  TableInv'
      <3> HIDE DEF k, v
      <3> QED BY <2>1, <2>4 DEF TableInv
    <2>5. ASSUME NEW i \in Nat, rows' = Updated(i, v) PROVE TableInv'
      <3>1. PICK j \in Keys \cup {NoKey} :
              rows' = Without(i) \cup {[id |-> i, val |-> v, key |-> j]}
        <4>1. CASE \E r \in rows : r.id = i
          <5>1. (CHOOSE r \in rows : r.id = i) \in rows
            BY <4>1
          <5> QED BY <5>1, <4>1, <2>5 DEF Updated, TableInv
        <4>2. CASE ~\E r \in rows : r.id = i
          BY <4>2, <2>5 DEF Updated
        <4> QED BY <4>1, <4>2
      <3> HIDE DEF k, v
      <3> QED BY <2>1, <3>1 DEF TableInv, Without
    <2> QED BY <2>2, <2>3, <2>4, <2>5 DEF Writes
  <1> QED BY <1>1, <1>2, OthersKeepTable

-----------------------------------------------------------------------------
(* What a call leaves in the table when its statements succeed.            *)

LEMMA SaysFrame ==
  ASSUME NEW u \in Clients, SaysInv(u), UNCHANGED rows, call'[u] = call[u],
         troubles \subseteq troubles'
  PROVE  SaysInv(u)'
  BY DEF SaysInv, At, RowsOf, Value

(* Writing the first row of a key changes what a select of it returns.     *)
LEMMA FirstIsWritten ==
  ASSUME TableInv, TableInv', NEW k \in Keys, RowsOf(k) # {}, NEW v,
         rows' = Updated(First(RowsOf(k)).id, v)
  PROVE  Value(k)' = v
  <1> DEFINE r == First(RowsOf(k))
             n == [id |-> r.id, key |-> k, val |-> v]
  <1>1. r \in rows /\ r.key = k /\ r.id \in Nat /\ \A s \in RowsOf(k) : r.id <= s.id
    BY FirstOfKey
  <1>2. rows' = (rows \ {r}) \cup {n}
    <2> HIDE DEF r
    <2>1. rows' = Updated(r.id, v)
      BY DEF r
    <2> QED BY <1>1, <2>1, UpdatedRow
  <1>3. n \in RowsOf(k)' /\ n.id = r.id
    BY <1>2 DEF RowsOf
  <1>4. \A s \in RowsOf(k)' : s = n \/ s \in RowsOf(k)
    <2> HIDE DEF r, n
    <2> QED BY <1>2 DEF RowsOf
  <1>5. \A s \in RowsOf(k)' : n.id <= s.id
    <2>1. n.id <= n.id
      BY <1>1, <1>3
    <2> HIDE DEF r, n
    <2> QED BY <1>1, <1>3, <1>4, <2>1
  <1>6. First(RowsOf(k)') = n
    <2>1. TableInv' /\ RowsOf(k)' # {}
      BY <1>3
    <2>2. First(RowsOf(k)') \in RowsOf(k)' /\ \A s \in RowsOf(k)' : First(RowsOf(k)').id <= s.id
      <3>1. \A s \in RowsOf(k)' : s.id \in Nat
        BY DEF TableInv, RowsOf
      <3> QED BY <2>1, <3>1, FirstRow
    <2> DEFINE f == First(RowsOf(k)')
    <2>3. f.id <= n.id /\ n.id <= f.id /\ f \in rows' /\ n \in rows' /\ f.id \in Nat /\ n.id \in Nat
      <3> HIDE DEF n
      <3>1. f \in rows' /\ n \in rows'
        BY <2>2, <1>3 DEF RowsOf
      <3>2. \A s \in rows' : s.id \in Nat
        BY DEF TableInv
      <3> HIDE DEF f
      <3>3. f.id <= n.id /\ n.id <= f.id
        BY <2>2, <1>3, <1>5 DEF f
      <3> QED BY <3>1, <3>2, <3>3
    <2> HIDE DEF f, n
    <2>4. f.id = n.id
      BY <2>3
    <2>5. f = n
      BY <2>3, <2>4 DEF TableInv
    <2> QED BY <2>5 DEF f
  <1> QED BY <1>3, <1>6 DEF Value

(* So does inserting the first row of a key.                               *)
LEMMA OnlyIsWritten ==
  ASSUME TableInv', NEW k \in Keys, RowsOf(k) = {}, NEW i, NEW v,
         rows' = rows \cup {[id |-> i, key |-> k, val |-> v]}
  PROVE  Value(k)' = v
  <1> DEFINE n == [id |-> i, key |-> k, val |-> v]
  <1>1. RowsOf(k)' = {n}
    BY DEF RowsOf
  <1>2. First({n}) \in {n}
    <2>1. n \in rows' /\ n.id \in Nat
      BY DEF TableInv
    <2> HIDE DEF n
    <2> QED BY <2>1, FirstRow
  <1> QED BY <1>1, <1>2 DEF Value

LEMMA Executed ==
  ASSUME CallInv, NEW c \in Clients, call[c] \in Requests, NEW T, Execute(c, T)
  PROVE  /\ call'[c].at = "done" /\ call'[c].op = call[c].op
         /\ call'[c].key = call[c].key /\ call'[c].val = call[c].val
         /\ call'[c].ok => rows' = T /\ call[c].ok
  <1>1. ASSUME NEW q, q = [call[c] EXCEPT !.at = "done", !.id = 0]
        PROVE  /\ q.at = "done" /\ q.op = call[c].op /\ q.key = call[c].key
               /\ q.val = call[c].val /\ q.ok = call[c].ok
    BY <1>1 DEF Requests
  <1>2. ASSUME NEW q, q = [call[c] EXCEPT !.at = "done", !.id = 0, !.ok = FALSE]
        PROVE  /\ q.at = "done" /\ q.op = call[c].op /\ q.key = call[c].key
               /\ q.val = call[c].val /\ q.ok = FALSE
    BY <1>2 DEF Requests
  <1>3. \/ call'[c] = [call[c] EXCEPT !.at = "done", !.id = 0] /\ rows' = T
        \/ call'[c] = [call[c] EXCEPT !.at = "done", !.id = 0, !.ok = FALSE]
    BY DEF Execute, CallInv
  <1> QED BY <1>1, <1>2, <1>3

(* A select of the value returns "" when and only when there is no row.    *)
LEMMA EmptyIsMissing ==
  ASSUME TableInv, StoredInv, NEW k
  PROVE  Value(k) = Empty <=> RowsOf(k) = {}
  <1>1. CASE RowsOf(k) # {}
    <2>1. First(RowsOf(k)) \in rows
      BY <1>1, FirstOfKey
    <2>2. First(RowsOf(k)).val \in Values
      BY <2>1 DEF StoredInv
    <2> QED BY <2>2, <1>1 DEF Value
  <1> QED BY <1>1 DEF Value

(* Each statement of a call that has not failed finds what it expects, and *)
(* the last one leaves what the call says.                                 *)
LEMMA SaysStep ==
  ASSUME BackendInv, TableInv, TableInv', CallInv, StoredInv, Alone,
         Orderly => RowInv, Next,
         NEW c \in Clients, ClientStep(c), ~RequestThrows(c)
  PROVE  SaysInv(c)'
  <1>a. call[c] \in Requests /\ call[c] # Idle /\ c \in Users /\ SaysInv(c)
    BY Sending, HasRequest DEF StoredInv, Clients
  <1>k. PICK k \in Keys, v \in Strings : k = call[c].key /\ v = call[c].val
    BY <1>a DEF Requests
  <1>b. /\ call[c].op \in {"set", "remove"} /\ call[c].id \in Nat
        /\ call[c].ok \in BOOLEAN
    BY <1>a DEF Requests
  <1>c. "select" \notin troubles' => RowInv
    <2>1. "select" \notin troubles' => "select" \notin troubles
      BY Remembers
    <2> QED BY <2>1 DEF Alone, Orderly
  <1>d. rows' = rows => RowsOf(k)' = RowsOf(k)
    BY DEF RowsOf
  <1>e. ASSUME NEW T, Execute(c, T),
               call'[c].ok => IF call[c].op = "set" THEN Value(k)' = v
                              ELSE "select" \notin troubles' => RowsOf(k)' = {}
        PROVE  SaysInv(c)'
    <2>1. /\ call'[c].at = "done" /\ call'[c].op = call[c].op /\ call'[c].key = k
          /\ call'[c].val = v
      BY <1>k, <1>a, <1>e, Executed
    <2>2. call[c].op = "set" => v \in Values
      BY <1>a, <1>k DEF SaysInv
    <2> QED BY <1>k, <1>e, <2>1, <2>2 DEF SaysInv, At
  <1>f. ASSUME NEW T, Execute(c, T) PROVE call'[c].ok => rows' = T /\ call[c].ok
    BY <1>k, <1>a, <1>f, Executed
  <1>1. CASE SelectValue(c)
    <2> DEFINE next == IF Value(k) = Empty THEN "insert" ELSE "select id"
    <2>1. ASSUME NEW q, \/ q = [call[c] EXCEPT !.at = next]
                        \/ q = [call[c] EXCEPT !.at = "insert", !.ok = FALSE]
          PROVE  /\ q.op = call[c].op /\ q.key = k /\ q.val = v
                 /\ q.at \in {"insert", "select id"}
                 /\ q.ok => q.at = next
      BY <1>a, <1>k, <2>1 DEF Requests
    <2>2. \/ call'[c] = [call[c] EXCEPT !.at = next]
          \/ call'[c] = [call[c] EXCEPT !.at = "insert", !.ok = FALSE]
      BY <1>k, <1>1 DEF SelectValue, CallInv
    <2>3. call[c].op = "set" /\ v \in Values /\ RowsOf(k)' = RowsOf(k)
      BY <1>k, <1>1, <1>a, <1>d DEF SelectValue, SaysInv, At
    <2>4. Value(k) = Empty <=> RowsOf(k) = {}
      BY EmptyIsMissing
    <2> QED BY <1>k, <2>1, <2>2, <2>3, <2>4 DEF SaysInv, At
  <1>2. CASE SelectId(c)
    <2>a. PICK at \in {"update", "delete"} :
            at = IF call[c].op = "set" THEN "update" ELSE "delete"
      OBVIOUS
    <2>1. PICK i \in Nat, ok \in BOOLEAN :
            /\ call' = [call EXCEPT ![c] = [call[c] EXCEPT !.at = at, !.id = i, !.ok = ok]]
            /\ ok => /\ call[c].ok
                     /\ RowsOf(k) # {} => i = First(RowsOf(k)).id
      <3>1. RowsOf(k) # {} => First(RowsOf(k)).id \in Nat
        BY FirstOfKey
      <3>2. \A i \in FreshIds : i \in Nat
        BY DEF FreshIds
      <3> QED BY <1>k, <1>2, <1>b, <2>a, <3>1, <3>2 DEF SelectId
    <2>2. /\ call'[c].at = at /\ call'[c].id = i /\ call'[c].ok = ok
          /\ call'[c].op = call[c].op /\ call'[c].key = k /\ call'[c].val = v
      <3>1. ASSUME NEW q, q = [call[c] EXCEPT !.at = at, !.id = i, !.ok = ok]
            PROVE  /\ q.at = at /\ q.id = i /\ q.ok = ok
                   /\ q.op = call[c].op /\ q.key = call[c].key /\ q.val = call[c].val
        BY <1>a, <3>1 DEF Requests
      <3>2. call'[c] = [call[c] EXCEPT !.at = at, !.id = i, !.ok = ok]
        BY <2>1 DEF CallInv
      <3> QED BY <1>k, <3>1, <3>2
    <2>3. /\ RowsOf(k)' = RowsOf(k)
          /\ call[c].op = "set" => v \in Values
          /\ call[c].ok /\ call[c].op = "set" => RowsOf(k) # {}
      BY <1>k, <1>2, <1>a, <1>d DEF SelectId, SaysInv, At
    <2>4. ASSUME ok, "select" \notin troubles' PROVE \A r \in RowsOf(k) : r.id = i
      <3>1. ASSUME NEW r \in RowsOf(k) PROVE r = First(RowsOf(k))
        <4>1. First(RowsOf(k)) \in rows /\ First(RowsOf(k)).key = k
          BY <3>1, FirstOfKey
        <4> QED BY <4>1, <3>1, <2>4, <1>c DEF RowInv, RowsOf
      <3> QED BY <3>1, <2>1, <2>4
    <2>5. CASE call[c].op = "set"
      BY <2>a, <2>1, <2>2, <2>3, <2>5 DEF SaysInv, At
    <2>6. CASE call[c].op = "remove"
      BY <2>a, <2>2, <2>3, <2>4, <2>6 DEF SaysInv, At
    <2> QED BY <1>b, <2>5, <2>6
  <1>3. CASE Insert(c)
    <2>1. call[c].op = "set" /\ (call[c].ok => RowsOf(k) = {})
      BY <1>k, <1>3, <1>a DEF Insert, SaysInv, At
    <2>2. PICK i \in FreshIds : Execute(c, rows \cup {[id |-> i, key |-> k, val |-> v]})
      BY <1>k, <1>3 DEF Insert
    <2> QED BY <1>b, <1>e, <1>f, <2>1, <2>2, OnlyIsWritten
  <1>4. CASE Update(c)
    <2>1. /\ call[c].op = "set"
          /\ call[c].ok => RowsOf(k) # {} /\ call[c].id = First(RowsOf(k)).id
      BY <1>k, <1>4, <1>a DEF Update, SaysInv, At
    <2>2. Execute(c, Updated(call[c].id, v))
      BY <1>k, <1>4 DEF Update
    <2>3. call'[c].ok => RowsOf(k) # {} /\ rows' = Updated(First(RowsOf(k)).id, v)
      <3>1. call'[c].ok => rows' = Updated(call[c].id, v) /\ call[c].ok
        BY <1>f, <2>2
      <3> QED BY <2>1, <3>1
    <2>4. call'[c].ok => Value(k)' = v
      BY <2>3, FirstIsWritten
    <2> QED BY <1>e, <2>1, <2>2, <2>4
  <1>5. CASE Delete(c)
    <2>1. call[c].op = "remove"
      BY <1>k, <1>5, <1>a DEF Delete, At, CallInv
    <2>2. call[c].ok /\ "select" \notin troubles => \A r \in RowsOf(k) : r.id = call[c].id
      BY <1>k, <1>5, <1>a DEF Delete, SaysInv, At
    <2>3. Execute(c, Without(call[c].id))
      BY <1>k, <1>5 DEF Delete
    <2>4. "select" \notin troubles' => "select" \notin troubles
      BY Remembers
    <2>5. ASSUME call'[c].ok, "select" \notin troubles' PROVE RowsOf(k)' = {}
      <3>1. rows' = Without(call[c].id) /\ call[c].ok
        BY <1>f, <2>3, <2>5
      <3> QED BY <3>1, <2>2, <2>4, <2>5 DEF RowsOf, Without
    <2> QED BY <1>k, <1>e, <2>1, <2>3, <2>5
  <1>6. CASE Request(c)
    <2>1. PICK T \in Results(c) : Execute(c, T)
      BY <1>k, <1>6 DEF Request
    <2>2. CASE At(c, "remove")
      <3>1. call[c].op = "remove" /\ T = rows \ RowsOf(k)
        BY <1>k, <2>1, <2>2, <1>a DEF Results, At, CallInv
      <3>2. ASSUME call'[c].ok PROVE RowsOf(k)' = {}
        BY <3>1, <3>2, <2>1, <1>f DEF RowsOf
      <3> QED BY <1>k, <1>e, <2>1, <3>1, <3>2
    <2>3. CASE ~At(c, "remove") /\ RowsOf(k) # {}
      <3>1. call[c].op = "set" /\ T = Updated(First(RowsOf(k)).id, v)
        BY <1>k, <1>6, <2>1, <2>3, <1>a DEF Request, Results, At, SaysInv
      <3>2. call'[c].ok => rows' = Updated(First(RowsOf(k)).id, v)
        BY <1>f, <2>1, <3>1
      <3>3. call'[c].ok => Value(k)' = v
        BY <2>3, <3>2, FirstIsWritten
      <3> QED BY <1>b, <1>e, <2>1, <3>1, <3>3
    <2>4. CASE ~At(c, "remove") /\ RowsOf(k) = {}
      <3>1. call[c].op = "set"
        BY <1>k, <1>6, <2>4, <1>a DEF Request, At, SaysInv
      <3>2. PICK i \in FreshIds : T = rows \cup {[id |-> i, key |-> k, val |-> v]}
        BY <1>k, <2>1, <2>4 DEF Results
      <3> QED BY <1>b, <1>e, <1>f, <2>1, <2>4, <3>1, <3>2, OnlyIsWritten
    <2> QED BY <2>2, <2>3, <2>4
  <1> QED BY <1>1, <1>2, <1>3, <1>4, <1>5, <1>6 DEF ClientStep

LEMMA StoredStep ==
  ASSUME BackendInv, TableInv, TableInv', CallInv, StoredInv, Orderly => RowInv, Next,
         Alone, Alone'
  PROVE  StoredInv'
  <1>a. call["other"] = Idle /\ \A r \in rows : r.val \in Values
    BY DEF StoredInv
  <1>b. \A u \in Users : u \in Clients /\ u # "other"
    BY DEF Clients
  <1>c. troubles \subseteq troubles'
    BY Remembers
  <1>d. ASSUME rows' = rows, call'["other"] = Idle,
               \A u \in Users : \/ call'[u] = call[u] \/ call'[u] = Idle \/ SaysInv(u)'
        PROVE  StoredInv'
    <2> SUFFICES ASSUME NEW u \in Users, call'[u] # Idle, call'[u] = call[u]
                 PROVE  SaysInv(u)'
      BY <1>a, <1>d DEF StoredInv
    <2> QED BY <1>b, <1>c, <1>d, SaysFrame DEF StoredInv
  <1>1. ASSUME NEW c \in Clients, ClientStep(c) PROVE StoredInv'
    <2>1. call[c] \in Requests /\ call[c] # Idle /\ c \in Users /\ SaysInv(c)
      BY <1>1, Sending, HasRequest DEF StoredInv, Clients
    <2>2. \A u \in Clients \ {c} : call[u] = Idle
      BY <1>a, <2>1, WorksAlone
    <2>3. PICK q : Goes(c, q)
      BY <1>1, CallChange
    <2>4. call'[c] = q /\ \A u \in Clients \ {c} : call'[u] = Idle
      BY <2>2, <2>3 DEF Goes, CallInv
    <2>5. call'["other"] = Idle
      BY <2>1, <2>4, <1>b DEF Clients
    <2>6. call'[c] # Idle => SaysInv(c)'
      <3>1. RequestThrows(c) => call'[c] = Idle
        BY DEF RequestThrows, CallInv
      <3> QED BY <3>1, <1>1, SaysStep
    <2>7. \A r \in rows' : r.val \in Values
      <3>1. Writes(c)
        BY <1>1, StatementWrites
      <3>2. call[c].at \in {"insert", "update", "upsert"} => call[c].val \in Values
        BY <2>1 DEF SaysInv
      <3>3. ASSUME NEW i \in Nat, rows' = Updated(i, call[c].val), call[c].val \in Values
            PROVE  \A r \in rows' : r.val \in Values
        BY <1>a, <3>3 DEF Updated, Without
      <3> QED BY <1>a, <3>1, <3>2, <3>3 DEF Writes
    <2> QED BY <2>4, <2>5, <2>6, <2>7, <1>b DEF StoredInv
  <1>2. ASSUME NEW u \in Users, set(u) \/ remove(u) PROVE StoredInv'
    <2>1. rows' = rows
      BY <1>2 DEF set, remove
    <2>2. PICK op \in {"set", "remove"}, k \in Keys, v \in Strings :
            Starts(u, op, k, v) /\ (op = "set" => v \in Values)
      <3>1. ~Happens("empty")
        BY HappensNow DEF Alone
      <3> QED BY <3>1, <1>2 DEF set, remove, Sets, Strings
    <2>3. Sends(u, op, k, v)
      BY <2>2, <1>b, StartsChange
    <2>4. PICK q \in Requests :
            /\ call' = [call EXCEPT ![u] = q] /\ q.op = op /\ q.val = v
            /\ q.at \in IF op = "set" THEN {"upsert", "select value"}
                                      ELSE {"remove", "select id"}
      BY <2>3 DEF Sends
    <2>5. call'[u] = q /\ \A t \in Clients \ {u} : call'[t] = call[t]
      BY <2>4, <1>b DEF CallInv
    <2>6. SaysInv(u)'
      BY <2>2, <2>4, <2>5 DEF SaysInv, At
    <2> QED BY <2>1, <2>5, <2>6, <1>a, <1>b, <1>d DEF Clients
  <1>3. ASSUME NEW u \in Users, Finish(u) PROVE StoredInv'
    <2>1. call' = [call EXCEPT ![u] = Idle] /\ rows' = rows
      BY <1>3 DEF Finish
    <2>2. call'[u] = Idle /\ \A t \in Clients \ {u} : call'[t] = call[t]
      BY <2>1, <1>b DEF CallInv
    <2> QED BY <2>1, <2>2, <1>a, <1>b, <1>d DEF Clients
  <1>4. CASE UNCHANGED <<call, rows>>
    BY <1>4, <1>a, <1>d
  <1>5. ASSUME OtherStarts \/ OtherFinishes PROVE StoredInv'
    <2>1. ~Happens("other") /\ ~At("other", "done")
      BY <1>a, HappensNow DEF Alone, At, Idle
    <2> QED BY <2>1, <1>5 DEF OtherStarts, OtherFinishes
  <1>6. CASE Crash
    <2>1. \A t \in Clients : call'[t] = Idle
      BY <1>6, <1>a DEF Crash
    <2> QED BY <1>6, <2>1, <1>b, <1>d DEF Crash, Clients
  <1>7. \A u \in Users : get(u) => UNCHANGED <<call, rows>>
    BY DEF get
  <1>8. CacheLoad \/ CacheLoadThrows \/ CachePut \/ RefreshLock \/ RefreshKey
          \/ RefreshUnlock \/ RefreshThrows \/ Expire => UNCHANGED <<call, rows>>
    BY DEF CacheLoad, CacheLoadThrows, CachePut, RefreshLock, RefreshKey, RefreshUnlock,
           RefreshThrows, Expire
  <1> QED BY <1>1, <1>2, <1>3, <1>4, <1>5, <1>6, <1>7, <1>8 DEF Next, UserStep

-----------------------------------------------------------------------------
(* The cache while nothing worse than a restart happens.                   *)

LEMMA QuietIsOrderly == Quiet => Orderly
  BY DEF Quiet, Orderly

(* What a select of a key returns, before and after a step.                *)
LEMMA ValueFound ==
  ASSUME RowInv, NEW r \in rows
  PROVE  Value(r.key) = r.val
  <1>1. RowsOf(r.key) = {r} /\ First(RowsOf(r.key)) = r
    BY FoundRow DEF RowInv, RowsOf
  <1> QED BY <1>1 DEF Value

LEMMA ValueFoundNext ==
  ASSUME RowInv', NEW r \in rows'
  PROVE  Value(r.key)' = r.val
  <1>1. /\ {s \in rows' : s.key = r.key} = {r}
        /\ First({s \in rows' : s.key = r.key}) = r
    BY FoundRow DEF RowInv
  <1>2. RowsOf(r.key)' = {r} /\ First(RowsOf(r.key)') = r
    BY <1>1 DEF RowsOf
  <1> QED BY <1>2 DEF Value

LEMMA ValueType ==
  ASSUME RowInv, NEW k \in Keys
  PROVE  Value(k) \in Strings
  <1>1. CASE RowsOf(k) = {}
    BY <1>1 DEF Value, Strings
  <1>2. CASE RowsOf(k) # {}
    <2>1. PICK r \in rows : r.key = k
      BY <1>2 DEF RowsOf
    <2> QED BY <2>1, ValueFound DEF RowInv
  <1> QED BY <1>1, <1>2

(* A statement changes what a select returns of its own key only.          *)
LEMMA OtherValues ==
  ASSUME NEW c \in Clients, TableStep(c), NEW k, k # call[c].key
  PROVE  Value(k)' = Value(k)
  <1>1. RowsOf(k)' = RowsOf(k)
    BY DEF TableStep, RowsOf
  <1> QED BY <1>1 DEF Value

(* A set() whose last statement has succeeded is in the table.             *)
LEMMA SetIsStored ==
  ASSUME RowInv, RowInv', CallInv, CassandraInv, BackendInv, NEW c \in Clients,
         ClientStep(c), "write" \notin troubles', call[c].op = "set",
         call'[c] # Idle, At(c, "done")', NEW k \in Keys, k = call[c].key
  PROVE  Value(k)' = call[c].val
  <1> DEFINE v == call[c].val
  <1>a. call[c].at # "idle" /\ call[c] \in Requests
    BY Sending, HasRequest
  <1>b. PICK q : Goes(c, q)
    BY CallChange, KeyedTable
  <1>c. call'[c] = q
    BY <1>b DEF Goes, CallInv
  <1>d. ASSUME NEW r, r.key = k, r.val = v, r \in rows' PROVE Value(k)' = v
    BY <1>d, ValueFoundNext
  <1>e. ASSUME NEW i PROVE [id |-> i, key |-> k, val |-> v].key = k
                           /\ [id |-> i, key |-> k, val |-> v].val = v
    OBVIOUS
  <1>f. ASSUME NEW T, Execute(c, T) PROVE rows' = T
    BY <1>f DEF Execute, Happens
  <1>1. CASE SelectValue(c)
    <2>1. \E l \in {"insert", "select id"} :
            \/ q = [call[c] EXCEPT !.at = l]
            \/ q = [call[c] EXCEPT !.at = l, !.ok = FALSE]
      BY <1>1, <1>c DEF SelectValue, CallInv
    <2> QED BY <2>1, <1>a, <1>c DEF Requests, At
  <1>2. CASE SelectId(c)
    <2> DEFINE l == IF call[c].op = "set" THEN "update" ELSE "delete"
    <2>1. \E i : \/ q = [call[c] EXCEPT !.at = l, !.id = i, !.ok = call[c].ok]
                 \/ q = [call[c] EXCEPT !.at = l, !.id = i, !.ok = FALSE]
      BY <1>2, <1>c DEF SelectId, CallInv
    <2> QED BY <2>1, <1>a, <1>c DEF Requests, At
  <1>3. CASE Insert(c)
    <2>1. \E i \in FreshIds : rows' = rows \cup {[id |-> i, key |-> k, val |-> v]}
      BY <1>3, <1>f DEF Insert
    <2> QED BY <2>1, <1>d, <1>e
  <1>4. CASE Update(c)
    <2>1. StatementInv(c) /\ At(c, "update")
      BY <1>4, KnowsKey DEF Update, At
    <2>2. PICK r \in rows : r.id = call[c].id /\ r.key = k
      BY <2>1 DEF StatementInv, At
    <2>3. rows' = Updated(r.id, v)
      BY <1>4, <1>f, <2>2 DEF Update
    <2>4. rows' = (rows \ {r}) \cup {[id |-> r.id, key |-> k, val |-> v]}
      BY <2>2, <2>3, UpdatedRow, KeyedTable
    <2> QED BY <2>4, <1>d, <1>e
  <1>5. CASE Delete(c)
    BY <1>5, <1>a DEF Delete, At, CallInv, Idle
  <1>6. CASE Request(c)
    <2>1. ~At(c, "remove")
      BY <1>a DEF At, CallInv, Idle
    <2>2. rows' \in Results(c)
      BY <1>6, <1>f DEF Request
    <2>3. CASE RowsOf(k) # {}
      <3>1. PICK r \in rows : r.key = k
        BY <2>3 DEF RowsOf
      <3>2. First(RowsOf(k)) = r
        BY <3>1, FoundRow DEF RowInv, RowsOf
      <3>3. rows' = Updated(r.id, v)
        BY <2>1, <2>2, <2>3, <3>2 DEF Results
      <3>4. rows' = (rows \ {r}) \cup {[id |-> r.id, key |-> k, val |-> v]}
        BY <3>1, <3>3, UpdatedRow, KeyedTable
      <3> QED BY <3>4, <1>d, <1>e
    <2>4. CASE RowsOf(k) = {}
      <3>1. \E i \in FreshIds : rows' = rows \cup {[id |-> i, key |-> k, val |-> v]}
        BY <2>1, <2>2, <2>4 DEF Results
      <3> QED BY <3>1, <1>d, <1>e
    <2> QED BY <2>3, <2>4
  <1>7. CASE RequestThrows(c)
    BY <1>7 DEF RequestThrows, CallInv
  <1> QED BY <1>1, <1>2, <1>3, <1>4, <1>5, <1>6, <1>7 DEF ClientStep

(* The constructor reads every row: each is the first of its key.          *)
LEMMA LoadsAll ==
  ASSUME RowInv
  PROVE  {r \in rows : r.key # NoKey /\ r = First(RowsOf(r.key))} = rows
  <1>1. ASSUME NEW r \in rows PROVE r.key # NoKey /\ r = First(RowsOf(r.key))
    <2>1. First(RowsOf(r.key)) = r
      BY FoundRow DEF RowInv, RowsOf
    <2> QED BY <2>1 DEF RowInv
  <1> QED BY <1>1

(* Where the table and the calls stay, so does what they say of a key.      *)
LEMMA SameTable ==
  ASSUME rows' = rows, call' = call
  PROVE  /\ \A k : Value(k)' = Value(k)
         /\ \A k : BeingSet(k)' <=> BeingSet(k)
         /\ \A u : Value(call[u].key)' = Value(call[u].key)
         /\ \A u : At(u, "done")' <=> At(u, "done")
  <1>1. ASSUME NEW k PROVE RowsOf(k)' = RowsOf(k)
    BY DEF RowsOf
  <1>2. ASSUME NEW k PROVE Value(k)' = Value(k)
    BY <1>1 DEF Value
  <1>3. ASSUME NEW u PROVE Value(call[u].key)' = Value(call[u].key)
    BY DEF Value, RowsOf
  <1>4. ASSUME NEW k PROVE BeingSet(k)' <=> BeingSet(k)
    BY DEF BeingSet
  <1>5. ASSUME NEW u PROVE At(u, "done")' <=> At(u, "done")
    BY DEF At
  <1> QED BY <1>2, <1>3, <1>4, <1>5

(* Then a change of the rest leaves CacheInv's parts on calls alone.       *)
LEMMA CacheFrame ==
  ASSUME CacheInv, rows' = rows, call' = call, cache' = cache
  PROVE  /\ \A k \in Keys : cache'[k] # Absent /\ ~cache'[k].expired
                            => cache'[k].val = Value(k)' \/ BeingSet(k)'
         /\ \A u \in Users :
               call'[u] # Idle =>
                 /\ At(u, "done")' /\ call'[u].op = "set"
                      => Value(call[u].key)' = call'[u].val
                 /\ call'[u].op = "remove" => cache'[call'[u].key] = Absent
  <1>1. ASSUME NEW k \in Keys, cache'[k] # Absent, ~cache'[k].expired
        PROVE  cache'[k].val = Value(k)' \/ BeingSet(k)'
    <2>1. cache[k].val = Value(k) \/ BeingSet(k)
      BY <1>1 DEF CacheInv
    <2> QED BY <2>1, SameTable
  <1>2. ASSUME NEW u \in Users, call'[u] # Idle, At(u, "done")', call'[u].op = "set"
        PROVE  Value(call[u].key)' = call'[u].val
    <2>1. Value(call[u].key) = call[u].val
      BY <1>2 DEF CacheInv, At
    <2> QED BY <2>1, SameTable
  <1>3. ASSUME NEW u \in Users, call'[u] # Idle, call'[u].op = "remove"
        PROVE  cache'[call'[u].key] = Absent
    BY <1>3 DEF CacheInv
  <1> QED BY <1>1, <1>2, <1>3

LEMMA CacheStep ==
  ASSUME BackendInv, RowInv, RowInv', CallInv, CassandraInv, CacheInv, Next, Quiet'
  PROVE  CacheInv'
  <1>a. \A kind \in {"select", "write", "connection", "other", "empty"} :
          kind \notin troubles' /\ ~Happens(kind)
    BY HappensNow DEF Quiet
  <1>b. \A u \in Users : u \in Clients /\ u # "other" /\ u # "refresher" /\ u # None
    BY DEF Clients
  <1>c. \A k \in Keys : Value(k) \in Strings
    BY ValueType
  <1>d. call["other"] = Idle /\ \A c \in Clients : c = "other" \/ c \in Users
    BY DEF CacheInv, Clients
  <1>e. \A k \in Keys : (rows' = rows => Value(k)' = Value(k))
    BY DEF Value, RowsOf
  <1>f. g_mutex \notin Users => \A u \in Users : call[u] = Idle
    BY DEF CallInv
  <1>g. loader.at # "done" => \A u \in Users : call[u] = Idle
    BY DEF CallInv
  <1>h. \A k \in Keys : cache[k] \in {Absent} \cup [val : Strings, expired : BOOLEAN]
    BY DEF CacheInv
  <1>1. ASSUME NEW c \in Clients, ClientStep(c) PROVE CacheInv'
    <2>1. /\ c \in Users /\ call[c] # Idle /\ loader.at = "done" /\ g_mutex = c
          /\ \A u \in Clients \ {c} : call[u] = Idle
      BY <1>1, <1>d, Sending, WorksAlone DEF CallInv
    <2>2. call[c] \in Requests
      BY <1>1, Sending, HasRequest
    <2>3. ~RequestThrows(c)
      BY <1>a DEF RequestThrows
    <2>4. PICK q \in Requests :
            /\ call' = [call EXCEPT ![c] = q]
            /\ q.op = call[c].op /\ q.key = call[c].key /\ q.val = call[c].val
      BY <1>1, <2>3, CallChange, KeyedTable DEF Goes
    <2>5. /\ call'[c] = q /\ q # Idle
          /\ \A u \in Clients \ {c} : call'[u] = Idle
      <3>1. q.at # "idle"
        BY DEF Requests
      <3>2. q # Idle
        BY <3>1 DEF Idle
      <3> QED BY <2>1, <2>4, <3>2 DEF CallInv
    <2>6. UNCHANGED <<cache, loader, refresher, g_mutex>>
      BY <1>1, <2>3
         DEF ClientStep, SelectValue, Insert, SelectId, Update, Delete, Request, Statement,
             process
    <2>7. ASSUME NEW k \in Keys, cache[k] # Absent, ~cache[k].expired
          PROVE  cache[k].val = Value(k)' \/ BeingSet(k)'
      <3>1. CASE k = call[c].key
        <4>1. call[c].op = "set"
          BY <2>1, <2>2, <2>7, <3>1 DEF CacheInv, Requests
        <4> QED BY <4>1, <3>1, <2>1, <2>4, <2>5 DEF BeingSet
      <3>2. CASE k # call[c].key
        <4>1. ~BeingSet(k)
          BY <3>2, <2>1, <1>b DEF BeingSet
        <4>2. Value(k)' = Value(k)
          BY <1>1, <3>2, TableChange, OtherValues
        <4> QED BY <4>1, <4>2, <2>7 DEF CacheInv
      <3> QED BY <3>1, <3>2
    <2>8. ASSUME At(c, "done")', q.op = "set" PROVE Value(q.key)' = q.val
      <3>1. PICK k \in Keys : k = call[c].key
        BY <2>2 DEF Requests
      <3>2. Value(k)' = call[c].val
        BY <1>1, <1>a, <2>4, <2>5, <2>8, <3>1, SetIsStored
      <3> QED BY <3>1, <3>2, <2>4
    <2>9. q.op = "remove" => cache[q.key] = Absent
      BY <2>1, <2>4 DEF CacheInv
    <2> QED BY <2>1, <2>5, <2>6, <2>7, <2>8, <2>9, <1>b, <1>d DEF CacheInv, Clients
  <1>2. ASSUME NEW u \in Users, get(u) PROVE CacheInv'
    <2>1. PICK k \in Keys : cache' = [cache EXCEPT ![k] = Fresh(Value(k))]
      BY <1>2, <1>a DEF get, put
    <2>2. UNCHANGED <<rows, g_mutex, loader, refresher, call>> /\ loader.at = "done"
      BY <1>2 DEF get, MayCall
    <2>3. \A t \in Users : call[t] = Idle
      BY <1>2, <1>f, <1>b DEF get
    <2> QED BY <2>1, <2>2, <2>3, <1>b, <1>c, <1>d, <1>e DEF CacheInv, BeingSet, Fresh
  <1>3. ASSUME NEW u \in Users, set(u) \/ remove(u) PROVE CacheInv'
    <2>1. /\ MayCall(u) /\ g_mutex = None /\ g_mutex' = u
          /\ UNCHANGED <<rows, loader, refresher>> /\ loader.at = "done"
      BY <1>3 DEF set, remove, MayCall
    <2>2. PICK op \in {"set", "remove"}, k \in Keys, v \in Strings :
            /\ Starts(u, op, k, v)
            /\ \A j \in Keys : cache'[j] = cache[j] \/ cache'[j] = Absent
            /\ cache' \in [Keys -> {Absent} \cup [val : Strings, expired : BOOLEAN]]
            /\ op = "remove" => cache'[k] = Absent
      BY <1>3, <1>h DEF set, remove, Strings, CacheInv
    <2>3. Sends(u, op, k, v)
      BY <2>2, <1>b, StartsChange
    <2>4. PICK q \in Requests :
            call' = [call EXCEPT ![u] = q] /\ q.op = op /\ q.key = k /\ q.at # "done"
      BY <2>3 DEF Sends
    <2>5. \A t \in Clients : call[t] = Idle
      BY <2>1, <1>b, <1>d, <1>f
    <2>6. call'[u] = q /\ \A t \in Clients \ {u} : call'[t] = Idle
      BY <2>4, <2>5, <1>b DEF CallInv
    <2>7. \A j \in Keys : ~BeingSet(j)
      BY <2>5, <1>b DEF BeingSet
    <2>8. refresher.at # "refresh"
      BY <2>1, <1>b DEF CallInv
    <2>9. \A j \in Keys : cache'[j] # Absent /\ ~cache'[j].expired
                            => cache'[j].val = Value(j)'
      BY <2>1, <2>2, <2>7, <1>e DEF CacheInv
    <2> QED BY <2>1, <2>2, <2>4, <2>6, <2>8, <2>9, <1>b DEF CacheInv, At, Clients
  <1>4. ASSUME NEW u \in Users, Finish(u) PROVE CacheInv'
    <2>1. call[u] # Idle /\ At(u, "done") /\ call[u].at # "idle"
      BY <1>4 DEF Finish, At, Idle
    <2>2. call[u] \in Requests /\ loader.at = "done" /\ g_mutex = u
      BY <2>1, <1>b, HasRequest DEF CallInv
    <2>3. call' = [call EXCEPT ![u] = Idle] /\ UNCHANGED <<rows, loader, refresher>>
      BY <1>4 DEF Finish
    <2>4. \A t \in Clients : call'[t] = Idle
      BY <2>1, <2>3, <1>b, <1>d, WorksAlone DEF CallInv
    <2>5. \A t \in Clients \ {u} : call[t] = Idle
      BY <2>1, <1>b, <1>d, WorksAlone
    <2>6. refresher.at # "refresh"
      BY <2>2, <1>b DEF CallInv
    <2>7. CASE call[u].op = "set"
      <3>1. cache' = [cache EXCEPT ![call[u].key] = Fresh(call[u].val)]
        BY <1>4, <2>7 DEF Finish, put
      <3>2. Value(call[u].key) = call[u].val
        BY <2>1, <2>7 DEF CacheInv
      <3>3. call[u].key \in Keys /\ call[u].val \in Strings
        BY <2>2 DEF Requests
      <3>4. \A k \in Keys : BeingSet(k) => k = call[u].key
        BY <2>5, <1>b DEF BeingSet
      <3>5. \A k \in Keys : cache'[k] # Absent /\ ~cache'[k].expired
                              => cache'[k].val = Value(k)'
        BY <3>1, <3>2, <3>3, <3>4, <2>3, <1>e DEF CacheInv, Fresh
      <3>6. cache' \in [Keys -> {Absent} \cup [val : Strings, expired : BOOLEAN]]
        BY <3>1, <3>3 DEF CacheInv, Fresh
      <3> QED BY <3>5, <3>6, <2>2, <2>3, <2>4, <2>6, <1>b, <1>d DEF CacheInv, Clients
    <2>8. CASE call[u].op # "set"
      <3>1. cache' = cache
        BY <1>4, <2>8 DEF Finish
      <3>2. \A k \in Keys : ~BeingSet(k)
        BY <2>5, <2>8, <1>b DEF BeingSet
      <3>3. \A k \in Keys : cache'[k] # Absent /\ ~cache'[k].expired
                              => cache'[k].val = Value(k)'
        BY <3>1, <3>2, <2>3, <1>e DEF CacheInv
      <3> QED BY <3>1, <3>3, <2>2, <2>3, <2>4, <2>6, <1>b, <1>d DEF CacheInv, Clients
    <2> QED BY <2>7, <2>8
  <1>5. CASE CacheLoad
    <2>1. UNCHANGED <<rows, cache, g_mutex, refresher, call>>
      BY <1>5 DEF CacheLoad
    <2>2. PICK data \in {rows, {}} : loader' = [at |-> "put", data |-> data]
      BY <1>5, LoadsAll DEF CacheLoad, RowInv
    <2> QED BY <2>1, <2>2, <1>5, <1>e, <1>g
         DEF CacheLoad, CacheInv, BeingSet, At
  <1>6. CASE CacheLoadThrows \/ RefreshThrows
    BY <1>6, <1>a DEF CacheLoadThrows, RefreshThrows
  <1>7. CASE CachePut
    <2>1. /\ loader.data \in {rows, {}} /\ loader' = [at |-> "done", data |-> {}]
          /\ UNCHANGED <<rows, g_mutex, refresher, call>>
          /\ \A k \in Keys : cache[k] = Absent
      BY <1>7 DEF CachePut, CacheInv
    <2>2. cache' = [k \in Keys |->
                      IF \E r \in loader.data : r.key = k
                      THEN Fresh((CHOOSE r \in loader.data : r.key = k).val) ELSE cache[k]]
      BY <1>7 DEF CachePut
    <2>3. ASSUME NEW k \in Keys, \E r \in rows : r.key = k
          PROVE  (CHOOSE r \in rows : r.key = k).val = Value(k)
      BY <2>3, ValueFound DEF RowInv
    <2>4. \A k \in Keys : cache'[k] = Fresh(Value(k)) \/ cache'[k] = Absent
      BY <2>1, <2>2, <2>3
    <2>5. cache' \in [Keys -> {Absent} \cup [val : Strings, expired : BOOLEAN]]
      <3>1. ASSUME NEW v \in Strings PROVE Fresh(v) \in [val : Strings, expired : BOOLEAN]
        BY DEF Fresh
      <3>2. \A k \in Keys : cache'[k] \in {Absent} \cup [val : Strings, expired : BOOLEAN]
        BY <3>1, <2>4, <1>c
      <3> QED BY <2>2, <3>2
    <2>6. ASSUME NEW k \in Keys, cache'[k] # Absent PROVE cache'[k].val = Value(k)'
      <3>1. cache'[k] = Fresh(Value(k)) /\ Value(k)' = Value(k)
        BY <2>1, <2>4, <2>6, <1>e
      <3>2. Fresh(Value(k)).val = Value(k)
        BY DEF Fresh
      <3> QED BY <3>1, <3>2
    <2>7. \A u \in Users : call[u] = Idle
      BY <1>7, <1>g DEF CachePut
    <2> QED BY <2>1, <2>5, <2>6, <2>7 DEF CacheInv
  <1>8. CASE RefreshLock
    <2>1. /\ UNCHANGED <<rows, cache, loader, call>>
          /\ refresher'.todo = {k \in Keys : isExpired(k)}
      BY <1>8 DEF RefreshLock
    <2>2. loader.at # "done" => refresher'.todo = {}
      BY <2>1 DEF CacheInv, isExpired
    <2> QED BY <2>1, <2>2, CacheFrame DEF CacheInv
  <1>9. CASE RefreshKey
    <2>1. PICK k \in refresher.todo : /\ cache' = [cache EXCEPT ![k] = Fresh(Value(k))]
                                      /\ refresher' = [refresher EXCEPT !.todo = @ \ {k}]
      BY <1>9, <1>a DEF RefreshKey, put
    <2>2. UNCHANGED <<rows, g_mutex, loader, call>> /\ refresher.at = "refresh"
      BY <1>9 DEF RefreshKey
    <2>3. loader.at = "done" /\ k \in Keys
      BY <2>1 DEF CacheInv
    <2>4. \A t \in Users : call[t] = Idle
      BY <2>2, <1>f, <1>b DEF CallInv
    <2>5. refresher'.todo \subseteq Keys
      BY <2>1 DEF CacheInv
    <2> QED BY <2>1, <2>2, <2>3, <2>4, <2>5, <1>c, <1>e DEF CacheInv, BeingSet, Fresh
  <1>10. CASE RefreshUnlock
    <2>1. UNCHANGED <<rows, cache, loader, call>> /\ refresher'.todo = {}
      BY <1>10 DEF RefreshUnlock
    <2> QED BY <2>1, CacheFrame DEF CacheInv
  <1>11. CASE Expire
    <2>1. PICK k \in Keys : /\ cache[k] # Absent
                            /\ cache' = [cache EXCEPT ![k].expired = TRUE]
      BY <1>11 DEF Expire
    <2>2. UNCHANGED <<rows, g_mutex, loader, refresher, call>>
      BY <1>11 DEF Expire
    <2>3. cache'[k] = [cache[k] EXCEPT !.expired = TRUE] /\ cache'[k].expired
      BY <2>1, <1>h DEF CacheInv
    <2>4. cache' \in [Keys -> {Absent} \cup [val : Strings, expired : BOOLEAN]]
      BY <2>1, <1>h DEF CacheInv
    <2>5. \A u \in Users : call[u] # Idle /\ call[u].op = "remove" => call[u].key # k
      BY <2>1 DEF CacheInv
    <2>6. loader.at = "done"
      BY <2>1 DEF CacheInv
    <2>7. \A j \in Keys : j # k => cache'[j] = cache[j]
      BY <2>1 DEF CacheInv
    <2>8. \A u \in Users : call[u] # Idle => call[u].key \in Keys
      BY <1>b DEF CallInv, Requests
    <2>9. \A j \in Keys : cache'[j] # Absent /\ ~cache'[j].expired
                            => cache'[j].val = Value(j)' \/ BeingSet(j)'
      <3>1. ASSUME NEW j \in Keys, j # k, cache[j] # Absent, ~cache[j].expired
            PROVE  cache[j].val = Value(j) \/ BeingSet(j)
        BY <3>1 DEF CacheInv
      <3> QED BY <2>2, <2>3, <2>7, <3>1, SameTable
    <2>10. \A u \in Users :
             call'[u] # Idle =>
               /\ At(u, "done")' /\ call'[u].op = "set" => Value(call[u].key)' = call[u].val
               /\ call'[u].op = "remove" => cache'[call[u].key] = Absent
      BY <2>2, <2>5, <2>7, <2>8, <1>e DEF CacheInv, At
    <2> QED BY <2>2, <2>4, <2>6, <2>9, <2>10 DEF CacheInv
  <1>12. CASE OtherStarts \/ OtherFinishes
    BY <1>12, <1>a, <1>d DEF OtherStarts, OtherFinishes, At, Idle
  <1>13. CASE Crash
    <2>1. \A c \in Clients : call'[c] = Idle
      BY <1>13, <1>d DEF Crash
    <2> QED BY <1>13, <2>1, <1>b DEF Crash, CacheInv, Clients
  <1> QED BY <1>1, <1>2, <1>3, <1>4, <1>5, <1>6, <1>7, <1>8, <1>9, <1>10, <1>11, <1>12,
            <1>13 DEF Next, UserStep

(* IInv holds throughout.                                                  *)
THEOREM Invariance == Spec => []IInv
  <1>1. Init => IInv
    <2> SUFFICES ASSUME Init PROVE IInv
      OBVIOUS
    <2>1. BackendInv
      BY DEF Init, BackendInv
    <2>2. RowInv
      <3>1. CASE rows = {}
        BY <3>1 DEF RowInv
      <3>2. CASE \E k \in Keys, v \in Values : rows = {[id |-> 1, key |-> k, val |-> v]}
        BY <3>2 DEF RowInv, Strings
      <3> QED BY <3>1, <3>2 DEF Init
    <2>3. CallInv
      BY DEF Init, CallInv, Clients
    <2>4. CassandraInv
      BY DEF Init, CassandraInv, Clients
    <2>5. CacheInv
      BY DEF Init, CacheInv, Clients, BeingSet
    <2>6. StoredInv
      BY DEF Init, StoredInv, Clients
    <2> QED BY <2>1, <2>2, <2>3, <2>4, <2>5, <2>6, KeyedTable DEF IInv
  <1>2. IInv /\ [Next]_vars => IInv'
    <2>1. ASSUME IInv, Next PROVE IInv'
      <3>1. BackendInv'
        BY <2>1, Remembers DEF IInv, BackendInv
      <3>2. (Orderly' => Orderly) /\ (Quiet' => Quiet) /\ (Quiet' => Orderly')
        BY <2>1, Remembers DEF Orderly, Quiet
      <3>3. TableInv' /\ CallInv'
        BY <2>1, TableInvStep, CallStep DEF IInv
      <3>4. Orderly' => RowInv' /\ CassandraInv'
        BY <2>1, <3>2, RowStep, CassandraStep DEF IInv
      <3>5. Alone' => StoredInv'
        <4>1. Alone' => Alone
          BY <2>1, Remembers DEF Alone
        <4> QED BY <2>1, <3>3, <4>1, StoredStep DEF IInv
      <3>6. Quiet' => CacheInv'
        BY <2>1, <3>2, <3>3, <3>4, CacheStep DEF IInv
      <3> QED BY <3>1, <3>3, <3>4, <3>5, <3>6 DEF IInv
    <2>2. ASSUME IInv, UNCHANGED vars PROVE IInv'
      <3>1. /\ BackendInv' <=> BackendInv
            /\ (Orderly' <=> Orderly) /\ (Alone' <=> Alone) /\ (Quiet' <=> Quiet)
        BY <2>2 DEF vars, BackendInv, Orderly, Alone, Quiet
      <3>2. (RowInv => RowInv') /\ (TableInv => TableInv')
        BY <2>2 DEF vars, RowInv, TableInv
      <3>3. CallInv => CallInv'
        BY <2>2 DEF vars, process, CallInv
      <3>4. CassandraInv => CassandraInv'
        BY <2>2 DEF vars, process, CassandraInv, StatementInv, At, RowsOf
      <3>5. CacheInv => CacheInv'
        <4>1. UNCHANGED <<rows, cache, loader, call, refresher>>
          BY <2>2 DEF vars, process
        <4> QED BY <4>1, CacheFrame DEF CacheInv
      <3>6. StoredInv => StoredInv'
        <4>1. UNCHANGED <<rows, call, troubles>>
          BY <2>2 DEF vars, process
        <4> QED BY <4>1, SaysFrame DEF StoredInv, Clients
      <3> QED BY <2>2, <3>1, <3>2, <3>3, <3>4, <3>5, <3>6 DEF IInv
    <2> QED BY <2>1, <2>2
  <1> QED BY <1>1, <1>2, PTL DEF Spec

(* g_mutex keeps the select and the insert of Cassandra's set() together,  *)
(* so that a key has one row at most, unless a select fails, another       *)
(* process writes or "" is set; the UPSERT of ArangoDB needs no such help. *)
THEOREM OneRowPerKeyHolds == Spec => []OneRowPerKey
  <1>1. IInv => OneRowPerKey
    <2> SUFFICES ASSUME IInv, Orderly
                 PROVE  /\ \A r \in rows : r.key \in Keys
                        /\ \A k \in Keys : Cardinality(RowsOf(k)) <= 1
      BY DEF OneRowPerKey, Orderly
    <2>1. RowInv
      BY DEF IInv
    <2>2. ASSUME NEW k \in Keys PROVE Cardinality(RowsOf(k)) <= 1
      <3>1. CASE RowsOf(k) = {}
        <4>1. Cardinality(RowsOf(k)) = 0
          BY <3>1, FS_EmptySet
        <4> QED BY <4>1
      <3>2. CASE RowsOf(k) # {}
        <4>1. PICK r \in rows : RowsOf(k) = {r}
          BY <2>1, <3>2 DEF RowsOf, RowInv
        <4>2. Cardinality(RowsOf(k)) = 1
          BY <4>1, FS_Singleton
        <4> QED BY <4>2
      <3> QED BY <3>1, <3>2
    <2> QED BY <2>1, <2>2 DEF RowInv
  <1> QED BY <1>1, Invariance, PTL

(* Through restarts a live entry of the cache is what the table has.       *)
THEOREM CacheMatches == Spec => []CacheMatchesTable
  <1>1. IInv => CacheMatchesTable
    <2> SUFFICES ASSUME IInv, g_mutex = None, loader.at = "done", Quiet, NEW k \in Keys,
                        cache[k] # Absent, ~cache[k].expired
                 PROVE  cache[k].val = Value(k)
      BY DEF CacheMatchesTable, Quiet
    <2>1. CallInv /\ CacheInv
      BY QuietIsOrderly DEF IInv
    <2>2. ~BeingSet(k)
      BY <2>1 DEF CallInv, BeingSet
    <2> QED BY <2>1, <2>2 DEF CacheInv
  <1> QED BY <1>1, Invariance, PTL

(* A call whose own statements succeed leaves what it says in the table:   *)
(* set() its value, even when a key has several rows because selects have  *)
(* failed before, and remove() no row, when none has.                      *)
THEOREM CallsAreStored == Spec => CallIsStored
  <1> DEFINE Stored ==
        \A u \in Users :
          Finish(u) /\ call[u].ok /\ troubles \cap {"other", "empty"} = {} =>
              IF call[u].op = "set" THEN Value(call[u].key) = call[u].val
              ELSE "select" \notin troubles => RowsOf(call[u].key) = {}
  <1>1. IInv => Stored
    <2> SUFFICES ASSUME IInv, NEW u \in Users, Finish(u), call[u].ok, Alone
                 PROVE  IF call[u].op = "set" THEN Value(call[u].key) = call[u].val
                        ELSE "select" \notin troubles => RowsOf(call[u].key) = {}
      BY DEF Alone
    <2>1. At(u, "done")
      BY DEF Finish
    <2>2. call[u] # Idle
      BY <2>1 DEF At, Idle
    <2>3. SaysInv(u)
      BY <2>2 DEF IInv, StoredInv
    <2> QED BY <2>1, <2>3 DEF SaysInv
  <1>2. IInv /\ [Next]_vars => [Stored]_vars
    BY <1>1
  <1> HIDE DEF Stored
  <1>3. Spec => [][Stored]_vars
    BY <1>2, Invariance, PTL DEF Spec
  <1> QED BY <1>3 DEF Stored, CallIsStored
=============================================================================
