# A TLA+ verification of the C++ test tasks

This directory specifies, model-checks and proves things about the program's
own code: four recursive or plain readers/writer mutexes, an external sort, a
wildcard matcher and a database cache in front of three stores. Of the
libraries it is shipped with, one part is modelled too, the connection on which
the ArangoDB cache sends its requests; the others (SQLite and SQLiteCpp,
velocypack, googletest) appear only as the program's code sees them.

## 1. The system

The repository answers the four tasks of `README.md`. The answers are separate
programs: they share no state and do not call each other. Inside each of them
the parts interact as follows.

| component | code | state | operations | interaction |
|---|---|---|---|---|
| contention-free mutex | `2.sharedmutex/first/recsharedmutex.h` | `want_x_lock`, `owner_thread_id`, `recursive_xlock_count`, an array of reader slots, a thread-local map from mutex to slot | `lock`, `unlock`, `lock_shared`, `unlock_shared`, `register_thread`, `unregister_thread` | atomics only; a Dekker pattern between a reader's slot and the writer's flag |
| mutex on condition variables | `2.sharedmutex/second/shared_mutex.hpp` | `m_writeInProgress`, `m_readerCount` | `lock`, `try_lock`, `unlock`, `lock_shared`, `try_lock_shared`, `unlock_shared` | one `std::mutex`, two condition variables |
| recursive wrapper | `2.sharedmutex/second/shared_recursive_mutex.hpp` | `owner`, `count` (atomics), `shared_counts` (a map behind a mutex) | `lock`, `unlock`, `lock_shared`, `unlock_shared` | calls the mutex above |
| recursive shared mutex | `2.sharedmutex/best/shared_mutex.{hpp,cpp}` | `m_state` (writer bit and reader count), `m_write_thread`, `m_write_recurses` | as above, recursive on the exclusive side | a `std::recursive_mutex`, two condition variables |
| external sort | `1.sort/bigfilesort.cpp` | the chunk in memory, temporary files, the output | split, merge | one process, the file system |
| wildcards | `3.wildcards/matchwildcards.cpp` | none | `match`, `matchwildcards` | a pure function over C strings |
| SQLite cache | `4.cache/sqlitecache/dbcache.cpp` | `_cache`, `g_mutex`, `cycle`, the connection `db` and its transaction | `get`, `set`, `remove`, `begin/commit/abort_transaction`, `Dispose`, the refresher thread | user threads and the refresher share `_cache` under `g_mutex`; the transaction functions take no lock |
| Cassandra cache, ArangoDB cache | `4.cache/{cassandracache,arangodbcache}/dbcache.cpp` | `_cache`, `g_mutex`, the connection; the server's table | `get`, `set`, `remove`, the constructor's load, the refresher thread | every statement of a client is a request to a server that other processes write to as well |
| VelocyStream connection | `4.cache/arangodbcache/fuerte/src/VstConnection.cpp` and its headers | `_sendQueue`, `_messageStore`, `_readLoop`, `_writeLoop`, `_socket`, `_connected`, `_permanent_failure` | `sendRequest`, the two loops, connecting, authenticating, `restartConnection` | callers' threads and one event-loop thread; two mutexes for the loops, one each for queue and store |

What is hard in them, and what makes each one correct:

- *Mutexes.* Interleavings of atomics, wake-ups that reach a thread that cannot
  use them, spurious wake-ups, writers and readers asleep on one condition
  variable, recursion information read outside the critical section. Correct
  means: exclusive is alone (whatever the recursion), the bookkeeping describes
  the holder, no wake-up is lost, nobody who has announced itself is starved,
  and the whole is an implementation of one abstract lock (`RWLock`).
- *Sort.* A chunk boundary, the end of the file, the rounding of `operator<<`
  between the two phases, files a killed run has left. Correct means: what is
  written is always a prefix of the sorted input, and all of it at the end.
- *Wildcards.* The order of four tests and the end of both strings. Correct
  means: the answer is the declarative meaning of a mask.
- *SQLite cache.* A refresher, several users, a transaction on a shared
  connection, statements that fail, another process. Correct means: an entry that
  is not expired equals its row between operations, a `set` that returns is in
  the table, no transaction stays open, stale entries heal while the refresher
  lives, `Dispose` ends.
- *Server caches.* The Cassandra client selects and then writes, in two requests;
  either may fail, another process or the end of this one may come between them.
  Correct means: a key has one row, a call that reports no failure has left in
  the table what it says, live entries are what a select returns.
- *Connection.* Loops that end while somebody asks for one, deadlines that race
  answers, restarts with late handlers of the old socket, an authentication that
  must overtake queued requests. Correct means: no waiting request is lost, no
  callback is called twice or with another request's answer, nothing is sent
  before the authentication, every caller returns.

`PROJECT.json` lists the hazards line by line with the properties that watch them.
Where the code does what the hazard warns of, no property can: the note says so
and section 6 describes it.

## 2. Modules

| module | models | kind |
|---|---|---|
| `RWLock` | what a recursive readers/writer lock promises | abstract specification |
| `ContentionFreeMutex` | the first mutex, one action per atomic operation | implements `RWLock` |
| `CondSharedMutex` | the second mutex, one action per stretch of code between two waits | implements `RWLock` |
| `SharedRecursiveMutex` | its wrapper, composed with `CondSharedMutex` by `INSTANCE` | implements `RWLock` |
| `RecursiveSharedMutex` | the third mutex, with `m_mutex` as a variable | implements `RWLock` |
| `SqliteCache` | cache, refresher, connection, transactions, ttl, faults | |
| `ServerCache` | the same cache over Cassandra and ArangoDB, one action per statement | |
| `VstConnection` | the connection under the ArangoDB client | |
| `ExternalSort` | split, merge, kill, restart | |
| `Wildcards` | `match` as a recursive function, against `Matches` | |
| `*Proofs` | the theorems about the four mutexes, the sort and the matcher (`AlgorithmProofs`), the two cache modules and the connection | proofs |
| `MC*` | the constants and symmetry sets TLC needs | model checking |

A definition introduced as a mutant is a plausible slip in the code: a guard
left out, one notification too few, a pointer that is not reset. No
specification uses it; `PROJECT.json` pairs each with the property that notices.

### How the models correspond to the code

**Callers.** `xheld[t]` and `sheld[t]` count what a thread has acquired and not
released. They are the callers' own knowledge, the mutexes do not have them, so
a property over them is about what a caller may rely on. Callers release only
what they hold.

**`ContentionFreeMutex`.** All steps of the Dekker pattern are `seq_cst` in the
code, so interleaving is its semantics; weaker orderings occur only where a
single thread writes. `slot[i]` is the atomic counter of a slot: 0 free, 1
registered, `k + 1` held `k` times. `reg[t]` is the thread's entry in
`thread_local_index_hashmap`. `ScanSlot` is the compare_exchange of line 138,
`Publish`/`Verify`/`BackOff`/`EndSpin` the loop of lines 155-168,
`RaiseWant`/`StoreOwner`/`DrainSlot` the loops of `lock()`, `ReleaseCount` and
`LowerWant` the end of `unlock()` in its two steps. `fheld[t]` counts shared
locks that were granted through the flag, because no slot was left. `Nesting`
says which calls a thread makes while it holds the mutex.

**`CondSharedMutex`.** `m_mutex` is held from beginning to end and released in
`wait()` only, hence one action per stretch between waits. A thread asleep may
wake because it is in `notified` or spuriously: `Wakes` needs no notification,
fairness is given to notified threads only. `notify_one` takes any sleeper
that has not been notified.

**`SharedRecursiveMutex`.** Every access to `owner` or `count`, and every locked
access to the map, is an action between the actions of the wrapped mutex, whose
holds are `mxheld` and `msheld`. The wrapper's code position is `at`.

**`RecursiveSharedMutex`.** `m_mutex` must be a variable, because the `try_`
functions give up when it is taken. A blocking call enters in one action and
runs its body in the next; `unlock()` notifies after it has left
(`UnlockBody`, then `NotifyAll`). A `try_lock()` that returns false changes
nothing and is no action. `decrement_readers` wraps as the masked word does.
`MaxRecursion` is the limit of `lock()`. `try_lock()` has none; that the model does
not count beyond it there either is a bound, which leaves out the overflow
of `m_write_recurses`.

**`SqliteCache`.** Rows and cache hold one value per key. `work` is the table as
`db` sees it, `rows` the committed one, which the refresher reads through its
own connection. `txn` is `"begun"` after BEGIN and `"active"` after the first
statement, when SQLite takes its file lock and other processes can no longer
commit. Time is the flag `expired` of an entry. `get` and `remove` are one
action, as they hold `g_mutex` throughout and change state once; `set` is split
where the unlocked transaction functions can come in between. Users are well
behaved: a user ends a transaction only if its own `begin_transaction()` has
returned true. `cycle`, a `volatile bool`, is taken to be atomic. A failing UPDATE
or SELECT is swallowed, and one that fails while the constructor loads gives it
some of the rows (`GetCacheData`). The connection the refresher opens for itself is
outside any `try`: `RefreshThrows` ends the thread for good.

**`ServerCache`.** `backend` selects the client, as the two programs have the
same `Cache`. `rows` is the server's table: an id, a key and a value per row. For
Cassandra the id is the uuid, and a select returns the first matching row in
the order of the uuids; an UPDATE of a uuid that is not there makes a row without
a key. A write of Cassandra that fails may have been applied. For ArangoDB
an UPSERT or a REMOVE by key is one action. `call[c]` is the
next statement of a client's call; a call holds `g_mutex` from its first statement
to its last. `"other"` is a second process that runs the same client without
sharing the mutex. `Crash` ends the process between any two statements, and the
constructor loads again; the table stays. A load that fails looks
like an empty table. `troubles` records what has gone
wrong so far, so that the properties can say which of them a promise survives.
`MaxRows` bounds the uuids. Transactions are empty functions in both clients, and
`Dispose()` is that of the SQLite cache, where it is modelled.

**`VstConnection`.** An action is one critical section of one of the connection's
mutexes, or the start of one asynchronous operation; between two actions of a call
(`pc[t]`) everybody else may act. Users run the write loop on their own threads
until it has something pending; every handler runs on the one thread `"io"`
(`EventLoopService(1)`), one at a time. A `RequestItem` is an index into
`items`; queue and store hold indices. A socket is the number of the attempt that
made it, 0 the null pointer. A loop is the number of its address and the socket it
was built with: addresses nobody points to may be used again, which is what the
comparison with `_current` could stumble over. Where the code fails an
assertion or follows a null or freed pointer, `died` is set. A deadline may run
out whenever an operation is pending, whatever the time. The server answers each
request in `NumChunks` chunks, in any order among requests. External: asio's
operations, the server, and the wait group of the synchronous call.

**`ExternalSort`.** Numbers are integers: of a `double` only the order matters
here. `Printed` is what `operator<<` leaves of a number when it is read back, six
significant digits: a function that merges some numbers. `PrintedAssumption`
says what the merge relies on, that rounding never reverses an order and that a
number which has been printed once is printed the same way again (a `double`
carries 15 digits). `std::sort` is modelled by its promise: `Sorts(s)` are the
permutations that put `s` in order, and `WriteChunk` takes any of them.
`IsSmallest` is the comparison of `min()`, first file first. The temporary
files are a function from their number (`Written` puts one in, over an older one);
they survive `Kill`, `Fail` and `Restart`.

**`Wildcards`.** A pointer is an index. What lies behind a terminator may be
anything: a call that would read it has the outcome `PastEnd`, which stands for
either answer. `Call` is the body of `match()`, from the outcomes of the calls it
makes; `match` is the recursive function whose body it is. `Matches` is the
reference: the mask's symbols cut the text into consecutive pieces. A star in
the text and two consecutive stars in the mask are among the inputs; that
`match()` is made for neither is a premise of `MatchingTextIsFound` alone. The
names of this little machine (`MatchInit`, `MatchSpec`) are its own because
`AlgorithmProofs` extends it together with `ExternalSort`.

## 3. Runs

| run | shows | bounds |
|---|---|---|
| `CFM` | exclusion, no shared slot, the code's four assertions, `RWLock`, a draining writer is not starved, nested `lock()` returns | 3 threads, 1 slot, depth 2, every nesting of the class comment |
| `CSM` | exclusion, no lost wake-up, `RWLock`, announced writers get in, readers get in after the last writer | 5 threads |
| `SRM` | `owner`/`count`/map agree with the holds and the wrapped mutex, `RWLock`, nested calls return | 4 threads, depth 2 |
| `RSM` | the assertion of `lock()`, no lost wake-up, `RWLock`, writers and readers get in | 3 threads, depth 2, everything but `try_lock` |
| `RSM_trylock` | the recursion count agrees with the holds, whatever `try_lock` does | 3 threads, depth 2, all operations |
| `CACHE_safety` | cache equals table between operations, `set` is saved, `Dispose` returns | 2 users, 2 keys, 2 values, all rows present, no failing statement, a refresher that may fail to open the file |
| `CACHE_ttl` | `set` closes its transaction, stale entries heal while the refresher lives | 1 user, 2 keys, one without a row, failing UPDATE, COMMIT, SELECT and opening, another process, user transactions |
| `SERVER` | one row per key, live entries equal the table, a call that succeeds is stored | both backends, 1 key, 2 values and the empty one, 2 users, another process, 2 uuids, every trouble |
| `VST` | at rest every queued request has a pending write and every request in flight a pending read; nothing dies; authentication first | 2 users, 2 requests, answers of 2 chunks, no faults |
| `VST_faults` | no waiting request is lost, none is answered twice or wrongly, every caller returns unless the connection has given up | 1 user, 2 requests, any one fault of six kinds, 2 attempts to connect |
| `SORT` | output is a prefix of the sorted input, complete at the end, the run ends | 3 lines, chunks of 2, 2 runs, kills and failing opens |
| `WILD_match` | no false match, every match found | masks and texts up to 4 symbols of {a, b, *, ?}, all of them |

Why the bounds are enough to meet the interesting cases. One slot for three
threads makes every thread that shares meet a full array, a flag-granted reader
and a draining writer at once; with more slots than threads the flag path of
`lock_shared()` could not be reached. Five threads let two writers and two
readers sleep while one runs, so a notification can go to the wrong one of
either condition variable; in `RSM` three do, as there all three roles share one
condition variable and the wake-ups are `notify_all`. Two keys let the SQLite
refresher be in the middle of its keys. For the server caches the keys do not
meet in any statement (each names one key or one uuid), so one key is enough to
race two users, the refresher and another process on it; two uuids let a second row
appear, which is the failure to look for. Two users and two requests let one
thread ask for a write loop while the loop another has started is about to end;
two chunks let answers interleave. In `VST_faults` the one fault already
brings every restart, late handler and second attempt; a single user is enough
because the faults happen on the event loop. Three lines fill one chunk and
leave a rest, or end on a chunk's boundary, and two runs of different length
leave files behind.

Deadlock is checked except in `CFM` (a thread that nests `lock_shared()` in
`lock()` waits for itself, see section 6), in the two programs that end (`SORT`,
`WILD_match`), and in the connection's runs, where the requests end at
`MaxRequests` and a caller may wait for ever (section 6); there the liveness
property takes its place.

## 4. Fairness

Threads are scheduled (`WF` of a thread's steps) and a caller that holds a lock
releases it (`WF` of its releases). `RaiseWant` has weak fairness only: the
compare_exchange loop has no queue, so no property says that one particular
contender wins. In `RSM` a thread competes for `m_mutex`, which is free again
and again, so waking up and releasing get `SF`. A spurious wake-up is never
owed to anyone. In `SqliteCache` the refresher asks for `g_mutex` once in 15 s
while its users hold it for moments, hence `SF_vars(RefreshLock \/ RefreshThrows)`: it
gets the mutex, whether or not it can then open the file; the clock does not
stop, hence fairness of `Expire`. Calls are never fair: nobody has to
call anything. The liveness properties that depend on the callers carry it as
a premise: readers do not nest for ever (`WriterIsNotStarvedByReaders`, the
wrapper's `AnnouncedWriterGetsIn`), no more writers come
(`ReadersGetInAfterWriters`), calls and failing reads have ended and the refresher
has not (`TtlHealsStaleEntries`).

In `VstConnection` threads run, so the steps of a call are fair; the event loop
serves its handlers, connecting comes to an end one way or the other, and the
server answers what it receives: `WF` of each. No fault is fair, nor is a new
request. `CallerReturns` needs no fault to happen: where a connection gives up
it says so, and else the answer or the restart's error arrives. `ServerCache` has
safety properties only.

## 5. Proofs

All theorems hold for every value of the constants that the module's own
`ASSUME` admits; further premises are stated in the theorem. The proofs of the two
programs without threads, sort and wildcards, share a module. Each proof has the
same plan: an inductive invariant `IInv`, one lemma per part of it and per action
under it, `Invariance` (`Spec => []IInv`), and the properties from it. A
refinement is one lemma for the steps, each action mapped to the abstract one
of its name or to a stutter.

| module | theorems | premises |
|---|---|---|
| `ContentionFreeMutexProofs` | `TypeCorrect`, `MutualExclusionHolds`, `SlotsStayApart`, `OwnerDescribesHolder`, `NoAssertionFires`, `Refinement` | `NoLateRegistration`: nobody calls `register_thread()` inside a flag-granted shared section (section 6) |
| `CondSharedMutexProofs` | `TypeCorrect`, `MutualExclusionHolds`, `NoWakeupIsLost`, `Refinement` | none; the threads are a finite set |
| `SharedRecursiveMutexProofs` | `TypeCorrect`, `HoldsAreBackedHolds`, `NoWakeupIsLost`, `Refinement` | none; any nesting, also the mixed ones that wait for themselves |
| `RecursiveSharedMutexProofs` | `TypeCorrect`, `HoldsCounted` | none: all operations, the `try_lock()` of the code included |
| | `MutualExclusionHolds`, `StartsAtZero`, `NoWakeupIsLost`, `Refinement` | `NoTryLock`; for the wake-ups also `NoReaderLimit`, no more threads than the word counts readers |
| `AlgorithmProofs` | of `ExternalSort`: `TypeCorrect`, `OutputSorted`, `OutputComplete`, `ChunkCanBeSorted` | none: any inputs, chunk size, kills, failing opens and leftover files |
| | of `Wildcards`: `OnlyMatchesAccepted`, `MatchesAreFound` | none; strings of any symbols and any length, the premises are in the properties |
| | `ReadsEndWithTheText` | the mask has no `?` |
| `SqliteCacheProofs` | `TypeCorrect`, `NoTransactionIsLeftOpen` | none: all operations, all faults |
| | `CacheMatches` | `NobodyInterferes`: no failing statement (the refresher may fail to open the file), no other process, no transactions of the users |
| | `SetsAreSaved` | the same and `RowsStay`: every key has a row and nobody calls `remove()` |
| `ServerCacheProofs` | `OneRowPerKeyHolds`, `CacheMatches`, `CallsAreStored` | none; the properties themselves name the troubles they exclude |
| `VstConnectionProofs` | `TypeCorrect`, `WaitingNeverLost`, `CallbackOnce` | none: all faults, restarts and late handlers |
| | `NoFaultNoCrash`, `AuthenticationFirst` | none; the properties speak of the time until the first fault |
| | `QueuedIsServed`, `InFlightIsServed` | no fault happens (`[](faults = 0)`) |

Why the properties are not inductive, and what the invariants add:

- *`ContentionFreeMutex`.* Exclusion needs to know why a reader that saw the flag
  down cannot be missed by a writer that scans the slots. `ControlInv`: what a
  position says about a thread's call and registration. `FlagInv`: whoever has the flag
  has raised `want`, and is alone in having it. `OwnerInv`: `owner` is the flag's
  holder, except between the two steps on either side of the critical section, and
  `xcount` counts its holds. `SlotInv`: a slot is its thread's own and holds 1 plus
  its shared holds, plus one between `publish` and `backoff`. `DrainInv`, the
  Dekker argument: while a writer drains, the threads whose slots it has passed
  hold nothing and cannot get in, as the flag is up; when it has passed all of
  them, nobody else holds.
- *`CondSharedMutex`.* `CountInv`: the integer is the number of readers, a fact
  about cardinalities. `AnnounceInv`: one thread at a time is between raising
  `m_writeInProgress` and lowering it. `HoldInv`: a writer holds only while there
  are no readers. That no wake-up is lost follows, since who lowers the flag or
  takes the last reader away notifies one sleeper of each kind, and a sleeper
  that cannot use it leaves somebody behind who will notify again.
- *`SharedRecursiveMutex`.* The wrapped mutex's invariant again (`MutexInv`), now
  under the weaker fact that the wrapper's callers may nest, and per thread what
  each position in the wrapper's code says about its holds of the wrapped mutex
  (`WrapInv`): between `m.lock()` and the store of the count the thread holds a
  mutex its caller does not hold yet. `NoWakeupIsLost` is `NoLostWakeup` of the
  mutex inside, for callers that may ask for it while they hold it.
- *`RecursiveSharedMutex`.* `ControlInv` ties `m_mutex` to the positions,
  `CountInv` the low bits of the word to the readers, `WriterInv` the recursion
  count to the writer's holds, with the one that `unlock()` is about to give back.
  `WakeInv`: a thread asleep has its condition false, or
  somebody is about to notify everybody. With `try_lock()` as it is, several
  threads may hold the mutex exclusively and most of this falls; `CoreInv` is what
  stays. `TurnInv`: the turns on `m_mutex` are kept whoever holds what. The
  holds of all threads together, as a set of pairs, are what `m_write_recurses`
  counts, and one more while an `unlock()` has not taken its own off (`Pending`).
  So `unlock()` by a holder never throws, even where exclusion is lost.
- *`ExternalSort`.* The output has to be traced back to lines of the input across
  a chunk, a file and the merge. A *place* is a position in the chunk, in one of the
  temporary files or in the output; `Filled` says that places and lines
  correspond one to one, and that each place holds its line's number: while
  splitting, the places of files and chunk and the lines already read
  (`SplitInv`), while merging, those of output and files and all lines with a
  number (`MergeInv`). Every step moves numbers from place to place, so its proof
  is a bijection between the places before and after it. Files are in order and
  rounded, and nothing in them is less than what has been written, so the
  smallest of the heads comes next. The step that sorts a chunk exists because
  the rank of a number among the others is a permutation (`ChunkCanBeSorted`).
- *`Wildcards`.* The machine makes one step, and its invariant says no more than that
  the result is `match`. The work is what `match` is. `OutcomesExist`: there is a
  function of two indices with the body `Call`, since each call depends on calls
  with fewer symbols left; it is built up to every number of symbols, as no
  least number can be the first to fail. `Fits` is the meaning of the rest of a
  mask for the rest of a text, with one equation for the end of the mask
  (`FitsEnd`), one for a symbol that takes one character (`OneFits`), and one for
  the star (`StarFits`); `Unfold` gives the same three cases for what a call
  returns. `Sound`: a call that answers yes was given a text that fits. It is
  inductive as it stands, a star in the text included. The converse is not: an
  undefined left operand of `||` leaves the right one unread, so `Complete` adds
  that a call which reads behind the terminator would not have found a match
  later in the text either. `Defined` says what it takes to get there, a `?`.
- *`ServerCache`.* `TableInv` and `CallInv` hold whatever happens: a uuid names one
  row, and a user's call in progress has `g_mutex`. `RowInv`: one row for each key.
  `CassandraInv` says that what the first statement of a pair has found is still
  so when the second is sent, which is what `g_mutex` is for. `CacheInv`: the cache
  agrees with the table except for the key of the `set()` under way. `SaysInv` is
  the argument of `CallIsStored`, for tables in which failed selects have left several
  rows of a key: a call that has not failed itself inserts only where there is no
  row, and updates the row with the least uuid, which is the one a select returns
  before and after. That there is a least one is the well-foundedness of the
  naturals. These parts are conditional on `troubles`, which only grow.
- *`VstConnection`.* Two parts hold whatever fails. `HeldInv`: a request somebody
  waits for is in the queue or in the store, and between the two steps of
  `getNextRequestToSend()` the first of the queue is in the store already.
  `OnceInv` is the argument of `AnsweredOnce`, for which it must be known what a
  loop that has lost its connection may still do to a request. Each write loop, also
  an old one, is in one hand, that of the thread which carries it or that of its
  pending write (`HandsInv`), and names a socket that has been made (`SocketInv`);
  that needs that a new loop's address differs from those of the loops still in
  use, an argument by counting. What has been taken from the queue is in the store
  until it is answered, and what is answered is left alone (`TakenInv`). While
  the event loop is not shutting the connection down, only the current loop has a
  request that waits in hand, so the write of an old loop finds its request answered;
  the server gets a request once per connection, and a chunk is taken once and
  for a request that waits (`AnswerInv`). The last does not hold between the
  steps of a restart, and `ShutInv` says why it does again behind `cancelAll()`.
  The other parts (`Clear`) hold until the first fault. `PhaseInv`: which of its
  phases the connection is in. `WriterInv` and `ReaderInv`: the current loop of each
  kind is the only one. `ItemInv`: a request passes once from the queue through
  that hand to the server. `ServedInv`: when a loop has ended although there is
  work, somebody is about to ask for another. `AuthInv` follows the authentication
  from the head of the queue to the server.

## 6. Where code and documents disagree

The runs check what holds. Each of the following is a counterexample TLC prints
after the change named, to a copy of the run's configuration.

- `recsharedmutex.h:25` allows X->S recursion, `README.md:20` asks for recursion.
  `lock_shared()` inside `lock()` of a thread with a slot publishes the slot and
  spins while `want_x_lock` is up, its own flag (line 160). `CFM` with
  `Nesting = {"XS"}` and the property `NestedLockSharedReturns`. The same
  happens for S->S when the first `lock_shared()` had no slot and the second,
  which registers again, finds one (`N = 1`, `Nesting = {"SS"}`).
- `no_one_has_any_lock()` returns `m_state != 0` (`shared_mutex.cpp:71`), so
  `try_lock()` takes a held mutex and refuses a free one, against
  `shared_mutex.hpp:57`. `RSM_trylock` with the invariant `MutualExclusion`.
- `set()` begins its own transaction on the connection its caller already has one
  on; BEGIN throws, the write is skipped and the old value returned
  (`dbcache.cpp:251`), though the task asks for `set` inside transactions
  (`README.md:38`). `CACHE_safety` with `"transaction"` added to `Ops`.
- `set()` of a key without a row updates nothing and reports success
  (`dbcache.cpp:50`, "save to db code" at 253). `CACHE_safety` with
  `StoredKeys = {k1}` and the property `SetIsSaved`.
- One failure of `SqliteClient dbtmp = SqliteClient()` (`dbcache.cpp:320`, outside any
  `try`) ends the refresher for good; the exception stays in a future nobody
  reads. From then on a stale entry is read again only when somebody gets its key
  after the ttl; until then it stays wrong. `CACHE_ttl` with `[]cycle` in place
  of `[](refresher.at # "ended")` in `TtlHealsStaleEntries`. `Dispose()` still returns.
- `connection.h:54` says of `sendRequest()` that its callback is called when an
  error occurs. When resolving or connecting fails, only `onFailure()` is called
  (`VstConnection.cpp:237`), the queue stays, and a synchronous caller waits for
  ever; the cache waits with `g_mutex` held. `VST_faults` with the property
  `EveryErrorIsReported`.

Seen while modelling, without a configuration that isolates it:

- `register_thread()` between a flag-granted `lock_shared()` and its
  `unlock_shared()` makes the latter look at the new slot and fail the assertion
  of `recsharedmutex.h:184` (`CFM` with `"SR"` in `Nesting`).
- `lock()` inside `lock_shared()`, or the reverse, of one thread of the wrapper
  waits for itself (`shared_recursive_mutex.hpp:97`; `SRM` with `"SX"` or `"XS"`).
- A recursive `try_lock()` fails when another thread is inside `m_mutex`
  (`shared_mutex.cpp:123`); `shared_mutex.hpp:57` says it always obtains the lock.
- At the maximal number of readers (2^31 - 1) only the reader that leaves a full
  lock notifies, and only one sleeper (`shared_mutex.cpp:60`): when a second one
  leaves before the first sleeper has run, another sleeper stays asleep beside a
  free place, until a writer passes. `RSM` with four threads and `MaxReaders = 2`
  violates `NoLostWakeup`. This is why the theorem has the premise `NoReaderLimit`.
- SQLite's `remove()` erases from the key to the end of the unordered map
  (`dbcache.cpp:274`), so other keys leave the cache while their rows stay;
  `get()` and `remove()` of a key that is not cached construct a string from a
  null pointer (line 244).
- Cassandra: a failed select, another process, or an empty value, which reads
  like a missing row, makes `AddOrUpdateInCache()` insert a second row of the
  key; `GetIdByKey()` returns a fresh uuid when it finds nothing, and the UPDATE
  then makes a row without a key (`cassandracache/dbcache.cpp:136,146`).
  `OneRowPerKey` says exactly which troubles that takes.
- ArangoDB: a failed connection throws an `ErrorCondition`, which is no
  `std::exception` (`arangodbcache/dbcache.cpp:107,139`): `set()` leaves without
  `put()`, although the server may have written, and the refresher ends, its
  exception kept in a future nobody reads.
- Connection: after a fault, the assertions of `restartConnection()`
  (`VstConnection.cpp:195-197`) can fail, because a user may start a loop between
  the reset of the loops and the shutdown; `_connected` is not reset by a
  restart, so that this is open to every caller, against the comment at line 666.
  `startWriting()` starts the loop through a raw pointer after the unlock (line
  576), which a restart may free meanwhile. An authentication in flight when the
  connection is lost is answered with an error, and the connection then gives up
  for good instead of trying again. `SurvivesWithoutFaults` and `CallerReturns` are
  stated so as to allow for these.
- The chunk of the sort takes `max_size + 1` numbers (`bigfilesort.cpp:128`),
  one more than was reserved for the 100 MB of `README.md:14`. A write that
  fails on a full disk is not noticed (line 158).
- `?` matches the terminator, and `match` then reads behind it
  (`matchwildcards.cpp:20`); a `*` in the text uses up the mask's `*` at the
  same line (text `*aa`, mask `*a`); the comment beside `test("sqrt", "*qrt")`
  (line 53) says No, the code says Yes, as a mask's meaning demands.

## 7. Only model-checked

- Liveness, everywhere: it is outside the prover's reach, as is ENABLED.
- What `VstConnection` promises after a fault, except that no waiting request is
  lost and that no callback is called twice: that callers return is the run's
  (`VST_faults`), for one fault and two attempts to connect.

## 8. Not modelled

Most lines of the repository are vendored: SQLite's amalgamation and SQLiteCpp,
fuerte, velocypack and googletest (twice). The
program's own code is about 2 700 lines, and everything in it that changes state is
modelled, with these exceptions:

- the lifetimes of several mutex objects in the first mutex: entries of a thread's
  map outlive the mutex, whose address may be used again (`recsharedmutex.h:106`);
- the demonstration programs of the mutexes and `main()` of the caches;
- the random number generator and the memory meter of the sort;
- the overflow of `m_write_recurses` in `try_lock()` (`shared_mutex.cpp:126`), after
  2^31 - 1 recursive calls;
- a write of Cassandra that the server applies after its client has given up:
  a failed write has been applied when the error comes, or never is. A late
  INSERT could add a second row of a key, as a failed select does;
- tables that do not fit in one page of an answer: a load takes the first one;
- writes that fail on a full disk, two sorts in one directory;
- logging, and exceptions of allocation.

Of fuerte, the connection's framing of messages into chunks, its TLS socket, its
destructor and the curl connection are left out: the first two are data and
library calls, the third runs when nobody has a pointer any more, and the cache
does not use the last.
