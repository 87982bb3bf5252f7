---------------------------- MODULE VstConnection ----------------------------
(***************************************************************************)
(* VstConnection, the connection on which the ArangoDB client of the cache *)
(* sends its requests (4.cache/arangodbcache/fuerte): a send queue, a      *)
(* store of the requests in flight, a write loop and a read loop that come *)
(* and go with the work, and a restart after every failure.                *)
(*                                                                         *)
(* Users call the synchronous sendRequest(): they start the loops on their *)
(* own thread and then wait.  Everything else happens in the handlers of   *)
(* the one event-loop thread (EventLoopService(1)), one at a time.  An     *)
(* action is one critical section of one mutex, or one asynchronous call.  *)
(*                                                                         *)
(* Sockets are numbered; 0 is the null pointer.  A loop is a pointer: a    *)
(* number no living loop has, and the socket it was built with.  The       *)
(* deadlines may run out whenever an operation is pending.  A failed       *)
(* assertion and a use of a null or dangling pointer end the process       *)
(* (`died`); where the freed memory is still intact the call goes on.      *)
(***************************************************************************)
EXTENDS Naturals, FiniteSets, Sequences, SequencesExt

CONSTANTS
    Users,        \* the threads that call sendRequest()
    None,         \* nobody
    MaxRequests,  \* bound: how many requests they send
    Faults,       \* what may fail
    MaxFaults,    \* bound: how often
    MaxAttempts,  \* bound: how often the connection is opened
    NumChunks     \* the chunks of one response

ASSUME VstAssumption ==
    /\ IsFiniteSet(Users) /\ "io" \notin Users /\ None \notin Users \cup {"io"}
    /\ MaxRequests \in Nat /\ MaxFaults \in Nat /\ MaxAttempts \in Nat /\ NumChunks \in Nat \ {0}
    /\ Faults \subseteq {"resolve", "connect", "header", "read", "write", "timeout"}

VARIABLES
    items,      \* every RequestItem made so far; its index is the message id
    sendQueue, messageStore,
    connected, permanent_failure,
    socket,     \* _socket
    setup,      \* the pending operations of resolving and connecting
    readLoop, writeLoop,   \* the _current of each
    writeMutex, \* who holds _writeLoop._mutex between two actions
    reads, writes,         \* the pending async_read and async_write operations; a
                           \* write that is done only waits for its handler
    inbox,      \* chunks the server has sent on the socket
    sent,       \* the requests the server has received on the socket
    attempts,   \* calls of startResolveHost()
    pc,         \* the call each thread is in
    faults,     \* how many faults have happened
    died        \* whether the process is gone

connection == <<connected, permanent_failure, socket, setup, attempts>>
loops == <<readLoop, writeLoop, writeMutex>>
network == <<reads, writes, inbox, sent>>
requests == <<items, sendQueue, messageStore>>
vars == <<requests, connection, loops, network, pc, faults, died>>

Threads == Users \cup {"io"}
Ids == 1 .. Len(items)
NoLoop == [id |-> 0, socket |-> 0]
Idle == [at |-> "idle", wl |-> NoLoop, rl |-> NoLoop, self |-> NoLoop, item |-> 0,
         then |-> "return"]

Init ==
    /\ items = <<>> /\ sendQueue = <<>> /\ messageStore = {}
    /\ connected = FALSE /\ permanent_failure = FALSE
    /\ socket = 0
    /\ attempts = 1 /\ setup = {[op |-> "resolve", n |-> 1]}   \* start()
    /\ readLoop = NoLoop /\ writeLoop = NoLoop /\ writeMutex = None
    /\ reads = {} /\ writes = {} /\ inbox = {} /\ sent = {}
    /\ pc = [t \in Threads |-> Idle]
    /\ faults = 0 /\ died = FALSE
-----------------------------------------------------------------------------
(* Threads and loops *)

At(t, label) == ~died /\ pc[t].at = label

Goto(t, frame) == pc' = [pc EXCEPT ![t] = frame]

\* The end of a call: a user waits for its callback, the event loop goes on to
\* what its handler still has to do.
Return(t) ==
    Goto(t, IF t # "io" THEN [Idle EXCEPT !.at = "wait"]
            ELSE IF pc[t].then = "reading" THEN [Idle EXCEPT !.at = "startReading"]
            ELSE Idle)

\* Behind startReading() and readNextBytes().
AfterReading(t) ==
    IF pc[t].item # 0 THEN Goto(t, [pc[t] EXCEPT !.at = "write", !.rl = NoLoop])
    ELSE Goto(t, IF t = "io" THEN Idle ELSE [Idle EXCEPT !.at = "wait"])

Die == died' = TRUE /\ UNCHANGED <<requests, connection, loops, network, pc, faults>>

\* Loops that somebody has a shared_ptr to: the connection, the handler of a
\* pending operation, or the handler that runs (its self).
Alive == {readLoop, writeLoop, pc["io"].self} \cup reads \cup {w.loop : w \in writes}

\* A new loop on the current socket, at an address nobody has a pointer to.
NewLoop ==
    LET used == {l.id : l \in Alive \cup {pc[t].wl : t \in Threads}
                                   \cup {pc[t].rl : t \in Threads}}
    IN  [id |-> CHOOSE n \in 1 .. Cardinality(used) : n \notin used, socket |-> socket]

\* MUTANT: the pointer to the loop stays.
KeepLoop(current, loop) == current

\* What `current` is when a loop has found that it must stop: the loop resets
\* the pointer to itself, unless the connection is given up.
EndLoop(current, loop) ==
    IF current = loop /\ ~permanent_failure THEN NoLoop ELSE current

Closed(n) == n # socket

Connecting(n) == [op |-> "connect", n |-> n] \in setup
-----------------------------------------------------------------------------
(* Requests *)

Pending(i) == items[i].result = "pending"

NewItem(from) == [from |-> from, result |-> "pending", chunks |-> {}, flushed |-> FALSE]

\* MUTANT: every call gets through.
AnsweredAgain(list, ids, r) ==
    [i \in DOMAIN list |->
        IF i \notin ids THEN list[i]
        ELSE [NewItem(list[i].from) EXCEPT
                 !.result = IF list[i].result = "pending" THEN r ELSE "again"]]

\* CallOnceRequestCallback::invoke(): only the first call gets through.
Answered(list, ids, r) ==
    [i \in DOMAIN list |-> IF i \in ids /\ list[i].result = "pending"
                           THEN [NewItem(list[i].from) EXCEPT !.result = r] ELSE list[i]]

\* The callbacks of these items report an error.  That of an authentication
\* request gives the connection up.
Invoke(ids, r) ==
    /\ items' = Answered(items, ids, r)
    /\ permanent_failure' = (permanent_failure \/ \E i \in ids : items[i].from = "auth"
                                                               /\ Pending(i))

\* sendRequest(): create the item and queue it.
sendRequest(u) ==
    /\ At(u, "idle")
    /\ Cardinality({i \in Ids : items[i].from # "auth"}) < MaxRequests
    /\ items' = Append(items, NewItem(u))
    /\ sendQueue' = Append(sendQueue, Len(items'))
    /\ Goto(u, [Idle EXCEPT !.at = "test"])
    /\ UNCHANGED <<messageStore, connection, loops, network, faults, died>>

\* MUTANT: _connected is not looked at.
TestNothing(u) ==
    /\ At(u, "test")
    /\ Goto(u, [Idle EXCEPT !.at = "startWriting"])
    /\ UNCHANGED <<requests, connection, loops, network, faults, died>>

TestConnected(u) ==
    /\ At(u, "test")
    /\ Goto(u, [Idle EXCEPT !.at = IF connected THEN "startWriting" ELSE "wait"])
    /\ UNCHANGED <<requests, connection, loops, network, faults, died>>

\* The WaitGroup is done: the last request of the user has been answered.
WaitReturns(u) ==
    /\ At(u, "wait")
    /\ \A i \in Ids : items[i].from = u => ~Pending(i)
    /\ Goto(u, Idle)
    /\ UNCHANGED <<requests, connection, loops, network, faults, died>>
-----------------------------------------------------------------------------
(* Writing *)

startWriting(t) ==
    /\ At(t, "startWriting") /\ writeMutex = None
    /\ IF writeLoop # NoLoop
         THEN Return(t) /\ UNCHANGED writeLoop
         ELSE /\ writeLoop' = NewLoop
              /\ Goto(t, [pc[t] EXCEPT !.at = "front", !.wl = writeLoop'])
    /\ UNCHANGED <<requests, connection, readLoop, writeMutex, network, faults, died>>

\* getNextRequestToSend(): with _writeLoop._mutex, look at the queue and put
\* its first item into the store ...
NextFront(t) ==
    /\ At(t, "front") /\ writeMutex = None
    /\ IF writeLoop = pc[t].wl /\ ~permanent_failure /\ sendQueue # <<>>
         THEN /\ messageStore' = messageStore \cup {Head(sendQueue)}
              /\ writeMutex' = t
              /\ Goto(t, [pc[t] EXCEPT !.at = "removeFirst", !.item = Head(sendQueue)])
              /\ UNCHANGED writeLoop
         ELSE /\ writeLoop' = EndLoop(writeLoop, pc[t].wl)
              /\ Return(t)
              /\ UNCHANGED <<messageStore, writeMutex>>
    /\ UNCHANGED <<items, sendQueue, connection, readLoop, network, faults, died>>

\* ... and remove what is the first item of the queue by then.
NextRemove(t) ==
    /\ At(t, "removeFirst")
    /\ sendQueue' = Tail(sendQueue)
    /\ writeMutex' = None
    /\ Goto(t, [pc[t] EXCEPT !.at = "startReading"])
    /\ UNCHANGED <<items, messageStore, connection, readLoop, writeLoop, network, faults, died>>

\* The end of sendNextRequest().
WriteRequest(t) ==
    /\ At(t, "write")
    /\ IF pc[t].wl \notin Alive                 \* shared_from_this() of a dead loop
          \/ items[pc[t].item].flushed          \* assert(_requestBuffers.size())
          \/ ~Pending(pc[t].item)               \* its _request has been moved away
          \/ pc[t].wl.socket = 0
         THEN Die
         ELSE /\ writes' = writes \cup {[loop |-> pc[t].wl, item |-> pc[t].item, done |-> FALSE]}
              /\ Return(t)
              /\ UNCHANGED <<requests, connection, loops, reads, inbox, sent, faults, died>>
-----------------------------------------------------------------------------
(* Reading *)

startReading(t) ==
    /\ At(t, "startReading")
    /\ IF readLoop # NoLoop
         THEN AfterReading(t) /\ UNCHANGED readLoop
         ELSE /\ readLoop' = NewLoop
              /\ Goto(t, [pc[t] EXCEPT !.at = "readNextBytes", !.rl = readLoop'])
    /\ UNCHANGED <<requests, connection, writeLoop, writeMutex, network, faults, died>>

\* shouldStopReading() and async_read().
readNextBytes(t) ==
    /\ At(t, "readNextBytes")
    /\ LET work == messageStore # {} \/ sendQueue # <<>>
       IN  IF readLoop = pc[t].rl /\ ~permanent_failure /\ work
             THEN IF pc[t].rl.socket = 0
                     \/ \E i \in messageStore : ~Pending(i)   \* minimumTimeout()
                    THEN Die
                    ELSE /\ reads' = reads \cup {pc[t].rl}
                         /\ AfterReading(t)
                         /\ UNCHANGED <<requests, connection, loops, writes, inbox, sent,
                                        faults, died>>
             ELSE /\ readLoop' = EndLoop(readLoop, pc[t].rl)
                  /\ AfterReading(t)
                  /\ UNCHANGED <<requests, connection, writeLoop, writeMutex, network,
                                 faults, died>>

\* A thread calls start() of the loop it has made through a raw pointer, after
\* the mutex is unlocked: another thread may have reset the loop by then.
UseFreedLoop(t) ==
    /\ \/ At(t, "front") /\ pc[t].wl \notin Alive
       \/ At(t, "readNextBytes") /\ pc[t].rl \notin Alive
    /\ Die

\* A chunk has come in: addChunk(), assemble(), and when the response is
\* complete the item leaves the store and its callback is called.
ProcessChunk(l) ==
    /\ ~Closed(l.socket)
    /\ \/ At("io", "idle") /\ l \in reads
       \/ At("io", "readNextBytes") /\ l = pc["io"].self /\ l = pc["io"].rl  \* isChunkComplete()
    /\ reads' = reads \ {l}
    /\ \E c \in inbox :
        /\ inbox' = inbox \ {c}
        /\ LET known == c.id \in messageStore
               chunks == items[c.id].chunks \cup {c.index}
               complete == known /\ 1 \in chunks /\ Cardinality(chunks) = NumChunks
               added == [items EXCEPT ![c.id].chunks = IF known THEN chunks ELSE @]
           IN  /\ items' = IF complete THEN Answered(added, {c.id}, "ok") ELSE added
               /\ messageStore' = IF complete THEN messageStore \ {c.id} ELSE messageStore
    /\ Goto("io", [Idle EXCEPT !.at = "readNextBytes", !.rl = l, !.self = l])
    /\ UNCHANGED <<sendQueue, connection, loops, writes, sent, faults, died>>
-----------------------------------------------------------------------------
(* Failures and restarts *)

\* A fault of this kind happens now; on a closed socket everything fails.
Fails(kind, n) ==
    \/ Closed(n) /\ UNCHANGED faults
    \/ /\ kind \in Faults /\ faults < MaxFaults
       /\ faults' = faults + 1

\* MUTANT: a failed read is only logged.
ReadFailsSilently(l) ==
    /\ At("io", "idle") /\ l \in reads
    /\ Fails("read", l.socket)
    /\ reads' = reads \ {l}
    /\ UNCHANGED <<requests, connection, loops, writes, inbox, sent, pc, died>>

ReadFails(l) ==
    /\ At("io", "idle") /\ l \in reads
    /\ Fails("read", l.socket)
    /\ reads' = reads \ {l}
    /\ Goto("io", [Idle EXCEPT !.at = "restartIfCurrent", !.self = l])
    /\ UNCHANGED <<requests, connection, loops, writes, inbox, sent, died>>

\* The bytes of a request go out on the socket of its loop; the server answers.
Transmit(w) ==
    /\ ~died /\ w \in writes /\ ~w.done
    /\ ~Closed(w.loop.socket) /\ ~Connecting(w.loop.socket)
    /\ writes' = (writes \ {w}) \cup {[w EXCEPT !.done = TRUE]}
    /\ sent' = sent \cup {w.item}
    /\ inbox' = inbox \cup [id : {w.item}, index : 1 .. NumChunks]
    /\ UNCHANGED <<requests, connection, loops, reads, pc, faults, died>>

WriteSucceeds(w) ==
    /\ At("io", "idle") /\ w \in writes /\ w.done
    /\ writes' = writes \ {w}
    /\ items' = [items EXCEPT ![w.item].flushed = Pending(w.item)]
    /\ Goto("io", [Idle EXCEPT !.at = "front", !.wl = w.loop, !.self = w.loop])
    /\ UNCHANGED <<sendQueue, messageStore, connection, loops, reads, inbox, sent, faults, died>>

WriteFails(w) ==
    /\ At("io", "idle") /\ w \in writes /\ ~w.done
    /\ Fails("write", w.loop.socket)
    /\ writes' = writes \ {w}
    /\ messageStore' = messageStore \ {w.item}
    /\ Invoke({w.item}, "error")
    /\ Goto("io", [Idle EXCEPT !.at = "restartIfCurrent", !.self = w.loop])
    /\ UNCHANGED <<sendQueue, connected, socket, setup, attempts, loops, reads, inbox, sent, died>>

\* The deadline of a pending operation runs out.
Deadline(l) ==
    /\ At("io", "idle") /\ "timeout" \in Faults /\ faults < MaxFaults
    /\ l \in reads \/ \E w \in writes : w.loop = l
    /\ faults' = faults + 1
    /\ Goto("io", [Idle EXCEPT !.at = "restartIfCurrent", !.self = l])
    /\ UNCHANGED <<requests, connection, loops, network, died>>

\* restartConnection() of a loop: with both mutexes, only the current loop.
restartIfCurrent ==
    /\ At("io", "restartIfCurrent") /\ writeMutex = None
    /\ IF pc["io"].self \in {readLoop, writeLoop}
         THEN /\ readLoop' = NoLoop /\ writeLoop' = NoLoop
              /\ Goto("io", [Idle EXCEPT !.at = "restart", !.then = "resolve"])
         ELSE Goto("io", Idle) /\ UNCHANGED <<readLoop, writeLoop>>
    /\ UNCHANGED <<requests, connection, writeMutex, network, faults, died>>

\* restartConnection() of the connection asserts that the loops are reset.
restartConnection ==
    /\ At("io", "restart")
    /\ IF readLoop # NoLoop \/ writeLoop # NoLoop
         THEN Die
         ELSE /\ Goto("io", [pc["io"] EXCEPT !.at = "stopWriting"])
              /\ UNCHANGED <<requests, connection, loops, network, faults, died>>

\* shutdownConnection()
stopWriting ==
    /\ At("io", "stopWriting") /\ writeMutex = None
    /\ writeLoop' = NoLoop
    /\ Goto("io", [pc["io"] EXCEPT !.at = "stopReading"])
    /\ UNCHANGED <<requests, connection, readLoop, writeMutex, network, faults, died>>

stopReading ==
    /\ At("io", "stopReading")
    /\ readLoop' = NoLoop
    /\ Goto("io", [pc["io"] EXCEPT !.at = "shutdownSocket"])
    /\ UNCHANGED <<requests, connection, writeLoop, writeMutex, network, faults, died>>

shutdownSocket ==
    /\ At("io", "shutdownSocket")
    /\ socket' = 0 /\ inbox' = {} /\ sent' = {}
    /\ reads' = reads \cap {readLoop}      \* the handler of another one does nothing
    /\ Goto("io", [pc["io"] EXCEPT !.at = "cancelAll"])
    /\ UNCHANGED <<requests, connected, permanent_failure, setup, attempts, loops,
                   writes, faults, died>>

\* MUTANT: the store is cleared without calling anybody back.
CancelNobody ==
    /\ At("io", "cancelAll")
    /\ messageStore' = {}
    /\ Goto("io", [Idle EXCEPT !.at = IF pc["io"].then = "resolve" THEN "resolve" ELSE "idle"])
    /\ UNCHANGED <<items, sendQueue, connection, loops, network, faults, died>>

cancelAll ==
    /\ At("io", "cancelAll")
    /\ Invoke(messageStore, "error")
    /\ messageStore' = {}
    /\ Goto("io", [Idle EXCEPT !.at = IF pc["io"].then = "resolve" THEN "resolve" ELSE "idle"])
    /\ UNCHANGED <<sendQueue, connected, socket, setup, attempts, loops, network, faults, died>>

startResolveHost ==
    /\ At("io", "resolve") /\ attempts < MaxAttempts  \* bound
    /\ IF permanent_failure
         THEN UNCHANGED <<attempts, setup>>
         ELSE /\ attempts' = attempts + 1
              /\ setup' = setup \cup {[op |-> "resolve", n |-> attempts']}
    /\ Goto("io", Idle)
    /\ UNCHANGED <<requests, connected, permanent_failure, socket, loops, network, faults, died>>
-----------------------------------------------------------------------------
(* Connecting *)

Done(op, n) == At("io", "idle") /\ [op |-> op, n |-> n] \in setup

Replace(op, n, ops) == setup' = (setup \ {[op |-> op, n |-> n]}) \cup ops

Shutdown == Goto("io", [Idle EXCEPT !.at = "stopWriting"])

\* The handler of async_resolve: initSocket() and startConnect().
ResolveSucceeds(n) ==
    /\ Done("resolve", n)
    /\ IF socket # 0
         THEN Die                               \* assert(!_socket)
         ELSE /\ socket' = n
              /\ Replace("resolve", n, {[op |-> "connect", n |-> n]})
              /\ UNCHANGED <<requests, connected, permanent_failure, attempts, loops, network,
                             pc, faults, died>>

\* onFailure() only: nothing is tried again.
ResolveFails(n) ==
    /\ Done("resolve", n)
    /\ "resolve" \in Faults /\ faults < MaxFaults /\ faults' = faults + 1
    /\ Replace("resolve", n, {})
    /\ UNCHANGED <<requests, connected, permanent_failure, socket, attempts, loops, network,
                   pc, died>>

ConnectSucceeds(n) ==
    /\ Done("connect", n) /\ ~Closed(n)
    /\ Replace("connect", n, {[op |-> "header", n |-> n]})
    /\ UNCHANGED <<requests, connected, permanent_failure, socket, attempts, loops, network,
                   pc, faults, died>>

ConnectFails(n) ==
    /\ Done("connect", n) /\ Fails("connect", n)
    /\ Replace("connect", n, {})
    /\ Shutdown
    /\ UNCHANGED <<requests, connected, permanent_failure, socket, attempts, loops, network, died>>

\* MUTANT: the authentication request takes its turn.
AddAuthentication ==
    /\ items' = Append(items, NewItem("auth"))
    /\ sendQueue' = Append(sendQueue, Len(items'))

\* At the front of the queue.
insertAuthenticationRequests ==
    /\ items' = Append(items, NewItem("auth"))
    /\ sendQueue' = <<Len(items')>> \o sendQueue

\* The handler of the header's async_write: the authentication is queued before
\* anybody may send.
HeaderSucceeds(n) ==
    /\ Done("header", n)
    /\ Replace("header", n, {})
    /\ insertAuthenticationRequests
    /\ connected' = TRUE
    /\ Goto("io", [Idle EXCEPT !.at = "startWriting", !.then = "reading"])
    /\ UNCHANGED <<messageStore, permanent_failure, socket, attempts, loops, network, faults, died>>

HeaderFails(n) ==
    /\ Done("header", n) /\ Fails("header", n)
    /\ Replace("header", n, {})
    /\ connected' = FALSE
    /\ Shutdown
    /\ UNCHANGED <<requests, permanent_failure, socket, attempts, loops, network, died>>
-----------------------------------------------------------------------------
Calls(u) == sendRequest(u) \/ TestConnected(u) \/ WaitReturns(u)

LoopStep(t) ==
    \/ startWriting(t) \/ NextFront(t) \/ NextRemove(t) \/ WriteRequest(t)
    \/ startReading(t) \/ readNextBytes(t) \/ UseFreedLoop(t)

Restart ==
    \/ restartIfCurrent \/ restartConnection \/ stopWriting \/ stopReading
    \/ shutdownSocket \/ cancelAll \/ startResolveHost

Connect(n) ==
    \/ ResolveSucceeds(n) \/ ResolveFails(n) \/ ConnectSucceeds(n) \/ ConnectFails(n)
    \/ HeaderSucceeds(n) \/ HeaderFails(n)

Callback ==
    \/ \E l \in reads \cup {pc["io"].self} : ProcessChunk(l)
    \/ \E l \in reads : ReadFails(l)
    \/ \E w \in writes : WriteSucceeds(w) \/ WriteFails(w)

Next ==
    \/ \E u \in Users : Calls(u)
    \/ \E t \in Threads : LoopStep(t)
    \/ Restart
    \/ \E n \in 1 .. attempts : Connect(n)
    \/ Callback
    \/ \E l \in reads \cup {w.loop : w \in writes} : Deadline(l)
    \/ \E w \in writes : Transmit(w)

\* Threads run, the event loop serves every handler, connecting ends one way
\* or the other, and the server reads and answers.
Fairness ==
    /\ \A t \in Threads : WF_vars(LoopStep(t))
    /\ \A u \in Users : WF_vars(TestConnected(u) \/ WaitReturns(u))
    /\ WF_vars(Restart)
    /\ WF_vars(\E n \in 1 .. attempts : Connect(n))
    /\ WF_vars(Callback)
    /\ WF_vars(\E w \in writes : Transmit(w))

Spec == Init /\ [][Next]_vars

FairSpec == Spec /\ Fairness
-----------------------------------------------------------------------------
(* Properties *)

\* The variables hold what the code's members can hold.
TypeOK ==
    /\ \A i \in Ids : items[i] \in [from : Users \cup {"auth"},
                                    result : {"pending", "ok", "error"},
                                    chunks : SUBSET (1 .. NumChunks), flushed : BOOLEAN]
    /\ messageStore \subseteq Ids /\ ToSet(sendQueue) \subseteq Ids
    /\ connected \in BOOLEAN /\ permanent_failure \in BOOLEAN
    /\ socket \in 0 .. attempts

Waiting(i) == i \in Ids /\ items[i].from # "auth" /\ Pending(i)

\* No call is under way, and the connection is open.
Resting ==
    /\ ~died /\ \A t \in Threads : pc[t].at \in {"idle", "wait"}
    /\ connected /\ socket # 0 /\ setup = {} /\ ~permanent_failure

\* The write loop goes on or ends with _writeLoop._mutex held, and a request is
\* queued before anybody asks for a loop: at rest a queued request always has a
\* pending write of the current loop whose handler will send it.
QueuedIsWritten ==
    Resting /\ sendQueue # <<>> => \E w \in writes : w.loop = writeLoop

\* The read loop decides to end with the mutexes of the queue and of the store
\* held: at rest a request in flight always has a pending read of the current
\* loop.
InFlightIsRead ==
    Resting /\ messageStore # {} => readLoop \in reads

\* No order of calls and handlers loses a request whose caller waits: until it is
\* answered it is in the queue or in the store, also through restarts.
WaitingIsHeld ==
    ~died => \A i \in Ids : Waiting(i) => i \in ToSet(sendQueue) \cup messageStore

\* Without a fault no assertion fails and nothing freed is used, however the
\* users and the event loop interleave.  (After a fault the restart breaks this.)
SurvivesWithoutFaults == died => faults > 0

\* The first message on a connection that has not failed is the authentication.
AuthenticatesFirst ==
    [][faults = 0 /\ sent = {} => \A i \in sent' : items[i].from = "auth"]_vars

\* A callback is called once, whatever fails and however late an answer comes,
\* and with a response only when all the chunks of its own request have come in
\* on the socket that is open.
AnsweredOnce ==
    [][\A i \in Ids :
         /\ ~Pending(i) => items'[i] = items[i]
         /\ Pending(i) /\ items'[i].result = "ok" =>
              i \in sent /\ \A k \in 1 .. NumChunks : [id |-> i, index |-> k] \notin inbox']_vars

\* The connection does not try again: an authentication failed, or connecting
\* did (onFailure() only).
GivenUp ==
    \/ permanent_failure
    \/ socket = 0 /\ setup = {} /\ At("io", "idle")

\* As far as the model follows it.
AtBound == At("io", "resolve") /\ attempts = MaxAttempts

\* Every caller of sendRequest() gets its answer, a response or an error, unless
\* the connection has given up or the process has died.
CallerReturns ==
    \A i \in 1 .. MaxRequests + MaxAttempts :
        Waiting(i) ~> ~Waiting(i) \/ GivenUp \/ died \/ AtBound

\* connection.h: "When a response is received or an error occurs, the
\* corresponding callback is called."
EveryErrorIsReported ==
    \A i \in 1 .. MaxRequests + MaxAttempts : Waiting(i) ~> ~Waiting(i)
=============================================================================
