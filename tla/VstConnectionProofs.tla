------------------------ MODULE VstConnectionProofs ------------------------
(***************************************************************************)
(* For any number of users, requests, chunks and attempts, whatever fails: *)
(* no request whose caller waits is ever lost, and a callback is called    *)
(* once.  And until the first fault no assertion fails and nothing freed   *)
(* is used, the authentication is the first message, and at rest somebody  *)
(* is there to write what is queued and to read what is in flight.         *)
(*                                                                         *)
(* HeldInv is about the queue and the store and OnceInv about who may      *)
(* answer a request; both hold always.  Clear holds until the first fault: *)
(* how far the connection is (PhaseInv), that the current write loop is    *)
(* the only one, a thread's or a pending write's (WriterInv), likewise the *)
(* read loop (ReaderInv), that a request goes once from the queue through  *)
(* that hand to the server (ItemInv), that a loop which has ended is asked *)
(* for again when there is work (ServedInv), and that the authentication   *)
(* goes first (AuthInv).                                                   *)
(***************************************************************************)
EXTENDS VstConnection, SequenceTheorems, FiniteSetTheorems, TLAPS

Frame(a, w, r, s, i, n) ==
  [at |-> a, wl |-> w, rl |-> r, self |-> s, item |-> i, then |-> n]

(* The frame has the fields of a call.                                     *)
IsFrame(f) == f = Frame(f.at, f.wl, f.rl, f.self, f.item, f.then)

Item == [from : Users \cup {"auth"}, result : {"pending", "ok", "error"},
         chunks : SUBSET (1 .. NumChunks), flushed : BOOLEAN]

ItemsType == items \in Seq(Item)

QueueType ==
  /\ sendQueue \in Seq(Nat)
  /\ \A j \in 1 .. Len(sendQueue) : sendQueue[j] \in Ids
  /\ messageStore \subseteq Ids

FrameType ==
  /\ DOMAIN pc = Threads
  /\ \A t \in Threads : IsFrame(pc[t])

MutexType == \A t \in Threads : writeMutex = t <=> pc[t].at = "removeFirst"

ConnectionType ==
  /\ connected \in BOOLEAN /\ permanent_failure \in BOOLEAN
  /\ attempts \in Nat /\ socket \in 0 .. attempts
  /\ faults \in Nat
  /\ \A c \in inbox : c.index \in 1 .. NumChunks

TypeInv == ItemsType /\ QueueType /\ FrameType /\ MutexType /\ ConnectionType

(* While a thread is between looking at the queue and removing its first   *)
(* item, that one waits for nothing the store does not have.               *)
FirstIsHeld ==
  \A t \in Threads : pc[t].at = "removeFirst" =>
     /\ sendQueue # <<>>
     /\ Waiting(Head(sendQueue)) => Head(sendQueue) \in messageStore

IsHeld(i) ==
  i \in messageStore \/ \E j \in 1 .. Len(sendQueue) : sendQueue[j] = i

HeldInv ==
  /\ FirstIsHeld
  /\ \A i \in Ids : Waiting(i) => IsHeld(i)

USE VstAssumption

-----------------------------------------------------------------------------
(* Sequences                                                               *)

(* What Append does to the length and the elements of a sequence.          *)
LEMMA Appended ==
  ASSUME NEW S, NEW s \in Seq(S), NEW x \in S
  PROVE  /\ Append(s, x) \in Seq(S) /\ Len(Append(s, x)) = Len(s) + 1 /\ Len(s) \in Nat
         /\ \A j \in 1 .. Len(s) : Append(s, x)[j] = s[j]
         /\ Append(s, x)[Len(s) + 1] = x
         /\ Append(s, x) # <<>>
  BY LenProperties

(* What putting an element in front does.                                  *)
LEMMA Prepended ==
  ASSUME NEW S, NEW s \in Seq(S), NEW x \in S
  PROVE  /\ <<x>> \o s \in Seq(S) /\ Len(<<x>> \o s) = Len(s) + 1 /\ Len(s) \in Nat
         /\ \A j \in 2 .. Len(s) + 1 : (<<x>> \o s)[j] = s[j - 1]
         /\ (<<x>> \o s)[1] = x
         /\ <<x>> \o s # <<>>
  <1>1. <<x>> \in Seq(S) /\ Len(<<x>>) = 1 /\ <<x>>[1] = x
    OBVIOUS
  <1>2. Len(s) \in Nat
    BY LenProperties
  <1>3. /\ <<x>> \o s \in Seq(S)
        /\ Len(<<x>> \o s) = Len(<<x>>) + Len(s)
        /\ \A i \in 1 .. Len(<<x>>) + Len(s) :
              (<<x>> \o s)[i] = IF i <= Len(<<x>>) THEN <<x>>[i] ELSE s[i - Len(<<x>>)]
    BY <1>1, ConcatProperties
  <1>4. \A j \in 2 .. Len(s) + 1 : (<<x>> \o s)[j] = s[j - 1]
    BY <1>1, <1>2, <1>3
  <1>5. (<<x>> \o s)[1] = x
    BY <1>1, <1>2, <1>3
  <1>6. <<x>> \o s # <<>>
    BY <1>1, <1>2, <1>3
  <1> QED BY <1>1, <1>2, <1>3, <1>4, <1>5, <1>6

(* What Tail leaves of a sequence.                                         *)
LEMMA Shortened ==
  ASSUME NEW S, NEW s \in Seq(S), s # <<>>
  PROVE  /\ Tail(s) \in Seq(S) /\ Len(Tail(s)) = Len(s) - 1
         /\ Len(s) \in Nat \ {0} /\ Head(s) = s[1]
         /\ \A j \in 1 .. Len(s) - 1 : Tail(s)[j] = s[j + 1]
  BY LenProperties, EmptySeq, HeadTailProperties

(* The first item of the queue is a request.                               *)
LEMMA Queue ==
  ASSUME QueueType
  PROVE  /\ Len(sendQueue) \in Nat
         /\ sendQueue # <<>> <=> 1 \in 1 .. Len(sendQueue)
         /\ sendQueue # <<>> => Head(sendQueue) = sendQueue[1] /\ Head(sendQueue) \in Ids
  BY LenProperties, EmptySeq, Shortened DEF QueueType

-----------------------------------------------------------------------------
(* Items                                                                   *)

(* The items are numbered by Ids.                                          *)
LEMMA Items ==
  ASSUME ItemsType
  PROVE  /\ Len(items) \in Nat /\ DOMAIN items = Ids
         /\ \A i \in Ids : items[i] \in Item
  BY LenProperties, ElementOfSeq DEF ItemsType, Ids

(* A new item is pending and untouched.                                    *)
LEMMA NewItems ==
  ASSUME NEW x \in Users \cup {"auth"}
  PROVE  /\ NewItem(x) \in Item
         /\ NewItem(x).from = x /\ NewItem(x).result = "pending" /\ ~NewItem(x).flushed
         /\ NewItem(x).chunks = {}
  BY DEF NewItem, Item

(* The item p becomes the item q when its callback is called.              *)
CalledBack(p, q) ==
  /\ q.from = p.from /\ q.result # "pending"
  /\ p.result # "pending" => q = p
  /\ p.result = "pending" => q.chunks = {} /\ ~q.flushed

(* What a callback does to the items.                                      *)
LEMMA AnsweredItems ==
  ASSUME NEW list \in Seq(Item), NEW ids, NEW r \in {"ok", "error"}
  PROVE  /\ Answered(list, ids, r) \in Seq(Item)
         /\ Len(Answered(list, ids, r)) = Len(list)
         /\ \A i \in 1 .. Len(list) :
              IF i \in ids THEN CalledBack(list[i], Answered(list, ids, r)[i])
              ELSE Answered(list, ids, r)[i] = list[i]
  <1> DEFINE A == Answered(list, ids, r)
  <1>1. Len(list) \in Nat /\ DOMAIN list = 1 .. Len(list)
    BY LenProperties
  <1>2. \A i \in 1 .. Len(list) : list[i] \in Item
    BY ElementOfSeq
  <1>3. \A x \in Users \cup {"auth"} :
           LET q == [NewItem(x) EXCEPT !.result = r]
           IN  q \in Item /\ q.from = x /\ q.result = r /\ q.chunks = {} /\ ~q.flushed
    BY DEF NewItem, Item
  <1>4. A = [i \in 1 .. Len(list) |->
               IF i \in ids /\ list[i].result = "pending"
               THEN [NewItem(list[i].from) EXCEPT !.result = r] ELSE list[i]]
    BY <1>1 DEF Answered
  <1>5. \A i \in 1 .. Len(list) : list[i].from \in Users \cup {"auth"}
    BY <1>2 DEF Item
  <1>6. A \in [1 .. Len(list) -> Item]
    BY <1>2, <1>3, <1>4, <1>5
  <1>7. A \in Seq(Item)
    BY <1>1, <1>6, SeqDef
  <1>8. Len(A) = Len(list)
    BY <1>1, <1>6, <1>7, LenProperties
  <1>9. \A i \in 1 .. Len(list) :
          IF i \in ids THEN CalledBack(list[i], A[i]) ELSE A[i] = list[i]
    BY <1>3, <1>4, <1>5 DEF CalledBack
  <1> HIDE DEF A
  <1> QED BY <1>7, <1>8, <1>9 DEF A

-----------------------------------------------------------------------------
(* Frames                                                                  *)

(* The call of t goes on at a, with these loops, this item and this rest;  *)
(* the other threads stay where they are.                                  *)
Becomes(t, a, w, r, i, n) ==
  /\ pc'[t].at = a /\ pc'[t].wl = w /\ pc'[t].rl = r /\ pc'[t].item = i
  /\ pc'[t].then = n
  /\ \A u \in Threads \ {t} : pc'[u] = pc[u]
  /\ FrameType'

(* A frame that is written out has these fields.                           *)
LEMMA GotoFrame ==
  ASSUME FrameType, NEW t \in Threads, NEW a, NEW w, NEW r, NEW s, NEW i, NEW n,
         NEW q, q = Frame(a, w, r, s, i, n), Goto(t, q)
  PROVE  Becomes(t, a, w, r, i, n)
  BY DEF FrameType, IsFrame, Frame, Goto, Becomes

(* The fields of a thread outside of any call.                             *)
LEMMA IdleFrame ==
  /\ IsFrame(Idle) /\ Idle.at = "idle" /\ Idle.wl = NoLoop /\ Idle.rl = NoLoop
  /\ Idle.item = 0 /\ Idle.then = "return"
  BY DEF Idle, IsFrame, Frame

(* The frames an action goes to.                                           *)
LEMMA GotoPlace ==
  ASSUME FrameType, NEW t \in Threads, NEW a, Goto(t, [Idle EXCEPT !.at = a])
  PROVE  Becomes(t, a, NoLoop, NoLoop, 0, "return")
  <1>1. PICK q : q = [Idle EXCEPT !.at = a] /\ Goto(t, q)
    OBVIOUS
  <1>2. q = Frame(a, NoLoop, NoLoop, NoLoop, 0, "return")
    BY <1>1 DEF IsFrame, Frame, Idle
  <1> QED BY <1>1, <1>2, GotoFrame

(* A call that ends.                                                       *)
LEMMA GotoStart ==
  ASSUME FrameType, NEW t \in Threads, Goto(t, Idle)
  PROVE  Becomes(t, "idle", NoLoop, NoLoop, 0, "return")
  BY IdleFrame, GotoFrame DEF IsFrame, Idle, Frame

(* A call that goes on, with everything it had.                            *)
LEMMA GotoLabel ==
  ASSUME FrameType, NEW t \in Threads, NEW a,
         Goto(t, [pc[t] EXCEPT !.at = a])
  PROVE  Becomes(t, a, pc[t].wl, pc[t].rl, pc[t].item, pc[t].then)
  <1>0. IsFrame(pc[t])
    BY DEF FrameType
  <1>1. PICK q : q = [pc[t] EXCEPT !.at = a] /\ Goto(t, q)
    OBVIOUS
  <1>2. q = Frame(a, pc[t].wl, pc[t].rl, pc[t].self, pc[t].item, pc[t].then)
    BY <1>0, <1>1 DEF IsFrame, Frame
  <1> QED BY <1>1, <1>2, GotoFrame

(* A call that goes on with a write loop.                                  *)
LEMMA GotoWriter ==
  ASSUME FrameType, NEW t \in Threads, NEW a, NEW w,
         Goto(t, [pc[t] EXCEPT !.at = a, !.wl = w])
  PROVE  Becomes(t, a, w, pc[t].rl, pc[t].item, pc[t].then)
  <1>0. IsFrame(pc[t])
    BY DEF FrameType
  <1>1. PICK q : q = [pc[t] EXCEPT !.at = a, !.wl = w] /\ Goto(t, q)
    OBVIOUS
  <1>2. q = Frame(a, w, pc[t].rl, pc[t].self, pc[t].item, pc[t].then)
    BY <1>0, <1>1 DEF IsFrame, Frame
  <1> QED BY <1>1, <1>2, GotoFrame

(* A call that goes on with a read loop.                                   *)
LEMMA GotoReader ==
  ASSUME FrameType, NEW t \in Threads, NEW a, NEW r,
         Goto(t, [pc[t] EXCEPT !.at = a, !.rl = r])
  PROVE  Becomes(t, a, pc[t].wl, r, pc[t].item, pc[t].then)
  <1>0. IsFrame(pc[t])
    BY DEF FrameType
  <1>1. PICK q : q = [pc[t] EXCEPT !.at = a, !.rl = r] /\ Goto(t, q)
    OBVIOUS
  <1>2. q = Frame(a, pc[t].wl, r, pc[t].self, pc[t].item, pc[t].then)
    BY <1>0, <1>1 DEF IsFrame, Frame
  <1> QED BY <1>1, <1>2, GotoFrame

(* A call that goes on with an item.                                       *)
LEMMA GotoItem ==
  ASSUME FrameType, NEW t \in Threads, NEW a, NEW i,
         Goto(t, [pc[t] EXCEPT !.at = a, !.item = i])
  PROVE  Becomes(t, a, pc[t].wl, pc[t].rl, i, pc[t].then)
  <1>0. IsFrame(pc[t])
    BY DEF FrameType
  <1>1. PICK q : q = [pc[t] EXCEPT !.at = a, !.item = i] /\ Goto(t, q)
    OBVIOUS
  <1>2. q = Frame(a, pc[t].wl, pc[t].rl, pc[t].self, i, pc[t].then)
    BY <1>0, <1>1 DEF IsFrame, Frame
  <1> QED BY <1>1, <1>2, GotoFrame

(* A call that starts or ends.                                             *)
LEMMA GotoIdle ==
  ASSUME FrameType, NEW t \in Threads, NEW a, NEW w, NEW r, NEW s, NEW n
  PROVE  /\ Goto(t, Idle) => Becomes(t, "idle", NoLoop, NoLoop, 0, "return")
         /\ Goto(t, [Idle EXCEPT !.at = a]) => Becomes(t, a, NoLoop, NoLoop, 0, "return")
         /\ Goto(t, [Idle EXCEPT !.at = a, !.self = s]) =>
               Becomes(t, a, NoLoop, NoLoop, 0, "return")
         /\ Goto(t, [Idle EXCEPT !.at = a, !.then = n]) =>
               Becomes(t, a, NoLoop, NoLoop, 0, n)
         /\ Goto(t, [Idle EXCEPT !.at = a, !.wl = w, !.self = s]) =>
               Becomes(t, a, w, NoLoop, 0, "return")
         /\ Goto(t, [Idle EXCEPT !.at = a, !.rl = r, !.self = s]) =>
               Becomes(t, a, NoLoop, r, 0, "return")
  <1>1. ASSUME Goto(t, Idle)
        PROVE  Becomes(t, "idle", NoLoop, NoLoop, 0, "return")
    BY <1>1, GotoStart
  <1>2. ASSUME Goto(t, [Idle EXCEPT !.at = a])
        PROVE  Becomes(t, a, NoLoop, NoLoop, 0, "return")
    BY <1>2, GotoPlace
  <1>3. ASSUME Goto(t, [Idle EXCEPT !.at = a, !.self = s])
        PROVE  Becomes(t, a, NoLoop, NoLoop, 0, "return")
    <2>1. PICK q : q = [Idle EXCEPT !.at = a, !.self = s] /\ Goto(t, q)
      BY <1>3
    <2>2. q = Frame(a, NoLoop, NoLoop, s, 0, "return")
      BY <2>1 DEF IsFrame, Frame, Idle
    <2> QED BY <2>1, <2>2, GotoFrame
  <1>4. ASSUME Goto(t, [Idle EXCEPT !.at = a, !.then = n])
        PROVE  Becomes(t, a, NoLoop, NoLoop, 0, n)
    <2>1. PICK q : q = [Idle EXCEPT !.at = a, !.then = n] /\ Goto(t, q)
      BY <1>4
    <2>2. q = Frame(a, NoLoop, NoLoop, NoLoop, 0, n)
      BY <2>1 DEF IsFrame, Frame, Idle
    <2> QED BY <2>1, <2>2, GotoFrame
  <1>5. ASSUME Goto(t, [Idle EXCEPT !.at = a, !.wl = w, !.self = s])
        PROVE  Becomes(t, a, w, NoLoop, 0, "return")
    <2>1. PICK q : q = [Idle EXCEPT !.at = a, !.wl = w, !.self = s] /\ Goto(t, q)
      BY <1>5
    <2>2. q = Frame(a, w, NoLoop, s, 0, "return")
      BY <2>1 DEF IsFrame, Frame, Idle
    <2> QED BY <2>1, <2>2, GotoFrame
  <1>6. ASSUME Goto(t, [Idle EXCEPT !.at = a, !.rl = r, !.self = s])
        PROVE  Becomes(t, a, NoLoop, r, 0, "return")
    <2>1. PICK q : q = [Idle EXCEPT !.at = a, !.rl = r, !.self = s] /\ Goto(t, q)
      BY <1>6
    <2>2. q = Frame(a, NoLoop, r, s, 0, "return")
      BY <2>1 DEF IsFrame, Frame, Idle
    <2> QED BY <2>1, <2>2, GotoFrame
  <1> QED BY <1>1, <1>2, <1>3, <1>4, <1>5, <1>6

(* A call that goes on.                                                    *)
LEMMA GotoNext ==
  ASSUME FrameType, NEW t \in Threads, NEW a, NEW w, NEW r, NEW i
  PROVE  /\ Goto(t, [pc[t] EXCEPT !.at = a]) =>
               Becomes(t, a, pc[t].wl, pc[t].rl, pc[t].item, pc[t].then)
         /\ Goto(t, [pc[t] EXCEPT !.at = a, !.wl = w]) =>
               Becomes(t, a, w, pc[t].rl, pc[t].item, pc[t].then)
         /\ Goto(t, [pc[t] EXCEPT !.at = a, !.rl = r]) =>
               Becomes(t, a, pc[t].wl, r, pc[t].item, pc[t].then)
         /\ Goto(t, [pc[t] EXCEPT !.at = a, !.item = i]) =>
               Becomes(t, a, pc[t].wl, pc[t].rl, i, pc[t].then)
  <1>1. ASSUME Goto(t, [pc[t] EXCEPT !.at = a])
        PROVE  Becomes(t, a, pc[t].wl, pc[t].rl, pc[t].item, pc[t].then)
    BY <1>1, GotoLabel
  <1>2. ASSUME Goto(t, [pc[t] EXCEPT !.at = a, !.wl = w])
        PROVE  Becomes(t, a, w, pc[t].rl, pc[t].item, pc[t].then)
    BY <1>2, GotoWriter
  <1>3. ASSUME Goto(t, [pc[t] EXCEPT !.at = a, !.rl = r])
        PROVE  Becomes(t, a, pc[t].wl, r, pc[t].item, pc[t].then)
    BY <1>3, GotoReader
  <1>4. ASSUME Goto(t, [pc[t] EXCEPT !.at = a, !.item = i])
        PROVE  Becomes(t, a, pc[t].wl, pc[t].rl, i, pc[t].then)
    BY <1>4, GotoItem
  <1> QED BY <1>1, <1>2, <1>3, <1>4

(* Where the end of startWriting() or of a write leaves the thread.        *)
LEMMA Returns ==
  ASSUME FrameType, NEW t \in Threads, Return(t)
  PROVE  \E a \in {"wait", "startReading", "idle"} :
           /\ Becomes(t, a, NoLoop, NoLoop, 0, "return")
           /\ a = "wait" <=> t # "io"
  <1>1. CASE t # "io"
    BY <1>1, GotoIdle DEF Return
  <1>2. CASE t = "io" /\ pc[t].then = "reading"
    BY <1>2, GotoIdle DEF Return
  <1>3. CASE t = "io" /\ pc[t].then # "reading"
    BY <1>3, GotoIdle DEF Return
  <1> QED BY <1>1, <1>2, <1>3

(* Where the end of startReading() leaves the thread.                      *)
LEMMA ReadingEnds ==
  ASSUME FrameType, NEW t \in Threads, AfterReading(t)
  PROVE  IF pc[t].item # 0
         THEN Becomes(t, "write", pc[t].wl, NoLoop, pc[t].item, pc[t].then)
         ELSE Becomes(t, IF t = "io" THEN "idle" ELSE "wait", NoLoop, NoLoop, 0, "return")
  <1>1. CASE pc[t].item # 0
    BY <1>1, GotoNext DEF AfterReading
  <1>2. CASE pc[t].item = 0 /\ t = "io"
    BY <1>2, GotoIdle DEF AfterReading
  <1>3. CASE pc[t].item = 0 /\ t # "io"
    BY <1>3, GotoIdle DEF AfterReading
  <1> QED BY <1>1, <1>2, <1>3

-----------------------------------------------------------------------------
(* What the actions do to the items                                        *)

(* A step that leaves the item as it is, but for chunks.                   *)
Kept(i) ==
  /\ items'[i].from = items[i].from /\ items'[i].result = items[i].result
  /\ items'[i].flushed = items[i].flushed

(* A new request changes none of the others.                               *)
LEMMA ItemAdded ==
  ASSUME ItemsType, NEW x \in Users \cup {"auth"}, items' = Append(items, NewItem(x))
  PROVE  /\ ItemsType' /\ Len(items') = Len(items) + 1 /\ Ids \subseteq Ids'
         /\ \A i \in Ids : items'[i] = items[i]
         /\ items'[Len(items')] = NewItem(x)
  BY NewItems, Appended, Items DEF ItemsType, Ids

(* Calling back some of the requests.                                      *)
LEMMA ItemsAnswered ==
  ASSUME ItemsType, NEW ids, NEW r \in {"ok", "error"}, items' = Answered(items, ids, r)
  PROVE  /\ ItemsType' /\ Len(items') = Len(items)
         /\ \A i \in Ids :
              /\ items'[i].from = items[i].from
              /\ i \notin ids \/ ~Pending(i) => items'[i] = items[i]
              /\ i \in ids => ~Pending(i)'
  BY AnsweredItems DEF CalledBack, ItemsType, Ids, Pending

(* The handler of a write changes only its own item.                       *)
LEMMA ItemFlushed ==
  ASSUME ItemsType, NEW w \in writes, WriteSucceeds(w)
  PROVE  /\ ItemsType' /\ Len(items') = Len(items)
         /\ \A i \in Ids : items'[i].from = items[i].from /\ items'[i].result = items[i].result
         /\ \A i \in Ids : i # w.item => items'[i] = items[i]
  <1> DEFINE i == w.item
             q == [items[i] EXCEPT !.flushed = Pending(i)]
  <1>1. items' = [items EXCEPT ![i] = q]
    BY DEF WriteSucceeds
  <1>2. CASE i \in Ids
    <2>1. items[i] \in Item /\ Len(items) \in Nat /\ DOMAIN items = Ids
      BY <1>2, Items
    <2>2. q \in Item /\ q.from = items[i].from /\ q.result = items[i].result
      BY <2>1 DEF Item, Pending
    <2> HIDE DEF q
    <2> QED BY <1>1, <1>2, <2>1, <2>2, ExceptSeq DEF ItemsType, Ids
  <1>3. CASE i \notin Ids
    <2>1. DOMAIN items = Ids /\ items \in Seq(Item)
      BY Items DEF ItemsType
    <2>2. items' = items
      BY <1>1, <1>3, <2>1
    <2> QED BY <1>3, <2>1, <2>2 DEF ItemsType, Ids
  <1> QED BY <1>2, <1>3

(* A chunk is added to those the request has got, unless nobody waits.     *)
Gathered(c) ==
  /\ messageStore' = messageStore /\ \A i \in Ids : Kept(i)
  /\ c.id \in Ids => items'[c.id].chunks \subseteq items[c.id].chunks \cup {c.index}
  /\ c.id \notin messageStore => items' = items

(* The chunk was the last one, and the callback has been called.           *)
Completed(c) ==
  /\ c.id \in messageStore /\ messageStore' = messageStore \ {c.id}
  /\ ~Pending(c.id)'
  /\ Cardinality(items[c.id].chunks \cup {c.index}) = NumChunks
  /\ Pending(c.id) => items'[c.id].chunks = {} /\ ~items'[c.id].flushed

(* A chunk changes only the request it belongs to.                         *)
LEMMA ChunkProcessed ==
  ASSUME TypeInv, NEW l, ProcessChunk(l)
  PROVE  /\ ItemsType' /\ Len(items') = Len(items)
         /\ \E c \in inbox :
              /\ inbox' = inbox \ {c}
              /\ \A i \in Ids : i # c.id => items'[i] = items[i]
              /\ \A i \in Ids : items'[i].from = items[i].from
              /\ Gathered(c) \/ Completed(c)
  <1>0. ItemsType /\ messageStore \subseteq Ids
    BY DEF TypeInv, QueueType
  <1>1. PICK c \in inbox :
          /\ inbox' = inbox \ {c}
          /\ LET known == c.id \in messageStore
                 chunks == items[c.id].chunks \cup {c.index}
                 complete == known /\ 1 \in chunks /\ Cardinality(chunks) = NumChunks
                 added == [items EXCEPT ![c.id].chunks = IF known THEN chunks ELSE @]
             IN  /\ items' = IF complete THEN Answered(added, {c.id}, "ok") ELSE added
                 /\ messageStore' = IF complete THEN messageStore \ {c.id} ELSE messageStore
    BY DEF ProcessChunk
  <1> DEFINE known == c.id \in messageStore
             chunks == items[c.id].chunks \cup {c.index}
             complete == known /\ 1 \in chunks /\ Cardinality(chunks) = NumChunks
             q == [items[c.id] EXCEPT !.chunks = IF known THEN chunks ELSE items[c.id].chunks]
             added == [items EXCEPT ![c.id] = q]
  <1>2. /\ items' = IF complete THEN Answered(added, {c.id}, "ok") ELSE added
        /\ messageStore' = IF complete THEN messageStore \ {c.id} ELSE messageStore
    BY <1>1
  <1>3. Len(items) \in Nat /\ DOMAIN items = Ids /\ items \in Seq(Item)
    BY <1>0, Items DEF ItemsType
  <1>4. /\ added \in Seq(Item) /\ Len(added) = Len(items)
        /\ \A i \in Ids : i # c.id => added[i] = items[i]
        /\ \A i \in Ids : /\ added[i].from = items[i].from
                          /\ added[i].result = items[i].result
                          /\ added[i].flushed = items[i].flushed
        /\ c.id \in Ids => added[c.id].chunks \subseteq chunks
        /\ ~known => added = items
    <2>1. CASE c.id \in Ids
      <3>1. items[c.id] \in Item /\ c.index \in 1 .. NumChunks
        BY <1>0, <2>1, Items DEF TypeInv, ConnectionType
      <3>2. /\ q \in Item /\ q.from = items[c.id].from /\ q.result = items[c.id].result
            /\ q.flushed = items[c.id].flushed /\ q.chunks \subseteq chunks
            /\ ~known => q = items[c.id]
        BY <3>1 DEF Item
      <3> HIDE DEF q
      <3> QED BY <1>3, <2>1, <3>2, ExceptSeq DEF Ids
    <2>2. CASE c.id \notin Ids
      <3>1. added = items
        BY <1>3, <2>2
      <3> QED BY <1>3, <2>2, <3>1
    <2> QED BY <2>1, <2>2
  <1> HIDE DEF added, chunks
  <1>5. CASE ~complete
    <2>1. items' = added /\ messageStore' = messageStore
      BY <1>2, <1>5
    <2>2. Gathered(c)
      BY <1>4, <2>1 DEF Gathered, Kept, chunks
    <2>3. \A i \in Ids : (i # c.id => items'[i] = items[i]) /\ items'[i].from = items[i].from
      BY <1>4, <2>1
    <2>4. ItemsType' /\ Len(items') = Len(items)
      BY <1>4, <2>1 DEF ItemsType
    <2> QED BY <1>1, <2>2, <2>3, <2>4
  <1>6. CASE complete
    <2>1. items' = Answered(added, {c.id}, "ok") /\ c.id \in Ids
      BY <1>0, <1>2, <1>6
    <2>2. /\ items' \in Seq(Item) /\ Len(items') = Len(added)
          /\ \A i \in 1 .. Len(added) :
               IF i \in {c.id} THEN CalledBack(added[i], items'[i]) ELSE items'[i] = added[i]
      BY <1>4, <2>1, AnsweredItems
    <2>3. c.id \in messageStore /\ messageStore' = messageStore \ {c.id}
      BY <1>2, <1>6
    <2>4. Ids = 1 .. Len(added)
      BY <1>4 DEF Ids
    <2>5. ~Pending(c.id)'
      BY <2>1, <2>2, <2>4 DEF Pending, CalledBack
    <2>6. ItemsType' /\ Len(items') = Len(items)
      BY <1>4, <2>2 DEF ItemsType
    <2>7. \A i \in Ids : /\ i # c.id => items'[i] = items[i]
                        /\ items'[i].from = items[i].from
      BY <1>4, <2>2, <2>4 DEF CalledBack
    <2>8. Cardinality(items[c.id].chunks \cup {c.index}) = NumChunks
      BY <1>6 DEF chunks
    <2>9. Pending(c.id) => items'[c.id].chunks = {} /\ ~items'[c.id].flushed
      <3>1. CalledBack(added[c.id], items'[c.id])
        BY <2>1, <2>2, <2>4
      <3>2. added[c.id].result = items[c.id].result
        BY <1>4, <2>1
      <3> QED BY <3>1, <3>2 DEF CalledBack, Pending
    <2>10. Completed(c)
      BY <2>3, <2>5, <2>8, <2>9 DEF Completed
    <2> QED BY <1>1, <2>6, <2>7, <2>10
  <1> QED BY <1>5, <1>6

-----------------------------------------------------------------------------
(* Type correctness                                                        *)

(* A step within t's call that has nothing to do with the write mutex.     *)
Moves(t, a) ==
  /\ \E w, r, i, n : Becomes(t, a, w, r, i, n)
  /\ a # "removeFirst" /\ pc[t].at # "removeFirst" /\ writeMutex' = writeMutex

(* Such a step keeps frames and mutex well-formed.                         *)
LEMMA MoveKeepsTypes ==
  ASSUME TypeInv, NEW t \in Threads, NEW a, Moves(t, a)
  PROVE  FrameType' /\ MutexType'
  BY DEF TypeInv, Moves, Becomes, MutexType

(* Returning is such a step,                                               *)
LEMMA ReturnMoves ==
  ASSUME FrameType, NEW t \in Threads, Return(t), pc[t].at # "removeFirst",
         writeMutex' = writeMutex
  PROVE  \E a : Moves(t, a)
  BY Returns DEF Moves

(* and so is going on behind startReading(),                               *)
LEMMA AfterReadingMoves ==
  ASSUME FrameType, NEW t \in Threads, AfterReading(t), pc[t].at # "removeFirst",
         writeMutex' = writeMutex
  PROVE  \E a : Moves(t, a)
  <1>1. \E a : a # "removeFirst" /\ \E w, r, i, n : Becomes(t, a, w, r, i, n)
    BY ReadingEnds
  <1> QED BY <1>1 DEF Moves

(* and so is every step of a user outside of the loops.                    *)
LEMMA CallMoves ==
  ASSUME TypeInv, NEW u \in Users, Calls(u)
  PROVE  \E a : Moves(u, a)
  <1> u \in Threads /\ FrameType
    BY DEF Threads, TypeInv
  <1>1. CASE sendRequest(u)
    BY <1>1, GotoIdle DEF sendRequest, At, Moves, loops
  <1>2. CASE TestConnected(u)
    <2>1. PICK a : a \in {"startWriting", "wait"} /\ Goto(u, [Idle EXCEPT !.at = a])
      BY <1>2 DEF TestConnected
    <2> QED BY <1>2, <2>1, GotoIdle DEF TestConnected, At, Moves, loops
  <1>3. CASE WaitReturns(u)
    BY <1>3, GotoIdle DEF WaitReturns, At, Moves, loops
  <1> QED BY <1>1, <1>2, <1>3 DEF Calls

(* A step of a loop stays in its call but where it takes or gives back the *)
(* write mutex.                                                            *)
LEMMA LoopMoves ==
  ASSUME TypeInv, NEW t \in Threads, LoopStep(t)
  PROVE  \/ \E a : Moves(t, a)
         \/ pc' = pc /\ writeMutex' = writeMutex
         \/ /\ Becomes(t, "removeFirst", pc[t].wl, pc[t].rl, Head(sendQueue), pc[t].then)
            /\ pc[t].at = "front" /\ writeMutex = None /\ writeMutex' = t
         \/ /\ Becomes(t, "startReading", pc[t].wl, pc[t].rl, pc[t].item, pc[t].then)
            /\ pc[t].at = "removeFirst" /\ writeMutex' = None
  <1> FrameType
    BY DEF TypeInv
  <1>1. CASE startWriting(t)
    <2>1. CASE writeLoop # NoLoop
      BY <1>1, <2>1, ReturnMoves DEF startWriting, At
    <2>2. CASE writeLoop = NoLoop
      <3>1. PICK w : Goto(t, [pc[t] EXCEPT !.at = "front", !.wl = w])
        BY <1>1, <2>2 DEF startWriting
      <3>2. Becomes(t, "front", w, pc[t].rl, pc[t].item, pc[t].then)
        BY <3>1, GotoNext
      <3> QED BY <1>1, <3>2 DEF startWriting, At, Moves
    <2> QED BY <2>1, <2>2
  <1>2. CASE NextFront(t)
    <2>1. CASE writeLoop = pc[t].wl /\ ~permanent_failure /\ sendQueue # <<>>
      BY <1>2, <2>1, GotoNext DEF NextFront, At
    <2>2. CASE ~(writeLoop = pc[t].wl /\ ~permanent_failure /\ sendQueue # <<>>)
      BY <1>2, <2>2, ReturnMoves DEF NextFront, At
    <2> QED BY <2>1, <2>2
  <1>3. CASE NextRemove(t)
    BY <1>3, GotoNext DEF NextRemove, At
  <1>4. CASE WriteRequest(t)
    BY <1>4, ReturnMoves DEF WriteRequest, Die, loops, At
  <1>5. CASE startReading(t)
    <2>1. CASE readLoop # NoLoop
      BY <1>5, <2>1, AfterReadingMoves DEF startReading, At
    <2>2. CASE readLoop = NoLoop
      <3>1. PICK r : Goto(t, [pc[t] EXCEPT !.at = "readNextBytes", !.rl = r])
        BY <1>5, <2>2 DEF startReading
      <3>2. Becomes(t, "readNextBytes", pc[t].wl, r, pc[t].item, pc[t].then)
        BY <3>1, GotoNext
      <3> QED BY <1>5, <3>2 DEF startReading, At, Moves
    <2> QED BY <2>1, <2>2
  <1>6. CASE readNextBytes(t)
    BY <1>6, AfterReadingMoves DEF readNextBytes, Die, loops, At
  <1>7. CASE UseFreedLoop(t)
    BY <1>7 DEF UseFreedLoop, Die, loops
  <1> QED BY <1>1, <1>2, <1>3, <1>4, <1>5, <1>6, <1>7 DEF LoopStep

(* Everything else happens in handlers of the event loop.                  *)
LEMMA HandlerMoves ==
  ASSUME TypeInv,
         \/ Restart \/ (\E n \in 1 .. attempts : Connect(n)) \/ Callback
         \/ (\E l \in reads \cup {w.loop : w \in writes} : Deadline(l))
         \/ (\E w \in writes : Transmit(w))
  PROVE  (\E a : Moves("io", a)) \/ (pc' = pc /\ writeMutex' = writeMutex)
  <1> FrameType /\ "io" \in Threads
    BY DEF TypeInv, Threads
  <1>1. CASE Restart
    <2>1. CASE restartIfCurrent
      <3>1. \/ Goto("io", [Idle EXCEPT !.at = "restart", !.then = "resolve"])
            \/ Goto("io", Idle)
        BY <2>1 DEF restartIfCurrent
      <3>2. \E a \in {"restart", "idle"} : \E n : Becomes("io", a, NoLoop, NoLoop, 0, n)
        BY <3>1, GotoIdle
      <3> QED BY <2>1, <3>2 DEF restartIfCurrent, At, Moves
    <2>2. CASE restartConnection
      <3>1. CASE Goto("io", [pc["io"] EXCEPT !.at = "stopWriting"])
        <4>1. Becomes("io", "stopWriting", pc["io"].wl, pc["io"].rl, pc["io"].item,
                    pc["io"].then)
          BY <3>1, GotoNext
        <4> QED BY <2>2, <3>1, <4>1 DEF restartConnection, At, Moves, Die, loops
      <3>2. CASE Die
        BY <3>2 DEF Die, loops
      <3> QED BY <2>2, <3>1, <3>2 DEF restartConnection
    <2>3. CASE stopWriting
      <3>1. Goto("io", [pc["io"] EXCEPT !.at = "stopReading"])
        BY <2>3 DEF stopWriting
      <3>2. Becomes("io", "stopReading", pc["io"].wl, pc["io"].rl, pc["io"].item,
                    pc["io"].then)
        BY <3>1, GotoNext
      <3> QED BY <2>3, <3>2 DEF stopWriting, At, Moves, loops
    <2>4. CASE stopReading
      <3>1. Goto("io", [pc["io"] EXCEPT !.at = "shutdownSocket"])
        BY <2>4 DEF stopReading
      <3>2. Becomes("io", "shutdownSocket", pc["io"].wl, pc["io"].rl, pc["io"].item,
                    pc["io"].then)
        BY <3>1, GotoNext
      <3> QED BY <2>4, <3>2 DEF stopReading, At, Moves, loops
    <2>5. CASE shutdownSocket
      <3>1. Goto("io", [pc["io"] EXCEPT !.at = "cancelAll"])
        BY <2>5 DEF shutdownSocket
      <3>2. Becomes("io", "cancelAll", pc["io"].wl, pc["io"].rl, pc["io"].item,
                    pc["io"].then)
        BY <3>1, GotoNext
      <3> QED BY <2>5, <3>2 DEF shutdownSocket, At, Moves, loops
    <2>6. CASE cancelAll
      <3>1. PICK a : a \in {"resolve", "idle"} /\ Goto("io", [Idle EXCEPT !.at = a])
        BY <2>6 DEF cancelAll
      <3> QED BY <2>6, <3>1, GotoIdle DEF cancelAll, At, Moves, loops
    <2>7. CASE startResolveHost
      BY <2>7, GotoIdle DEF startResolveHost, At, Moves, loops
    <2> QED BY <1>1, <2>1, <2>2, <2>3, <2>4, <2>5, <2>6, <2>7 DEF Restart
  <1>2. CASE \E n \in 1 .. attempts : Connect(n)
    <2>1. PICK n \in 1 .. attempts : Connect(n)
      BY <1>2
    <2>2. CASE ResolveSucceeds(n)
      BY <2>2 DEF ResolveSucceeds, Die, loops
    <2>3. CASE ResolveFails(n)
      BY <2>3 DEF ResolveFails, loops
    <2>4. CASE ConnectSucceeds(n)
      BY <2>4 DEF ConnectSucceeds, loops
    <2>5. CASE ConnectFails(n)
      BY <2>5, GotoIdle DEF ConnectFails, Done, Shutdown, At, Moves, loops
    <2>6. CASE HeaderSucceeds(n)
      <3>1. Goto("io", [Idle EXCEPT !.at = "startWriting", !.then = "reading"])
        BY <2>6 DEF HeaderSucceeds
      <3>2. Becomes("io", "startWriting", NoLoop, NoLoop, 0, "reading")
        BY <3>1, GotoIdle
      <3> QED BY <2>6, <3>2 DEF HeaderSucceeds, Done, At, Moves, loops
    <2>7. CASE HeaderFails(n)
      BY <2>7, GotoIdle DEF HeaderFails, Done, Shutdown, At, Moves, loops
    <2> QED BY <2>1, <2>2, <2>3, <2>4, <2>5, <2>6, <2>7 DEF Connect
  <1>3. CASE Callback
    <2>1. CASE \E l \in reads \cup {pc["io"].self} : ProcessChunk(l)
      <3>1. PICK l : ProcessChunk(l)
        BY <2>1
      <3>2. Goto("io", [Idle EXCEPT !.at = "readNextBytes", !.rl = l, !.self = l])
        BY <3>1 DEF ProcessChunk
      <3>3. Becomes("io", "readNextBytes", NoLoop, l, 0, "return")
        BY <3>2, GotoIdle
      <3> QED BY <3>1, <3>3 DEF ProcessChunk, At, Moves, loops
    <2>2. CASE \E l \in reads : ReadFails(l)
      BY <2>2, GotoIdle DEF ReadFails, At, Moves, loops
    <2>3. CASE \E w \in writes : WriteSucceeds(w)
      <3>1. PICK w \in writes : WriteSucceeds(w)
        BY <2>3
      <3>2. Goto("io", [Idle EXCEPT !.at = "front", !.wl = w.loop, !.self = w.loop])
        BY <3>1 DEF WriteSucceeds
      <3>3. Becomes("io", "front", w.loop, NoLoop, 0, "return")
        BY <3>2, GotoIdle
      <3> QED BY <3>1, <3>3 DEF WriteSucceeds, At, Moves, loops
    <2>4. CASE \E w \in writes : WriteFails(w)
      BY <2>4, GotoIdle DEF WriteFails, At, Moves, loops
    <2> QED BY <1>3, <2>1, <2>2, <2>3, <2>4 DEF Callback
  <1>4. CASE \E l \in reads \cup {w.loop : w \in writes} : Deadline(l)
    BY <1>4, GotoIdle DEF Deadline, At, Moves, loops
  <1>5. CASE \E w \in writes : Transmit(w)
    BY <1>5 DEF Transmit, loops
  <1> QED BY <1>1, <1>2, <1>3, <1>4, <1>5

(* Every step keeps the frames and the write mutex well-formed.            *)
LEMMA FrameStep ==
  ASSUME TypeInv, Next
  PROVE  FrameType' /\ MutexType'
  <1>1. None \notin Threads /\ Users \subseteq Threads /\ "io" \in Threads
    BY DEF Threads
  <1>2. ASSUME pc' = pc, writeMutex' = writeMutex
        PROVE  FrameType' /\ MutexType'
    BY <1>2 DEF TypeInv, FrameType, MutexType
  <1>3. ASSUME NEW u \in Users, Calls(u)
        PROVE  FrameType' /\ MutexType'
    BY <1>1, <1>3, CallMoves, MoveKeepsTypes
  <1>4. ASSUME NEW t \in Threads, LoopStep(t)
        PROVE  FrameType' /\ MutexType'
    <2>1. CASE \E a : Moves(t, a)
      BY <2>1, MoveKeepsTypes
    <2>2. CASE pc' = pc /\ writeMutex' = writeMutex
      BY <1>2, <2>2
    <2>3. CASE /\ Becomes(t, "removeFirst", pc[t].wl, pc[t].rl, Head(sendQueue), pc[t].then)
               /\ pc[t].at = "front" /\ writeMutex = None /\ writeMutex' = t
      BY <1>1, <2>3 DEF TypeInv, MutexType, Becomes
    <2>4. CASE /\ Becomes(t, "startReading", pc[t].wl, pc[t].rl, pc[t].item, pc[t].then)
               /\ pc[t].at = "removeFirst" /\ writeMutex' = None
      BY <1>1, <2>4 DEF TypeInv, MutexType, Becomes
    <2> QED BY <1>4, <2>1, <2>2, <2>3, <2>4, LoopMoves
  <1>5. ASSUME (\E a : Moves("io", a)) \/ (pc' = pc /\ writeMutex' = writeMutex)
        PROVE  FrameType' /\ MutexType'
    BY <1>1, <1>2, <1>5, MoveKeepsTypes
  <1> QED BY <1>3, <1>4, <1>5, HandlerMoves DEF Next

(* The actions that touch items, queue and store.                          *)
LEMMA RequestSteps ==
  ASSUME Next
  PROVE  \/ \E u \in Users : sendRequest(u)
         \/ \E t \in Threads : NextFront(t) \/ NextRemove(t)
         \/ \E l : ProcessChunk(l)
         \/ \E w \in writes : WriteSucceeds(w) \/ WriteFails(w)
         \/ cancelAll
         \/ \E n : HeaderSucceeds(n)
         \/ UNCHANGED requests
  <1>1. ASSUME NEW u \in Users, TestConnected(u) \/ WaitReturns(u)
        PROVE  UNCHANGED requests
    BY <1>1 DEF TestConnected, WaitReturns
  <1>2. ASSUME NEW t \in Threads,
               startWriting(t) \/ WriteRequest(t) \/ startReading(t) \/ readNextBytes(t)
                 \/ UseFreedLoop(t)
        PROVE  UNCHANGED requests
    BY <1>2 DEF startWriting, WriteRequest, startReading, readNextBytes, UseFreedLoop, Die
  <1>3. ASSUME restartIfCurrent \/ restartConnection \/ stopWriting \/ stopReading
                 \/ shutdownSocket \/ startResolveHost
        PROVE  UNCHANGED requests
    BY <1>3 DEF restartIfCurrent, restartConnection, stopWriting, stopReading,
                shutdownSocket, startResolveHost, Die
  <1>4. ASSUME NEW n, ResolveSucceeds(n) \/ ResolveFails(n) \/ ConnectSucceeds(n)
                        \/ ConnectFails(n) \/ HeaderFails(n)
        PROVE  UNCHANGED requests
    BY <1>4 DEF ResolveSucceeds, ResolveFails, ConnectSucceeds, ConnectFails, HeaderFails, Die
  <1>5. ASSUME NEW l, ReadFails(l) \/ Deadline(l)
        PROVE  UNCHANGED requests
    BY <1>5 DEF ReadFails, Deadline
  <1>6. ASSUME NEW w, Transmit(w)
        PROVE  UNCHANGED requests
    BY <1>6 DEF Transmit
  <1> QED BY <1>1, <1>2, <1>3, <1>4, <1>5, <1>6
          DEF Next, Calls, LoopStep, Restart, Connect, Callback

(* Taking requests from the store keeps the types.                         *)
LEMMA ShrinkingType ==
  ASSUME TypeInv, ItemsType', Len(items') = Len(items), sendQueue' = sendQueue,
         messageStore' \subseteq messageStore
  PROVE  QueueType'
  BY DEF TypeInv, QueueType, Ids

(* Queueing a new request keeps the types.                                 *)
LEMMA QueueAdded ==
  ASSUME TypeInv, NEW x \in Users \cup {"auth"}, items' = Append(items, NewItem(x)),
         messageStore' = messageStore,
         sendQueue' = Append(sendQueue, Len(items'))
           \/ sendQueue' = <<Len(items')>> \o sendQueue
  PROVE  QueueType'
  <1>1. /\ Len(items) \in Nat /\ Len(items') = Len(items) + 1
        /\ sendQueue \in Seq(Nat) /\ messageStore \subseteq Ids
        /\ \A j \in 1 .. Len(sendQueue) : sendQueue[j] \in 1 .. Len(items)
    BY ItemAdded, Items DEF TypeInv, QueueType, Ids
  <1>2. CASE sendQueue' = Append(sendQueue, Len(items'))
    <2>1. /\ sendQueue' \in Seq(Nat) /\ Len(sendQueue') = Len(sendQueue) + 1
          /\ Len(sendQueue) \in Nat
          /\ \A j \in 1 .. Len(sendQueue) : sendQueue'[j] = sendQueue[j]
          /\ sendQueue'[Len(sendQueue) + 1] = Len(items')
      BY <1>1, <1>2, Appended
    <2>2. ASSUME NEW j \in 1 .. Len(sendQueue')
          PROVE  sendQueue'[j] \in 1 .. Len(items')
      <3>1. j \in 1 .. Len(sendQueue) \/ j = Len(sendQueue) + 1
        BY <2>1
      <3>2. Len(items') \in 1 .. Len(items') /\ 1 .. Len(items) \subseteq 1 .. Len(items')
        BY <1>1
      <3>3. CASE j \in 1 .. Len(sendQueue)
        <4>1. sendQueue'[j] \in 1 .. Len(items)
          BY <1>1, <2>1, <3>3
        <4> QED BY <3>2, <4>1
      <3> QED BY <2>1, <3>1, <3>2, <3>3
    <2> QED BY <1>1, <2>1, <2>2 DEF QueueType, Ids
  <1>3. CASE sendQueue' = <<Len(items')>> \o sendQueue
    <2>1. /\ sendQueue' \in Seq(Nat) /\ Len(sendQueue') = Len(sendQueue) + 1
          /\ Len(sendQueue) \in Nat
          /\ \A j \in 2 .. Len(sendQueue) + 1 : sendQueue'[j] = sendQueue[j - 1]
          /\ sendQueue'[1] = Len(items')
      BY <1>1, <1>3, Prepended
    <2>2. ASSUME NEW j \in 1 .. Len(sendQueue')
          PROVE  sendQueue'[j] \in 1 .. Len(items')
      <3>1. j = 1 \/ (j \in 2 .. Len(sendQueue) + 1 /\ j - 1 \in 1 .. Len(sendQueue))
        BY <2>1
      <3>2. Len(items') \in 1 .. Len(items') /\ 1 .. Len(items) \subseteq 1 .. Len(items')
        BY <1>1
      <3>3. CASE j \in 2 .. Len(sendQueue) + 1 /\ j - 1 \in 1 .. Len(sendQueue)
        <4>1. sendQueue'[j] \in 1 .. Len(items)
          BY <1>1, <2>1, <3>3
        <4> QED BY <3>2, <4>1
      <3> QED BY <2>1, <3>1, <3>2, <3>3
    <2> QED BY <1>1, <2>1, <2>2 DEF QueueType, Ids
  <1> QED BY <1>2, <1>3

(* Every step keeps the types of items, queue and store.                   *)
LEMMA RequestTypes ==
  ASSUME TypeInv, FirstIsHeld, Next
  PROVE  ItemsType' /\ QueueType'
  <1> ItemsType /\ QueueType
    BY DEF TypeInv
  <1>1. ASSUME NEW u \in Users, sendRequest(u)
        PROVE  ItemsType' /\ QueueType'
    BY <1>1, ItemAdded, QueueAdded DEF sendRequest
  <1>2. ASSUME NEW t \in Threads, NextFront(t)
        PROVE  ItemsType' /\ QueueType'
    <2>1. items' = items /\ sendQueue' = sendQueue
      BY <1>2 DEF NextFront
    <2>2. \/ messageStore' = messageStore
          \/ sendQueue # <<>> /\ messageStore' = messageStore \cup {Head(sendQueue)}
      BY <1>2 DEF NextFront
    <2> QED BY <2>1, <2>2, Queue DEF ItemsType, QueueType, Ids
  <1>3. ASSUME NEW t \in Threads, NextRemove(t)
        PROVE  ItemsType' /\ QueueType'
    <2>1. items' = items /\ sendQueue' = Tail(sendQueue) /\ messageStore' = messageStore
      BY <1>3 DEF NextRemove
    <2>2. sendQueue # <<>>
      BY <1>3 DEF NextRemove, At, FirstIsHeld
    <2>3. /\ Tail(sendQueue) \in Seq(Nat) /\ Len(Tail(sendQueue)) = Len(sendQueue) - 1
          /\ Len(sendQueue) \in Nat \ {0}
          /\ \A j \in 1 .. Len(sendQueue) - 1 : Tail(sendQueue)[j] = sendQueue[j + 1]
      BY <2>2, Shortened DEF QueueType
    <2> QED BY <2>1, <2>3 DEF ItemsType, QueueType, Ids
  <1>4. ASSUME NEW l, ProcessChunk(l)
        PROVE  ItemsType' /\ QueueType'
    <2>1. ItemsType' /\ Len(items') = Len(items) /\ messageStore' \subseteq messageStore
      BY <1>4, ChunkProcessed DEF Gathered, Completed
    <2>2. sendQueue' = sendQueue
      BY <1>4 DEF ProcessChunk
    <2> QED BY <2>1, <2>2, ShrinkingType
  <1>5. ASSUME NEW w \in writes, WriteSucceeds(w)
        PROVE  ItemsType' /\ QueueType'
    BY <1>5, ItemFlushed, ShrinkingType DEF WriteSucceeds
  <1>6. ASSUME NEW w \in writes, WriteFails(w)
        PROVE  ItemsType' /\ QueueType'
    BY <1>6, ItemsAnswered, ShrinkingType DEF WriteFails, Invoke
  <1>7. CASE cancelAll
    BY <1>7, ItemsAnswered, ShrinkingType DEF cancelAll, Invoke
  <1>8. ASSUME NEW n, HeaderSucceeds(n)
        PROVE  ItemsType' /\ QueueType'
    BY <1>8, ItemAdded, QueueAdded DEF HeaderSucceeds, insertAuthenticationRequests
  <1>9. CASE UNCHANGED requests
    BY <1>9 DEF requests, ItemsType, QueueType, Ids
  <1> QED BY <1>1, <1>2, <1>3, <1>4, <1>5, <1>6, <1>7, <1>8, <1>9, RequestSteps

(* The flag that gives the connection up stays Boolean.                    *)
LEMMA InvokeType ==
  ASSUME NEW ids, NEW r, Invoke(ids, r)
  PROVE  permanent_failure' \in BOOLEAN
  BY DEF Invoke

(* The count of the faults stays a number.                                 *)
LEMMA FailsType ==
  ASSUME faults \in Nat, NEW kind, NEW n, Fails(kind, n)
  PROVE  faults' \in Nat
  BY DEF Fails

(* Every step keeps the types of the connection.                           *)
LEMMA ConnectionStep ==
  ASSUME TypeInv, Next
  PROVE  ConnectionType'
  <1> USE DEF ConnectionType, connection, network, loops
  <1> ConnectionType
    BY DEF TypeInv
  <1>1. ASSUME NEW u \in Users, Calls(u)
        PROVE  ConnectionType'
    BY <1>1 DEF Calls, sendRequest, TestConnected, WaitReturns
  <1>2. ASSUME NEW t \in Threads, LoopStep(t)
        PROVE  ConnectionType'
    BY <1>2 DEF LoopStep, startWriting, NextFront, NextRemove, WriteRequest, startReading,
                readNextBytes, UseFreedLoop, Die
  <1>3. CASE Restart
    <2>1. CASE \/ restartIfCurrent \/ restartConnection \/ stopWriting \/ stopReading
               \/ shutdownSocket
      BY <2>1 DEF restartIfCurrent, restartConnection, stopWriting, stopReading,
                  shutdownSocket, Die
    <2>2. CASE cancelAll
      BY <2>2, InvokeType DEF cancelAll
    <2>3. CASE startResolveHost
      BY <2>3 DEF startResolveHost
    <2> QED BY <1>3, <2>1, <2>2, <2>3 DEF Restart
  <1>4. ASSUME NEW n \in 1 .. attempts, Connect(n)
        PROVE  ConnectionType'
    <2>1. CASE ResolveSucceeds(n)
      BY <2>1 DEF ResolveSucceeds, Die
    <2>2. CASE ResolveFails(n)
      BY <2>2 DEF ResolveFails
    <2>3. CASE ConnectSucceeds(n)
      BY <2>3 DEF ConnectSucceeds
    <2>4. CASE ConnectFails(n)
      BY <2>4, FailsType DEF ConnectFails
    <2>5. CASE HeaderSucceeds(n)
      BY <2>5 DEF HeaderSucceeds
    <2>6. CASE HeaderFails(n)
      BY <2>6, FailsType DEF HeaderFails
    <2> QED BY <1>4, <2>1, <2>2, <2>3, <2>4, <2>5, <2>6 DEF Connect
  <1>5. ASSUME NEW l, ProcessChunk(l)
        PROVE  ConnectionType'
    BY <1>5 DEF ProcessChunk
  <1>6. ASSUME NEW l, ReadFails(l) \/ Deadline(l)
        PROVE  ConnectionType'
    BY <1>6 DEF ReadFails, Deadline, Fails
  <1>7. ASSUME NEW w \in writes, WriteSucceeds(w) \/ WriteFails(w)
        PROVE  ConnectionType'
    BY <1>7, InvokeType, FailsType DEF WriteSucceeds, WriteFails
  <1>8. ASSUME NEW w \in writes, Transmit(w)
        PROVE  ConnectionType'
    BY <1>8 DEF Transmit
  <1> QED BY <1>1, <1>2, <1>3, <1>4, <1>5, <1>6, <1>7, <1>8 DEF Next, Callback

-----------------------------------------------------------------------------
(* A request whose caller waits is held                                    *)

AllHeld == \A i \in Ids : Waiting(i) => IsHeld(i)

FirstHeld ==
  sendQueue # <<>> /\ (Waiting(Head(sendQueue)) => Head(sendQueue) \in messageStore)

(* Steps that answer what they take from the store.                        *)
LEMMA AnswersKeepHeld ==
  ASSUME TypeInv, Len(items') = Len(items), sendQueue' = sendQueue,
         \A i \in Ids : items'[i].from = items[i].from,
         \A i \in Ids : Pending(i)' =>
            Pending(i) /\ (i \in messageStore => i \in messageStore')
  PROVE  (AllHeld => AllHeld') /\ (FirstHeld => FirstHeld')
  <1>1. Ids' = Ids
    BY DEF Ids
  <1>2. \A i \in Ids : Waiting(i)' => Waiting(i) /\ (i \in messageStore => i \in messageStore')
    BY <1>1 DEF Waiting
  <1>3. AllHeld => AllHeld'
    BY <1>1, <1>2 DEF AllHeld, IsHeld
  <1>4. FirstHeld => FirstHeld'
    BY <1>1, <1>2, Queue DEF FirstHeld, TypeInv, Waiting
  <1> QED BY <1>3, <1>4

(* A new request is held, and takes nobody else out of the queue.          *)
LEMMA ItemsKeepHeld ==
  ASSUME TypeInv, NEW x \in Users \cup {"auth"}, items' = Append(items, NewItem(x)),
         messageStore' = messageStore,
         \/ x \in Users /\ sendQueue' = Append(sendQueue, Len(items'))
         \/ x = "auth" /\ sendQueue' = <<Len(items')>> \o sendQueue
  PROVE  (AllHeld => AllHeld') /\ (FirstHeld => FirstHeld')
  <1>1. /\ Len(items) \in Nat /\ Len(items') = Len(items) + 1
        /\ \A i \in Ids : items'[i] = items[i]
        /\ items'[Len(items')] = NewItem(x)
        /\ sendQueue \in Seq(Nat)
    BY ItemAdded, Items DEF TypeInv, QueueType
  <1>9. PICK k : k = Len(items')
    OBVIOUS
  <1>2. \A i \in Ids' : i \in Ids \/ i = k
    BY <1>1, <1>9 DEF Ids
  <1>3. \A i \in Ids : Waiting(i)' => Waiting(i)
    BY <1>1 DEF Waiting, Pending
  <1>4. QueueType /\ Len(sendQueue) \in Nat
    BY Queue DEF TypeInv
  <1>5. CASE x \in Users /\ sendQueue' = Append(sendQueue, Len(items'))
    <2>1. /\ sendQueue' \in Seq(Nat) /\ Len(sendQueue') = Len(sendQueue) + 1
          /\ \A j \in 1 .. Len(sendQueue) : sendQueue'[j] = sendQueue[j]
          /\ sendQueue'[Len(sendQueue) + 1] = Len(items')
          /\ sendQueue' # <<>>
      BY <1>1, <1>5, Appended
    <2>2. \A i \in Ids : IsHeld(i) => IsHeld(i)'
      BY <1>4, <2>1 DEF IsHeld
    <2>3. IsHeld(k)'
      BY <1>4, <1>9, <2>1 DEF IsHeld
    <2>4. AllHeld => AllHeld'
      BY <1>2, <1>3, <2>2, <2>3 DEF AllHeld
    <2>5. sendQueue # <<>> => Head(sendQueue') = Head(sendQueue)
      BY <1>4, <2>1, Queue, Shortened
    <2>6. FirstHeld => FirstHeld'
      BY <1>3, <1>4, <2>1, <2>5, Queue DEF FirstHeld
    <2> QED BY <2>4, <2>6
  <1>6. CASE x = "auth" /\ sendQueue' = <<Len(items')>> \o sendQueue
    <2>1. /\ sendQueue' \in Seq(Nat) /\ Len(sendQueue') = Len(sendQueue) + 1
          /\ \A j \in 2 .. Len(sendQueue) + 1 : sendQueue'[j] = sendQueue[j - 1]
          /\ sendQueue'[1] = Len(items')
          /\ sendQueue' # <<>>
      BY <1>1, <1>6, Prepended
    <2>2. ASSUME NEW j \in 1 .. Len(sendQueue)
          PROVE  j + 1 \in 1 .. Len(sendQueue') /\ sendQueue'[j + 1] = sendQueue[j]
      BY <1>4, <2>1
    <2>3. \A i \in Ids : IsHeld(i) => IsHeld(i)'
      BY <2>2 DEF IsHeld
    <2>4. ~Waiting(k)'
      BY <1>1, <1>9, <1>6, NewItems DEF Waiting
    <2>5. AllHeld => AllHeld'
      BY <1>2, <1>3, <2>3, <2>4 DEF AllHeld
    <2>6. Head(sendQueue') = k
      BY <1>9, <2>1, Shortened
    <2>7. FirstHeld'
      BY <2>1, <2>4, <2>6 DEF FirstHeld
    <2> QED BY <2>5, <2>7
  <1> QED BY <1>5, <1>6

(* Only with the mutex is anything removed from the queue.                 *)
LEMMA RequestsKeepHeld ==
  ASSUME TypeInv, FirstIsHeld, Next, ~ \E t \in Threads : NextRemove(t)
  PROVE  (AllHeld => AllHeld') /\ (FirstHeld => FirstHeld')
  <1> ItemsType
    BY DEF TypeInv
  <1>1. ASSUME NEW u \in Users, sendRequest(u)
        PROVE  (AllHeld => AllHeld') /\ (FirstHeld => FirstHeld')
    BY <1>1, ItemsKeepHeld DEF sendRequest
  <1>2. ASSUME NEW t \in Threads, NextFront(t)
        PROVE  (AllHeld => AllHeld') /\ (FirstHeld => FirstHeld')
    <2>1. items' = items /\ sendQueue' = sendQueue /\ messageStore \subseteq messageStore'
      BY <1>2 DEF NextFront
    <2> QED BY <2>1, AnswersKeepHeld DEF Pending
  <1>4. ASSUME NEW l, ProcessChunk(l)
        PROVE  (AllHeld => AllHeld') /\ (FirstHeld => FirstHeld')
    <2>1. sendQueue' = sendQueue
      BY <1>4 DEF ProcessChunk
    <2>2. Len(items') = Len(items)
      BY <1>4, ChunkProcessed
    <2>3. PICK c \in inbox :
              /\ \A i \in Ids : i # c.id => items'[i] = items[i]
              /\ \A i \in Ids : items'[i].from = items[i].from
              /\ Gathered(c) \/ Completed(c)
      BY <1>4, ChunkProcessed
    <2>4. \A i \in Ids : Pending(i)' =>
            Pending(i) /\ (i \in messageStore => i \in messageStore')
      BY <2>3 DEF Pending, Kept, Gathered, Completed
    <2> QED BY <2>1, <2>2, <2>3, <2>4, AnswersKeepHeld
  <1>5. ASSUME NEW w \in writes, WriteSucceeds(w)
        PROVE  (AllHeld => AllHeld') /\ (FirstHeld => FirstHeld')
    <2>1. sendQueue' = sendQueue /\ messageStore' = messageStore
      BY <1>5 DEF WriteSucceeds
    <2> QED BY <1>5, <2>1, ItemFlushed, AnswersKeepHeld DEF Pending
  <1>6. ASSUME NEW w \in writes, WriteFails(w)
        PROVE  (AllHeld => AllHeld') /\ (FirstHeld => FirstHeld')
    <2>1. /\ sendQueue' = sendQueue /\ messageStore' = messageStore \ {w.item}
          /\ items' = Answered(items, {w.item}, "error")
      BY <1>6 DEF WriteFails, Invoke
    <2>2. /\ Len(items') = Len(items)
          /\ \A i \in Ids :
              /\ items'[i].from = items[i].from
              /\ i \notin {w.item} \/ ~Pending(i) => items'[i] = items[i]
              /\ i \in {w.item} => ~Pending(i)'
      BY <2>1, ItemsAnswered
    <2> QED BY <2>1, <2>2, AnswersKeepHeld DEF Pending
  <1>7. ASSUME cancelAll
        PROVE  (AllHeld => AllHeld') /\ (FirstHeld => FirstHeld')
    <2>1. /\ sendQueue' = sendQueue /\ messageStore' = {}
          /\ items' = Answered(items, messageStore, "error")
      BY <1>7 DEF cancelAll, Invoke
    <2>2. /\ Len(items') = Len(items)
          /\ \A i \in Ids :
              /\ items'[i].from = items[i].from
              /\ i \notin messageStore \/ ~Pending(i) => items'[i] = items[i]
              /\ i \in messageStore => ~Pending(i)'
      BY <2>1, ItemsAnswered
    <2> QED BY <2>1, <2>2, AnswersKeepHeld DEF Pending
  <1>8. ASSUME NEW n, HeaderSucceeds(n)
        PROVE  (AllHeld => AllHeld') /\ (FirstHeld => FirstHeld')
    BY <1>8, ItemsKeepHeld DEF HeaderSucceeds, insertAuthenticationRequests
  <1>9. ASSUME UNCHANGED requests
        PROVE  (AllHeld => AllHeld') /\ (FirstHeld => FirstHeld')
    BY <1>9, AnswersKeepHeld DEF requests, Pending
  <1> QED BY <1>1, <1>2, <1>4, <1>5, <1>6, <1>7, <1>8, <1>9, RequestSteps

(* What is removed from the queue is in the store, or nobody waits for it. *)
LEMMA RemoveKeepsHeld ==
  ASSUME TypeInv, FirstIsHeld, AllHeld, NEW t \in Threads, NextRemove(t)
  PROVE  AllHeld' /\ FirstIsHeld'
  <1>1. /\ items' = items /\ sendQueue' = Tail(sendQueue) /\ messageStore' = messageStore
        /\ pc[t].at = "removeFirst" /\ writeMutex' = None
    BY DEF NextRemove, At
  <1>2. FirstHeld
    BY <1>1 DEF FirstIsHeld, FirstHeld
  <1>3. /\ Len(Tail(sendQueue)) = Len(sendQueue) - 1
        /\ Len(sendQueue) \in Nat \ {0} /\ Head(sendQueue) = sendQueue[1]
        /\ \A j \in 1 .. Len(sendQueue) - 1 : Tail(sendQueue)[j] = sendQueue[j + 1]
    BY <1>2, Shortened DEF FirstHeld, TypeInv, QueueType
  <1>4. ASSUME NEW i \in Ids, Waiting(i), NEW j \in 1 .. Len(sendQueue), sendQueue[j] = i
        PROVE  IsHeld(i)'
    <2>1. CASE j = 1
      BY <1>1, <1>2, <1>3, <1>4, <2>1 DEF FirstHeld, IsHeld
    <2>2. CASE j # 1
      <3>1. j - 1 \in 1 .. Len(sendQueue') /\ sendQueue'[j - 1] = sendQueue[j]
        BY <1>1, <1>3, <2>2
      <3> QED BY <1>4, <3>1 DEF IsHeld
    <2> QED BY <2>1, <2>2
  <1>5. AllHeld'
    BY <1>1, <1>4 DEF AllHeld, IsHeld, Ids, Waiting, Pending
  <1>6. FirstIsHeld'
    <2>0. writeMutex = t /\ t # None
      BY <1>1 DEF TypeInv, MutexType, Threads
    <2>1. Becomes(t, "startReading", pc[t].wl, pc[t].rl, pc[t].item, pc[t].then)
      BY <1>1, <2>0, LoopMoves DEF LoopStep, Moves
    <2>2. \A u \in Threads : pc[u].at = "removeFirst" => u = t
      BY <1>1 DEF TypeInv, MutexType
    <2> QED BY <2>1, <2>2 DEF FirstIsHeld, Becomes
  <1> QED BY <1>5, <1>6

(* Every step keeps the waiting requests held.                             *)
LEMMA HeldStep ==
  ASSUME TypeInv, HeldInv, Next
  PROVE  HeldInv'
  <1> FirstIsHeld /\ AllHeld
    BY DEF HeldInv, AllHeld
  <1>1. CASE \E t \in Threads : NextRemove(t)
    BY <1>1, RemoveKeepsHeld DEF HeldInv, AllHeld
  <1>2. CASE ~ \E t \in Threads : NextRemove(t)
    <2>1. AllHeld' /\ (FirstHeld => FirstHeld')
      BY <1>2, RequestsKeepHeld
    <2>2. ASSUME NEW u \in Threads, pc'[u].at = "removeFirst"
          PROVE  FirstHeld'
      <3>1. CASE pc[u].at = "removeFirst"
        BY <2>1, <3>1 DEF FirstIsHeld, FirstHeld
      <3>2. CASE pc[u].at # "removeFirst"
        <4>1. PICK t \in Threads :
                /\ LoopStep(t)
                /\ Becomes(t, "removeFirst", pc[t].wl, pc[t].rl, Head(sendQueue), pc[t].then)
                /\ pc[t].at = "front" /\ writeMutex = None /\ writeMutex' = t
          <5>1. ASSUME NEW t \in Threads, NEW a, Moves(t, a)
                PROVE  FALSE
            BY <2>2, <3>2, <5>1 DEF Moves, Becomes
          <5>2. CASE \E v \in Users : Calls(v)
            BY <5>1, <5>2, CallMoves DEF Threads
          <5>3. CASE \E t \in Threads : LoopStep(t)
            <6>1. PICK t \in Threads : LoopStep(t)
              BY <5>3
            <6>2. pc' # pc
              BY <2>2, <3>2
            <6>3. ~ Becomes(t, "startReading", pc[t].wl, pc[t].rl, pc[t].item, pc[t].then)
              BY <2>2, <3>2 DEF Becomes
            <6> QED BY <5>1, <6>1, <6>2, <6>3, LoopMoves
          <5>4. CASE (\E a : Moves("io", a)) \/ (pc' = pc /\ writeMutex' = writeMutex)
            BY <2>2, <3>2, <5>1, <5>4 DEF Threads
          <5> QED BY <5>2, <5>3, <5>4, HandlerMoves DEF Next
        <4>5. writeMutex' # writeMutex
          BY <4>1 DEF Threads
        <4>2. NextFront(t)
          BY <4>1, <4>5 DEF LoopStep, startWriting, NextRemove, WriteRequest, startReading,
                            readNextBytes, UseFreedLoop, At, Die, loops
        <4>3. /\ sendQueue # <<>> /\ messageStore' = messageStore \cup {Head(sendQueue)}
              /\ sendQueue' = sendQueue
          BY <4>2, <4>5 DEF NextFront
        <4> QED BY <4>3 DEF FirstHeld
      <3> QED BY <3>1, <3>2
    <2> QED BY <2>1, <2>2 DEF HeldInv, FirstIsHeld, FirstHeld, AllHeld
  <1> QED BY <1>1, <1>2
-----------------------------------------------------------------------------
(* A callback is called once, whatever fails                               *)

OnItem(t) == pc[t].item # 0

(* The thread or handler that has a write loop in hand.                    *)
Carries(t) == pc[t].at \in {"front", "removeFirst"} \/ OnItem(t)

Write(l, i, d) == [loop |-> l, item |-> i, done |-> d]

(* Every write loop is in one hand, a call's or a pending write's.         *)
HandsInv ==
  /\ IsFiniteSet(reads) /\ IsFiniteSet(writes)
  /\ \A t \in Threads : pc[t].at = "write" => OnItem(t)
  /\ \A t \in Threads : Carries(t) =>
       /\ pc[t].wl # NoLoop
       /\ \A u \in Threads \ {t} : Carries(u) => pc[u].wl # pc[t].wl
       /\ \A w \in writes : w.loop # pc[t].wl
  /\ \A w \in writes :
       /\ w = Write(w.loop, w.item, w.done) /\ w.loop.socket # 0
       /\ \A v \in writes : v.loop = w.loop => v = w

(* This socket is not one that is still to be made.                        *)
Made(s) == s \in 0 .. attempts /\ (s # 0 => [op |-> "resolve", n |-> s] \notin setup)

SocketInv ==
  /\ Made(socket)
  /\ \A t \in Threads : Made(pc[t].wl.socket)
  /\ \A w \in writes : Made(w.loop.socket)

(* What has been taken from the queue is in the store until it is          *)
(* answered, and what is answered is left alone.                           *)
TakenInv ==
  /\ \A t \in Threads : OnItem(t) =>
       pc[t].item \in Ids /\ (Pending(pc[t].item) => pc[t].item \in messageStore)
  /\ \A w \in writes : w.item \in Ids /\ (Pending(w.item) => w.item \in messageStore)
  /\ sent \subseteq Ids
  /\ \A i \in Ids : /\ ~Pending(i) => items[i].chunks = {} /\ ~items[i].flushed
                    /\ items[i].chunks # {} => i \in messageStore

(* The event loop is not shutting the connection down.                     *)
Open ==
  pc["io"].at \notin {"restart", "stopWriting", "stopReading", "shutdownSocket", "cancelAll"}

(* While it is open, only the current loop has a request that waits in     *)
(* hand, the server gets a request once, and nothing of a response is lost *)
(* or kept beyond its request.                                             *)
AnswerInv ==
  /\ \A t \in Threads : OnItem(t) /\ Pending(pc[t].item) => pc[t].wl = writeLoop
  /\ \A w \in writes : Pending(w.item) => w.loop = writeLoop
  /\ \A i \in sent : Pending(i) /\ ~items[i].flushed =>
       \E w \in writes : w.done /\ w.item = i
  /\ \A w \in writes : ~w.done =>
       /\ Pending(w.item) => w.item \notin sent
       /\ w.loop.socket = socket => Pending(w.item)
  /\ \A c \in inbox :
       /\ c = [id |-> c.id, index |-> c.index]
       /\ c.id \in sent /\ Pending(c.id) /\ c.id \in messageStore
       /\ c.index \notin items[c.id].chunks
  /\ \A i \in Ids : items[i].chunks # {} => i \in sent

ShutInv == pc["io"].at = "cancelAll" => socket = 0 /\ sent = {} /\ inbox = {}

OnceInv == HandsInv /\ SocketInv /\ TakenInv /\ ShutInv /\ (Open => AnswerInv)

(* The image of a finite set is finite.                                    *)
LEMMA FiniteImage ==
  ASSUME NEW S, IsFiniteSet(S), NEW f, DOMAIN f = S
  PROVE  IsFiniteSet({f[x] : x \in S})
  <1> DEFINE T == {f[x] : x \in S}
             g == [x \in S |-> f[x]]
  <1>1. g \in Surjection(S, T)
    BY DEF Surjection
  <1> QED BY <1>1, FS_Surjection

(* A new loop is at an address that no loop somebody has a pointer to has. *)
LEMMA FreshLoop ==
  ASSUME IsFiniteSet(reads), IsFiniteSet(writes), NoLoop \in {readLoop, writeLoop}
  PROVE  /\ NewLoop.socket = socket /\ \A l \in Alive : NewLoop # l
         /\ \A t \in Threads : NewLoop # pc[t].wl
  <1> DEFINE L == Alive \cup {pc[t].wl : t \in Threads} \cup {pc[t].rl : t \in Threads}
             used == {l.id : l \in L}
             n == CHOOSE k \in 1 .. Cardinality(used) : k \notin used
  <1>1. NewLoop = [id |-> n, socket |-> socket]
    BY DEF NewLoop
  <1>2. IsFiniteSet(Threads)
    BY FS_Singleton, FS_Union DEF Threads
  <1>3. /\ IsFiniteSet({w.loop : w \in writes})
        /\ IsFiniteSet({pc[t].wl : t \in Threads})
        /\ IsFiniteSet({pc[t].rl : t \in Threads})
    <2> DEFINE f == [w \in writes |-> w.loop]
               g == [t \in Threads |-> pc[t].wl]
               h == [t \in Threads |-> pc[t].rl]
    <2>1. IsFiniteSet({f[w] : w \in writes})
      BY FiniteImage
    <2>2. IsFiniteSet({g[t] : t \in Threads})
      BY <1>2, FiniteImage
    <2>3. IsFiniteSet({h[t] : t \in Threads})
      BY <1>2, FiniteImage
    <2> QED BY <2>1, <2>2, <2>3
  <1>4. IsFiniteSet({readLoop, writeLoop, pc["io"].self})
    <2>1. IsFiniteSet({readLoop})
      BY FS_Singleton
    <2>2. IsFiniteSet({readLoop} \cup {writeLoop})
      BY <2>1, FS_AddElement
    <2>3. IsFiniteSet({readLoop} \cup {writeLoop} \cup {pc["io"].self})
      BY <2>2, FS_AddElement
    <2> QED BY <2>3
  <1>5. IsFiniteSet(L)
    BY <1>3, <1>4, FS_Union DEF Alive
  <1>6. IsFiniteSet(used)
    <2> HIDE DEF L
    <2> DEFINE f == [l \in L |-> l.id]
    <2>1. IsFiniteSet({f[l] : l \in L})
      BY <1>5, FiniteImage
    <2> QED BY <2>1
  <1>7. 0 \in used
    <2>1. NoLoop \in L
      BY DEF Alive
    <2> HIDE DEF L
    <2> QED BY <2>1 DEF NoLoop
  <1>8. \E k \in 1 .. Cardinality(used) : k \notin used
    <2> HIDE DEF used
    <2>1. SUFFICES ASSUME 1 .. Cardinality(used) \subseteq used
                   PROVE  FALSE
      OBVIOUS
    <2>2. Cardinality(used) \in Nat
      BY <1>6, FS_CardinalityType
    <2>3. 0 .. Cardinality(used) \subseteq used
      BY <1>7, <2>1, <2>2
    <2>4. Cardinality(0 .. Cardinality(used)) = Cardinality(used) + 1
      BY <2>2, FS_Interval
    <2>5. Cardinality(0 .. Cardinality(used)) <= Cardinality(used)
      BY <1>6, <2>3, FS_Subset
    <2> QED BY <2>2, <2>4, <2>5
  <1>9. n \notin used
    <2> HIDE DEF used
    <2> QED BY <1>8
  <1>10. (\A l \in Alive : l.id # n) /\ \A t \in Threads : pc[t].wl.id # n
    <2>1. \A l \in L : l.id \in used
      <3> HIDE DEF L
      <3> QED OBVIOUS
    <2> HIDE DEF used, n
    <2> QED BY <1>9, <2>1
  <1> HIDE DEF n
  <1> QED BY <1>1, <1>10

(* The call of t goes on with the loop it has in hand, or with none.       *)
HoldsOn(t, a, w, i) ==
  /\ a \in {"front", "removeFirst"} \/ i # 0 => Carries(t) /\ w = pc[t].wl
  /\ a = "write" => i # 0

(* Who only holds on to a loop shares it with nobody.                      *)
LEMMA HoldingKeepsHands ==
  ASSUME FrameType, HandsInv, NEW t \in Threads, NEW a, NEW w, NEW r, NEW i, NEW n,
         Becomes(t, a, w, r, i, n), HoldsOn(t, a, w, i),
         writes' \subseteq writes, IsFiniteSet(reads')
  PROVE  HandsInv'
  <1>1. /\ pc'[t].at = a /\ pc'[t].wl = w /\ pc'[t].item = i
        /\ \A u \in Threads \ {t} : pc'[u] = pc[u]
    BY DEF Becomes
  <1>2. \A u \in Threads : Carries(u)' => Carries(u) /\ pc'[u].wl = pc[u].wl
    BY <1>1 DEF HoldsOn, Carries, OnItem
  <1>3. \A u \in Threads : pc'[u].at = "write" => OnItem(u)'
    BY <1>1 DEF HoldsOn, OnItem, HandsInv
  <1>4. IsFiniteSet(writes')
    BY FS_Subset DEF HandsInv
  <1> QED BY <1>2, <1>3, <1>4 DEF HandsInv

(* No name is resolved anew but the next.                                  *)
NoOldName ==
  /\ attempts' \in Nat /\ attempts <= attempts'
  /\ \A k \in 1 .. attempts :
       [op |-> "resolve", n |-> k] \in setup' => [op |-> "resolve", n |-> k] \in setup

(* What is made stays made.                                                *)
LEMMA StaysMade ==
  ASSUME attempts \in Nat, NoOldName, NEW s, Made(s)
  PROVE  Made(s)'
  BY DEF Made, NoOldName

(* No socket is made that was there before.                                *)
LEMMA HoldingKeepsSockets ==
  ASSUME TypeInv, SocketInv, NoOldName, NEW t \in Threads,
         NEW a, NEW w, NEW r, NEW i, NEW n, Becomes(t, a, w, r, i, n),
         Made(w.socket), \A v \in writes' : Made(v.loop.socket), socket' \in {0, socket}
  PROVE  SocketInv'
  <1>1. attempts \in Nat
    BY DEF TypeInv, ConnectionType
  <1>2. Made(socket')
    BY <1>1 DEF SocketInv, Made
  <1>3. \A u \in Threads : Made(pc'[u].wl.socket)
    BY DEF Becomes, SocketInv
  <1> QED BY <1>1, <1>2, <1>3, StaysMade DEF SocketInv

(* The socket of no loop.                                                  *)
LEMMA NoneIsMade ==
  ASSUME TypeInv
  PROVE  NoLoop.socket = 0 /\ Made(NoLoop.socket)
  BY DEF TypeInv, ConnectionType, Made, NoLoop

(* Answering leaves nothing behind in an item.                             *)
AnswersWhole ==
  /\ Ids \subseteq Ids'
  /\ \A i \in Ids' : /\ ~Pending(i)' => items'[i].chunks = {} /\ ~items'[i].flushed
                     /\ items'[i].chunks # {} => i \in messageStore'
  /\ \A i \in Ids : Pending(i)' => Pending(i) /\ (i \in messageStore => i \in messageStore')

(* Steps that take nothing from the queue.                                 *)
LEMMA HoldingKeepsTaken ==
  ASSUME FrameType, TakenInv, AnswersWhole, NEW t \in Threads,
         NEW a, NEW w, NEW r, NEW i, NEW n, Becomes(t, a, w, r, i, n),
         i \in {0, pc[t].item},
         writes' \subseteq writes, sent' \subseteq sent
  PROVE  TakenInv'
  <1>1. \A u \in Threads : OnItem(u)' => OnItem(u) /\ pc'[u].item = pc[u].item
    BY DEF Becomes, OnItem
  <1>2. \A u \in Threads : OnItem(u)' =>
          pc'[u].item \in Ids' /\ (Pending(pc[u].item)' => pc'[u].item \in messageStore')
    BY <1>1 DEF TakenInv, AnswersWhole, Pending
  <1>3. \A v \in writes' : v.item \in Ids' /\ (Pending(v.item)' => v.item \in messageStore')
    BY DEF TakenInv, AnswersWhole
  <1> QED BY <1>2, <1>3 DEF TakenInv, AnswersWhole

(* A step that leaves items and store alone.                               *)
LEMMA SameItems ==
  ASSUME TakenInv, items' = items, messageStore' = messageStore
  PROVE  AnswersWhole
  BY DEF TakenInv, AnswersWhole, Ids, Pending

(* No call that goes on, and no write, has the current loop in hand.       *)
NobodyHas ==
  /\ \A u \in Threads : OnItem(u)' => pc'[u].wl # writeLoop
  /\ \A w \in writes : w.loop # writeLoop

(* A step within t's call that neither takes nor sends nor answers         *)
(* anything.                                                               *)
LEMMA EasyStep ==
  ASSUME TypeInv, OnceInv, NoOldName, NEW t \in Threads,
         NEW a, NEW w, NEW r, NEW i, NEW n, Becomes(t, a, w, r, i, n),
         HoldsOn(t, a, w, i), w \in {NoLoop, pc[t].wl}, i \in {0, pc[t].item},
         UNCHANGED <<items, messageStore, socket, writes, inbox, sent>>,
         IsFiniteSet(reads'),
         Open' => Open /\ (writeLoop' = writeLoop \/ NobodyHas),
         pc'["io"].at = "cancelAll" => pc["io"].at = "cancelAll"
  PROVE  OnceInv'
  <1> FrameType
    BY DEF TypeInv
  <1>1. HandsInv'
    BY HoldingKeepsHands DEF OnceInv
  <1>2. SocketInv'
    BY HoldingKeepsSockets, NoneIsMade DEF OnceInv, SocketInv
  <1>3. TakenInv'
    BY HoldingKeepsTaken, SameItems DEF OnceInv
  <1>4. ShutInv'
    BY DEF OnceInv, ShutInv
  <1>5. ASSUME Open'
        PROVE  AnswerInv'
    <2>1. AnswerInv /\ (writeLoop' = writeLoop \/ NobodyHas)
      BY <1>5 DEF OnceInv
    <2>2. \A u \in Threads : OnItem(u)' =>
            OnItem(u) /\ pc'[u].item = pc[u].item /\ pc'[u].wl = pc[u].wl
      BY DEF Becomes, HoldsOn, OnItem
    <2>3. \A u \in Threads : OnItem(u)' /\ Pending(pc[u].item)' => pc'[u].wl = writeLoop'
      BY <2>1, <2>2 DEF AnswerInv, NobodyHas, Pending
    <2>4. \A v \in writes' : Pending(v.item)' => v.loop = writeLoop'
      BY <2>1 DEF AnswerInv, NobodyHas, Pending
    <2> QED BY <2>1, <2>3, <2>4 DEF AnswerInv, Pending, Ids
  <1> QED BY <1>1, <1>2, <1>3, <1>4, <1>5 DEF OnceInv

(* A step that touches none of all this.                                   *)
LEMMA NoStep ==
  ASSUME OnceInv, UNCHANGED <<requests, connection, loops, network, pc>>
  PROVE  OnceInv'
  <1> USE DEF requests, connection, loops, network
  <1>1. HandsInv'
    BY DEF OnceInv, HandsInv, Carries, OnItem
  <1>2. SocketInv' /\ ShutInv'
    BY DEF OnceInv, SocketInv, Made, ShutInv
  <1>3. TakenInv'
    BY DEF OnceInv, TakenInv, OnItem, Ids, Pending
  <1>4. Open' => AnswerInv'
    BY DEF OnceInv, Open, AnswerInv, OnItem, Ids, Pending
  <1> QED BY <1>1, <1>2, <1>3, <1>4 DEF OnceInv

(* A step that leaves the setup alone.                                     *)
LEMMA SameNames ==
  ASSUME TypeInv, attempts' = attempts, setup' = setup
  PROVE  NoOldName
  BY DEF NoOldName, TypeInv, ConnectionType

(* A call that has no loop in hand goes to such a place, or nowhere.       *)
LEMMA PlainStep ==
  ASSUME TypeInv, OnceInv, NoOldName, NEW t \in Threads, NEW a, NEW r, NEW n,
         Becomes(t, a, NoLoop, r, 0, n), a \notin {"front", "removeFirst", "write"},
         UNCHANGED <<items, messageStore, socket, writes, inbox, sent>>,
         IsFiniteSet(reads'),
         Open' => Open /\ writeLoop' = writeLoop,
         t # "io" \/ a # "cancelAll"
  PROVE  OnceInv'
  <1>1. HoldsOn(t, a, NoLoop, 0)
    BY DEF HoldsOn
  <1>2. pc'["io"].at = "cancelAll" => pc["io"].at = "cancelAll"
    BY DEF Becomes, Threads
  <1> QED BY <1>1, <1>2, EasyStep

(* The event loop stays open or shut while another thread goes on.         *)
LEMMA OthersOpen ==
  ASSUME NEW t \in Threads, t # "io", NEW a, NEW w, NEW r, NEW i, NEW n,
         Becomes(t, a, w, r, i, n)
  PROVE  (Open' <=> Open) /\ pc'["io"] = pc["io"]
  BY DEF Becomes, Open, Threads

(* A step of a user outside of the loops, but for a new request.           *)
LEMMA CallKeepsOnce ==
  ASSUME TypeInv, OnceInv, NEW u \in Users, TestConnected(u) \/ WaitReturns(u)
  PROVE  OnceInv'
  <1> u \in Threads /\ u # "io" /\ FrameType
    BY DEF Threads, TypeInv
  <1>1. UNCHANGED <<requests, connection, loops, network>>
    BY DEF TestConnected, WaitReturns
  <1>2. PICK a \in {"startWriting", "wait", "idle"} :
          Becomes(u, a, NoLoop, NoLoop, 0, "return")
    BY GotoIdle DEF TestConnected, WaitReturns
  <1> QED BY <1>1, <1>2, PlainStep, OthersOpen, SameNames
          DEF requests, connection, loops, network, OnceInv, HandsInv

(* A step in which t returns, with the loops as they are or with one less. *)
LEMMA ReturnKeepsOnce ==
  ASSUME TypeInv, OnceInv, NEW t \in Threads, Return(t),
         pc[t].at \in {"startWriting", "front"},
         UNCHANGED <<items, messageStore, connection, network>>,
         writeLoop' = writeLoop
           \/ (Carries(t) /\ pc[t].wl = writeLoop)
  PROVE  OnceInv'
  <1> FrameType
    BY DEF TypeInv
  <1>1. PICK a \in {"wait", "startReading", "idle"} :
          Becomes(t, a, NoLoop, NoLoop, 0, "return")
    BY Returns
  <1>2. HoldsOn(t, a, NoLoop, 0)
    BY DEF HoldsOn
  <1>3. Open' => Open /\ pc'["io"].at # "cancelAll"
    BY <1>1 DEF Becomes, Open, Threads
  <1>4. pc'["io"].at = "cancelAll" => pc["io"].at = "cancelAll"
    BY <1>1 DEF Becomes, Threads
  <1>5. writeLoop' = writeLoop \/ NobodyHas
    <2>1. CASE Carries(t) /\ pc[t].wl = writeLoop
      <3>1. ~OnItem(t)' /\ \A u \in Threads \ {t} : pc'[u] = pc[u]
        BY <1>1 DEF Becomes, OnItem
      <3> QED BY <2>1, <3>1 DEF OnceInv, HandsInv, Carries, OnItem, NobodyHas
    <2> QED BY <2>1
  <1> QED BY <1>1, <1>2, <1>3, <1>4, <1>5, EasyStep, SameNames
          DEF connection, network, OnceInv, HandsInv

(* startWriting(): a new loop is nobody else's.                            *)
LEMMA StartWritingKeepsOnce ==
  ASSUME TypeInv, OnceInv, NEW t \in Threads, startWriting(t)
  PROVE  OnceInv'
  <1> FrameType
    BY DEF TypeInv
  <1>1. /\ pc[t].at = "startWriting"
        /\ UNCHANGED <<requests, connection, network>>
    BY DEF startWriting, At
  <1>2. CASE writeLoop # NoLoop
    BY <1>1, <1>2, ReturnKeepsOnce DEF startWriting, requests
  <1>3. CASE writeLoop = NoLoop
    <2>1. PICK w : /\ w = NewLoop /\ writeLoop' = w
                   /\ Goto(t, [pc[t] EXCEPT !.at = "front", !.wl = w])
      BY <1>3 DEF startWriting
    <2>2. Becomes(t, "front", w, pc[t].rl, pc[t].item, pc[t].then)
      BY <2>1, GotoWriter
    <2>3. /\ w.socket = socket /\ w # NoLoop
          /\ \A u \in Threads : pc[u].wl # w
          /\ \A v \in writes : v.loop # w
      BY <1>3, <2>1, FreshLoop DEF OnceInv, HandsInv, Alive
    <2>4. /\ pc'[t].wl = w /\ pc'[t].at = "front" /\ pc'[t].item = pc[t].item
          /\ \A u \in Threads \ {t} : pc'[u] = pc[u]
      BY <2>2 DEF Becomes
    <2>5. /\ \A u \in Threads \ {t} : OnItem(u)' = OnItem(u) /\ Carries(u)' = Carries(u)
          /\ OnItem(t)' = OnItem(t)
      BY <2>4 DEF OnItem, Carries
    <2>6. HandsInv'
      BY <1>1, <2>3, <2>4, <2>5 DEF OnceInv, HandsInv, network
    <2>7. SocketInv'
      BY <1>1, <2>2, <2>3, HoldingKeepsSockets, SameNames DEF OnceInv, SocketInv, connection, network
    <2>8. TakenInv'
      BY <1>1, <2>2, HoldingKeepsTaken, SameItems DEF OnceInv, requests, network
    <2>9. (Open' <=> Open) /\ ShutInv'
      BY <1>1, <2>4 DEF OnceInv, ShutInv, Open, connection, network, Threads
    <2>10. ASSUME Open
           PROVE  AnswerInv'
      <3>1. AnswerInv
        BY <2>10 DEF OnceInv
      <3>2. \A u \in Threads : OnItem(u) => ~Pending(pc[u].item)
        BY <1>3, <3>1 DEF OnceInv, HandsInv, AnswerInv, Carries
      <3>3. \A v \in writes : ~Pending(v.item)
        BY <1>3, <3>1 DEF OnceInv, HandsInv, AnswerInv, NoLoop
      <3>4. \A u \in Threads : OnItem(u)' /\ Pending(pc[u].item)' => pc'[u].wl = writeLoop'
        BY <1>1, <2>4, <2>5, <3>2 DEF Pending, requests
      <3>5. \A u \in Threads : pc'[u].item = pc[u].item
        BY <2>4
      <3> QED BY <1>1, <3>1, <3>3, <3>4, <3>5 DEF AnswerInv, Pending, Ids, requests, connection, network
    <2> QED BY <2>6, <2>7, <2>8, <2>9, <2>10 DEF OnceInv
  <1> QED BY <1>2, <1>3

(* The loop takes the first request in hand, or ends.                      *)
LEMMA NextFrontKeepsOnce ==
  ASSUME TypeInv, OnceInv, NEW t \in Threads, NextFront(t)
  PROVE  OnceInv'
  <1> FrameType /\ QueueType
    BY DEF TypeInv
  <1>1. /\ pc[t].at = "front" /\ Carries(t)
        /\ UNCHANGED <<items, sendQueue, connection, network>>
    BY DEF NextFront, At, Carries
  <1>2. CASE writeLoop = pc[t].wl /\ ~permanent_failure /\ sendQueue # <<>>
    <2>1. PICK h : /\ h = Head(sendQueue) /\ messageStore' = messageStore \cup {h}
                   /\ Goto(t, [pc[t] EXCEPT !.at = "removeFirst", !.item = h])
                   /\ UNCHANGED writeLoop
      BY <1>2 DEF NextFront
    <2>2. h \in Ids /\ h # 0
      BY <1>2, <2>1, Queue DEF Ids
    <2>3. Becomes(t, "removeFirst", pc[t].wl, pc[t].rl, h, pc[t].then)
      BY <2>1, GotoItem
    <2>4. /\ pc'[t].at = "removeFirst" /\ pc'[t].wl = writeLoop /\ pc'[t].item = h
          /\ \A u \in Threads \ {t} : pc'[u] = pc[u]
      BY <1>2, <2>3 DEF Becomes
    <2>5. HandsInv'
      <3>1. HoldsOn(t, "removeFirst", pc[t].wl, h)
        BY <1>1 DEF HoldsOn
      <3> QED BY <1>1, <2>3, <3>1, HoldingKeepsHands DEF OnceInv, HandsInv, network
    <2>6. SocketInv'
      BY <1>1, <2>3, HoldingKeepsSockets, SameNames DEF OnceInv, SocketInv, connection, network
    <2>7. \A u \in Threads \ {t} : OnItem(u)' = OnItem(u)
      BY <2>4 DEF OnItem
    <2>8. TakenInv'
      <3>1. Ids' = Ids /\ \A i : Pending(i)' = Pending(i)
        BY <1>1 DEF Ids, Pending
      <3>2. pc'[t].item \in Ids /\ pc'[t].item \in messageStore'
        BY <2>1, <2>2, <2>4
      <3>3. ASSUME NEW u \in Threads \ {t}, OnItem(u)'
            PROVE  pc'[u].item \in Ids /\ (Pending(pc[u].item)' => pc'[u].item \in messageStore')
        BY <2>1, <2>4, <2>7, <3>1, <3>3 DEF OnceInv, TakenInv
      <3>4. \A v \in writes : v.item \in Ids /\ (Pending(v.item)' => v.item \in messageStore')
        BY <2>1, <3>1 DEF OnceInv, TakenInv
      <3>5. \A i \in Ids : /\ ~Pending(i)' => items'[i].chunks = {} /\ ~items'[i].flushed
                          /\ items'[i].chunks # {} => i \in messageStore'
        BY <1>1, <2>1, <3>1 DEF OnceInv, TakenInv
      <3> QED BY <1>1, <3>1, <3>2, <3>3, <3>4, <3>5 DEF OnceInv, TakenInv, network
    <2>9. (Open' <=> Open) /\ ShutInv'
      BY <1>1, <2>4 DEF OnceInv, ShutInv, Open, connection, network, Threads
    <2>10. ASSUME Open
           PROVE  AnswerInv'
      <3>1. AnswerInv
        BY <2>10 DEF OnceInv
      <3>2. (\A u \in Threads : OnItem(u) /\ Pending(pc[u].item) => pc[u].wl = writeLoop)'
        BY <1>1, <2>1, <2>4, <2>7, <3>1 DEF AnswerInv, Pending
      <3> QED BY <1>1, <2>1, <3>1, <3>2 DEF AnswerInv, Pending, Ids, connection, network
    <2> QED BY <2>5, <2>6, <2>8, <2>9, <2>10 DEF OnceInv
  <1>3. CASE ~(writeLoop = pc[t].wl /\ ~permanent_failure /\ sendQueue # <<>>)
    <2>1. Return(t) /\ UNCHANGED <<messageStore, writeMutex>>
          /\ writeLoop' = EndLoop(writeLoop, pc[t].wl)
      BY <1>3 DEF NextFront
    <2>2. writeLoop' = writeLoop \/ pc[t].wl = writeLoop
      BY <2>1 DEF EndLoop
    <2> QED BY <1>1, <2>1, <2>2, ReturnKeepsOnce
  <1> QED BY <1>2, <1>3

(* The request in hand leaves the queue.                                   *)
LEMMA NextRemoveKeepsOnce ==
  ASSUME TypeInv, OnceInv, NEW t \in Threads, NextRemove(t)
  PROVE  OnceInv'
  <1> FrameType
    BY DEF TypeInv
  <1>1. /\ pc[t].at = "removeFirst" /\ Carries(t)
        /\ UNCHANGED <<items, messageStore, connection, writeLoop, network>>
        /\ Becomes(t, "startReading", pc[t].wl, pc[t].rl, pc[t].item, pc[t].then)
    BY GotoLabel DEF NextRemove, At, Carries
  <1>2. HoldsOn(t, "startReading", pc[t].wl, pc[t].item)
    BY <1>1 DEF HoldsOn
  <1>3. (Open' => Open) /\ (pc'["io"].at = "cancelAll" => pc["io"].at = "cancelAll")
    BY <1>1 DEF Becomes, Open, Threads
  <1> QED BY <1>1, <1>2, <1>3, EasyStep, SameNames
          DEF connection, network, OnceInv, HandsInv

(* The call goes on behind startReading() with what it had in hand.        *)
LEMMA AfterReadingKeepsOnce ==
  ASSUME TypeInv, OnceInv, NEW t \in Threads, AfterReading(t),
         pc[t].at \in {"startReading", "readNextBytes"},
         UNCHANGED <<requests, connection, writeLoop, writes, inbox, sent>>,
         IsFiniteSet(reads')
  PROVE  OnceInv'
  <1> FrameType
    BY DEF TypeInv
  <1>1. CASE pc[t].item # 0
    <2>1. Becomes(t, "write", pc[t].wl, NoLoop, pc[t].item, pc[t].then)
      BY <1>1, ReadingEnds
    <2>2. HoldsOn(t, "write", pc[t].wl, pc[t].item)
      BY <1>1 DEF HoldsOn, Carries, OnItem
    <2>3. (Open' => Open) /\ (pc'["io"].at = "cancelAll" => pc["io"].at = "cancelAll")
      BY <2>1 DEF Becomes, Open, Threads
    <2> QED BY <2>1, <2>2, <2>3, EasyStep, SameNames DEF requests, connection
  <1>2. CASE pc[t].item = 0
    <2>1. PICK a \in {"idle", "wait"} : Becomes(t, a, NoLoop, NoLoop, 0, "return")
      BY <1>2, ReadingEnds
    <2>2. Open' => Open
      BY <2>1 DEF Becomes, Open, Threads
    <2> QED BY <2>1, <2>2, PlainStep, SameNames DEF requests, connection
  <1> QED BY <1>1, <1>2

(* startReading(): with a loop already there, or with a new one.           *)
LEMMA StartReadingKeepsOnce ==
  ASSUME TypeInv, OnceInv, NEW t \in Threads, startReading(t)
  PROVE  OnceInv'
  <1> FrameType
    BY DEF TypeInv
  <1>1. /\ pc[t].at = "startReading" /\ IsFiniteSet(reads')
        /\ UNCHANGED <<requests, connection, writeLoop, network>>
    BY DEF startReading, At, network, OnceInv, HandsInv
  <1>2. CASE readLoop # NoLoop
    BY <1>1, <1>2, AfterReadingKeepsOnce DEF startReading, network
  <1>3. CASE readLoop = NoLoop
    <2>1. PICK r : Goto(t, [pc[t] EXCEPT !.at = "readNextBytes", !.rl = r])
      BY <1>3 DEF startReading
    <2>2. Becomes(t, "readNextBytes", pc[t].wl, r, pc[t].item, pc[t].then)
      BY <2>1, GotoReader
    <2>3. HoldsOn(t, "readNextBytes", pc[t].wl, pc[t].item)
      BY DEF HoldsOn, Carries, OnItem
    <2>4. (Open' => Open) /\ (pc'["io"].at = "cancelAll" => pc["io"].at = "cancelAll")
      BY <1>1, <2>2 DEF Becomes, Open, Threads
    <2> QED BY <1>1, <2>2, <2>3, <2>4, EasyStep, SameNames DEF requests, connection, network
  <1> QED BY <1>2, <1>3

(* The loop reads, or ends.                                                *)
LEMMA ReadNextBytesKeepsOnce ==
  ASSUME TypeInv, OnceInv, NEW t \in Threads, readNextBytes(t)
  PROVE  OnceInv'
  <1>1. CASE Die
    BY <1>1, NoStep DEF Die
  <1>2. CASE ~Die
    <2>1. /\ AfterReading(t) /\ pc[t].at = "readNextBytes"
          /\ UNCHANGED <<requests, connection, writeLoop, writes, inbox, sent>>
          /\ reads' = reads \/ reads' = reads \cup {pc[t].rl}
      BY <1>2 DEF readNextBytes, At, loops, network
    <2>2. IsFiniteSet(reads) /\ IsFiniteSet(reads \cup {pc[t].rl})
      BY FS_AddElement DEF OnceInv, HandsInv
    <2>3. IsFiniteSet(reads')
      BY <2>1, <2>2
    <2> QED BY <2>1, <2>3, AfterReadingKeepsOnce
  <1> QED BY <1>1, <1>2

(* A request goes from the hand of its loop into a pending write: it has   *)
(* not been sent, or the write that sent it would have the same loop.      *)
LEMMA WriteRequestKeepsOnce ==
  ASSUME TypeInv, OnceInv, NEW t \in Threads, WriteRequest(t)
  PROVE  OnceInv'
  <1> FrameType
    BY DEF TypeInv
  <1>1. CASE Die
    BY <1>1, NoStep DEF Die
  <1>2. CASE ~Die
    <2> DEFINE w == Write(pc[t].wl, pc[t].item, FALSE)
    <2>1. /\ pc[t].at = "write" /\ ~items[pc[t].item].flushed /\ Pending(pc[t].item)
          /\ pc[t].wl.socket # 0
          /\ writes' = writes \cup {w} /\ Return(t)
          /\ UNCHANGED <<requests, connection, loops, reads, inbox, sent>>
      BY <1>2 DEF WriteRequest, At, Write
    <2>2. PICK a \in {"wait", "startReading", "idle"} :
            Becomes(t, a, NoLoop, NoLoop, 0, "return")
      BY <2>1, Returns
    <2>3. /\ pc'[t].at = a /\ ~OnItem(t)' /\ ~Carries(t)' /\ pc'[t].wl = NoLoop
          /\ \A u \in Threads \ {t} : pc'[u] = pc[u]
      BY <2>2 DEF Becomes, OnItem, Carries
    <2>4. OnItem(t) /\ Carries(t)
      BY <2>1 DEF OnceInv, HandsInv, Carries
    <2>5. w.loop = pc[t].wl /\ w.item = pc[t].item /\ ~w.done
          /\ w = Write(w.loop, w.item, w.done)
      BY DEF Write
    <2>6. \A u \in Threads : Carries(u)' => u # t /\ Carries(u)
      BY <2>3 DEF Carries, OnItem
    <2> HIDE DEF w
    <2>7. HandsInv'
      <3>1. IsFiniteSet(writes')
        BY <2>1, FS_AddElement DEF OnceInv, HandsInv
      <3>2. \A u \in Threads : pc'[u].at = "write" => OnItem(u)'
        BY <2>3 DEF OnceInv, HandsInv, OnItem
      <3>3. ASSUME NEW u \in Threads, Carries(u)'
            PROVE  /\ pc'[u].wl # NoLoop
                   /\ \A q \in Threads \ {u} : Carries(q)' => pc'[q].wl # pc'[u].wl
                   /\ \A v \in writes' : v.loop # pc'[u].wl
        BY <2>1, <2>3, <2>4, <2>5, <2>6, <3>3 DEF OnceInv, HandsInv
      <3>4. ASSUME NEW x \in writes'
            PROVE  /\ x = Write(x.loop, x.item, x.done) /\ x.loop.socket # 0
                   /\ \A v \in writes' : v.loop = x.loop => v = x
        BY <2>1, <2>4, <2>5 DEF OnceInv, HandsInv
      <3> QED BY <2>1, <3>1, <3>2, <3>3, <3>4 DEF OnceInv, HandsInv
    <2>8. SocketInv'
      <3>1. \A v \in writes' : Made(v.loop.socket)
        BY <2>1, <2>5 DEF OnceInv, SocketInv
      <3> QED BY <2>1, <2>2, <3>1, HoldingKeepsSockets, NoneIsMade, SameNames
              DEF OnceInv, SocketInv, connection
    <2>9. TakenInv'
      <3>1. \A u \in Threads : OnItem(u)' => OnItem(u) /\ pc'[u].item = pc[u].item
        BY <2>3 DEF OnItem
      <3>2. \A v \in writes' : v.item \in Ids /\ (Pending(v.item) => v.item \in messageStore)
        BY <2>1, <2>4, <2>5 DEF OnceInv, TakenInv
      <3> QED BY <2>1, <3>1, <3>2 DEF OnceInv, TakenInv, requests, Ids, Pending
    <2>10. (Open' <=> Open) /\ ShutInv'
      BY <2>1, <2>3 DEF OnceInv, ShutInv, Open, connection, Threads
    <2>11. ASSUME Open
           PROVE  AnswerInv'
      <3>1. AnswerInv /\ pc[t].wl = writeLoop
        BY <2>1, <2>4, <2>11 DEF OnceInv, AnswerInv
      <3>2. w.item \notin sent
        BY <2>1, <2>4, <2>5, <3>1 DEF OnceInv, HandsInv, AnswerInv
      <3>3. \A i : Pending(i)' = Pending(i)
        BY <2>1 DEF Pending, requests
      <3>4. \A u \in Threads : OnItem(u)' /\ Pending(pc[u].item) => pc'[u].wl = writeLoop'
        BY <2>1, <2>3, <3>1 DEF AnswerInv, loops, OnItem
      <3>5. \A u \in Threads : OnItem(u)' => pc'[u].item = pc[u].item
        BY <2>3
      <3>6. \A v \in writes' : Pending(v.item) => v.loop = writeLoop'
        BY <2>1, <2>5, <3>1 DEF AnswerInv, loops
      <3>7. \A v \in writes' : ~v.done =>
              /\ Pending(v.item) => v.item \notin sent
              /\ v.loop.socket = socket => Pending(v.item)
        BY <2>1, <2>5, <3>1, <3>2 DEF AnswerInv
      <3> QED BY <2>1, <3>1, <3>3, <3>4, <3>5, <3>6, <3>7
              DEF AnswerInv, requests, connection, Ids
    <2> QED BY <2>7, <2>8, <2>9, <2>10, <2>11 DEF OnceInv
  <1> QED BY <1>1, <1>2

(* Every step of a loop keeps the invariant.                               *)
LEMMA LoopKeepsOnce ==
  ASSUME TypeInv, OnceInv, NEW t \in Threads, LoopStep(t)
  PROVE  OnceInv'
  <1>1. CASE UseFreedLoop(t)
    BY <1>1, NoStep DEF UseFreedLoop, Die
  <1> QED BY <1>1, StartWritingKeepsOnce, NextFrontKeepsOnce, NextRemoveKeepsOnce,
             WriteRequestKeepsOnce, StartReadingKeepsOnce, ReadNextBytesKeepsOnce DEF LoopStep

-----------------------------------------------------------------------------

(* The failures of the operations, and a deadline that runs out.           *)
LEMMA FailureKeepsOnce ==
  ASSUME TypeInv, OnceInv, NEW l, ReadFails(l) \/ Deadline(l)
  PROVE  OnceInv'
  <1> FrameType /\ "io" \in Threads
    BY DEF TypeInv, Threads
  <1>1. Becomes("io", "restartIfCurrent", NoLoop, NoLoop, 0, "return")
    BY GotoIdle DEF ReadFails, Deadline
  <1>2. /\ pc["io"].at = "idle" /\ reads' \subseteq reads
        /\ UNCHANGED <<requests, connection, loops, writes, inbox, sent>>
    BY DEF ReadFails, Deadline, At, network
  <1>3. IsFiniteSet(reads')
    BY <1>2, FS_Subset DEF OnceInv, HandsInv
  <1>4. Open' => Open
    BY <1>2 DEF Open
  <1> QED BY <1>1, <1>2, <1>3, <1>4, PlainStep, SameNames DEF requests, connection, loops

(* A restart before the socket is shut down, or after the requests have    *)
(* been called back.                                                       *)
LEMMA RestartKeepsOnce ==
  ASSUME TypeInv, OnceInv,
         restartIfCurrent \/ restartConnection \/ stopWriting \/ stopReading
           \/ startResolveHost
  PROVE  OnceInv'
  <1> FrameType /\ "io" \in Threads
    BY DEF TypeInv, Threads
  <1>1. IsFiniteSet(reads)
    BY DEF OnceInv, HandsInv
  <1>2. CASE restartIfCurrent
    <2>1. \/ Goto("io", [Idle EXCEPT !.at = "restart", !.then = "resolve"])
          \/ Goto("io", Idle) /\ UNCHANGED writeLoop
      BY <1>2 DEF restartIfCurrent
    <2>2. /\ pc["io"].at = "restartIfCurrent"
          /\ UNCHANGED <<requests, connection, network>>
      BY <1>2 DEF restartIfCurrent, At
    <2>3. \/ Becomes("io", "restart", NoLoop, NoLoop, 0, "resolve")
          \/ Becomes("io", "idle", NoLoop, NoLoop, 0, "return") /\ UNCHANGED writeLoop
      BY <2>1, GotoIdle
    <2>4. Open' => Open /\ UNCHANGED writeLoop
      BY <2>2, <2>3 DEF Becomes, Open
    <2> QED BY <1>1, <2>2, <2>3, <2>4, PlainStep, SameNames DEF requests, connection, network
  <1>3. ASSUME NEW a \in {"stopWriting", "stopReading", "shutdownSocket"},
               Goto("io", [pc["io"] EXCEPT !.at = a]),
               UNCHANGED <<requests, connection, network>>
        PROVE  OnceInv'
    <2>1. Becomes("io", a, pc["io"].wl, pc["io"].rl, pc["io"].item, pc["io"].then)
      BY <1>3, GotoLabel
    <2>2. HoldsOn("io", a, pc["io"].wl, pc["io"].item)
      BY DEF HoldsOn, Carries, OnItem
    <2>3. ~Open' /\ pc'["io"].at # "cancelAll"
      BY <2>1 DEF Becomes, Open
    <2> QED BY <1>1, <1>3, <2>1, <2>2, <2>3, EasyStep, SameNames
            DEF requests, connection, network
  <1>4. CASE restartConnection
    <2>1. CASE Die
      BY <2>1, NoStep DEF Die
    <2> QED BY <1>3, <1>4, <2>1 DEF restartConnection
  <1>5. CASE stopWriting \/ stopReading
    BY <1>3, <1>5 DEF stopWriting, stopReading
  <1>6. CASE startResolveHost
    <2>1. /\ pc["io"].at = "resolve"
          /\ UNCHANGED <<requests, socket, loops, network>>
          /\ Goto("io", Idle)
          /\ \/ UNCHANGED <<attempts, setup>>
             \/ /\ attempts' = attempts + 1
                /\ setup' = setup \cup {[op |-> "resolve", n |-> attempts']}
      BY <1>6 DEF startResolveHost, At
    <2>2. Becomes("io", "idle", NoLoop, NoLoop, 0, "return")
      BY <2>1, GotoStart
    <2>3. NoOldName
      BY <2>1 DEF NoOldName, TypeInv, ConnectionType
    <2>4. Open' => Open /\ UNCHANGED writeLoop
      BY <2>1 DEF Open, loops
    <2> QED BY <1>1, <2>1, <2>2, <2>3, <2>4, PlainStep DEF requests, network
  <1> QED BY <1>2, <1>4, <1>5, <1>6

(* The socket is shut down, and what the server had is forgotten.          *)
LEMMA ShutdownKeepsOnce ==
  ASSUME TypeInv, OnceInv, shutdownSocket
  PROVE  OnceInv'
  <1> FrameType /\ "io" \in Threads
    BY DEF TypeInv, Threads
  <1>1. /\ socket' = 0 /\ inbox' = {} /\ sent' = {} /\ reads' = reads \cap {readLoop}
        /\ Goto("io", [pc["io"] EXCEPT !.at = "cancelAll"])
        /\ UNCHANGED <<requests, setup, attempts, writes>>
    BY DEF shutdownSocket
  <1>2. Becomes("io", "cancelAll", pc["io"].wl, pc["io"].rl, pc["io"].item, pc["io"].then)
    BY <1>1, GotoLabel
  <1>3. HandsInv'
    <2>1. IsFiniteSet(reads')
      BY <1>1, FS_Subset DEF OnceInv, HandsInv
    <2>2. HoldsOn("io", "cancelAll", pc["io"].wl, pc["io"].item)
      BY DEF HoldsOn, Carries, OnItem
    <2> QED BY <1>1, <1>2, <2>1, <2>2, HoldingKeepsHands DEF OnceInv
  <1>4. SocketInv'
    BY <1>1, <1>2, HoldingKeepsSockets, SameNames DEF OnceInv, SocketInv
  <1>5. TakenInv'
    BY <1>1, <1>2, HoldingKeepsTaken, SameItems DEF OnceInv, requests
  <1>6. ShutInv' /\ ~Open'
    BY <1>1, <1>2 DEF ShutInv, Becomes, Open
  <1> QED BY <1>3, <1>4, <1>5, <1>6 DEF OnceInv

(* Whoever is in the store is called back: nobody waits whose request has  *)
(* been taken from the queue.                                              *)
LEMMA CancelKeepsOnce ==
  ASSUME TypeInv, OnceInv, cancelAll
  PROVE  OnceInv' /\ \A i \in Ids : ~Pending(i) => items'[i] = items[i]
  <1> FrameType /\ "io" \in Threads /\ ItemsType
    BY DEF TypeInv, Threads
  <1>1. /\ pc["io"].at = "cancelAll" /\ messageStore' = {}
        /\ items' = Answered(items, messageStore, "error")
        /\ UNCHANGED <<socket, setup, attempts, loops, network>>
    BY DEF cancelAll, Invoke, At
  <1>2. PICK a \in {"resolve", "idle"} : Becomes("io", a, NoLoop, NoLoop, 0, "return")
    BY GotoIdle DEF cancelAll
  <1>3. /\ Ids' = Ids
        /\ \A i \in Ids : IF i \in messageStore THEN CalledBack(items[i], items'[i])
                          ELSE items'[i] = items[i]
    BY <1>1, AnsweredItems DEF ItemsType, Ids
  <1>4. \A i \in Ids : i \in messageStore => ~Pending(i)'
    BY <1>3 DEF CalledBack, Pending
  <1>5. \A i \in Ids : items'[i].chunks = {}
    BY <1>3 DEF OnceInv, TakenInv, CalledBack, Pending
  <1>6. AnswersWhole
    BY <1>3, <1>4, <1>5 DEF AnswersWhole, OnceInv, TakenInv, CalledBack, Pending
  <1>7. HandsInv'
    <2>1. HoldsOn("io", a, NoLoop, 0)
      BY DEF HoldsOn
    <2> QED BY <1>1, <1>2, <2>1, HoldingKeepsHands DEF OnceInv, HandsInv, network
  <1>8. SocketInv'
    BY <1>1, <1>2, HoldingKeepsSockets, NoneIsMade, SameNames DEF OnceInv, SocketInv, network
  <1>9. TakenInv'
    BY <1>1, <1>2, <1>6, HoldingKeepsTaken DEF OnceInv, network
  <1>10. ShutInv'
    BY <1>2 DEF ShutInv, Becomes
  <1>11. AnswerInv'
    <2>1. socket' = 0 /\ sent' = {} /\ inbox' = {}
      BY <1>1 DEF OnceInv, ShutInv, network
    <2>2. (\A u \in Threads : OnItem(u) => ~Pending(pc[u].item))'
      BY <1>1, <1>9 DEF TakenInv
    <2>3. (\A v \in writes : ~Pending(v.item) /\ v.loop.socket # 0)'
      BY <1>1, <1>7, <1>9 DEF TakenInv, HandsInv
    <2> QED BY <1>3, <1>5, <2>1, <2>2, <2>3 DEF AnswerInv
  <1> QED BY <1>3, <1>7, <1>8, <1>9, <1>10, <1>11 DEF OnceInv, CalledBack, Pending

(* A new request: nothing of it is anywhere but in the queue.              *)
LEMMA NewRequestKeepsOnce ==
  ASSUME TypeInv, OnceInv, NoOldName, NEW x \in Users \cup {"auth"},
         items' = Append(items, NewItem(x)), messageStore' = messageStore,
         NEW t \in Threads, NEW a \in {"test", "startWriting"}, NEW n,
         Becomes(t, a, NoLoop, NoLoop, 0, n), t = "io" => pc["io"].at = "idle",
         UNCHANGED <<socket, loops, network>>
  PROVE  OnceInv'
  <1> FrameType /\ ItemsType /\ messageStore \subseteq Ids
    BY DEF TypeInv, QueueType
  <1>1. PICK k : k = Len(items')
    OBVIOUS
  <1>2. /\ Ids' = Ids \cup {k} /\ k \notin Ids
        /\ \A i \in Ids : items'[i] = items[i]
        /\ items'[k] = NewItem(x)
    <2>1. Len(items) \in Nat /\ Len(items') = Len(items) + 1
      BY ItemAdded, Items
    <2> QED BY <1>1, <2>1, ItemAdded DEF Ids
  <1>3. Pending(k)' /\ items'[k].chunks = {}
    BY <1>2, NewItems DEF Pending
  <1>4. \A i \in Ids : Pending(i)' = Pending(i)
    BY <1>2 DEF Pending
  <1>5. AnswersWhole
    BY <1>2, <1>3, <1>4 DEF AnswersWhole, OnceInv, TakenInv
  <1>6. HandsInv'
    <2>1. HoldsOn(t, a, NoLoop, 0)
      BY DEF HoldsOn
    <2> QED BY <2>1, HoldingKeepsHands DEF OnceInv, HandsInv, network
  <1>7. SocketInv'
    BY HoldingKeepsSockets, NoneIsMade DEF OnceInv, SocketInv, network
  <1>8. TakenInv'
    BY <1>5, HoldingKeepsTaken DEF OnceInv, network
  <1>9. ShutInv' /\ (Open' => Open)
    BY DEF Becomes, OnceInv, ShutInv, Open, network, Threads
  <1>10. ASSUME Open
         PROVE  AnswerInv'
    <2>1. AnswerInv /\ TakenInv
      BY <1>10 DEF OnceInv
    <2>2. \A u \in Threads : OnItem(u)' => OnItem(u) /\ pc'[u] = pc[u]
      BY DEF Becomes, OnItem
    <2>3. \A u \in Threads : OnItem(u)' /\ Pending(pc[u].item)' => pc'[u].wl = writeLoop'
      BY <1>4, <2>1, <2>2 DEF AnswerInv, TakenInv, loops
    <2>4. \A v \in writes : Pending(v.item)' = Pending(v.item)
      BY <1>4, <2>1 DEF TakenInv
    <2>5. \A i \in sent : i \in Ids
      BY <2>1 DEF TakenInv
    <2>6. \A c \in inbox : c.id \in Ids
      BY <2>1 DEF AnswerInv
    <2>7. \A i \in Ids' : items'[i].chunks # {} => i \in sent
      BY <1>2, <1>3, <2>1 DEF AnswerInv
    <2>8. \A i \in sent : Pending(i)' /\ ~items'[i].flushed =>
            \E w \in writes : w.done /\ w.item = i
      BY <1>2, <1>4, <2>1, <2>5 DEF AnswerInv
    <2>9. \A c \in inbox :
            /\ c = [id |-> c.id, index |-> c.index]
            /\ c.id \in sent /\ Pending(c.id)' /\ c.id \in messageStore
            /\ c.index \notin items'[c.id].chunks
      BY <1>2, <1>4, <2>1, <2>6 DEF AnswerInv
    <2>10. \A v \in writes : Pending(v.item)' => v.loop = writeLoop'
      BY <2>1, <2>4 DEF AnswerInv, loops
    <2>11. \A v \in writes : ~v.done =>
              /\ Pending(v.item)' => v.item \notin sent
              /\ v.loop.socket = socket => Pending(v.item)'
      BY <2>1, <2>4 DEF AnswerInv
    <2>12. \A u \in Threads : OnItem(u)' => pc'[u].item = pc[u].item
      BY <2>2
    <2> QED BY <2>3, <2>7, <2>8, <2>9, <2>10, <2>11, <2>12 DEF AnswerInv, network
  <1> QED BY <1>6, <1>7, <1>8, <1>9, <1>10 DEF OnceInv

(* A user's request is such a one.                                         *)
LEMMA SendRequestKeepsOnce ==
  ASSUME TypeInv, OnceInv, NEW u \in Users, sendRequest(u)
  PROVE  OnceInv'
  <1> u \in Threads /\ u # "io" /\ FrameType
    BY DEF Threads, TypeInv
  <1>1. Becomes(u, "test", NoLoop, NoLoop, 0, "return")
    BY GotoPlace DEF sendRequest
  <1> QED BY <1>1, NewRequestKeepsOnce, SameNames DEF sendRequest, connection

(* A step that only changes the setup.                                     *)
LEMMA SetupKeepsOnce ==
  ASSUME TypeInv, OnceInv, NoOldName,
         UNCHANGED <<requests, socket, loops, network, pc>>
  PROVE  OnceInv'
  <1> FrameType /\ "io" \in Threads
    BY DEF TypeInv, Threads
  <1>1. Becomes("io", pc["io"].at, pc["io"].wl, pc["io"].rl, pc["io"].item, pc["io"].then)
    BY DEF Becomes, FrameType
  <1>2. HoldsOn("io", pc["io"].at, pc["io"].wl, pc["io"].item)
    BY DEF HoldsOn, Carries, OnItem, OnceInv, HandsInv
  <1>3. Open' => Open
    BY DEF Open
  <1> QED BY <1>1, <1>2, <1>3, EasyStep DEF requests, loops, network, OnceInv, HandsInv

(* A handler takes an operation of the setup, and may start another one.   *)
LEMMA ReplaceNames ==
  ASSUME TypeInv, NEW op, NEW n, NEW ops, Replace(op, n, ops), attempts' = attempts,
         \A p \in ops : p.op # "resolve"
  PROVE  NoOldName
  BY DEF Replace, NoOldName, TypeInv, ConnectionType

(* The socket is made: no loop has it yet.                                 *)
LEMMA ResolveKeepsOnce ==
  ASSUME TypeInv, OnceInv, NEW n \in 1 .. attempts, ResolveSucceeds(n)
  PROVE  OnceInv'
  <1>1. CASE Die
    BY <1>1, NoStep DEF Die
  <1>2. CASE ~Die
    <2>1. /\ [op |-> "resolve", n |-> n] \in setup /\ pc["io"].at = "idle"
          /\ socket' = n
          /\ setup' = (setup \ {[op |-> "resolve", n |-> n]}) \cup {[op |-> "connect", n |-> n]}
          /\ UNCHANGED <<requests, attempts, loops, network, pc>>
      BY <1>2 DEF ResolveSucceeds, Done, At, Replace
    <2>2. NoOldName /\ attempts \in Nat
      BY <2>1 DEF NoOldName, TypeInv, ConnectionType
    <2>3. HandsInv' /\ TakenInv' /\ ShutInv' /\ (Open' <=> Open)
      BY <2>1 DEF OnceInv, HandsInv, TakenInv, ShutInv, Open, Carries, OnItem, Ids, Pending,
                  requests, network
    <2>4. SocketInv'
      <3>1. Made(n)'
        BY <2>1, <2>2 DEF Made
      <3> QED BY <2>1, <2>2, <3>1, StaysMade DEF OnceInv, SocketInv, network
    <2>5. ASSUME Open
          PROVE  AnswerInv'
      <3>1. AnswerInv
        BY <2>5 DEF OnceInv
      <3>2. \A w \in writes : w.loop.socket # n
        BY <2>1 DEF OnceInv, SocketInv, Made
      <3> QED BY <2>1, <3>1, <3>2 DEF AnswerInv, OnItem, Ids, Pending, requests, loops, network
    <2> QED BY <2>3, <2>4, <2>5 DEF OnceInv
  <1> QED BY <1>1, <1>2

(* Every handler of the setup keeps the invariant.                         *)
LEMMA ConnectKeepsOnce ==
  ASSUME TypeInv, OnceInv, NEW n \in 1 .. attempts, Connect(n)
  PROVE  OnceInv'
  <1> FrameType /\ "io" \in Threads
    BY DEF TypeInv, Threads
  <1>1. CASE ResolveSucceeds(n)
    BY <1>1, ResolveKeepsOnce
  <1>2. CASE ResolveFails(n) \/ ConnectSucceeds(n)
    <2>1. NoOldName
      BY <1>2, ReplaceNames DEF ResolveFails, ConnectSucceeds
    <2> QED BY <1>2, <2>1, SetupKeepsOnce DEF ResolveFails, ConnectSucceeds
  <1>3. CASE ConnectFails(n) \/ HeaderFails(n)
    <2>1. NoOldName
      BY <1>3, ReplaceNames DEF ConnectFails, HeaderFails
    <2>2. /\ Becomes("io", "stopWriting", NoLoop, NoLoop, 0, "return")
          /\ UNCHANGED <<requests, socket, loops, network>>
      BY <1>3, GotoPlace DEF ConnectFails, HeaderFails, Shutdown
    <2>3. ~Open'
      BY <2>2 DEF Becomes, Open
    <2> QED BY <2>1, <2>2, <2>3, PlainStep DEF requests, loops, network, OnceInv, HandsInv
  <1>4. CASE HeaderSucceeds(n)
    <2>1. NoOldName
      BY <1>4, ReplaceNames DEF HeaderSucceeds
    <2>2. Becomes("io", "startWriting", NoLoop, NoLoop, 0, "reading")
      BY <1>4, GotoIdle DEF HeaderSucceeds
    <2> QED BY <1>4, <2>1, <2>2, NewRequestKeepsOnce
            DEF HeaderSucceeds, insertAuthenticationRequests, Done, At
  <1> QED BY <1>1, <1>2, <1>3, <1>4 DEF Connect

(* The handler of a write that failed answers a request the server has not *)
(* had.                                                                    *)
LEMMA WriteFailsKeepsOnce ==
  ASSUME TypeInv, OnceInv, NEW w \in writes, WriteFails(w)
  PROVE  OnceInv' /\ \A i \in Ids : ~Pending(i) => items'[i] = items[i]
  <1> FrameType /\ "io" \in Threads /\ ItemsType
    BY DEF TypeInv, Threads
  <1>1. /\ pc["io"].at = "idle" /\ ~w.done /\ writes' = writes \ {w}
        /\ messageStore' = messageStore \ {w.item}
        /\ items' = Answered(items, {w.item}, "error")
        /\ UNCHANGED <<socket, setup, attempts, loops, reads, inbox, sent>>
    BY DEF WriteFails, Invoke, At
  <1>2. Becomes("io", "restartIfCurrent", NoLoop, NoLoop, 0, "return")
    BY GotoIdle DEF WriteFails
  <1>3. /\ Ids' = Ids
        /\ \A i \in Ids : i # w.item => items'[i] = items[i]
        /\ w.item \in Ids => CalledBack(items[w.item], items'[w.item])
    BY <1>1, AnsweredItems DEF ItemsType, Ids
  <1>4. \A i \in Ids : ~Pending(i) => items'[i] = items[i]
    BY <1>3 DEF CalledBack, Pending
  <1>5. /\ w.item \in Ids /\ ~Pending(w.item)'
        /\ items'[w.item].chunks = {} /\ ~items'[w.item].flushed
    BY <1>3 DEF OnceInv, TakenInv, CalledBack, Pending
  <1>6. \A i \in Ids : i # w.item => Pending(i)' = Pending(i)
    BY <1>3 DEF Pending
  <1>7. AnswersWhole
    BY <1>1, <1>3, <1>5, <1>6 DEF AnswersWhole, OnceInv, TakenInv
  <1>8. HandsInv'
    <2>1. HoldsOn("io", "restartIfCurrent", NoLoop, 0)
      BY DEF HoldsOn
    <2> QED BY <1>1, <1>2, <2>1, HoldingKeepsHands DEF OnceInv, HandsInv
  <1>9. SocketInv'
    BY <1>1, <1>2, HoldingKeepsSockets, NoneIsMade, SameNames DEF OnceInv, SocketInv
  <1>10. TakenInv'
    BY <1>1, <1>2, <1>7, HoldingKeepsTaken DEF OnceInv
  <1>11. ShutInv' /\ Open
    BY <1>1, <1>2 DEF ShutInv, Becomes, Open
  <1>12. AnswerInv'
    <2>1. AnswerInv
      BY <1>11 DEF OnceInv
    <2>2. \A c \in inbox : c.id # w.item
      BY <1>1, <2>1 DEF AnswerInv
    <2>3. \A u \in Threads : OnItem(u)' => OnItem(u) /\ pc'[u] = pc[u]
      BY <1>2 DEF Becomes, OnItem
    <2>4. \A i \in Ids : Pending(i)' => Pending(i) /\ items'[i] = items[i] /\ i # w.item
      BY <1>3, <1>5, <1>6
    <2>5. \A u \in Threads : OnItem(u)' /\ Pending(pc[u].item)' => pc'[u].wl = writeLoop'
      BY <1>1, <2>1, <2>3, <2>4 DEF AnswerInv, OnceInv, TakenInv, loops
    <2>6. \A u \in Threads : OnItem(u)' => pc'[u].item = pc[u].item
      BY <2>3
    <2>7. \A v \in writes' : Pending(v.item)' => v.loop = writeLoop'
      BY <1>1, <2>1, <2>4 DEF AnswerInv, OnceInv, TakenInv, loops
    <2>8. \A i \in sent : Pending(i)' /\ ~items'[i].flushed =>
            \E v \in writes' : v.done /\ v.item = i
      BY <1>1, <2>1, <2>4 DEF AnswerInv, OnceInv, TakenInv
    <2>9. ASSUME NEW v \in writes', ~v.done
          PROVE  /\ Pending(v.item)' => v.item \notin sent
                 /\ v.loop.socket = socket => Pending(v.item)'
      <3>1. v \in writes /\ v # w /\ v.item \in Ids
        BY <1>1 DEF OnceInv, TakenInv
      <3>2. v.item = w.item => ~Pending(v.item)
        BY <2>1, <3>1 DEF AnswerInv, OnceInv, HandsInv
      <3> QED BY <1>6, <2>1, <2>4, <2>9, <3>1, <3>2 DEF AnswerInv
    <2>10. \A c \in inbox :
              /\ c = [id |-> c.id, index |-> c.index]
              /\ c.id \in sent /\ Pending(c.id)' /\ c.id \in messageStore'
              /\ c.index \notin items'[c.id].chunks
      BY <1>1, <1>3, <1>6, <2>1, <2>2 DEF AnswerInv, OnceInv, TakenInv
    <2>11. \A i \in Ids : items'[i].chunks # {} => i \in sent
      BY <1>3, <1>5, <2>1 DEF AnswerInv
    <2> QED BY <1>1, <1>3, <2>5, <2>6, <2>7, <2>8, <2>9, <2>10, <2>11 DEF AnswerInv
  <1> QED BY <1>4, <1>8, <1>9, <1>10, <1>11, <1>12 DEF OnceInv

(* The handler of a write takes the loop in hand again.                    *)
LEMMA WriteSucceedsKeepsOnce ==
  ASSUME TypeInv, OnceInv, NEW w \in writes, WriteSucceeds(w)
  PROVE  OnceInv' /\ \A i \in Ids : ~Pending(i) => items'[i] = items[i]
  <1> FrameType /\ "io" \in Threads /\ ItemsType
    BY DEF TypeInv, Threads
  <1>1. /\ pc["io"].at = "idle" /\ w.done /\ writes' = writes \ {w}
        /\ items' = [items EXCEPT ![w.item].flushed = Pending(w.item)]
        /\ UNCHANGED <<messageStore, socket, setup, attempts, loops, reads, inbox, sent>>
    BY DEF WriteSucceeds, At, connection
  <1>2. Becomes("io", "front", w.loop, NoLoop, 0, "return")
    BY GotoIdle DEF WriteSucceeds
  <1>3. /\ Ids' = Ids
        /\ \A i \in Ids : items'[i].result = items[i].result
        /\ \A i \in Ids : i # w.item => items'[i] = items[i]
    BY ItemFlushed DEF Ids
  <1>4. /\ w.item \in Ids /\ items[w.item] \in Item /\ DOMAIN items = Ids
        /\ items'[w.item].chunks = items[w.item].chunks
        /\ items'[w.item].flushed = Pending(w.item)
    <2>1. w.item \in Ids
      BY DEF OnceInv, TakenInv
    <2>2. items[w.item] \in Item /\ DOMAIN items = Ids
      BY <2>1, Items
    <2> QED BY <1>1, <2>1, <2>2 DEF Item
  <1>5. /\ \A i \in Ids : Pending(i)' = Pending(i) /\ items'[i].chunks = items[i].chunks
        /\ \A i \in Ids : ~Pending(i) => ~items'[i].flushed
    BY <1>3, <1>4 DEF Pending, OnceInv, TakenInv
  <1>6. ASSUME NEW i \in Ids, ~Pending(i)
        PROVE  items'[i] = items[i]
    <2>1. CASE i = w.item
      <3>1. Pending(i) = FALSE /\ items[i].flushed = FALSE
        BY <1>4, <1>6, <2>1 DEF OnceInv, TakenInv, Pending, Item
      <3>2. [items[i] EXCEPT !.flushed = FALSE] = items[i]
        BY <1>4, <2>1, <3>1 DEF Item
      <3>3. items' = [items EXCEPT ![i] = [items[i] EXCEPT !.flushed = FALSE]]
        BY <1>1, <2>1, <3>1
      <3> QED BY <1>4, <2>1, <3>2, <3>3
    <2> QED BY <1>3, <2>1
  <1>7. AnswersWhole
    BY <1>1, <1>3, <1>5 DEF AnswersWhole, OnceInv, TakenInv
  <1>8. /\ pc'["io"].at = "front" /\ pc'["io"].wl = w.loop /\ ~OnItem("io")'
        /\ \A u \in Threads \ {"io"} : pc'[u] = pc[u]
    BY <1>2 DEF Becomes, OnItem
  <1>9. HandsInv'
    <2>1. IsFiniteSet(writes')
      BY <1>1, FS_Subset DEF OnceInv, HandsInv
    <2>2. \A u \in Threads \ {"io"} : Carries(u)' => Carries(u)
      BY <1>8 DEF Carries, OnItem
    <2>3. w.loop # NoLoop
      BY DEF OnceInv, HandsInv, NoLoop
    <2>4. ASSUME NEW u \in Threads, Carries(u)'
          PROVE  /\ pc'[u].wl # NoLoop
                 /\ \A q \in Threads \ {u} : Carries(q)' => pc'[q].wl # pc'[u].wl
                 /\ \A v \in writes' : v.loop # pc'[u].wl
      BY <1>1, <1>8, <2>2, <2>3, <2>4 DEF OnceInv, HandsInv
    <2>5. \A u \in Threads : pc'[u].at = "write" => OnItem(u)'
      BY <1>8 DEF OnceInv, HandsInv, OnItem
    <2> QED BY <1>1, <2>1, <2>4, <2>5 DEF OnceInv, HandsInv
  <1>10. SocketInv'
    BY <1>1, <1>2, HoldingKeepsSockets, SameNames DEF OnceInv, SocketInv
  <1>11. TakenInv'
    BY <1>1, <1>2, <1>7, HoldingKeepsTaken DEF OnceInv
  <1>12. ShutInv' /\ Open
    BY <1>1, <1>8 DEF ShutInv, Open
  <1>13. AnswerInv'
    <2>1. AnswerInv
      BY <1>12 DEF OnceInv
    <2>2. \A u \in Threads : OnItem(u)' => OnItem(u) /\ pc'[u] = pc[u]
      BY <1>8 DEF OnItem
    <2>3. \A u \in Threads : OnItem(u)' /\ Pending(pc[u].item)' => pc'[u].wl = writeLoop'
      BY <1>1, <1>5, <2>1, <2>2 DEF AnswerInv, OnceInv, TakenInv, loops
    <2>4. \A u \in Threads : OnItem(u)' => pc'[u].item = pc[u].item
      BY <2>2
    <2>5. \A v \in writes' : /\ v \in writes /\ Pending(v.item)' = Pending(v.item)
      BY <1>1, <1>5 DEF OnceInv, TakenInv
    <2>6. \A i \in sent : Pending(i)' /\ ~items'[i].flushed =>
            \E v \in writes' : v.done /\ v.item = i
      BY <1>1, <1>3, <1>4, <1>5, <2>1 DEF AnswerInv, OnceInv, TakenInv
    <2>7. \A c \in inbox :
            /\ c = [id |-> c.id, index |-> c.index]
            /\ c.id \in sent /\ Pending(c.id)' /\ c.id \in messageStore
            /\ c.index \notin items'[c.id].chunks
      BY <1>5, <2>1 DEF AnswerInv, OnceInv, TakenInv
    <2>8. \A i \in Ids : items'[i].chunks # {} => i \in sent
      BY <1>5, <2>1 DEF AnswerInv
    <2> QED BY <1>1, <1>3, <2>1, <2>3, <2>4, <2>5, <2>6, <2>7, <2>8 DEF AnswerInv, loops
  <1> QED BY <1>6, <1>9, <1>10, <1>11, <1>12, <1>13 DEF OnceInv

(* The server gets a request for the first time.                           *)
LEMMA TransmitKeepsOnce ==
  ASSUME TypeInv, OnceInv, NEW w \in writes, Transmit(w)
  PROVE  OnceInv'
  <1>1. /\ ~w.done /\ w.loop.socket = socket
        /\ sent' = sent \cup {w.item}
        /\ inbox' = inbox \cup [id : {w.item}, index : 1 .. NumChunks]
        /\ UNCHANGED <<requests, connection, loops, reads, pc>>
    BY DEF Transmit, Closed
  <1>2. PICK v : /\ writes' = (writes \ {w}) \cup {v} /\ v = Write(w.loop, w.item, TRUE)
    <2>1. w = Write(w.loop, w.item, w.done)
      BY DEF OnceInv, HandsInv
    <2>2. PICK v : v = [w EXCEPT !.done = TRUE]
      OBVIOUS
    <2>3. v = Write(w.loop, w.item, TRUE)
      BY <2>1, <2>2 DEF Write
    <2> QED BY <2>2, <2>3 DEF Transmit
  <1>3. v.loop = w.loop /\ v.item = w.item /\ v.done /\ v = Write(v.loop, v.item, v.done)
    BY <1>2 DEF Write
  <1>4. \A x \in writes' : (x \in writes /\ x # w /\ x.loop # w.loop) \/ x = v
    BY <1>2 DEF OnceInv, HandsInv
  <1>5. Ids' = Ids /\ \A i : Pending(i)' = Pending(i)
    BY <1>1 DEF Ids, Pending, requests
  <1>6. HandsInv'
    <2>1. IsFiniteSet(writes')
      <3>1. IsFiniteSet(writes \ {w})
        BY FS_Subset DEF OnceInv, HandsInv
      <3>2. IsFiniteSet((writes \ {w}) \cup {v})
        BY <3>1, FS_AddElement
      <3> QED BY <1>2, <3>2
    <2>2. \A u \in Threads : Carries(u)' => \A x \in writes' : x.loop # pc'[u].wl
      BY <1>1, <1>3, <1>4 DEF OnceInv, HandsInv, Carries, OnItem
    <2>3. ASSUME NEW x \in writes'
          PROVE  /\ x = Write(x.loop, x.item, x.done) /\ x.loop.socket # 0
                 /\ \A y \in writes' : y.loop = x.loop => y = x
      BY <1>3, <1>4 DEF OnceInv, HandsInv
    <2> QED BY <1>1, <2>1, <2>2, <2>3 DEF OnceInv, HandsInv, Carries, OnItem
  <1>7. SocketInv' /\ ShutInv' /\ (Open' <=> Open)
    <2>1. \A x \in writes' : Made(x.loop.socket)
      BY <1>3, <1>4 DEF OnceInv, SocketInv
    <2>2. socket # 0
      BY <1>1 DEF OnceInv, HandsInv
    <2> QED BY <1>1, <2>1, <2>2 DEF OnceInv, SocketInv, Made, ShutInv, Open, connection
  <1>8. TakenInv'
    <2>1. \A x \in writes' : x.item \in Ids /\ (Pending(x.item) => x.item \in messageStore)
      BY <1>3, <1>4 DEF OnceInv, TakenInv
    <2> QED BY <1>1, <1>5, <2>1 DEF OnceInv, TakenInv, OnItem, requests
  <1>9. ASSUME Open
        PROVE  AnswerInv'
    <2>1. AnswerInv
      BY <1>9 DEF OnceInv
    <2>2. /\ w.item \in Ids /\ Pending(w.item) /\ w.item \in messageStore /\ w.item \notin sent
          /\ w.loop = writeLoop
      BY <1>1, <2>1 DEF AnswerInv, OnceInv, TakenInv
    <2>3. items[w.item].chunks = {}
      BY <2>1, <2>2 DEF AnswerInv
    <2>4. \A x \in writes' : Pending(x.item) => x.loop = writeLoop
      BY <1>3, <1>4, <2>1, <2>2 DEF AnswerInv
    <2>5. \A i \in sent' : Pending(i) /\ ~items[i].flushed =>
            \E x \in writes' : x.done /\ x.item = i
      BY <1>1, <1>2, <1>3, <2>1 DEF AnswerInv
    <2>6. \A x \in writes' : ~x.done =>
            /\ Pending(x.item) => x.item \notin sent'
            /\ x.loop.socket = socket => Pending(x.item)
      BY <1>1, <1>3, <1>4, <2>1, <2>2 DEF AnswerInv
    <2>7. \A c \in inbox' :
            /\ c = [id |-> c.id, index |-> c.index]
            /\ c.id \in sent' /\ Pending(c.id) /\ c.id \in messageStore
            /\ c.index \notin items[c.id].chunks
      BY <1>1, <2>1, <2>2, <2>3 DEF AnswerInv
    <2> QED BY <1>1, <1>5, <2>1, <2>4, <2>5, <2>6, <2>7
            DEF AnswerInv, OnItem, requests, connection, loops
  <1> QED BY <1>6, <1>7, <1>8, <1>9 DEF OnceInv

(* Every i in the chunks of a response is the number of one.               *)
AllChunks(c) ==
  \A k \in 1 .. NumChunks : k \in items[c.id].chunks \/ k = c.index

(* A response is complete only when every chunk has come in.               *)
LEMMA CompletedAll ==
  ASSUME TypeInv, NEW c \in inbox, c.id \in Ids, Completed(c)
  PROVE  AllChunks(c)
  <1>1. /\ items[c.id].chunks \cup {c.index} \in SUBSET (1 .. NumChunks)
        /\ NumChunks \in Nat \ {0}
    BY Items DEF Item, TypeInv, ConnectionType
  <1>2. IsFiniteSet(1 .. NumChunks) /\ Cardinality(1 .. NumChunks) = NumChunks
    BY <1>1, FS_Interval
  <1>3. items[c.id].chunks \cup {c.index} = 1 .. NumChunks
    BY <1>1, <1>2, FS_Subset DEF Completed
  <1> QED BY <1>3 DEF AllChunks

(* The callback of i is called at most once, and with a response only when *)
(* all of it has come in.                                                  *)
CallsOnce(i) ==
  /\ ~Pending(i) => items'[i] = items[i]
  /\ Pending(i) /\ items'[i].result = "ok" =>
       i \in sent /\ \A k \in 1 .. NumChunks : [id |-> i, index |-> k] \notin inbox'

(* A part of a response comes in on the loop that reads: its request is in *)
(* the store, waits, and does not have that part yet.                      *)
LEMMA ProcessChunkKeepsOnce ==
  ASSUME TypeInv, OnceInv, NEW l, ProcessChunk(l)
  PROVE  OnceInv' /\ \A i \in Ids : CallsOnce(i)
  <1> FrameType /\ "io" \in Threads /\ ItemsType
    BY DEF TypeInv, Threads
  <1>1. /\ pc["io"].at \in {"idle", "readNextBytes"} /\ reads' = reads \ {l}
        /\ Goto("io", [Idle EXCEPT !.at = "readNextBytes", !.rl = l, !.self = l])
        /\ UNCHANGED <<connection, loops, writes, sent>>
    BY DEF ProcessChunk, At
  <1>2. Becomes("io", "readNextBytes", NoLoop, l, 0, "return")
    BY <1>1, GotoIdle
  <1>3. Open /\ AnswerInv
    BY <1>1 DEF Open, OnceInv
  <1>4. Ids' = Ids
    BY ChunkProcessed DEF Ids
  <1>5. PICK c \in inbox :
              /\ inbox' = inbox \ {c}
              /\ \A i \in Ids : i # c.id => items'[i] = items[i]
              /\ Gathered(c) \/ Completed(c)
    BY ChunkProcessed
  <1>6. /\ c = [id |-> c.id, index |-> c.index] /\ c.id \in sent /\ c.id \in Ids
        /\ Pending(c.id) /\ c.id \in messageStore /\ c.index \notin items[c.id].chunks
    BY <1>3 DEF AnswerInv, OnceInv, TakenInv
  <1>7. \A i \in Ids : i # c.id => Pending(i)' = Pending(i)
    BY <1>5 DEF Pending
  <1>8. ASSUME Completed(c), NEW k
        PROVE  [id |-> c.id, index |-> k] \notin inbox'
    <2> SUFFICES ASSUME [id |-> c.id, index |-> k] \in inbox'
                 PROVE  FALSE
      OBVIOUS
    <2>1. PICK d \in inbox' : d = [id |-> c.id, index |-> k]
      OBVIOUS
    <2>2. d \in inbox /\ d # c /\ d.id = c.id /\ d.index = k
      BY <1>5, <2>1
    <2>3. k \in 1 .. NumChunks /\ k \notin items[c.id].chunks
      BY <1>3, <2>2 DEF AnswerInv, TypeInv, ConnectionType
    <2>4. k = c.index
      BY <1>6, <1>8, <2>3, CompletedAll DEF AllChunks
    <2> QED BY <1>6, <2>1, <2>2, <2>4
  <1>9. Completed(c) => ~Pending(c.id)' /\ items'[c.id].chunks = {} /\ ~items'[c.id].flushed
    BY <1>6 DEF Completed
  <1>10. Gathered(c) => /\ Pending(c.id)' /\ items'[c.id].flushed = items[c.id].flushed
                        /\ items'[c.id].chunks \subseteq items[c.id].chunks \cup {c.index}
    BY <1>6 DEF Gathered, Kept, Pending
  <1>11. AnswersWhole
    <2>1. CASE Gathered(c)
      BY <1>4, <1>5, <1>6, <1>7, <1>10, <2>1 DEF AnswersWhole, OnceInv, TakenInv, Gathered
    <2>2. CASE Completed(c)
      BY <1>4, <1>5, <1>6, <1>7, <1>9, <2>2 DEF AnswersWhole, OnceInv, TakenInv, Completed
    <2> QED BY <1>5, <2>1, <2>2
  <1>12. HandsInv'
    <2>1. HoldsOn("io", "readNextBytes", NoLoop, 0)
      BY DEF HoldsOn
    <2>2. IsFiniteSet(reads')
      BY <1>1, FS_Subset DEF OnceInv, HandsInv
    <2> QED BY <1>1, <1>2, <2>1, <2>2, HoldingKeepsHands DEF OnceInv
  <1>13. SocketInv'
    BY <1>1, <1>2, HoldingKeepsSockets, NoneIsMade, SameNames DEF OnceInv, SocketInv, connection
  <1>14. TakenInv'
    BY <1>1, <1>2, <1>11, HoldingKeepsTaken DEF OnceInv
  <1>15. ShutInv'
    BY <1>2 DEF ShutInv, Becomes
  <1>16. AnswerInv'
    <2>1. \A i \in Ids : Pending(i)' => Pending(i) /\ items'[i].flushed = items[i].flushed
      BY <1>5, <1>6, <1>7, <1>9, <1>10
    <2>2. \A u \in Threads : OnItem(u)' => OnItem(u) /\ pc'[u] = pc[u]
      BY <1>2 DEF Becomes, OnItem
    <2>3. \A u \in Threads : OnItem(u)' /\ Pending(pc[u].item)' => pc'[u].wl = writeLoop'
      BY <1>1, <1>3, <2>1, <2>2 DEF AnswerInv, OnceInv, TakenInv, loops
    <2>4. \A u \in Threads : OnItem(u)' => pc'[u].item = pc[u].item
      BY <2>2
    <2>5. \A v \in writes : Pending(v.item)' => v.loop = writeLoop'
      BY <1>1, <1>3, <2>1 DEF AnswerInv, OnceInv, TakenInv, loops
    <2>6. \A i \in sent : Pending(i)' /\ ~items'[i].flushed =>
            \E v \in writes : v.done /\ v.item = i
      BY <1>3, <2>1 DEF AnswerInv, OnceInv, TakenInv
    <2>7. \A v \in writes : ~v.done =>
            /\ Pending(v.item)' => v.item \notin sent
            /\ v.loop.socket = socket => Pending(v.item)'
      BY <1>3, <1>6, <1>7, <2>1 DEF AnswerInv, OnceInv, TakenInv
    <2>8. ASSUME NEW d \in inbox'
          PROVE  /\ d = [id |-> d.id, index |-> d.index]
                 /\ d.id \in sent /\ Pending(d.id)' /\ d.id \in messageStore'
                 /\ d.index \notin items'[d.id].chunks
      <3>1. d \in inbox /\ d # c /\ d.id \in Ids
        BY <1>3, <1>5 DEF AnswerInv, OnceInv, TakenInv
      <3>2. CASE d.id # c.id
        BY <1>3, <1>5, <1>7, <3>1, <3>2 DEF AnswerInv, Gathered, Completed
      <3>3. CASE d.id = c.id
        <4>1. d = [id |-> c.id, index |-> d.index]
          BY <1>3, <3>1, <3>3 DEF AnswerInv
        <4>2. ~Completed(c) /\ d.index # c.index
          BY <1>6, <1>8, <2>8, <3>1, <4>1
        <4>3. Gathered(c)
          BY <1>5, <4>2
        <4> QED BY <1>3, <1>10, <3>1, <3>3, <4>2, <4>3 DEF AnswerInv, Gathered
      <3> QED BY <3>2, <3>3
    <2>9. \A i \in Ids : items'[i].chunks # {} => i \in sent
      BY <1>3, <1>5, <1>6 DEF AnswerInv
    <2> QED BY <1>1, <1>4, <2>3, <2>4, <2>5, <2>6, <2>7, <2>8, <2>9 DEF AnswerInv, connection
  <1>17. ASSUME NEW i \in Ids
         PROVE  CallsOnce(i)
    <2>1. CASE i # c.id
      BY <1>5, <2>1 DEF CallsOnce, Pending
    <2>2. CASE i = c.id /\ Gathered(c)
      BY <1>6, <1>10, <2>2 DEF CallsOnce, Pending
    <2>3. CASE i = c.id /\ Completed(c)
      BY <1>6, <1>8, <2>3 DEF CallsOnce
    <2> QED BY <1>5, <2>1, <2>2, <2>3
  <1> QED BY <1>12, <1>13, <1>14, <1>15, <1>16, <1>17 DEF OnceInv

(* Every step keeps the invariant.                                         *)
LEMMA OnceStep ==
  ASSUME TypeInv, OnceInv, Next
  PROVE  OnceInv'
  <1>1. ASSUME NEW u \in Users, Calls(u)
        PROVE  OnceInv'
    BY <1>1, SendRequestKeepsOnce, CallKeepsOnce DEF Calls
  <1>2. ASSUME Restart
        PROVE  OnceInv'
    BY <1>2, RestartKeepsOnce, ShutdownKeepsOnce, CancelKeepsOnce DEF Restart
  <1>3. ASSUME Callback
        PROVE  OnceInv'
    BY <1>3, ProcessChunkKeepsOnce, FailureKeepsOnce, WriteSucceedsKeepsOnce,
       WriteFailsKeepsOnce DEF Callback
  <1> QED BY <1>1, <1>2, <1>3, LoopKeepsOnce, ConnectKeepsOnce, FailureKeepsOnce,
             TransmitKeepsOnce DEF Next

(* A callback that reports an error is no response.                        *)
LEMMA ErrorCallsOnce ==
  ASSUME TypeInv, NEW ids, items' = Answered(items, ids, "error"),
         \A i \in Ids : ~Pending(i) => items'[i] = items[i]
  PROVE  \A i \in Ids : CallsOnce(i)
  <1>1. DOMAIN items = Ids
    BY Items DEF TypeInv
  <1>2. \A i \in Ids : items'[i] = items[i] \/ items'[i].result = "error"
    BY <1>1 DEF Answered, NewItem
  <1> QED BY <1>2 DEF CallsOnce, Pending

(* No step calls anybody twice.                                            *)
LEMMA StepCallsOnce ==
  ASSUME TypeInv, OnceInv, Next
  PROVE  \A i \in Ids : CallsOnce(i)
  <1>1. ASSUME \A i \in Ids : items'[i] = items[i]
        PROVE  \A i \in Ids : CallsOnce(i)
    BY <1>1 DEF CallsOnce, Pending
  <1>2. ASSUME NEW u \in Users, sendRequest(u)
        PROVE  \A i \in Ids : items'[i] = items[i]
    BY <1>2, ItemAdded DEF sendRequest, TypeInv
  <1>3. ASSUME NEW n, HeaderSucceeds(n)
        PROVE  \A i \in Ids : items'[i] = items[i]
    BY <1>3, ItemAdded DEF HeaderSucceeds, insertAuthenticationRequests, TypeInv
  <1>4. ASSUME NEW t, NextFront(t) \/ NextRemove(t)
        PROVE  \A i \in Ids : items'[i] = items[i]
    BY <1>4 DEF NextFront, NextRemove
  <1>5. ASSUME NEW w \in writes, WriteSucceeds(w)
        PROVE  \A i \in Ids : CallsOnce(i)
    <2>1. \A i \in Ids : items'[i].result = items[i].result
      BY <1>5, ItemFlushed DEF TypeInv
    <2> QED BY <1>5, <2>1, WriteSucceedsKeepsOnce DEF CallsOnce, Pending
  <1>6. ASSUME NEW w \in writes, WriteFails(w)
        PROVE  \A i \in Ids : CallsOnce(i)
    BY <1>6, WriteFailsKeepsOnce, ErrorCallsOnce DEF WriteFails, Invoke
  <1>7. ASSUME cancelAll
        PROVE  \A i \in Ids : CallsOnce(i)
    BY <1>7, CancelKeepsOnce, ErrorCallsOnce DEF cancelAll, Invoke
  <1>8. ASSUME UNCHANGED requests
        PROVE  \A i \in Ids : items'[i] = items[i]
    BY <1>8 DEF requests
  <1> QED BY <1>1, <1>2, <1>3, <1>4, <1>5, <1>6, <1>7, <1>8, ProcessChunkKeepsOnce,
             RequestSteps

(* The invariant holds when the connection is started.                     *)
LEMMA OnceInit ==
  ASSUME Init
  PROVE  OnceInv
  <1> USE DEF Init
  <1>1. \A t \in Threads : pc[t] = Idle
    OBVIOUS
  <1>2. \A t \in Threads : ~OnItem(t) /\ ~Carries(t) /\ pc[t].at = "idle"
    BY <1>1, IdleFrame DEF OnItem, Carries
  <1>3. HandsInv
    BY <1>2, FS_EmptySet DEF HandsInv
  <1>4. SocketInv
    <2>1. Made(0)
      BY DEF Made
    <2> QED BY <1>1, <2>1, IdleFrame DEF SocketInv, NoLoop
  <1>5. TakenInv /\ ShutInv /\ AnswerInv
    <2>1. Ids = {}
      BY DEF Ids
    <2> QED BY <1>2, <2>1 DEF TakenInv, ShutInv, AnswerInv
  <1> QED BY <1>3, <1>4, <1>5 DEF OnceInv

-----------------------------------------------------------------------------
(* Until the first fault                                                   *)

UserLabels == {"idle", "test", "wait", "startWriting", "front", "removeFirst",
               "startReading", "readNextBytes", "write"}

Setup(op) == setup = {[op |-> op, n |-> 1]}

PhaseInv ==
  /\ ~died /\ ~permanent_failure
  /\ attempts = 1
  /\ \A t \in Threads : pc[t].at \in UserLabels
  /\ pc["io"].at \notin {"test", "wait"}
  /\ \/ ~connected /\ Setup("resolve") /\ socket = 0
     \/ ~connected /\ Setup("connect") /\ socket = 1
     \/ ~connected /\ Setup("header") /\ socket = 1
     \/ connected /\ setup = {} /\ socket = 1
  /\ ~connected =>
       /\ \A t \in Threads : pc[t].at \in {"idle", "test", "wait"} /\ ~OnItem(t)
       /\ writeLoop = NoLoop /\ readLoop = NoLoop /\ reads = {} /\ writes = {}
       /\ inbox = {} /\ sent = {} /\ messageStore = {}

WriterInv ==
  /\ writeLoop # NoLoop =>
       writeLoop.socket = 1 /\ (writes # {} \/ \E t \in Threads : Carries(t))
  /\ \A t \in Threads : Carries(t) =>
       /\ pc[t].wl = writeLoop /\ writeLoop # NoLoop /\ writes = {}
       /\ \A u \in Threads : Carries(u) => u = t
  /\ \A w \in writes :
       /\ w = Write(w.loop, w.item, w.done)
       /\ w.loop = writeLoop /\ writeLoop # NoLoop /\ writes = {w}
  /\ \A t \in Threads :
       /\ OnItem(t) => pc[t].at \in {"removeFirst", "startReading", "readNextBytes", "write"}
       /\ pc[t].at \in {"removeFirst", "write"} => OnItem(t)

Reads(t) == pc[t].at = "readNextBytes"

ReaderInv ==
  /\ readLoop # NoLoop =>
       readLoop.socket = 1 /\ (readLoop \in reads \/ \E t \in Threads : Reads(t))
  /\ \A t \in Threads : Reads(t) =>
       /\ pc[t].rl = readLoop /\ readLoop # NoLoop /\ reads = {}
       /\ \A u \in Threads : Reads(u) => u = t
  /\ reads \subseteq {readLoop} /\ (reads # {} => readLoop # NoLoop)
  /\ Reads("io") /\ OnItem("io") => pc["io"].self # pc["io"].rl

(* The server has not had the request, nor has anybody written it.         *)
Untouched(i) == Pending(i) /\ ~items[i].flushed /\ i \notin sent

Queued(i) == \E j \in 1 .. Len(sendQueue) : sendQueue[j] = i

ItemInv ==
  /\ sent \subseteq Ids
  /\ \A i \in messageStore : Pending(i)
  /\ \A c \in inbox : c.id \in sent
  /\ \A i \in Ids : Queued(i) => Untouched(i)
  /\ \A j, k \in 1 .. Len(sendQueue) : sendQueue[j] = sendQueue[k] => j = k
  /\ \A t \in Threads : OnItem(t) =>
       /\ pc[t].item \in Ids /\ Untouched(pc[t].item)
       /\ IF pc[t].at = "removeFirst"
          THEN sendQueue # <<>> /\ sendQueue[1] = pc[t].item
          ELSE ~Queued(pc[t].item)
  /\ \A w \in writes :
       /\ w.item \in Ids /\ ~Queued(w.item)
       /\ IF w.done THEN w.item \in sent ELSE Untouched(w.item)

ServedInv ==
  /\ connected /\ sendQueue # <<>> /\ writeLoop = NoLoop =>
        \E t \in Threads : pc[t].at \in {"test", "startWriting"}
  /\ messageStore # {} /\ readLoop = NoLoop =>
        \E t \in Threads : pc[t].at \in {"removeFirst", "startReading"}

AuthInv ==
  connected /\ sent = {} =>
    /\ \A t \in Threads : OnItem(t) => items[pc[t].item].from = "auth"
    /\ \A w \in writes : items[w.item].from = "auth"
    /\ writes = {} /\ (\A t \in Threads : ~OnItem(t)) =>
          sendQueue # <<>> /\ items[sendQueue[1]].from = "auth"

Clear ==
  PhaseInv /\ WriterInv /\ ReaderInv /\ ItemInv /\ ServedInv /\ AuthInv

USE DEF Clear

(* A thread that has neither loop in hand goes on to another such place.   *)
Wanders(t, a) ==
  /\ Becomes(t, a, NoLoop, NoLoop, 0, "return") \/ Becomes(t, a, NoLoop, NoLoop, 0, "reading")
  /\ ~Carries(t) /\ ~Reads(t)
  /\ a \in {"idle", "test", "wait", "startWriting", "startReading"}
  /\ t = "io" => a \notin {"test", "wait"}

(* Such a step disturbs neither loop.                                      *)
LEMMA WandererKeepsLoops ==
  ASSUME TypeInv, Clear, NEW t \in Threads, NEW a, Wanders(t, a),
         UNCHANGED <<loops, reads, writes>>
  PROVE  WriterInv' /\ ReaderInv'
  <1>1. /\ Carries(t)' = FALSE /\ Reads(t)' = FALSE
        /\ \A u \in Threads \ {t} : Carries(u)' = Carries(u) /\ Reads(u)' = Reads(u)
    BY DEF Wanders, Becomes, Carries, Reads, OnItem
  <1>2. WriterInv'
    BY <1>1 DEF Wanders, Becomes, WriterInv, loops, OnItem, Carries
  <1>3. ReaderInv'
    BY <1>1 DEF Wanders, Becomes, ReaderInv, loops, OnItem, Reads, Threads
  <1> QED BY <1>2, <1>3

(* Such a step keeps Clear unless it was needed to start a loop.           *)
LEMMA WandererKeepsClear ==
  ASSUME TypeInv, Clear, NEW t \in Threads, NEW a, Wanders(t, a),
         UNCHANGED <<requests, connection, loops, network, died>>,
         connected \/ a \in {"idle", "test", "wait"},
         \/ a \in {"test", "startWriting"} \/ pc[t].at \notin {"test", "startWriting"}
         \/ writeLoop # NoLoop \/ ~connected,
         pc[t].at # "startReading" \/ readLoop # NoLoop
  PROVE  Clear'
  <1>1. /\ pc'[t].at = a /\ ~OnItem(t)' /\ ~OnItem(t)
        /\ \A u \in Threads \ {t} : pc'[u] = pc[u]
        /\ pc[t].at # "removeFirst"
    BY DEF Wanders, Becomes, OnItem, Carries
  <1>2. PhaseInv'
    <2>1. \A u \in Threads : pc'[u].at \in UserLabels
      BY <1>1 DEF PhaseInv, Wanders, UserLabels
    <2>2. pc'["io"].at \notin {"test", "wait"}
      BY <1>1 DEF PhaseInv, Wanders, Threads
    <2>3. \/ ~connected' /\ Setup("resolve")' /\ socket' = 0
          \/ ~connected' /\ Setup("connect")' /\ socket' = 1
          \/ ~connected' /\ Setup("header")' /\ socket' = 1
          \/ connected' /\ setup' = {} /\ socket' = 1
      BY DEF PhaseInv, Setup, connection
    <2>4. ~connected' =>
             \A u \in Threads : pc'[u].at \in {"idle", "test", "wait"} /\ ~OnItem(u)'
      BY <1>1 DEF PhaseInv, connection, OnItem
    <2> QED BY <2>1, <2>2, <2>3, <2>4 DEF PhaseInv, connection, loops, network, requests
  <1>3. WriterInv' /\ ReaderInv'
    BY WandererKeepsLoops DEF network
  <1>4. ItemInv'
    BY <1>1 DEF ItemInv, requests, network, OnItem, Untouched, Queued, Pending, Ids
  <1>5. ServedInv'
    BY <1>1 DEF ServedInv, connection, requests, loops
  <1>6. AuthInv'
    BY <1>1 DEF AuthInv, connection, requests, network, OnItem
  <1> QED BY <1>2, <1>3, <1>4, <1>5, <1>6

(* sendRequest() looks at _connected.                                      *)
LEMMA TestKeepsClear ==
  ASSUME TypeInv, Clear, NEW u \in Users, TestConnected(u)
  PROVE  Clear'
  <1> u \in Threads /\ u # "io" /\ FrameType
    BY DEF Threads, TypeInv
  <1>1. PICK a : /\ a = IF connected THEN "startWriting" ELSE "wait"
                 /\ Goto(u, [Idle EXCEPT !.at = a])
    BY DEF TestConnected
  <1>2. Becomes(u, a, NoLoop, NoLoop, 0, "return")
    BY <1>1, GotoPlace
  <1>3. /\ pc[u].at = "test"
        /\ UNCHANGED <<requests, connection, loops, network, faults, died>>
    BY DEF TestConnected, At
  <1>4. Wanders(u, a)
    BY <1>1, <1>2, <1>3 DEF Wanders, Carries, Reads, WriterInv
  <1> QED BY <1>1, <1>3, <1>4, WandererKeepsClear

(* sendRequest() returns.                                                  *)
LEMMA WaitKeepsClear ==
  ASSUME TypeInv, Clear, NEW u \in Users, WaitReturns(u)
  PROVE  Clear'
  <1> u \in Threads /\ u # "io" /\ FrameType
    BY DEF Threads, TypeInv
  <1>1. Becomes(u, "idle", NoLoop, NoLoop, 0, "return")
    BY GotoStart DEF WaitReturns
  <1>2. /\ pc[u].at = "wait"
        /\ UNCHANGED <<requests, connection, loops, network, faults, died>>
    BY DEF WaitReturns, At
  <1>3. Wanders(u, "idle")
    BY <1>1, <1>2 DEF Wanders, Carries, Reads, WriterInv
  <1> QED BY <1>2, <1>3, WandererKeepsClear

(* Whoever is beyond the test of the flag is on an open connection.        *)
LEMMA ConnectedFirst ==
  ASSUME Clear, NEW t \in Threads, pc[t].at \notin {"idle", "test", "wait"}
  PROVE  connected /\ socket = 1 /\ setup = {}
  BY DEF PhaseInv

(* At most one read and one write are pending.                             *)
LEMMA Finite ==
  ASSUME Clear
  PROVE  IsFiniteSet(reads) /\ IsFiniteSet(writes)
  <1>1. IsFiniteSet(reads)
    <2>1. reads \in SUBSET {readLoop}
      BY DEF ReaderInv
    <2> QED BY <2>1, FS_Singleton, FS_Subset
  <1>2. CASE writes = {}
    BY <1>1, <1>2, FS_EmptySet
  <1>3. CASE writes # {}
    <2>1. PICK w : writes = {w}
      BY <1>3 DEF WriterInv
    <2> QED BY <1>1, <2>1, FS_Singleton
  <1> QED BY <1>2, <1>3

(* A step on the open connection that leaves it open.                      *)
LEMMA StaysConnected ==
  ASSUME TypeInv, Clear, connected, UNCHANGED connection, died' = died,
         NEW t \in Threads, pc'[t].at \in UserLabels,
         t # "io" \/ pc'[t].at \notin {"test", "wait"},
         \A u \in Threads \ {t} : pc'[u] = pc[u]
  PROVE  PhaseInv'
  <1>1. connected' /\ setup' = {} /\ socket' = 1 /\ attempts' = 1 /\ ~permanent_failure'
    BY DEF PhaseInv, connection
  <1>2. \A u \in Threads : pc'[u].at \in UserLabels
    BY DEF PhaseInv
  <1>3. pc'["io"].at \notin {"test", "wait"} /\ ~died'
    BY DEF PhaseInv, Threads
  <1> QED BY <1>1, <1>2, <1>3 DEF PhaseInv

(* startWriting(): with a loop already there, or with a new one.           *)
LEMMA StartWritingKeepsClear ==
  ASSUME TypeInv, Clear, NEW t \in Threads, startWriting(t)
  PROVE  Clear'
  <1> FrameType
    BY DEF TypeInv
  <1>1. /\ pc[t].at = "startWriting" /\ connected /\ socket = 1 /\ ~Carries(t) /\ ~Reads(t)
        /\ UNCHANGED <<requests, connection, readLoop, writeMutex, network, faults, died>>
    BY ConnectedFirst DEF startWriting, At, WriterInv, Carries, Reads
  <1>2. CASE writeLoop # NoLoop
    <2>1. Return(t) /\ UNCHANGED writeLoop
      BY <1>2 DEF startWriting
    <2>2. PICK a \in {"wait", "startReading", "idle"} :
            Becomes(t, a, NoLoop, NoLoop, 0, "return") /\ (a = "wait" <=> t # "io")
      BY <2>1, Returns
    <2>3. Wanders(t, a)
      BY <1>1, <2>2 DEF Wanders
    <2> QED BY <1>1, <1>2, <2>1, <2>3, WandererKeepsClear DEF loops
  <1>3. CASE writeLoop = NoLoop
    <2>0. /\ writeLoop' = NewLoop
          /\ Goto(t, [pc[t] EXCEPT !.at = "front", !.wl = writeLoop'])
      BY <1>3 DEF startWriting
    <2>1. PICK w : /\ w = NewLoop /\ writeLoop' = w
                   /\ Goto(t, [pc[t] EXCEPT !.at = "front", !.wl = w])
      BY <2>0
    <2>2. Becomes(t, "front", w, pc[t].rl, pc[t].item, pc[t].then)
      BY <2>1, GotoWriter
    <2>3. w.socket = 1 /\ w # NoLoop
      BY <1>1, <1>3, <2>1, Finite, FreshLoop DEF NoLoop
    <2>4. /\ pc'[t].at = "front" /\ pc'[t].wl = w /\ ~OnItem(t)' /\ ~OnItem(t)
          /\ Carries(t)' /\ ~Reads(t)'
          /\ \A u \in Threads \ {t} : pc'[u] = pc[u]
      BY <1>1, <2>2 DEF Becomes, OnItem, Carries, Reads
    <2>5. writes = {} /\ \A u \in Threads : ~Carries(u)
      BY <1>3 DEF WriterInv
    <2>6. PhaseInv'
      BY <1>1, <2>4, StaysConnected DEF UserLabels
    <2>7. WriterInv'
      BY <1>1, <2>1, <2>3, <2>4, <2>5 DEF WriterInv, Carries, OnItem, network
    <2>8. ReaderInv'
      BY <1>1, <2>4 DEF ReaderInv, Reads, OnItem, network, Threads
    <2>9. ItemInv'
      BY <1>1, <2>4 DEF ItemInv, requests, network, OnItem, Untouched, Queued, Pending, Ids
    <2>10. ServedInv'
      BY <1>1, <2>1, <2>3, <2>4 DEF ServedInv, connection, requests
    <2>11. AuthInv'
      BY <1>1, <2>4 DEF AuthInv, connection, requests, network, OnItem
    <2> QED BY <2>6, <2>7, <2>8, <2>9, <2>10, <2>11
  <1> QED BY <1>2, <1>3

(* The write loop in hand is the only one, and on the open socket.         *)
LEMMA Carrier ==
  ASSUME TypeInv, Clear, NEW t \in Threads, Carries(t)
  PROVE  /\ pc[t].wl = writeLoop /\ writeLoop # NoLoop /\ writes = {}
         /\ writeLoop.socket = 1 /\ connected /\ socket = 1 /\ ~permanent_failure
         /\ \A u \in Threads : Carries(u) \/ OnItem(u) => u = t
         /\ \A u \in Threads : pc[u].at \in {"front", "removeFirst", "write"} => u = t
  <1>1. connected
    BY DEF PhaseInv, Carries
  <1> QED BY <1>1 DEF WriterInv, PhaseInv, Carries

(* The loop takes the first request in hand, or ends.                      *)
LEMMA NextFrontKeepsClear ==
  ASSUME TypeInv, Clear, NEW t \in Threads, NextFront(t)
  PROVE  Clear'
  <1> FrameType /\ QueueType
    BY DEF TypeInv
  <1>1. /\ pc[t].at = "front" /\ Carries(t) /\ ~Reads(t) /\ ~OnItem(t)
        /\ pc[t].wl = writeLoop /\ ~permanent_failure
        /\ UNCHANGED <<items, sendQueue, connection, readLoop, network, faults, died>>
    BY Carrier DEF NextFront, At, WriterInv, Carries, Reads
  <1>2. CASE sendQueue # <<>>
    <2>0. PICK h : /\ h = Head(sendQueue) /\ messageStore' = messageStore \cup {h}
                   /\ Goto(t, [pc[t] EXCEPT !.at = "removeFirst", !.item = h])
                   /\ UNCHANGED writeLoop
      BY <1>1, <1>2 DEF NextFront
    <2>1. h \in Ids /\ h # 0 /\ h = sendQueue[1] /\ Untouched(h)
      BY <1>2, <2>0, Queue DEF ItemInv, Queued, Ids
    <2>2. Becomes(t, "removeFirst", pc[t].wl, pc[t].rl, h, pc[t].then)
      BY <2>0, GotoItem
    <2>3. /\ pc'[t].at = "removeFirst" /\ pc'[t].wl = writeLoop /\ pc'[t].item = h
          /\ OnItem(t)' /\ Carries(t)' /\ ~Reads(t)'
          /\ \A u \in Threads \ {t} : pc'[u] = pc[u]
      BY <1>1, <2>1, <2>2 DEF Becomes, OnItem, Carries, Reads
    <2>4. writes = {} /\ \A u \in Threads : OnItem(u) => u = t
      BY <1>1, Carrier
    <2>5. PhaseInv'
      BY <1>1, <2>3, Carrier, StaysConnected DEF UserLabels
    <2>6. WriterInv'
      BY <1>1, <2>0, <2>3 DEF WriterInv, Carries, OnItem, network
    <2>7. ReaderInv'
      BY <1>1, <2>3 DEF ReaderInv, Reads, OnItem, network, Threads
    <2>8. ItemInv'
      <3>1. /\ Ids' = Ids /\ \A i \in Ids : Pending(i)' = Pending(i)
            /\ \A i : Queued(i)' = Queued(i)
            /\ \A i : Untouched(i)' = Untouched(i)
        BY <1>1 DEF Ids, Pending, Queued, Untouched, network
      <3>2. \A i \in messageStore' : Pending(i)'
        BY <2>0, <2>1, <3>1 DEF ItemInv, Untouched, QueueType
      <3>3. \A u \in Threads : OnItem(u)' => u = t
        BY <2>3, <2>4 DEF OnItem
      <3> QED BY <1>1, <1>2, <2>1, <2>3, <2>4, <3>1, <3>2, <3>3 DEF ItemInv, network
    <2>9. ServedInv'
      BY <1>1, <2>0, <2>3, Carrier DEF ServedInv
    <2>10. AuthInv'
      BY <1>1, <1>2, <2>1, <2>3, <2>4 DEF AuthInv, connection, network, OnItem
    <2> QED BY <2>5, <2>6, <2>7, <2>8, <2>9, <2>10
  <1>3. CASE sendQueue = <<>>
    <2>0. /\ writeLoop' = NoLoop /\ Return(t) /\ UNCHANGED <<messageStore, writeMutex>>
      BY <1>1, <1>3 DEF NextFront, EndLoop
    <2>1. PICK a \in {"wait", "startReading", "idle"} :
            Becomes(t, a, NoLoop, NoLoop, 0, "return") /\ (a = "wait" <=> t # "io")
      BY <2>0, Returns
    <2>2. /\ pc'[t].at = a /\ ~OnItem(t)' /\ ~Carries(t)' /\ ~Reads(t)'
          /\ \A u \in Threads \ {t} : pc'[u] = pc[u]
      BY <2>1 DEF Becomes, OnItem, Carries, Reads
    <2>3. /\ writes = {} /\ \A u \in Threads : Carries(u) \/ OnItem(u) => u = t
          /\ connected
      BY <1>1, Carrier
    <2>4. \A u \in Threads : ~Carries(u)' /\ ~OnItem(u)'
      BY <2>2, <2>3 DEF Carries, OnItem
    <2>5. PhaseInv'
      BY <1>1, <2>1, <2>2, <2>3, StaysConnected DEF UserLabels
    <2>6. WriterInv'
      <3>1. \A u \in Threads : pc'[u].at \notin {"removeFirst", "write"}
        BY <1>1, <2>2, Carrier
      <3> QED BY <1>1, <2>0, <2>3, <2>4, <3>1 DEF WriterInv, network
    <2>7. ReaderInv'
      BY <1>1, <2>2 DEF ReaderInv, Reads, OnItem, network, Threads
    <2>8. ItemInv'
      BY <1>1, <2>0, <2>3, <2>4 DEF ItemInv, Ids, Pending, Queued, Untouched, network
    <2>9. ServedInv'
      BY <1>1, <1>3, <2>0, <2>2 DEF ServedInv
    <2>10. sent # {}
      BY <1>1, <1>3, <2>3 DEF AuthInv
    <2>11. AuthInv'
      BY <1>1, <2>10 DEF AuthInv, network
    <2> QED BY <2>5, <2>6, <2>7, <2>8, <2>9, <2>11
  <1> QED BY <1>2, <1>3

(* The request in hand leaves the queue.                                   *)
LEMMA NextRemoveKeepsClear ==
  ASSUME TypeInv, Clear, NEW t \in Threads, NextRemove(t)
  PROVE  Clear'
  <1> FrameType /\ QueueType
    BY DEF TypeInv
  <1>1. /\ pc[t].at = "removeFirst" /\ Carries(t) /\ ~Reads(t) /\ OnItem(t)
        /\ pc[t].wl = writeLoop
        /\ sendQueue' = Tail(sendQueue)
        /\ UNCHANGED <<items, messageStore, connection, readLoop, writeLoop, network,
                       faults, died>>
    BY Carrier DEF NextRemove, At, WriterInv, Carries, Reads
  <1>2. Goto(t, [pc[t] EXCEPT !.at = "startReading"])
    BY DEF NextRemove
  <1>3. Becomes(t, "startReading", pc[t].wl, pc[t].rl, pc[t].item, pc[t].then)
    BY <1>2, GotoLabel
  <1>4. /\ pc'[t].at = "startReading" /\ pc'[t].wl = writeLoop /\ pc'[t].item = pc[t].item
        /\ OnItem(t)' /\ Carries(t)' /\ ~Reads(t)'
        /\ \A u \in Threads \ {t} : pc'[u] = pc[u]
    BY <1>1, <1>3 DEF Becomes, OnItem, Carries, Reads
  <1>5. writes = {} /\ \A u \in Threads : OnItem(u) => u = t
    BY <1>1, Carrier
  <1>6. PhaseInv'
    BY <1>1, <1>4, Carrier, StaysConnected DEF UserLabels
  <1>7. WriterInv'
    BY <1>1, <1>4 DEF WriterInv, Carries, OnItem, network
  <1>8. ReaderInv'
    BY <1>1, <1>4 DEF ReaderInv, Reads, OnItem, network, Threads
  <1>9. /\ sendQueue # <<>> /\ sendQueue[1] = pc[t].item
        /\ Len(sendQueue) \in Nat /\ Len(sendQueue') = Len(sendQueue) - 1
        /\ \A j \in 1 .. Len(sendQueue') :
              j + 1 \in 1 .. Len(sendQueue) /\ sendQueue'[j] = sendQueue[j + 1] /\ j + 1 # 1
    <2>1. sendQueue # <<>> /\ sendQueue[1] = pc[t].item
      BY <1>1 DEF ItemInv
    <2> QED BY <1>1, <2>1, Shortened DEF QueueType
  <1>10. ItemInv'
    <2>1. /\ Ids' = Ids /\ \A i : Pending(i)' = Pending(i)
          /\ \A i : Untouched(i)' = Untouched(i)
      BY <1>1 DEF Ids, Pending, Untouched, network
    <2>2. \A i : Queued(i)' => Queued(i)
      BY <1>9 DEF Queued
    <2>3. ~Queued(pc[t].item)'
      <3>1. ASSUME NEW j \in 1 .. Len(sendQueue'), sendQueue'[j] = pc[t].item
            PROVE  FALSE
        <4>1. /\ j + 1 \in 1 .. Len(sendQueue) /\ 1 \in 1 .. Len(sendQueue)
              /\ sendQueue[j + 1] = sendQueue[1] /\ j + 1 # 1
          BY <1>9, <3>1
        <4> QED BY <4>1 DEF ItemInv
      <3> QED BY <1>4, <3>1 DEF Queued
    <2>4. \A j, k \in 1 .. Len(sendQueue') : sendQueue'[j] = sendQueue'[k] => j = k
      <3>1. ASSUME NEW j \in 1 .. Len(sendQueue'), NEW k \in 1 .. Len(sendQueue'),
                   sendQueue'[j] = sendQueue'[k]
            PROVE  j = k
        <4>1. /\ j + 1 \in 1 .. Len(sendQueue) /\ k + 1 \in 1 .. Len(sendQueue)
              /\ sendQueue[j + 1] = sendQueue[k + 1]
          BY <1>9, <3>1
        <4>2. j + 1 = k + 1
          BY <4>1 DEF ItemInv
        <4> QED BY <4>2
      <3> QED BY <3>1
    <2>5. \A u \in Threads : OnItem(u)' => u = t
      BY <1>4, <1>5 DEF OnItem
    <2> QED BY <1>1, <1>4, <1>5, <2>1, <2>2, <2>3, <2>4, <2>5 DEF ItemInv, network
  <1>11. ServedInv'
    BY <1>1, <1>4, Carrier DEF ServedInv
  <1>12. AuthInv'
    BY <1>1, <1>4, <1>5 DEF AuthInv, connection, network, OnItem
  <1> QED BY <1>6, <1>7, <1>8, <1>10, <1>11, <1>12

(* The request in hand becomes a pending write: no assertion fails.        *)
LEMMA WriteRequestKeepsClear ==
  ASSUME TypeInv, Clear, NEW t \in Threads, WriteRequest(t)
  PROVE  Clear'
  <1> FrameType /\ QueueType
    BY DEF TypeInv
  <1>1. /\ pc[t].at = "write" /\ Carries(t) /\ ~Reads(t) /\ OnItem(t)
        /\ pc[t].wl = writeLoop /\ writeLoop.socket = 1
    <2>1. pc[t].at = "write" /\ OnItem(t) /\ Carries(t) /\ ~Reads(t)
      BY DEF WriteRequest, At, WriterInv, Carries, Reads
    <2> QED BY <2>1, Carrier
  <1>2. PICK i : i = pc[t].item
    OBVIOUS
  <1>3. i \in Ids /\ Untouched(i) /\ ~Queued(i)
    BY <1>1, <1>2 DEF ItemInv
  <1>4. /\ writes' = writes \cup {[loop |-> writeLoop, item |-> i, done |-> FALSE]}
        /\ Return(t)
        /\ UNCHANGED <<requests, connection, loops, reads, inbox, sent, faults, died>>
    BY <1>1, <1>2, <1>3 DEF WriteRequest, Alive, Untouched
  <1>5. PICK a \in {"wait", "startReading", "idle"} :
          Becomes(t, a, NoLoop, NoLoop, 0, "return") /\ (a = "wait" <=> t # "io")
    BY <1>4, Returns
  <1>6. /\ pc'[t].at = a /\ ~OnItem(t)' /\ ~Carries(t)' /\ ~Reads(t)'
        /\ \A u \in Threads \ {t} : pc'[u] = pc[u]
    BY <1>5 DEF Becomes, OnItem, Carries, Reads
  <1>7. /\ writes = {} /\ writeLoop # NoLoop /\ connected
        /\ \A u \in Threads : Carries(u) \/ OnItem(u) => u = t
    BY <1>1, Carrier
  <1>8. \A u \in Threads : ~Carries(u)' /\ ~OnItem(u)'
    BY <1>6, <1>7 DEF Carries, OnItem
  <1>9. PICK w : /\ writes' = {w} /\ w.loop = writeLoop /\ w.item = i /\ ~w.done
                 /\ w = Write(w.loop, w.item, w.done)
    <2>1. PICK w : w = Write(writeLoop, i, FALSE)
      OBVIOUS
    <2>2. w.loop = writeLoop /\ w.item = i /\ ~w.done /\ w = Write(w.loop, w.item, w.done)
      BY <2>1 DEF Write
    <2>3. writes' = {w}
      BY <1>4, <1>7, <2>1 DEF Write
    <2> QED BY <2>2, <2>3
  <1>10. PhaseInv'
    BY <1>4, <1>5, <1>6, <1>7, StaysConnected DEF UserLabels
  <1>11. WriterInv'
    <2>1. \A u \in Threads : pc'[u].at \notin {"removeFirst", "write"}
      BY <1>1, <1>6, Carrier
    <2> QED BY <1>1, <1>4, <1>7, <1>8, <1>9, <2>1 DEF WriterInv, loops
  <1>12. ReaderInv'
    BY <1>1, <1>4, <1>6 DEF ReaderInv, Reads, OnItem, loops, Threads
  <1>13. ItemInv'
    <2>1. /\ Ids' = Ids /\ \A k : Pending(k)' = Pending(k)
          /\ \A k : Queued(k)' = Queued(k)
          /\ \A k : Untouched(k)' = Untouched(k)
      BY <1>4 DEF Ids, Pending, Queued, Untouched, requests
    <2> QED BY <1>3, <1>4, <1>8, <1>9, <2>1 DEF ItemInv, requests
  <1>14. ServedInv'
    BY <1>1, <1>4, <1>6, <1>7 DEF ServedInv, loops, requests
  <1>15. AuthInv'
    BY <1>1, <1>2, <1>4, <1>8, <1>9 DEF AuthInv, connection, requests
  <1> QED BY <1>10, <1>11, <1>12, <1>13, <1>14, <1>15

(* Behind the asynchronous read, or when there is somebody who reads.      *)
LEMMA AfterReadingKeepsWriter ==
  ASSUME TypeInv, Clear, NEW t \in Threads, pc[t].at \in {"startReading", "readNextBytes"},
         AfterReading(t), UNCHANGED <<requests, connection, writeLoop, writes, inbox, sent, died>>
  PROVE  /\ PhaseInv' /\ WriterInv' /\ ItemInv' /\ AuthInv'
         /\ ~Reads(t)' /\ pc'[t].at \notin {"removeFirst", "startReading"}
         /\ \A u \in Threads \ {t} : pc'[u] = pc[u]
  <1> FrameType /\ connected
    BY ConnectedFirst DEF TypeInv
  <1>1. /\ pc'[t].at \in {"write", "idle", "wait"} /\ (OnItem(t)' <=> OnItem(t))
        /\ t = "io" => pc'[t].at # "wait"
        /\ pc'[t].at = "write" <=> OnItem(t)
        /\ OnItem(t) => pc'[t].item = pc[t].item /\ pc'[t].wl = pc[t].wl
        /\ \A u \in Threads \ {t} : pc'[u] = pc[u]
    <2>1. CASE OnItem(t)
      <3>1. Becomes(t, "write", pc[t].wl, NoLoop, pc[t].item, pc[t].then)
        BY <2>1, ReadingEnds DEF OnItem
      <3> QED BY <2>1, <3>1 DEF Becomes, OnItem
    <2>2. CASE ~OnItem(t)
      <3>1. Becomes(t, IF t = "io" THEN "idle" ELSE "wait", NoLoop, NoLoop, 0, "return")
        BY <2>2, ReadingEnds DEF OnItem
      <3> QED BY <2>2, <3>1 DEF Becomes, OnItem
    <2> QED BY <2>1, <2>2
  <1>2. /\ \A u \in Threads : (OnItem(u)' <=> OnItem(u)) /\ (Carries(u)' <=> Carries(u))
        /\ ~Reads(t)'
    BY <1>1 DEF OnItem, Carries, Reads
  <1>3. PhaseInv'
    BY <1>1, StaysConnected DEF UserLabels
  <1>4. WriterInv'
    BY <1>1, <1>2 DEF WriterInv, Carries
  <1>5. ItemInv'
    <2>1. /\ Ids' = Ids /\ \A i : Pending(i)' = Pending(i)
          /\ \A i : Queued(i)' = Queued(i)
          /\ \A i : Untouched(i)' = Untouched(i)
      BY DEF Ids, Pending, Queued, Untouched, requests
    <2> QED BY <1>1, <1>2, <2>1 DEF ItemInv, requests
  <1>6. AuthInv'
    BY <1>1, <1>2 DEF AuthInv, connection, requests
  <1> QED BY <1>1, <1>2, <1>3, <1>4, <1>5, <1>6

(* startReading(): with a loop already there, or with a new one.           *)
LEMMA StartReadingKeepsClear ==
  ASSUME TypeInv, Clear, NEW t \in Threads, startReading(t)
  PROVE  Clear'
  <1> FrameType
    BY DEF TypeInv
  <1>1. /\ pc[t].at = "startReading" /\ connected /\ socket = 1 /\ ~Reads(t)
        /\ UNCHANGED <<requests, connection, writeLoop, writeMutex, network, faults, died>>
    BY ConnectedFirst DEF startReading, At, Reads
  <1>2. CASE readLoop # NoLoop
    <2>1. AfterReading(t) /\ readLoop' = readLoop
      BY <1>2 DEF startReading
    <2>2. /\ PhaseInv' /\ WriterInv' /\ ItemInv' /\ AuthInv'
          /\ ~Reads(t)' /\ pc'[t].at \notin {"removeFirst", "startReading"}
          /\ \A u \in Threads \ {t} : pc'[u] = pc[u]
      BY <1>1, <2>1, AfterReadingKeepsWriter DEF network
    <2>3. ReaderInv'
      BY <1>1, <2>1, <2>2 DEF ReaderInv, Reads, OnItem, network, Threads
    <2>4. ServedInv'
      <3>1. writeLoop' = writeLoop /\ sendQueue' = sendQueue /\ connected' = connected
        BY <1>1 DEF requests, connection
      <3> QED BY <1>1, <1>2, <2>1, <2>2, <3>1 DEF ServedInv
    <2> QED BY <2>2, <2>3, <2>4
  <1>3. CASE readLoop = NoLoop
    <2>0. /\ readLoop' = NewLoop
          /\ Goto(t, [pc[t] EXCEPT !.at = "readNextBytes", !.rl = readLoop'])
      BY <1>3 DEF startReading
    <2>1. PICK r : /\ r = NewLoop /\ readLoop' = r
                   /\ Goto(t, [pc[t] EXCEPT !.at = "readNextBytes", !.rl = r])
      BY <2>0
    <2>2. Becomes(t, "readNextBytes", pc[t].wl, r, pc[t].item, pc[t].then)
      BY <2>1, GotoReader
    <2>3. r.socket = 1 /\ r # NoLoop /\ \A l \in Alive : r # l
      BY <1>1, <1>3, <2>1, Finite, FreshLoop DEF NoLoop
    <2>4. /\ pc'[t].at = "readNextBytes" /\ pc'[t].rl = r /\ pc'[t].wl = pc[t].wl
          /\ pc'[t].item = pc[t].item /\ Reads(t)'
          /\ \A u \in Threads \ {t} : pc'[u] = pc[u]
      BY <2>2 DEF Becomes, Reads
    <2>5. /\ \A u \in Threads : pc'[u].item = pc[u].item /\ pc'[u].wl = pc[u].wl
          /\ \A u \in Threads : (OnItem(u)' <=> OnItem(u)) /\ (Carries(u)' <=> Carries(u))
      BY <1>1, <2>4 DEF OnItem, Carries
    <2>6. pc'["io"].self = pc["io"].self
      <3>1. CASE t = "io"
        <4>1. PICK q : q = [pc[t] EXCEPT !.at = "readNextBytes", !.rl = r] /\ Goto(t, q)
          BY <2>1
        <4>2. q.self = pc[t].self
          <5>1. IsFrame(pc[t])
            BY DEF FrameType
          <5> QED BY <4>1, <5>1 DEF IsFrame, Frame
        <4> QED BY <3>1, <4>1, <4>2 DEF Goto, FrameType
      <3>2. CASE t # "io"
        BY <2>4, <3>2 DEF Threads
      <3> QED BY <3>1, <3>2
    <2>7. reads = {} /\ \A u \in Threads : ~Reads(u)
      BY <1>3 DEF ReaderInv
    <2>8. PhaseInv'
      BY <1>1, <2>4, StaysConnected DEF UserLabels
    <2>9. WriterInv'
      BY <1>1, <2>4, <2>5 DEF WriterInv, network
    <2>10. ReaderInv'
      <3>1. Reads("io")' => pc'["io"].rl = r
        BY <2>4, <2>7 DEF Reads, Threads
      <3>2. pc["io"].self \in Alive
        BY DEF Alive
      <3> QED BY <1>1, <2>1, <2>3, <2>4, <2>6, <2>7, <3>1, <3>2 DEF ReaderInv, Reads, network
    <2>11. ItemInv'
      <3>1. /\ Ids' = Ids /\ \A i : Pending(i)' = Pending(i)
            /\ \A i : Queued(i)' = Queued(i)
            /\ \A i : Untouched(i)' = Untouched(i)
        BY <1>1 DEF Ids, Pending, Queued, Untouched, requests, network
      <3>2. \A u \in Threads : pc'[u].at = "removeFirst" <=> pc[u].at = "removeFirst"
        BY <1>1, <2>4
      <3> QED BY <1>1, <2>5, <3>1, <3>2 DEF ItemInv, requests, network
    <2>12. ServedInv'
      <3>1. writeLoop' = writeLoop /\ sendQueue' = sendQueue /\ connected' = connected
        BY <1>1 DEF requests, connection
      <3> QED BY <1>1, <2>1, <2>3, <2>4, <3>1 DEF ServedInv
    <2>13. AuthInv'
      BY <1>1, <2>5 DEF AuthInv, connection, requests, network
    <2> QED BY <2>8, <2>9, <2>10, <2>11, <2>12, <2>13
  <1> QED BY <1>2, <1>3

(* The read loop reads on, or ends when nothing is queued or in flight.    *)
LEMMA ReadNextBytesKeepsClear ==
  ASSUME TypeInv, Clear, NEW t \in Threads, readNextBytes(t)
  PROVE  Clear'
  <1> FrameType
    BY DEF TypeInv
  <1>1. /\ pc[t].at = "readNextBytes" /\ Reads(t) /\ connected
        /\ pc[t].rl = readLoop /\ readLoop # NoLoop /\ readLoop.socket = 1
        /\ reads = {} /\ ~permanent_failure
        /\ \A u \in Threads : Reads(u) => u = t
    <2>1. Reads(t) /\ pc[t].at = "readNextBytes"
      BY DEF readNextBytes, At, Reads
    <2> QED BY <2>1, ConnectedFirst DEF ReaderInv, PhaseInv
  <1>2. AfterReading(t) /\ UNCHANGED <<requests, connection, writeLoop, writes, inbox, sent, died>>
    BY <1>1 DEF readNextBytes, ItemInv, loops, network
  <1>3. /\ PhaseInv' /\ WriterInv' /\ ItemInv' /\ AuthInv'
        /\ ~Reads(t)' /\ pc'[t].at \notin {"removeFirst", "startReading"}
        /\ \A u \in Threads \ {t} : pc'[u] = pc[u]
    BY <1>1, <1>2, AfterReadingKeepsWriter
  <1>4. \A u \in Threads : ~Reads(u)'
    BY <1>1, <1>3 DEF Reads
  <1>5. writeLoop' = writeLoop /\ sendQueue' = sendQueue /\ connected' = connected
        /\ messageStore' = messageStore
    BY <1>2 DEF requests, connection
  <1>6. \/ readLoop' = readLoop /\ reads' = reads \cup {readLoop}
        \/ readLoop' = NoLoop /\ reads' = reads /\ messageStore = {} /\ sendQueue = <<>>
    BY <1>1 DEF readNextBytes, ItemInv, EndLoop, loops, network
  <1>7. ReaderInv'
    BY <1>1, <1>4, <1>6 DEF ReaderInv, Threads
  <1>8. ServedInv'
    BY <1>1, <1>3, <1>5, <1>6 DEF ServedInv
  <1> QED BY <1>3, <1>7, <1>8

(* A new item is nobody's yet.                                             *)
LEMMA NewRequest ==
  ASSUME TypeInv, Clear, NEW x \in Users \cup {"auth"}, items' = Append(items, NewItem(x)),
         UNCHANGED <<messageStore, inbox, sent, writes>>,
         NEW k, k = Len(items'),
         sendQueue' = Append(sendQueue, k) \/ sendQueue' = <<k>> \o sendQueue,
         \A t \in Threads : (OnItem(t)' <=> OnItem(t)) /\ (OnItem(t) => pc'[t] = pc[t]),
         \A t \in Threads : pc[t].at # "removeFirst" \/ sendQueue' = Append(sendQueue, k)
  PROVE  ItemInv' /\ sendQueue' # <<>>
  <1> ItemsType /\ QueueType
    BY DEF TypeInv
  <1>1. /\ Len(items) \in Nat /\ k = Len(items) + 1 /\ Ids \subseteq Ids' /\ k \notin Ids
        /\ \A i \in Ids : items'[i] = items[i]
        /\ items'[k] = NewItem(x)
        /\ sendQueue \in Seq(Nat) /\ Len(sendQueue) \in Nat
        /\ \A i \in Ids' : i \in Ids \/ i = k
    BY ItemAdded, Items, Queue DEF QueueType, Ids
  <1>2. /\ \A i \in Ids : (Pending(i)' <=> Pending(i)) /\ (Untouched(i)' <=> Untouched(i))
        /\ Pending(k)' /\ Untouched(k)' /\ k \notin sent
        /\ items'[k].chunks = {} /\ sent' \subseteq Ids'
    <2>1. /\ items'[k].result = "pending" /\ ~items'[k].flushed
          /\ items'[k].chunks = {}
      BY <1>1, NewItems
    <2>2. sent \subseteq Ids /\ k \notin sent /\ sent' \subseteq Ids'
      BY <1>1 DEF ItemInv
    <2> QED BY <1>1, <2>1, <2>2 DEF Pending, Untouched
  <1>3. /\ \A i \in Ids : Queued(i)' <=> Queued(i)
        /\ \A i, j \in 1 .. Len(sendQueue') : sendQueue'[i] = sendQueue'[j] => i = j
        /\ sendQueue' # <<>>
        /\ sendQueue' = Append(sendQueue, k) /\ sendQueue # <<>> => sendQueue'[1] = sendQueue[1]
    <2>1. \A j \in 1 .. Len(sendQueue) : sendQueue[j] # k
      BY <1>1 DEF QueueType
    <2>2. CASE sendQueue' = Append(sendQueue, k)
      <3>1. /\ Len(sendQueue') = Len(sendQueue) + 1
            /\ \A j \in 1 .. Len(sendQueue) : sendQueue'[j] = sendQueue[j]
            /\ sendQueue'[Len(sendQueue) + 1] = k /\ sendQueue' # <<>>
        BY <1>1, <2>2, Appended
      <3>2. \A j \in 1 .. Len(sendQueue') : j \in 1 .. Len(sendQueue) \/ j = Len(sendQueue) + 1
        BY <1>1, <3>1
      <3>3. 1 .. Len(sendQueue) \subseteq 1 .. Len(sendQueue')
        BY <1>1, <3>1
      <3>4. \A i \in Ids : Queued(i)' <=> Queued(i)
        BY <1>1, <3>1, <3>2, <3>3 DEF Queued
      <3>5. \A i, j \in 1 .. Len(sendQueue') : sendQueue'[i] = sendQueue'[j] => i = j
        BY <2>1, <3>1, <3>2 DEF ItemInv
      <3>6. sendQueue # <<>> => sendQueue'[1] = sendQueue[1]
        BY <3>1, Queue
      <3> QED BY <3>1, <3>4, <3>5, <3>6
    <2>3. CASE sendQueue' = <<k>> \o sendQueue
      <3>1. /\ Len(sendQueue') = Len(sendQueue) + 1
            /\ \A j \in 2 .. Len(sendQueue) + 1 : sendQueue'[j] = sendQueue[j - 1]
            /\ sendQueue'[1] = k /\ sendQueue' # <<>>
        BY <1>1, <2>3, Prepended
      <3>2. ASSUME NEW j \in 1 .. Len(sendQueue')
            PROVE  \/ j = 1 /\ sendQueue'[j] = k
                   \/ /\ j # 1 /\ j - 1 \in 1 .. Len(sendQueue)
                      /\ sendQueue'[j] = sendQueue[j - 1]
        BY <1>1, <3>1
      <3>3. ASSUME NEW j \in 1 .. Len(sendQueue)
            PROVE  j + 1 \in 1 .. Len(sendQueue') /\ sendQueue'[j + 1] = sendQueue[j]
        BY <1>1, <3>1
      <3>4. ASSUME NEW i \in Ids
            PROVE  Queued(i)' <=> Queued(i)
        <4>1. ASSUME NEW j \in 1 .. Len(sendQueue'), sendQueue'[j] = i
              PROVE  Queued(i)
          <5>1. i # k
            BY <1>1
          <5>2. j - 1 \in 1 .. Len(sendQueue) /\ sendQueue[j - 1] = i
            BY <3>2, <4>1, <5>1
          <5> QED BY <5>2 DEF Queued
        <4>2. Queued(i) => Queued(i)'
          BY <3>3 DEF Queued
        <4> QED BY <4>1, <4>2 DEF Queued
      <3>5. ASSUME NEW i \in 1 .. Len(sendQueue'), NEW j \in 1 .. Len(sendQueue'),
                   sendQueue'[i] = sendQueue'[j]
            PROVE  i = j
        <4>1. CASE i = 1 \/ j = 1
          BY <2>1, <3>1, <3>2, <3>5, <4>1
        <4>2. CASE i # 1 /\ j # 1
          <5>1. /\ i - 1 \in 1 .. Len(sendQueue) /\ j - 1 \in 1 .. Len(sendQueue)
                /\ sendQueue[i - 1] = sendQueue[j - 1]
            BY <3>2, <3>5, <4>2
          <5>2. i - 1 = j - 1
            BY <5>1 DEF ItemInv
          <5> QED BY <5>2
        <4> QED BY <4>1, <4>2
      <3>6. sendQueue' = Append(sendQueue, k) /\ sendQueue # <<>> => sendQueue'[1] = sendQueue[1]
        <4>1. ASSUME sendQueue' = Append(sendQueue, k), sendQueue # <<>>
              PROVE  sendQueue'[1] = sendQueue[1]
          BY <1>1, <4>1, Appended, Queue
        <4> QED BY <4>1
      <3> QED BY <3>1, <3>4, <3>5, <3>6
    <2> QED BY <2>2, <2>3
  <1>4. \A t \in Threads : OnItem(t) =>
          /\ pc[t].item \in Ids
          /\ IF pc[t].at = "removeFirst"
             THEN sendQueue' # <<>> /\ sendQueue'[1] = pc[t].item
             ELSE ~Queued(pc[t].item)
    BY <1>3 DEF ItemInv
  <1>5. \A t \in Threads : (OnItem(t) =>
          /\ pc[t].item \in Ids /\ Untouched(pc[t].item)
          /\ IF pc[t].at = "removeFirst"
             THEN sendQueue # <<>> /\ sendQueue[1] = pc[t].item
             ELSE ~Queued(pc[t].item))'
    <2>1. ASSUME NEW t \in Threads, OnItem(t)', NEW i, i = pc[t].item
          PROVE  /\ pc'[t] = pc[t] /\ i \in Ids /\ Untouched(i)'
                 /\ IF pc[t].at = "removeFirst"
                    THEN sendQueue' # <<>> /\ sendQueue'[1] = i
                    ELSE ~Queued(i)'
      <3>1. pc'[t] = pc[t] /\ OnItem(t)
        BY <2>1
      <3>2. i \in Ids /\ Untouched(i)
        BY <2>1, <3>1 DEF ItemInv
      <3>3. IF pc[t].at = "removeFirst"
            THEN sendQueue' # <<>> /\ sendQueue'[1] = i ELSE ~Queued(i)
        BY <1>4, <2>1, <3>1
      <3>4. Untouched(i)' /\ (Queued(i)' <=> Queued(i))
        BY <1>2, <1>3, <3>2
      <3> QED BY <3>1, <3>2, <3>3, <3>4
    <2>2. ASSUME NEW t \in Threads, OnItem(t)'
          PROVE  ( /\ pc[t].item \in Ids /\ Untouched(pc[t].item)
                   /\ IF pc[t].at = "removeFirst"
                      THEN sendQueue # <<>> /\ sendQueue[1] = pc[t].item
                      ELSE ~Queued(pc[t].item) )'
      <3>1. PICK i : i = pc[t].item
        OBVIOUS
      <3>2. /\ pc'[t] = pc[t] /\ i \in Ids' /\ Untouched(i)'
            /\ IF pc[t].at = "removeFirst"
               THEN sendQueue' # <<>> /\ sendQueue'[1] = i
               ELSE ~Queued(i)'
        BY <1>1, <2>1, <2>2, <3>1
      <3>3. pc'[t].item = i /\ pc'[t].at = pc[t].at
        BY <3>1, <3>2
      <3> QED BY <3>2, <3>3
    <2> QED BY <2>2
  <1>6. \A i \in Ids' : Queued(i)' => Untouched(i)'
    BY <1>1, <1>2, <1>3 DEF ItemInv
  <1>7. \A i \in messageStore' : Pending(i)'
    BY <1>2 DEF ItemInv, QueueType
  <1>8. \A w \in writes' :
          /\ w.item \in Ids' /\ ~Queued(w.item)'
          /\ IF w.done THEN w.item \in sent' ELSE Untouched(w.item)'
    BY <1>1, <1>2, <1>3 DEF ItemInv
  <1>9. ItemInv'
    <2>1. \A c \in inbox' : c.id \in sent'
      BY DEF ItemInv
    <2> QED BY <1>2, <1>3, <1>5, <1>6, <1>7, <1>8, <2>1 DEF ItemInv
  <1> QED BY <1>3, <1>9

(* A user queues a request.                                                *)
LEMMA SendRequestKeepsClear ==
  ASSUME TypeInv, Clear, NEW u \in Users, sendRequest(u)
  PROVE  Clear'
  <1> u \in Threads /\ u # "io" /\ FrameType /\ ItemsType /\ QueueType
    BY DEF Threads, TypeInv
  <1>0. PICK k : k = Len(items')
    OBVIOUS
  <1>1. /\ pc[u].at = "idle" /\ items' = Append(items, NewItem(u))
        /\ sendQueue' = Append(sendQueue, k)
        /\ UNCHANGED <<messageStore, connection, loops, network, faults, died>>
    BY <1>0 DEF sendRequest, At
  <1>2. Becomes(u, "test", NoLoop, NoLoop, 0, "return")
    BY GotoPlace DEF sendRequest
  <1>3. Wanders(u, "test")
    BY <1>1, <1>2 DEF Wanders, Carries, Reads, WriterInv
  <1>4. /\ pc'[u].at = "test" /\ ~OnItem(u)' /\ ~OnItem(u)
        /\ \A t \in Threads \ {u} : pc'[t] = pc[t]
    BY <1>2, <1>3 DEF Becomes, Wanders, Carries, OnItem
  <1>5. WriterInv' /\ ReaderInv'
    BY <1>1, <1>3, WandererKeepsLoops DEF network
  <1>6. \A t \in Threads : (OnItem(t)' <=> OnItem(t)) /\ (OnItem(t) => pc'[t] = pc[t])
    BY <1>4 DEF OnItem
  <1>7. ItemInv' /\ sendQueue' # <<>>
    BY <1>0, <1>1, <1>6, NewRequest DEF network
  <1>8. PhaseInv'
    <2>1. \A t \in Threads : pc'[t].at \in UserLabels
      BY <1>4 DEF PhaseInv, UserLabels
    <2>2. pc'["io"].at \notin {"test", "wait"}
      BY <1>4 DEF PhaseInv, Threads
    <2>3. \/ ~connected' /\ Setup("resolve")' /\ socket' = 0
          \/ ~connected' /\ Setup("connect")' /\ socket' = 1
          \/ ~connected' /\ Setup("header")' /\ socket' = 1
          \/ connected' /\ setup' = {} /\ socket' = 1
      BY <1>1 DEF PhaseInv, Setup, connection
    <2>4. ~connected' =>
             \A t \in Threads : pc'[t].at \in {"idle", "test", "wait"} /\ ~OnItem(t)'
      BY <1>1, <1>4, <1>6 DEF PhaseInv, connection
    <2> QED BY <1>1, <2>1, <2>2, <2>3, <2>4 DEF PhaseInv, connection, loops, network
  <1>9. ServedInv'
    <2>1. readLoop' = readLoop /\ messageStore' = messageStore
      BY <1>1 DEF loops
    <2> QED BY <1>1, <1>4, <2>1 DEF ServedInv
  <1>10. AuthInv'
    <2>1. \A i \in Ids : items'[i] = items[i]
      BY <1>1, ItemAdded
    <2>2. sendQueue # <<>> => sendQueue'[1] = sendQueue[1] /\ sendQueue[1] \in Ids
      <3>1. Len(items) \in Nat /\ k \in Nat
        BY <1>0, <1>1, ItemAdded, Items
      <3> QED BY <1>1, <3>1, Appended, Queue DEF QueueType
    <2>3. UNCHANGED <<connected, sent, writes>>
      BY <1>1 DEF connection, network
    <2>4. \A t \in Threads : OnItem(t)' => items'[pc'[t].item].from = items[pc[t].item].from
      BY <1>6, <2>1 DEF ItemInv
    <2>5. \A w \in writes : items'[w.item] = items[w.item]
      BY <2>1 DEF ItemInv
    <2> QED BY <1>6, <1>7, <2>1, <2>2, <2>3, <2>4, <2>5 DEF AuthInv
  <1> QED BY <1>5, <1>7, <1>8, <1>9, <1>10

(* The connection opens, and the authentication goes to the front.         *)
LEMMA HeaderKeepsClear ==
  ASSUME TypeInv, Clear, NEW n, HeaderSucceeds(n)
  PROVE  Clear'
  <1> FrameType /\ "io" \in Threads
    BY DEF Threads, TypeInv
  <1>0. PICK k : k = Len(items')
    OBVIOUS
  <1>1. /\ pc["io"].at = "idle" /\ items' = Append(items, NewItem("auth"))
        /\ sendQueue' = <<k>> \o sendQueue /\ ~died
        /\ [op |-> "header", n |-> n] \in setup
        /\ setup' = setup \ {[op |-> "header", n |-> n]} /\ connected'
        /\ UNCHANGED <<messageStore, permanent_failure, socket, attempts, loops, network,
                       faults, died>>
    BY <1>0 DEF HeaderSucceeds, Done, At, Replace, insertAuthenticationRequests
  <1>2. Becomes("io", "startWriting", NoLoop, NoLoop, 0, "reading")
    BY GotoIdle DEF HeaderSucceeds
  <1>3. Wanders("io", "startWriting")
    BY <1>1, <1>2 DEF Wanders, Carries, Reads, WriterInv
  <1>4. /\ pc'["io"].at = "startWriting" /\ ~OnItem("io")'
        /\ \A t \in Threads \ {"io"} : pc'[t] = pc[t]
    BY <1>2 DEF Becomes, OnItem
  <1>5. ~connected /\ setup = {[op |-> "header", n |-> 1]} /\ socket = 1 /\ n = 1
    BY <1>1 DEF PhaseInv, Setup
  <1>6. /\ \A t \in Threads : ~OnItem(t) /\ ~OnItem(t)' /\ pc[t].at # "removeFirst"
        /\ writes = {} /\ messageStore = {}
    BY <1>4, <1>5 DEF PhaseInv, OnItem
  <1>7. ItemInv' /\ sendQueue' # <<>>
    BY <1>0, <1>1, <1>6, NewRequest DEF network
  <1>8. WriterInv' /\ ReaderInv'
    BY <1>1, <1>3, WandererKeepsLoops DEF network
  <1>9. PhaseInv'
    <2>1. \A t \in Threads : pc'[t].at \in UserLabels
      BY <1>4 DEF PhaseInv, UserLabels
    <2> QED BY <1>1, <1>4, <1>5, <2>1 DEF PhaseInv
  <1>10. ServedInv'
    BY <1>1, <1>4, <1>6 DEF ServedInv
  <1>11. AuthInv'
    <2>1. sendQueue'[1] = k /\ items'[k].from = "auth"
      <3>1. /\ Len(items) \in Nat /\ k \in Nat /\ items'[k] = NewItem("auth")
            /\ sendQueue \in Seq(Nat)
        BY <1>0, <1>1, ItemAdded, Items DEF TypeInv, QueueType
      <3>2. sendQueue'[1] = k
        BY <1>1, <3>1, Prepended
      <3>3. NewItem("auth").from = "auth"
        BY NewItems
      <3> QED BY <3>1, <3>2, <3>3
    <2> QED BY <1>1, <1>6, <1>7, <2>1 DEF AuthInv, network
  <1> QED BY <1>7, <1>8, <1>9, <1>10, <1>11

(* Resolving and connecting.                                               *)
LEMMA ConnectKeepsClear ==
  ASSUME TypeInv, Clear, NEW n, ResolveSucceeds(n) \/ ConnectSucceeds(n)
  PROVE  Clear'
  <1>1. /\ ~connected /\ ~connected' /\ socket' = 1
        /\ Setup("connect")' \/ Setup("header")'
        /\ UNCHANGED <<requests, permanent_failure, attempts, loops, network, pc, died>>
    <2>1. CASE ResolveSucceeds(n)
      <3>1. [op |-> "resolve", n |-> n] \in setup
        BY <2>1 DEF ResolveSucceeds, Done
      <3>2. ~connected /\ setup = {[op |-> "resolve", n |-> 1]} /\ socket = 0 /\ n = 1
        BY <3>1 DEF PhaseInv, Setup
      <3> QED BY <2>1, <3>2 DEF ResolveSucceeds, Replace, Setup
    <2>2. CASE ConnectSucceeds(n)
      <3>1. [op |-> "connect", n |-> n] \in setup
        BY <2>2 DEF ConnectSucceeds, Done
      <3>2. ~connected /\ setup = {[op |-> "connect", n |-> 1]} /\ socket = 1 /\ n = 1
        BY <3>1 DEF PhaseInv, Setup
      <3> QED BY <2>2, <3>2 DEF ConnectSucceeds, Replace, Setup
    <2> QED BY <2>1, <2>2
  <1>2. PhaseInv'
    BY <1>1 DEF PhaseInv, OnItem, loops, network, requests
  <1>3. WriterInv' /\ ReaderInv'
    BY <1>1 DEF WriterInv, ReaderInv, Carries, Reads, OnItem, loops, network
  <1>4. ItemInv'
    BY <1>1 DEF ItemInv, OnItem, Ids, Pending, Queued, Untouched, requests, network
  <1>5. ServedInv' /\ AuthInv'
    BY <1>1 DEF ServedInv, AuthInv, PhaseInv, loops, requests, network
  <1> QED BY <1>2, <1>3, <1>4, <1>5

(* A request reaches the server, the authentication before all others.     *)
LEMMA TransmitKeepsClear ==
  ASSUME TypeInv, Clear, NEW w \in writes, Transmit(w)
  PROVE  Clear' /\ (items[w.item].from = "auth" \/ sent # {})
  <1>0. /\ ~w.done /\ sent' = sent \cup {w.item}
        /\ inbox' = inbox \cup [id : {w.item}, index : 1 .. NumChunks]
        /\ UNCHANGED <<requests, connection, loops, reads, pc, faults, died>>
    BY DEF Transmit
  <1>1. /\ writes = {w} /\ w.loop = writeLoop /\ writeLoop # NoLoop /\ connected
        /\ \A t \in Threads : ~Carries(t) /\ ~OnItem(t)
    BY DEF WriterInv, PhaseInv, Carries
  <1>2. w.item \in Ids /\ Untouched(w.item) /\ ~Queued(w.item)
    BY <1>0 DEF ItemInv
  <1>3. PICK v : /\ writes' = {v} /\ v.done /\ v.item = w.item /\ v.loop = w.loop
                 /\ v = Write(v.loop, v.item, v.done)
    <2>0. w = Write(w.loop, w.item, w.done)
      BY DEF WriterInv
    <2>1. PICK v : v = [w EXCEPT !.done = TRUE]
      OBVIOUS
    <2>2. v = Write(w.loop, w.item, TRUE)
      BY <2>0, <2>1 DEF Write
    <2>3. writes' = {v}
      BY <1>1, <2>1 DEF Transmit
    <2>4. v.loop = w.loop /\ v.item = w.item /\ v.done = TRUE
      BY <2>2 DEF Write
    <2> QED BY <2>2, <2>3, <2>4
  <1>4. PhaseInv'
    BY <1>0, <1>1 DEF PhaseInv, connection, Setup
  <1>5. WriterInv'
    BY <1>0, <1>1, <1>3 DEF WriterInv, Carries, OnItem, loops
  <1>6. ReaderInv'
    BY <1>0 DEF ReaderInv, Reads, OnItem, loops
  <1>7. /\ Ids' = Ids /\ \A i : Pending(i)' = Pending(i) /\ Queued(i)' = Queued(i)
        /\ \A i : i # w.item => Untouched(i)' = Untouched(i)
    BY <1>0 DEF Ids, Pending, Queued, Untouched, requests
  <1>8. \A c \in inbox' : c \in inbox \/ c.id = w.item
    BY <1>0
  <1>9. ItemInv'
    <2>1. \A c \in inbox' : c.id \in sent'
      BY <1>0, <1>8 DEF ItemInv
    <2>2. \A i \in Ids' : Queued(i)' => Untouched(i)'
      BY <1>2, <1>7 DEF ItemInv
    <2>3. \A t \in Threads : ~OnItem(t)'
      BY <1>0, <1>1 DEF OnItem
    <2>4. \A x \in writes' : /\ x.item \in Ids' /\ ~Queued(x.item)'
                             /\ x.done /\ x.item \in sent'
      BY <1>0, <1>2, <1>3, <1>7
    <2> QED BY <1>0, <1>2, <1>7, <2>1, <2>2, <2>3, <2>4 DEF ItemInv, requests
  <1>10. ServedInv'
    BY <1>0 DEF ServedInv, connection, loops, requests
  <1>11. AuthInv'
    BY <1>0 DEF AuthInv
  <1>13. items[w.item].from = "auth" \/ sent # {}
    BY <1>1 DEF AuthInv
  <1> QED BY <1>4, <1>5, <1>6, <1>9, <1>10, <1>11, <1>13

(* The handler of a write takes the write loop in hand again.              *)
LEMMA WriteSucceedsKeepsClear ==
  ASSUME TypeInv, Clear, NEW w \in writes, WriteSucceeds(w)
  PROVE  Clear'
  <1> FrameType /\ "io" \in Threads /\ ItemsType
    BY DEF TypeInv, Threads
  <1>0. /\ pc["io"].at = "idle" /\ w.done /\ writes' = writes \ {w} /\ ~died
        /\ items' = [items EXCEPT ![w.item].flushed = Pending(w.item)]
        /\ UNCHANGED <<sendQueue, messageStore, connection, loops, reads, inbox, sent, faults,
                       died>>
    BY DEF WriteSucceeds, At
  <1>1. /\ writes = {w} /\ w.loop = writeLoop /\ writeLoop # NoLoop /\ connected
        /\ \A t \in Threads : ~Carries(t) /\ ~OnItem(t)
    BY DEF WriterInv, PhaseInv, Carries
  <1>2. w.item \in Ids /\ w.item \in sent /\ ~Queued(w.item) /\ writes' = {}
    BY <1>0, <1>1 DEF ItemInv
  <1>3. Becomes("io", "front", writeLoop, NoLoop, 0, "return")
    BY <1>1, GotoIdle DEF WriteSucceeds
  <1>4. /\ pc'["io"].at = "front" /\ pc'["io"].wl = writeLoop /\ ~OnItem("io")'
        /\ \A t \in Threads \ {"io"} : pc'[t] = pc[t]
    BY <1>3 DEF Becomes, OnItem
  <1>5. /\ \A t \in Threads : ~OnItem(t)' /\ (Carries(t)' <=> t = "io")
        /\ \A t \in Threads : pc'[t].at \notin {"removeFirst", "write"}
        /\ \A t \in Threads : Reads(t)' <=> Reads(t)
    <2>1. \A t \in Threads : pc[t].at \notin {"removeFirst", "write"}
      BY <1>1 DEF WriterInv
    <2> QED BY <1>0, <1>1, <1>4, <2>1 DEF OnItem, Carries, Reads
  <1>6. PhaseInv'
    BY <1>0, <1>1, <1>4, StaysConnected DEF UserLabels
  <1>7. WriterInv'
    <2>1. writeLoop.socket = 1
      BY <1>1 DEF WriterInv
    <2> QED BY <1>0, <1>1, <1>2, <1>4, <1>5, <2>1 DEF WriterInv, loops
  <1>8. ReaderInv'
    BY <1>0, <1>4, <1>5 DEF ReaderInv, Reads, loops, Threads
  <1>9. /\ Ids' = Ids
        /\ \A i \in Ids : items'[i].from = items[i].from /\ items'[i].result = items[i].result
        /\ \A i \in Ids : i # w.item => items'[i] = items[i]
    BY ItemFlushed DEF Ids
  <1>11. ItemInv'
    <2>1. /\ \A i \in Ids : Pending(i)' = Pending(i)
          /\ \A i \in Ids : i # w.item => Untouched(i)' = Untouched(i)
          /\ \A i : Queued(i)' = Queued(i)
      BY <1>0, <1>9 DEF Pending, Untouched, Queued
    <2>2. \A i \in Ids' : Queued(i)' => Untouched(i)'
      BY <1>2, <1>9, <2>1 DEF ItemInv
    <2>3. \A i \in messageStore' : Pending(i)'
      BY <1>0, <2>1 DEF ItemInv, TypeInv, QueueType
    <2> QED BY <1>0, <1>2, <1>5, <1>9, <2>1, <2>2, <2>3 DEF ItemInv
  <1>12. ServedInv'
    BY <1>0, <1>1, <1>4 DEF ServedInv, loops
  <1>13. AuthInv'
    BY <1>0, <1>2 DEF AuthInv
  <1> QED BY <1>6, <1>7, <1>8, <1>11, <1>12, <1>13

(* A part of a response comes in on the loop that reads.                   *)
LEMMA ProcessChunkKeepsClear ==
  ASSUME TypeInv, Clear, NEW l \in reads \cup {pc["io"].self}, ProcessChunk(l)
  PROVE  Clear'
  <1> FrameType /\ "io" \in Threads /\ ItemsType
    BY DEF TypeInv, Threads
  <1>0. /\ reads' = reads \ {l} /\ ~died
        /\ Goto("io", [Idle EXCEPT !.at = "readNextBytes", !.rl = l, !.self = l])
        /\ UNCHANGED <<sendQueue, connection, loops, writes, sent, faults, died>>
    BY DEF ProcessChunk, At
  <1>1. /\ l = readLoop /\ readLoop # NoLoop /\ reads' = {} /\ connected
        /\ pc["io"].at \in {"idle", "readNextBytes"} /\ ~OnItem("io")
        /\ \A t \in Threads \ {"io"} : ~Reads(t)
    <2>1. CASE At("io", "idle") /\ l \in reads
      <3>1. pc["io"].at = "idle" /\ ~OnItem("io")
        BY <2>1 DEF At, WriterInv
      <3>2. reads = {readLoop} /\ l = readLoop /\ readLoop # NoLoop
        BY <2>1 DEF ReaderInv
      <3>3. \A t \in Threads : ~Reads(t)
        BY <3>2 DEF ReaderInv
      <3> QED BY <1>0, <3>1, <3>2, <3>3 DEF PhaseInv
    <2>2. CASE At("io", "readNextBytes") /\ l = pc["io"].self /\ l = pc["io"].rl
      <3>1. Reads("io") /\ pc["io"].at = "readNextBytes"
        BY <2>2 DEF At, Reads
      <3>2. /\ l = readLoop /\ readLoop # NoLoop /\ reads = {} /\ ~OnItem("io")
            /\ \A t \in Threads : Reads(t) => t = "io"
        BY <2>2, <3>1 DEF ReaderInv
      <3> QED BY <1>0, <3>1, <3>2, ConnectedFirst
    <2> QED BY <2>1, <2>2 DEF ProcessChunk
  <1>2. Becomes("io", "readNextBytes", NoLoop, l, 0, "return")
    BY <1>0, GotoIdle
  <1>3. /\ pc'["io"].at = "readNextBytes" /\ pc'["io"].rl = readLoop /\ ~OnItem("io")'
        /\ \A t \in Threads \ {"io"} : pc'[t] = pc[t]
    BY <1>1, <1>2 DEF Becomes, OnItem
  <1>4. /\ \A t \in Threads : (OnItem(t)' <=> OnItem(t)) /\ (Carries(t)' <=> Carries(t))
        /\ \A t \in Threads : Reads(t)' <=> t = "io"
    BY <1>1, <1>3 DEF OnItem, Carries, Reads
  <1>5. PhaseInv'
    BY <1>0, <1>1, <1>3, StaysConnected DEF UserLabels
  <1>6. WriterInv'
    BY <1>0, <1>1, <1>3, <1>4 DEF WriterInv, loops, Carries
  <1>7. ReaderInv'
    <2>1. readLoop' = readLoop /\ readLoop.socket = 1
      BY <1>0, <1>1 DEF ReaderInv, loops
    <2> QED BY <1>1, <1>3, <1>4, <2>1 DEF ReaderInv
  <1>8. Ids' = Ids
    BY ChunkProcessed DEF Ids
  <1>9. PICK c \in inbox :
              /\ inbox' = inbox \ {c}
              /\ \A i \in Ids : i # c.id => items'[i] = items[i]
              /\ \A i \in Ids : items'[i].from = items[i].from
              /\ Gathered(c) \/ Completed(c)
    BY ChunkProcessed
  <1>10. c.id \in sent /\ c.id \in Ids
    BY DEF ItemInv
  <1>11. ItemInv'
    <2>1. \A i \in Ids : Untouched(i) => i # c.id /\ Untouched(i)'
      BY <1>0, <1>9, <1>10 DEF Untouched, Pending
    <2>2. \A i : Queued(i)' = Queued(i)
      BY <1>0 DEF Queued
    <2>3. \A i \in messageStore' : Pending(i)'
      BY <1>9 DEF ItemInv, TypeInv, QueueType, Pending, Kept, Gathered, Completed
    <2>4. \A t \in Threads : OnItem(t) => pc'[t] = pc[t]
      BY <1>1, <1>3
    <2>5. \A t \in Threads : (OnItem(t) =>
            /\ pc[t].item \in Ids /\ Untouched(pc[t].item)
            /\ IF pc[t].at = "removeFirst"
               THEN sendQueue # <<>> /\ sendQueue[1] = pc[t].item
               ELSE ~Queued(pc[t].item))'
      BY <1>0, <1>4, <1>8, <2>1, <2>2, <2>4 DEF ItemInv
    <2>6. \A w \in writes' :
            /\ w.item \in Ids' /\ ~Queued(w.item)'
            /\ IF w.done THEN w.item \in sent' ELSE Untouched(w.item)'
      BY <1>0, <1>8, <2>1, <2>2 DEF ItemInv
    <2> QED BY <1>0, <1>8, <1>9, <2>1, <2>2, <2>3, <2>5, <2>6 DEF ItemInv
  <1>12. ServedInv'
    BY <1>0, <1>1, <1>3 DEF ServedInv, loops, connection
  <1>13. AuthInv'
    BY <1>0, <1>10 DEF AuthInv
  <1> QED BY <1>5, <1>6, <1>7, <1>11, <1>12, <1>13

(* What can happen while nothing has failed.                               *)
LEMMA QuietStep ==
  ASSUME TypeInv, Clear, faults = 0, faults' = 0, Next
  PROVE  \/ \E u \in Users : Calls(u)
         \/ \E t \in Threads : \/ startWriting(t) \/ NextFront(t) \/ NextRemove(t)
                              \/ WriteRequest(t) \/ startReading(t) \/ readNextBytes(t)
         \/ \E n : ResolveSucceeds(n) \/ ConnectSucceeds(n) \/ HeaderSucceeds(n)
         \/ \E l \in reads \cup {pc["io"].self} : ProcessChunk(l)
         \/ \E w \in writes : WriteSucceeds(w) \/ Transmit(w)
  <1> "io" \in Threads
    BY DEF Threads
  <1>1. ASSUME NEW t \in Threads, UseFreedLoop(t)
        PROVE  FALSE
    <2>1. CASE pc[t].at = "front" /\ pc[t].wl \notin Alive
      BY <2>1, Carrier DEF Carries, Alive
    <2>2. CASE pc[t].at = "readNextBytes" /\ pc[t].rl \notin Alive
      BY <2>2 DEF ReaderInv, Reads, Alive
    <2> QED BY <1>1, <2>1, <2>2 DEF UseFreedLoop, At
  <1>2. ASSUME Restart
        PROVE  FALSE
    <2>1. pc["io"].at \in UserLabels
      BY DEF PhaseInv
    <2> QED BY <1>2, <2>1 DEF Restart, restartIfCurrent, restartConnection, stopWriting,
                              stopReading, shutdownSocket, cancelAll, startResolveHost, At,
                              UserLabels
  <1>3. ASSUME NEW kind, NEW n, Fails(kind, n)
        PROVE  n # socket
    BY <1>3 DEF Fails, Closed
  <1>4. ASSUME NEW n, ResolveFails(n) \/ ConnectFails(n) \/ HeaderFails(n)
        PROVE  FALSE
    <2>1. CASE ResolveFails(n)
      BY <2>1 DEF ResolveFails
    <2>2. CASE ConnectFails(n)
      <3>1. [op |-> "connect", n |-> n] \in setup /\ n # socket
        BY <1>3, <2>2 DEF ConnectFails, Done
      <3> QED BY <3>1 DEF PhaseInv, Setup
    <2>3. CASE HeaderFails(n)
      <3>1. [op |-> "header", n |-> n] \in setup /\ n # socket
        BY <1>3, <2>3 DEF HeaderFails, Done
      <3> QED BY <3>1 DEF PhaseInv, Setup
    <2> QED BY <1>4, <2>1, <2>2, <2>3
  <1>5. ASSUME NEW l \in reads, ReadFails(l)
        PROVE  FALSE
    <2>1. l.socket # socket
      BY <1>3, <1>5 DEF ReadFails
    <2> QED BY <2>1 DEF ReaderInv, PhaseInv
  <1>6. ASSUME NEW w \in writes, WriteFails(w)
        PROVE  FALSE
    <2>1. w.loop.socket # socket
      BY <1>3, <1>6 DEF WriteFails
    <2> QED BY <2>1 DEF WriterInv, PhaseInv
  <1>7. ASSUME NEW l, Deadline(l)
        PROVE  FALSE
    BY <1>7 DEF Deadline
  <1> QED BY <1>1, <1>2, <1>4, <1>5, <1>6, <1>7 DEF Next, LoopStep, Connect, Callback

(* A step without a fault keeps Clear.                                     *)
LEMMA ClearStep ==
  ASSUME TypeInv, Clear, faults = 0, faults' = 0, Next
  PROVE  Clear'
  <1>1. ASSUME NEW u \in Users, Calls(u)
        PROVE  Clear'
    BY <1>1, SendRequestKeepsClear, TestKeepsClear, WaitKeepsClear DEF Calls
  <1>2. ASSUME NEW t \in Threads,
               \/ startWriting(t) \/ NextFront(t) \/ NextRemove(t)
               \/ WriteRequest(t) \/ startReading(t) \/ readNextBytes(t)
        PROVE  Clear'
    BY <1>2, StartWritingKeepsClear, NextFrontKeepsClear, NextRemoveKeepsClear,
       WriteRequestKeepsClear, StartReadingKeepsClear, ReadNextBytesKeepsClear
  <1>3. ASSUME NEW n, ResolveSucceeds(n) \/ ConnectSucceeds(n) \/ HeaderSucceeds(n)
        PROVE  Clear'
    BY <1>3, ConnectKeepsClear, HeaderKeepsClear
  <1>4. ASSUME NEW l \in reads \cup {pc["io"].self}, ProcessChunk(l)
        PROVE  Clear'
    BY <1>4, ProcessChunkKeepsClear
  <1>5. ASSUME NEW w \in writes, WriteSucceeds(w) \/ Transmit(w)
        PROVE  Clear'
    BY <1>5, WriteSucceedsKeepsClear, TransmitKeepsClear
  <1> QED BY <1>1, <1>2, <1>3, <1>4, <1>5, QuietStep

(* Faults are only counted up.                                             *)
LEMMA FaultsGrow ==
  ASSUME TypeInv, Next, faults' = 0
  PROVE  faults = 0
  <1> faults \in Nat
    BY DEF TypeInv, ConnectionType
  <1>1. ASSUME NEW kind, NEW n, Fails(kind, n)
        PROVE  faults = 0
    BY <1>1 DEF Fails
  <1>2. ASSUME NEW u, Calls(u)
        PROVE  faults = 0
    BY <1>2 DEF Calls, sendRequest, TestConnected, WaitReturns
  <1>3. ASSUME NEW t, LoopStep(t)
        PROVE  faults = 0
    BY <1>3 DEF LoopStep, startWriting, NextFront, NextRemove, WriteRequest, startReading,
                readNextBytes, UseFreedLoop, Die
  <1>4. ASSUME Restart
        PROVE  faults = 0
    BY <1>4 DEF Restart, restartIfCurrent, restartConnection, stopWriting, stopReading,
                shutdownSocket, cancelAll, startResolveHost, Die
  <1>5. ASSUME NEW n, Connect(n)
        PROVE  faults = 0
    BY <1>1, <1>5 DEF Connect, ResolveSucceeds, ResolveFails, ConnectSucceeds, ConnectFails,
                      HeaderSucceeds, HeaderFails, Die
  <1>6. ASSUME Callback
        PROVE  faults = 0
    BY <1>1, <1>6 DEF Callback, ProcessChunk, ReadFails, WriteSucceeds, WriteFails
  <1>7. ASSUME NEW l, Deadline(l) \/ Transmit(l)
        PROVE  faults = 0
    BY <1>7 DEF Deadline, Transmit
  <1> QED BY <1>2, <1>3, <1>4, <1>5, <1>6, <1>7 DEF Next

-----------------------------------------------------------------------------
(* The inductive invariant                                                 *)

IInv == TypeInv /\ HeldInv /\ OnceInv /\ (faults = 0 => Clear)

(* The invariant holds when the connection is started,                     *)
LEMMA InitInv ==
  ASSUME Init
  PROVE  IInv
  <1> USE DEF Init
  <1>0. /\ \A t \in Threads : pc[t] = Idle /\ Idle.at = "idle" /\ Idle.item = 0
        /\ IsFrame(Idle) /\ None \notin Threads
        /\ Len(items) = 0 /\ Ids = {} /\ Len(sendQueue) = 0
        /\ "io" \in Threads
    BY IdleFrame DEF Threads, Ids
  <1>1. TypeInv
    <2>1. ItemsType /\ QueueType
      BY <1>0 DEF ItemsType, QueueType
    <2>2. FrameType /\ MutexType
      BY <1>0 DEF FrameType, MutexType
    <2>3. ConnectionType
      <3>1. /\ connected = FALSE /\ permanent_failure = FALSE /\ attempts = 1
            /\ socket = 0 /\ faults = 0 /\ inbox = {}
        OBVIOUS
      <3>2. socket \in 0 .. attempts /\ attempts \in Nat /\ faults \in Nat
        BY <3>1
      <3> HIDE DEF Init
      <3> QED BY <3>1, <3>2, Zenon DEF ConnectionType
    <2> QED BY <2>1, <2>2, <2>3 DEF TypeInv
  <1>2. HeldInv
    BY <1>0 DEF HeldInv, FirstIsHeld
  <1>3. PhaseInv
    BY <1>0 DEF PhaseInv, UserLabels, Setup, OnItem
  <1>4. WriterInv /\ ReaderInv
    BY <1>0 DEF WriterInv, ReaderInv, Carries, Reads, OnItem
  <1>5. ItemInv /\ ServedInv /\ AuthInv
    BY <1>0 DEF ItemInv, ServedInv, AuthInv, OnItem, Queued
  <1> QED BY <1>1, <1>2, <1>3, <1>4, <1>5, OnceInit DEF IInv

(* and every step keeps it.                                                *)
LEMMA StepInv ==
  ASSUME IInv, [Next]_vars
  PROVE  IInv'
  <1>1. CASE Next
    <2>1. TypeInv /\ HeldInv /\ FirstIsHeld
      BY DEF IInv, HeldInv
    <2>2. TypeInv'
      BY <1>1, <2>1, RequestTypes, FrameStep, ConnectionStep DEF TypeInv
    <2>3. HeldInv'
      BY <1>1, <2>1, HeldStep
    <2>4. OnceInv'
      BY <1>1, <2>1, OnceStep DEF IInv
    <2>5. faults' = 0 => Clear'
      <3> SUFFICES ASSUME faults' = 0
                   PROVE  Clear'
        OBVIOUS
      <3>1. faults = 0
        BY <1>1, <2>1, FaultsGrow
      <3>2. Clear
        BY <3>1 DEF IInv
      <3> HIDE DEF Clear
      <3> QED BY <1>1, <2>1, <3>1, <3>2, ClearStep
    <2> QED BY <2>2, <2>3, <2>4, <2>5 DEF IInv
  <1>2. CASE UNCHANGED vars
    <2> USE <1>2 DEF vars, requests, connection, loops, network
    <2>1. TypeInv => TypeInv'
      BY DEF TypeInv, ItemsType, QueueType, FrameType, MutexType, ConnectionType, Ids
    <2>2. HeldInv => HeldInv'
      BY DEF HeldInv, FirstIsHeld, IsHeld, Waiting, Pending, Ids
    <2>3. PhaseInv => PhaseInv'
      BY DEF PhaseInv, Setup, OnItem
    <2>4. (WriterInv => WriterInv') /\ (ReaderInv => ReaderInv')
      BY DEF WriterInv, ReaderInv, Carries, Reads, OnItem
    <2>5. ItemInv => ItemInv'
      BY DEF ItemInv, OnItem, Untouched, Queued, Pending, Ids
    <2>6. (ServedInv => ServedInv') /\ (AuthInv => AuthInv')
      BY DEF ServedInv, AuthInv, OnItem
    <2>7. TypeInv /\ OnceInv => OnceInv'
      BY NoStep
    <2> QED BY <2>1, <2>2, <2>3, <2>4, <2>5, <2>6, <2>7 DEF IInv
  <1> QED BY <1>1, <1>2

(* TypeInv, HeldInv and OnceInv always hold, Clear until the first fault.  *)
THEOREM Invariant == Spec => []IInv
  BY InitInv, StepInv, PTL DEF Spec

-----------------------------------------------------------------------------
(* What always holds                                                       *)

(* The set of the queued requests.                                         *)
LEMMA QueueSet ==
  ASSUME QueueType
  PROVE  ToSet(sendQueue) = {sendQueue[j] : j \in 1 .. Len(sendQueue)}
  BY LenProperties DEF QueueType, ToSet

(* The members of the connection have the values the code gives them, for  *)
(* any number of users, requests, faults, attempts and chunks.             *)
THEOREM TypeCorrect == Spec => []TypeOK
  <1>1. IInv => TypeOK
    <2> SUFFICES ASSUME TypeInv
                 PROVE  TypeOK
      BY DEF IInv
    <2>1. \A i \in Ids : items[i] \in Item
      BY Items DEF TypeInv
    <2>2. ToSet(sendQueue) \subseteq Ids
      BY QueueSet DEF TypeInv, QueueType
    <2> QED BY <2>1, <2>2 DEF TypeOK, Item, TypeInv, QueueType, ConnectionType
  <1> QED BY <1>1, Invariant, PTL

(* No interleaving of the users with the event loop, and no failure of     *)
(* the network, loses a request whose caller waits: it is in sendQueue or  *)
(* in messageStore until its callback has been called, although            *)
(* getNextRequestToSend() looks at the queue and removes from it in two    *)
(* steps, and although a restart empties the store.                        *)
THEOREM WaitingNeverLost == Spec => []WaitingIsHeld
  <1>1. IInv => WaitingIsHeld
    BY QueueSet DEF IInv, HeldInv, TypeInv, IsHeld, WaitingIsHeld
  <1> QED BY <1>1, Invariant, PTL

(* Whatever fails, a callback is called once, and with a response only     *)
(* when every chunk of the response to its own request has come in: not    *)
(* twice when a restart cancels what a late answer or a write that failed  *)
(* also ends, nor with parts of the response to a request sent before.     *)
THEOREM CallbackOnce == Spec => AnsweredOnce
  <1>1. ASSUME IInv, [Next]_vars
        PROVE  [\A i \in Ids : CallsOnce(i)]_vars
    BY <1>1, StepCallsOnce DEF IInv
  <1>2. ASSUME [\A i \in Ids : CallsOnce(i)]_vars
        PROVE  [\A i \in Ids :
                  /\ ~Pending(i) => items'[i] = items[i]
                  /\ Pending(i) /\ items'[i].result = "ok" =>
                       i \in sent /\ \A k \in 1 .. NumChunks :
                                      [id |-> i, index |-> k] \notin inbox']_vars
    BY <1>2 DEF CallsOnce
  <1> QED BY <1>1, <1>2, Invariant, PTL DEF Spec, AnsweredOnce

-----------------------------------------------------------------------------
(* What holds until the first fault                                        *)

(* Until the network fails no assertion of the connection fails, and no    *)
(* loop is used after it has been freed, however the users that start the  *)
(* loops interleave with the event loop that ends them.                    *)
THEOREM NoFaultNoCrash == Spec => []SurvivesWithoutFaults
  <1>1. IInv => SurvivesWithoutFaults
    BY DEF IInv, TypeInv, ConnectionType, PhaseInv, SurvivesWithoutFaults
  <1> QED BY <1>1, Invariant, PTL

(* Only a write that goes through brings a request to the server.          *)
LEMMA OnlyTransmitSends ==
  ASSUME Next
  PROVE  sent' \subseteq sent \/ \E w \in writes : Transmit(w)
  <1> USE DEF network
  <1>1. ASSUME NEW u, Calls(u)
        PROVE  sent' \subseteq sent
    BY <1>1 DEF Calls, sendRequest, TestConnected, WaitReturns
  <1>2. ASSUME NEW t, LoopStep(t)
        PROVE  sent' \subseteq sent
    BY <1>2 DEF LoopStep, startWriting, NextFront, NextRemove, WriteRequest, startReading,
                readNextBytes, UseFreedLoop, Die
  <1>3. ASSUME Restart
        PROVE  sent' \subseteq sent
    BY <1>3 DEF Restart, restartIfCurrent, restartConnection, stopWriting, stopReading,
                shutdownSocket, cancelAll, startResolveHost, Die
  <1>4. ASSUME NEW n, Connect(n)
        PROVE  sent' \subseteq sent
    BY <1>4 DEF Connect, ResolveSucceeds, ResolveFails, ConnectSucceeds, ConnectFails,
                HeaderSucceeds, HeaderFails, Die
  <1>5. ASSUME Callback
        PROVE  sent' \subseteq sent
    BY <1>5 DEF Callback, ProcessChunk, ReadFails, WriteSucceeds, WriteFails
  <1>6. ASSUME NEW l, Deadline(l)
        PROVE  sent' \subseteq sent
    BY <1>6 DEF Deadline
  <1> QED BY <1>1, <1>2, <1>3, <1>4, <1>5, <1>6 DEF Next

(* The server's first message on a connection that has not failed is the   *)
(* authentication, also when users have queued requests before it opened.  *)
THEOREM AuthenticationFirst == Spec => AuthenticatesFirst
  <1>1. ASSUME IInv, [Next]_vars
        PROVE  [faults = 0 /\ sent = {} => \A i \in sent' : items[i].from = "auth"]_vars
    <2> SUFFICES ASSUME Next, faults = 0, sent = {}, NEW i \in sent'
                 PROVE  items[i].from = "auth"
      BY <1>1
    <2>1. PICK w \in writes : Transmit(w)
      BY OnlyTransmitSends
    <2>2. i = w.item
      BY <2>1 DEF Transmit
    <2> QED BY <1>1, <2>1, <2>2, TransmitKeepsClear DEF IInv
  <1> QED BY <1>1, Invariant, PTL DEF Spec, AuthenticatesFirst

(* While nothing fails: whenever the connection is at rest, a request in   *)
(* sendQueue has a pending asynchronous write of the current loop, whose   *)
(* handler will send it: no wakeup is lost between the loop that ends and  *)
(* the user that queues.                                                   *)
THEOREM QueuedIsServed == Spec /\ [](faults = 0) => []QueuedIsWritten
  <1>1. IInv /\ faults = 0 => QueuedIsWritten
    <2> SUFFICES ASSUME Clear, Resting, sendQueue # <<>>
                 PROVE  \E w \in writes : w.loop = writeLoop
      BY DEF IInv, QueuedIsWritten
    <2>1. \A t \in Threads : pc[t].at \in {"idle", "wait"} /\ ~Carries(t)
      BY DEF Resting, WriterInv, Carries
    <2>2. writeLoop # NoLoop
      BY <2>1 DEF Resting, ServedInv
    <2> QED BY <2>1, <2>2 DEF WriterInv
  <1> QED BY <1>1, Invariant, PTL

(* Likewise a request in flight has a pending asynchronous read of the     *)
(* current loop, whose handler will take the response.                     *)
THEOREM InFlightIsServed == Spec /\ [](faults = 0) => []InFlightIsRead
  <1>1. IInv /\ faults = 0 => InFlightIsRead
    <2> SUFFICES ASSUME Clear, Resting, messageStore # {}
                 PROVE  readLoop \in reads
      BY DEF IInv, InFlightIsRead
    <2>1. \A t \in Threads : pc[t].at \in {"idle", "wait"} /\ ~Reads(t)
      BY DEF Resting, Reads
    <2>2. readLoop # NoLoop
      BY <2>1 DEF Resting, ServedInv
    <2> QED BY <2>1, <2>2 DEF ReaderInv
  <1> QED BY <1>1, Invariant, PTL
=============================================================================
