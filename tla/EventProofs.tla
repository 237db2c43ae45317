----------------------------- MODULE EventProofs -----------------------------
(* Proofs about OrderPipeline: what its variables range over, and that the *)
(* tables and the topics agree with the orders in memory.                  *)
(*                                                                         *)
(* The argument follows an order from the request to its last message.     *)
(* Until processOrder takes it, exactly one goroutine or the channel has it*)
(* (QueueInv).  Then the matcher may choose it as a maker before a client  *)
(* cancels it and fill it afterwards (BookInv): both have an event of it to*)
(* handle, and an event holds until the row is written or the message is   *)
(* handed over with what the order is by then, unless the other goroutine  *)
(* raced it (EventsInv, RowsInv).  Messages in the client library keep the *)
(* order in which they were sent, unless one passed another there          *)
(* (FlyingInv, OrderedInv, TopicsInv).                                     *)
EXTENDS PipelineProofs

-----------------------------------------------------------------------------
(* Sequences.                                                              *)

\* One more element, behind the others.
LEMMA AppendElements ==
  ASSUME NEW s, NEW e, IsSequence(s)
  PROVE  LET t == Append(s, e)
         IN  /\ IsSequence(t) /\ Len(t) = Len(s) + 1 /\ t # <<>>
             /\ Len(s) \in Nat /\ DOMAIN s = 1..Len(s) /\ DOMAIN t = 1..(Len(s) + 1)
             /\ \A i \in DOMAIN s : t[i] = s[i]
             /\ t[Len(s) + 1] = e
             /\ ToSet(t) = ToSet(s) \cup {e}
<1> DEFINE S == {s[i] : i \in DOMAIN s} \cup {e}
           t == Append(s, e)
<1>1. s \in Seq(S)
  BY SeqMonotonic DEF IsSequence
<1>2. /\ Len(s) \in Nat /\ DOMAIN s = 1..Len(s)
  BY SequenceElim
<1>3. IsSequence(t) /\ Len(t) = Len(s) + 1
  BY AppendIsSequence
<1>4. /\ t # <<>>
      /\ \A i \in 1..Len(s) : t[i] = s[i]
      /\ t[Len(s) + 1] = e
  <2> HIDE DEF S
  <2>1. e \in S
    BY DEF S
  <2> QED BY <1>1, <2>1, AppendProperties
<1>5. DOMAIN t = 1..(Len(s) + 1)
  BY <1>3, SequenceElim
<1> HIDE DEF t, S
<1>6. DOMAIN t = DOMAIN s \cup {Len(s) + 1}
  BY <1>2, <1>5
<1>7. ToSet(t) = ToSet(s) \cup {e}
  BY <1>2, <1>4, <1>6 DEF ToSet
<1> QED BY <1>2, <1>3, <1>4, <1>5, <1>7 DEF t

\* The first element, and those behind it.
LEMMA TailElements ==
  ASSUME NEW s, IsSequence(s), s # <<>>
  PROVE  LET t == Tail(s)
         IN  /\ IsSequence(t) /\ Len(t) = Len(s) - 1
             /\ Len(s) \in Nat \ {0} /\ DOMAIN s = 1..Len(s)
             /\ DOMAIN t = 1..(Len(s) - 1)
             /\ \A i \in DOMAIN t : t[i] = s[i + 1]
             /\ Head(s) = s[1]
             /\ ToSet(s) = ToSet(t) \cup {Head(s)}
<1> DEFINE S == {s[i] : i \in DOMAIN s}
           t == Tail(s)
<1>1. s \in Seq(S)
  BY DEF IsSequence
<1>2. /\ Len(s) \in Nat /\ DOMAIN s = 1..Len(s)
  BY SequenceElim
<1>3. /\ Head(s) = s[1]
      /\ t \in Seq(S) /\ Len(t) = Len(s) - 1
      /\ \A i \in 1..Len(t) : t[i] = s[i + 1]
  <2> HIDE DEF S
  <2>1. Head(s) \in S /\ Tail(s) \in Seq(S) /\ Len(Tail(s)) = Len(s) - 1
        /\ \A i \in 1..Len(Tail(s)) : Tail(s)[i] = s[i + 1]
    BY <1>1, HeadTailProperties
  <2> QED BY <1>1, <2>1
<1>4. Len(s) # 0
  BY <1>1, EmptySeq
<1>5. Len(t) \in Nat
  BY <1>2, <1>3, <1>4
<1>6. t = [i \in 1..Len(t) |-> t[i]]
  BY <1>3, LenProperties
<1>7. IsSequence(t)
  BY <1>5, <1>6, SequenceIntro
<1>8. DOMAIN t = 1..Len(t)
  BY <1>7, SequenceElim
<1> HIDE DEF t, S
<1>9. ToSet(s) = ToSet(t) \cup {Head(s)}
  <2>1. ASSUME NEW x \in ToSet(s)
        PROVE  x \in ToSet(t) \cup {Head(s)}
    <3>1. PICK i \in 1..Len(s) : x = s[i]
      BY <1>2 DEF ToSet
    <3>2. CASE i = 1
      BY <1>3, <3>1, <3>2
    <3>3. CASE i # 1
      <4>1. i - 1 \in 1..Len(t) /\ (i - 1) + 1 = i
        BY <1>2, <1>3, <3>1, <3>3
      <4> QED BY <1>3, <1>8, <3>1, <4>1 DEF ToSet
    <3> QED BY <3>2, <3>3
  <2>2. ASSUME NEW x \in ToSet(t)
        PROVE  x \in ToSet(s)
    <3>1. PICK i \in 1..Len(t) : x = t[i]
      BY <1>8 DEF ToSet
    <3>2. i + 1 \in 1..Len(s)
      BY <1>2, <1>3, <3>1
    <3> QED BY <1>2, <1>3, <3>1, <3>2 DEF ToSet
  <2>3. Head(s) \in ToSet(s)
    BY <1>2, <1>3, <1>4 DEF ToSet
  <2> QED BY <2>1, <2>2, <2>3
<1> QED BY <1>2, <1>3, <1>4, <1>7, <1>8, <1>9 DEF t

\* No element and one element.
LEMMA ShortSequences ==
  /\ IsSequence(<<>>) /\ Len(<<>>) = 0 /\ ToSet(<<>>) = {} /\ DOMAIN <<>> = {}
  /\ \A x : /\ IsSequence(<<x>>) /\ Len(<<x>>) = 1 /\ ToSet(<<x>>) = {x}
            /\ <<x>> # <<>> /\ DOMAIN <<x>> = {1} /\ <<x>>[1] = x
<1>1. IsSequence(<<>>) /\ Len(<<>>) = 0
  BY EmptySeq DEF IsSequence
<1>2. ToSet(<<>>) = {} /\ DOMAIN <<>> = {}
  BY DEF ToSet
<1>3. ASSUME NEW x
      PROVE  /\ IsSequence(<<x>>) /\ Len(<<x>>) = 1 /\ ToSet(<<x>>) = {x}
             /\ <<x>> # <<>> /\ DOMAIN <<x>> = {1} /\ <<x>>[1] = x
  <2> DEFINE s == <<x>>
  <2>1. DOMAIN s = {1} /\ s[1] = x /\ s # <<>> /\ Len(s) = 1
    OBVIOUS
  <2>2. s = [i \in 1..1 |-> s[i]]
    OBVIOUS
  <2>3. IsSequence(s)
    BY <2>2, SequenceIntro
  <2> HIDE DEF s
  <2>4. ToSet(s) = {x}
    BY <2>1 DEF ToSet
  <2> QED BY <2>1, <2>3, <2>4 DEF s
<1> QED BY <1>1, <1>2, <1>3

\* A sequence without elements.
LEMMA NoElements ==
  ASSUME NEW s, IsSequence(s)
  PROVE  (s = <<>>) <=> (ToSet(s) = {})
<1>1. s # <<>> => ToSet(s) # {}
  BY TailElements
<1> QED BY <1>1, ShortSequences

\* An element is somewhere.
LEMMA ElementAt ==
  ASSUME NEW s, NEW x
  PROVE  (x \in ToSet(s)) <=> (\E i \in DOMAIN s : s[i] = x)
BY DEF ToSet

-----------------------------------------------------------------------------
(* The invariant.                                                          *)

Statuses == {"open", "filled", "cancelled", "spent"}
Places == {"request", "parked", "resting", "gone", "vanished", "lost"}

IsObject(x) ==
  /\ x = [body |-> x.body, id |-> x.id, status |-> x.status,
          version |-> x.version, place |-> x.place]
  /\ x.id \in 0..MaxObjects
  /\ x.status \in Statuses
  /\ x.version \in Nat
  /\ x.place \in Places
  /\ x.place \in {"resting", "gone"} => x.id # 0

\* The orders in memory; those in the book or out of it again have their id.
ObjectsInv == /\ Len(heap) <= MaxObjects
              /\ \A o \in DOMAIN heap : IsObject(heap[o])

Handing(c) == call[c].at \in {"submit", "send"}
Working    == phase \in {"match", "fill", "rest"}

\* processOrder has not taken o yet.
Waits(o) == \/ o \in ToSet(orderChan)
            \/ \E c \in Caller : Handing(c) /\ call[c].order = o

\* One and only one has it, and nothing has changed it yet; then it is the
\* taker until it rests.
QueueInv ==
  /\ IsSequence(orderChan)
  /\ Len(orderChan) <= Capacity
  /\ ToSet(orderChan) \subseteq DOMAIN heap
  /\ IsInjective(orderChan)
  /\ \A c \in Caller :
       Handing(c) => call[c].order \in DOMAIN heap \ ToSet(orderChan)
  /\ \A c, d \in Caller :
       Handing(c) /\ Handing(d) /\ call[c].order = call[d].order => c = d
  /\ phase # "none" => job \in DOMAIN heap
  /\ Working => ~Waits(job) /\ heap[job].place = "request" /\ heap[job].id # 0
  /\ \A o \in DOMAIN heap :
       Waits(o) => heap[o].place = "request" /\ heap[o].version = 0

\* Orders that are, or once were, in the lists of the book.
Placed(o) == o \in DOMAIN heap /\ heap[o].place \in {"resting", "gone"}

\* What the index, a cancel and a match point to; a match that has traded has
\* its last maker, and changes the taker with its first trade.
BookInv ==
  /\ entries = [id \in Object |-> entries[id]]
  /\ \A id \in Object : entries[id] # NoOrder => Placed(entries[id])
  /\ taken = [c \in Client |-> taken[c]]
  /\ \A c \in Client : taken[c] # NoOrder =>
       /\ taken[c] \in DOMAIN heap /\ heap[taken[c]].place = "gone"
       /\ At(c, "emit") /\ ~Emitting(c)
  /\ maker # NoOrder => Placed(maker)
  /\ phase \notin {"match", "fill"} => maker = NoOrder /\ matched = 0
  /\ phase = "fill" => maker # NoOrder
  /\ matched \in Nat /\ traded \in Nat /\ matched <= traded
  /\ matched # 0 => maker # NoOrder /\ heap[job].version > 0
  /\ phase \in {"match", "fill"} /\ matched = 0 => heap[job].version = 0
  /\ maker # NoOrder => heap[job].body.type # "stop_limit"

Updates == {OrderUpdate(o) : o \in DOMAIN heap}
Trades  == {TradeEvent(t) : t \in 1..traded}

\* What the record or message an emitter has built says: the order as it still
\* is, unless it has changed meanwhile.
CopyInv(e) ==
  LET of == First(e).of
  IN  /\ copy[e].of = of
      /\ First(e) \in Updates =>
           /\ copy[e].id = heap[of].id
           /\ copy[e].status \in Statuses
           /\ copy[e].version \in 0..heap[of].version
           /\ of \notin raced \cup silent => copy[e].version = heap[of].version
      /\ First(e) \in Trades => copy[e].id = of

\* The events of one emitter.
EmitterInv(e) ==
  /\ IsSequence(todo[e])
  /\ ToSet(todo[e]) \subseteq Updates \cup Trades
  /\ stage[e] \in {"save", "write", "publish", "send", "wait"}
  /\ ~Emitting(e) => stage[e] = "save"
  /\ stage[e] \in {"send", "wait"} => deploy.producer = "sync"
  /\ stage[e] \in {"write", "send"} => CopyInv(e)
  /\ \A o \in DOMAIN heap : OrderUpdate(o) \in ToSet(todo[e]) => heap[o].id # 0

\* The matcher goes on only when its events are handled; a client has events
\* only of orders it has cancelled.
EventsInv ==
  /\ todo = [e \in Emitter |-> todo[e]]
  /\ stage = [e \in Emitter |-> stage[e]]
  /\ copy = [e \in Emitter |-> copy[e]]
  /\ \A e \in Emitter : EmitterInv(e)
  /\ phase \in {"none", "match", "fill"} => ~Emitting(Matcher)
  /\ \A c \in Client :
       /\ Emitting(c) => At(c, "emit")
       /\ \A o \in DOMAIN heap :
            OrderUpdate(o) \in ToSet(todo[c]) => heap[o].place = "gone"

\* The channels of the asynchronous producer.
OutboxInv ==
  /\ outbox = [kind \in Kind |-> outbox[kind]]
  /\ \A kind \in Kind : /\ IsSequence(outbox[kind])
                        /\ Len(outbox[kind]) <= OutboxCapacity
  /\ ToSet(outbox["order"]) \subseteq DOMAIN heap
  /\ ToSet(outbox["trade"]) \subseteq 1..traded

IsMessage(m) ==
  /\ m.id \in 0..MaxObjects
  /\ m.status \in Statuses
  /\ m.version \in Nat
  /\ IF m.of = NoOrder
       THEN m.version = 0
       ELSE m.of \in DOMAIN heap /\ m.version <= heap[m.of].version

\* No message is ahead of its order.
TopicInv == \A i \in DOMAIN topic["order"] : IsMessage(topic["order"][i])

IsFlight(f) ==
  f = [message |-> f.message, left |-> f.left, from |-> f.from]

\* Goroutine e waits for the brokers to answer for this flight.
Awaits(e, kind, f) ==
  /\ e \in Emitter
  /\ Works(e, "wait")
  /\ First(e) = [kind |-> kind, of |-> f.message.of]

\* What is in the client library; nobody waits for two answers.
FlyingInv ==
  /\ flying = [kind \in Kind |-> flying[kind]]
  /\ \A kind \in Kind :
       /\ IsSequence(flying[kind])
       /\ \A i \in DOMAIN flying[kind] :
            /\ IsFlight(flying[kind][i])
            /\ flying[kind][i].from # Nobody =>
                 Awaits(flying[kind][i].from, kind, flying[kind][i])
       /\ \A i, j \in DOMAIN flying[kind] :
            flying[kind][i].from = flying[kind][j].from
              => i = j \/ flying[kind][i].from = Nobody
  /\ \A i \in DOMAIN flying["order"] :
       IsMessage(flying["order"][i].message) /\ flying["order"][i].message.of # NoOrder
  /\ \A i \in DOMAIN flying["trade"] : flying["trade"][i].message.of \in 1..traded

\* The orders a sink knows of, or will.
Told(o) == /\ o \notin silent
           /\ \/ heap[o].place \in {"resting", "gone"}
              \/ phase = "rest" /\ job = o /\ heap[o].version > 0

\* The trades that processTrades has announced.
Known == 1..(traded - matched)

\* A row will still be written for this event.
RowDue(e, x) == \E i \in DOMAIN todo[e] :
                  todo[e][i] = x /\ (i = 1 => stage[e] \in {"save", "write"})

RowPending(x) == \E e \in Emitter : RowDue(e, x)

RowIs(o) == rows["order"][heap[o].id] = [of |-> o, version |-> heap[o].version]

\* The tables have a row for every key, and the trades stay within their bound:
\* a maker is chosen only if there may be one more.
TablesInv ==
  /\ rows = [kind \in Kind |-> rows[kind]]
  /\ \A kind \in Kind : rows[kind] = [key \in RowKey |-> rows[kind][key]]
  /\ missed = [rows |-> missed.rows, topic |-> missed.topic]
  /\ traded <= MaxTrades
  /\ phase = "fill" => traded < MaxTrades

\* A row is as it should be, or will be written, or could not be.
RowsInv ==
  /\ \A o \in DOMAIN heap :
       /\ Told(o)
       /\ o \notin raced
       /\ ~SharesRow(o)
       /\ OrderUpdate(o) \notin missed.rows
       => RowIs(o) \/ RowPending(OrderUpdate(o))
  /\ \A t \in Known :
       TradeEvent(t) \notin missed.rows =>
         rows["trade"][t].of = t \/ RowPending(TradeEvent(t))

TopicIs(o) == \E i \in DOMAIN topic["order"] :
                IsLatest("order", o, i) /\ topic["order"][i].version = heap[o].version

Sent(t) == \E i \in DOMAIN topic["trade"] : topic["trade"][i].of = t

\* A flight of o that no other follows.
FliesLast(o, i) == /\ flying["order"][i].message.of = o
                   /\ \A j \in DOMAIN flying["order"] :
                        j > i => flying["order"][j].message.of # o

Flies(kind, x) == \E i \in DOMAIN flying[kind] : flying[kind][i].message.of = x

\* The last message of o that left a producer says what o is.
LastIs(o) ==
  \/ \E i \in DOMAIN flying["order"] :
       FliesLast(o, i) /\ flying["order"][i].message.version = heap[o].version
  \/ ~Flies("order", o) /\ TopicIs(o)

\* A message will still be handed to the client library for this event.
SendDue(e, x) == \E i \in DOMAIN todo[e] :
                   todo[e][i] = x /\ (i = 1 => stage[e] # "wait")

SendPending(x) == \/ \E e \in Emitter : SendDue(e, x)
                  \/ x.of \in ToSet(outbox[x.kind])

\* A message is there, or under way, or will be sent.
TopicsInv ==
  /\ \A o \in DOMAIN heap :
       /\ Told(o)
       /\ deploy.producer = "async" \/ o \notin raced
       /\ o \notin overtaken
       /\ OrderUpdate(o) \notin missed.topic
       => LastIs(o) \/ SendPending(OrderUpdate(o))
  /\ \A t \in Known :
       TradeEvent(t) \notin missed.topic =>
         Sent(t) \/ Flies("trade", t) \/ SendPending(TradeEvent(t))

\* Behind the asynchronous producer, the messages of an order that were not
\* passed by another: first those in the topic, then those in flight.
OrderedInv ==
  deploy.producer = "async" =>
    \A o \in DOMAIN heap \ overtaken :
      /\ \A i, j \in DOMAIN topic["order"] :
           i < j /\ topic["order"][i].of = o /\ topic["order"][j].of = o
             => topic["order"][i].version <= topic["order"][j].version
      /\ \A i, j \in DOMAIN flying["order"] :
           i < j /\ flying["order"][i].message.of = o /\ flying["order"][j].message.of = o
             => flying["order"][i].message.version <= flying["order"][j].message.version
      /\ \A i \in DOMAIN topic["order"], j \in DOMAIN flying["order"] :
           topic["order"][i].of = o /\ flying["order"][j].message.of = o
             => topic["order"][i].version <= flying["order"][j].message.version

-----------------------------------------------------------------------------
(* What the steps do to the orders.                                        *)

\* The orders are numbered.
LEMMA HeapDomain ==
  ASSUME MemoryInv
  PROVE  /\ Len(heap) \in Nat /\ DOMAIN heap = 1..Len(heap)
         /\ heap = [o \in DOMAIN heap |-> heap[o]]
BY SequenceElim DEF MemoryInv

\* Every order but those of S is as it was.
OnlyAlters(S) == /\ DOMAIN heap' = DOMAIN heap
                 /\ Len(heap') = Len(heap)
                 /\ \A p \in DOMAIN heap \ S : heap'[p] = heap[p]

\* The matcher and the clients emit events.
LEMMA MatcherEmits == Matcher \in Emitter /\ Client \subseteq Emitter
BY PipelineAssumption DEF PipelineEmitter

\* Steps that change orders alter no others.
LEMMA OthersKeep ==
  ASSUME MemoryInv, ChangesOrders, NEW S, \A p \in DOMAIN heap \ S : heap'[p] = heap[p]
  PROVE  OnlyAlters(S)
BY HeapStays, SameDomainIsSequence DEF OnlyAlters, MemoryInv

\* A cancel takes the order of an index entry out of the book,
LEMMA TakenAlters ==
  ASSUME MemoryInv, ObjectsInv, BookInv, NEW c \in Client, CancelTakes(c)
  PROVE  \E o \in DOMAIN heap :
           /\ heap[o].place \in {"resting", "gone"}
           /\ OnlyAlters({o})
           /\ IsObject(heap'[o])
           /\ heap'[o].id = heap[o].id
           /\ heap'[o].version = heap[o].version
           /\ heap'[o].place = "gone"
           /\ entries' = [entries EXCEPT ![Target(c)] = NoOrder]
           /\ taken' = [taken EXCEPT ![c] = o]
<1> DEFINE o == entries[Target(c)]
           x == heap[o]
<1>1. o \in DOMAIN heap /\ x.place \in {"resting", "gone"} /\ IsObject(x)
  BY DEF CancelTakes, Indexed, BookInv, Placed, ObjectsInv
<1>2. heap' = [heap EXCEPT ![o].place = "gone"]
  BY DEF CancelTakes
<1>3. heap'[o] = [x EXCEPT !.place = "gone"]
  BY <1>1, <1>2
<1>4. \A p \in DOMAIN heap \ {o} : heap'[p] = heap[p]
  BY <1>2
<1>5. OnlyAlters({o})
  BY <1>4, OthersKeep DEF ChangesOrders
<1>6. heap'[o] = [body |-> x.body, id |-> x.id, status |-> x.status,
                  version |-> x.version, place |-> "gone"]
  BY <1>1, <1>3 DEF IsObject
<1>7. IsObject(heap'[o])
  BY <1>1, <1>6 DEF IsObject, Places
<1>8. /\ entries' = [entries EXCEPT ![Target(c)] = NoOrder]
      /\ taken' = [taken EXCEPT ![c] = o]
  BY DEF CancelTakes
<1>9. /\ heap'[o].id = heap[o].id /\ heap'[o].version = heap[o].version
      /\ heap'[o].place = "gone"
  BY <1>6
<1> HIDE DEF o
<1> QED BY <1>1, <1>5, <1>7, <1>8, <1>9

\* and then gives it its status.
LEMMA MarkedAlters ==
  ASSUME MemoryInv, ObjectsInv, BookInv, NEW c \in Client, CancelMarks(c)
  PROVE  LET o == taken[c]
         IN  /\ o \in DOMAIN heap /\ o # NoOrder /\ heap[o].place = "gone"
             /\ OnlyAlters({o})
             /\ IsObject(heap'[o])
             /\ heap'[o].id = heap[o].id
             /\ heap'[o].version = heap[o].version + 1
             /\ heap'[o].place = "gone"
<1> DEFINE o == taken[c]
           x == heap[o]
           status == IF HasLeft(o) THEN "cancelled" ELSE "spent"
<1>1. o \in DOMAIN heap /\ x.place = "gone" /\ IsObject(x) /\ o # NoOrder
  BY DEF CancelMarks, BookInv, ObjectsInv
<1>2. heap' = [heap EXCEPT ![o].status = status, ![o].version = @ + 1]
  BY DEF CancelMarks
<1>3. heap'[o] = [x EXCEPT !.status = status, !.version = x.version + 1]
  <2> HIDE DEF status
  <2> QED BY <1>1, <1>2
<1>4. \A p \in DOMAIN heap \ {o} : heap'[p] = heap[p]
  BY <1>2
<1>5. OnlyAlters({o})
  BY <1>4, OthersKeep DEF ChangesOrders
<1>6. heap'[o] = [body |-> x.body, id |-> x.id, status |-> status,
                  version |-> x.version + 1, place |-> x.place]
  <2> HIDE DEF status
  <2> QED BY <1>1, <1>3 DEF IsObject
<1>7. status \in Statuses
  BY DEF Statuses
<1> HIDE DEF status
<1>8. IsObject(heap'[o])
  BY <1>1, <1>6, <1>7 DEF IsObject, Places
<1> QED BY <1>1, <1>5, <1>6, <1>8

\* An order that processOrder has is in memory.
LEMMA JobIsObject ==
  ASSUME MemoryInv, ObjectsInv, QueueInv, phase # "none"
  PROVE  job \in DOMAIN heap /\ IsObject(heap[job])
BY DEF QueueInv, ObjectsInv

\* An order gets its id when processOrder begins.
LEMMA TakeAlters ==
  ASSUME MemoryInv, ObjectsInv, QueueInv, TakeOrder
  PROVE  /\ job' \in DOMAIN heap /\ Waits(job')
         /\ OnlyAlters({job'})
         /\ IsObject(heap'[job'])
         /\ heap[job'].id # 0 => heap'[job'].id = heap[job'].id
         /\ heap'[job'].id # 0
         /\ heap'[job'].version = heap[job'].version
         /\ heap'[job'].place = heap[job'].place
<1> DEFINE o == job'
           x == heap[o]
<1>1. o \in ToSet(orderChan)
  BY TailElements DEF TakeOrder, Take, QueueInv
<1>2. o \in DOMAIN heap /\ Waits(o) /\ IsObject(x)
  BY <1>1 DEF QueueInv, Waits, ObjectsInv
<1>3. MaxObjects \in Nat /\ Len(heap) <= MaxObjects /\ Len(heap) \in Nat
      /\ DOMAIN heap = 1..Len(heap)
  BY PipelineAssumption, HeapDomain DEF ObjectsInv
<1> DEFINE id == Identified(o)
<1>4. id \in 1..MaxObjects /\ (x.id # 0 => id = x.id)
  BY <1>2, <1>3 DEF Identified, IsObject
<1>5. heap' = [heap EXCEPT ![o].id = id]
  BY DEF TakeOrder
<1> HIDE DEF id
<1>6. heap'[o] = [x EXCEPT !.id = id]
  BY <1>2, <1>5
<1>7. \A p \in DOMAIN heap \ {o} : heap'[p] = heap[p]
  BY <1>5
<1>8. OnlyAlters({o})
  BY <1>7, OthersKeep DEF ChangesOrders
<1>9. heap'[o] = [body |-> x.body, id |-> id, status |-> x.status,
                  version |-> x.version, place |-> x.place]
  BY <1>2, <1>6 DEF IsObject
<1> HIDE DEF o
<1>10. IsObject(heap'[o]) /\ id # 0
  BY <1>2, <1>3, <1>4, <1>9 DEF IsObject, Places
<1> QED BY <1>2, <1>4, <1>8, <1>9, <1>10 DEF o

\* A stop order is parked.
LEMMA ParkAlters ==
  ASSUME MemoryInv, ObjectsInv, QueueInv, ParkStop
  PROVE  /\ OnlyAlters({job})
         /\ IsObject(heap'[job])
         /\ heap'[job].id = heap[job].id
         /\ heap'[job].version = heap[job].version
         /\ heap'[job].place = "parked"
<1> DEFINE x == heap[job]
<1>1. job \in DOMAIN heap /\ IsObject(x)
  BY JobIsObject DEF ParkStop
<1>2. heap' = [heap EXCEPT ![job].place = "parked"]
  BY DEF ParkStop
<1>3. heap'[job] = [x EXCEPT !.place = "parked"]
  BY <1>1, <1>2
<1>4. \A p \in DOMAIN heap \ {job} : heap'[p] = heap[p]
  BY <1>2
<1>5. OnlyAlters({job})
  BY <1>4, OthersKeep DEF ChangesOrders
<1>6. heap'[job] = [body |-> x.body, id |-> x.id, status |-> x.status,
                    version |-> x.version, place |-> "parked"]
  BY <1>1, <1>3 DEF IsObject
<1> QED BY <1>1, <1>5, <1>6 DEF IsObject, Places

\* A trade changes taker and maker, and may take an order out of the book.
LEMMA FillAlters ==
  ASSUME MemoryInv, ObjectsInv, QueueInv, BookInv, NEW filled, FillMaker(filled),
         filled \in SUBSET {job, maker}
  PROVE  /\ job \in DOMAIN heap /\ Placed(maker) /\ job # maker
         /\ DOMAIN heap' = DOMAIN heap /\ Len(heap') = Len(heap)
         /\ \A o \in DOMAIN heap :
              /\ IsObject(heap'[o])
              /\ heap'[o].id = heap[o].id /\ heap'[o].body = heap[o].body
              /\ heap'[o].version = heap[o].version + (IF o \in {job, maker} THEN 1 ELSE 0)
              /\ \/ heap'[o].place = heap[o].place
                 \/ heap[o].place \in {"resting", "gone"} /\ heap'[o].place = "gone"
              /\ o \notin {job, maker} => heap'[o].status = heap[o].status
         /\ heap'[job].place = "request"
<1>1. /\ job \in DOMAIN heap /\ heap[job].place = "request"
      /\ Placed(maker) /\ phase = "fill"
  BY DEF FillMaker, QueueInv, Working, BookInv
<1>2. job # maker
  BY <1>1 DEF Placed
<1>3. PICK removed \in (IF maker \in filled THEN Removable ELSE {NoOrder}) :
       heap' = [o \in DOMAIN heap |->
                  [heap[o] EXCEPT
                     !.version = IF o \in {job, maker} THEN @ + 1 ELSE @,
                     !.status = IF o \in filled THEN "filled"
                                ELSE IF o \in {job, maker} THEN "open" ELSE @,
                     !.place = IF o = removed THEN "gone" ELSE @]]
  BY DEF FillMaker
<1>4. removed # NoOrder => Placed(removed)
  BY <1>1, <1>3 DEF Removable, Resting, Placed
<1>5. DOMAIN heap' = DOMAIN heap
  BY <1>3
<1>6. Len(heap') = Len(heap)
  BY HeapStays, SameDomainIsSequence DEF MemoryInv, ChangesOrders
<1>7. 0 \notin DOMAIN heap
  BY HeapDomain
<1>8. ASSUME NEW o \in DOMAIN heap
      PROVE  /\ IsObject(heap'[o])
             /\ heap'[o].id = heap[o].id /\ heap'[o].body = heap[o].body
             /\ heap'[o].version = heap[o].version + (IF o \in {job, maker} THEN 1 ELSE 0)
             /\ \/ heap'[o].place = heap[o].place
                \/ heap[o].place \in {"resting", "gone"} /\ heap'[o].place = "gone"
             /\ o \notin {job, maker} => heap'[o].status = heap[o].status
             /\ o # removed => heap'[o].place = heap[o].place
  <2> DEFINE x == heap[o]
             version == IF o \in {job, maker} THEN x.version + 1 ELSE x.version
             status == IF o \in filled THEN "filled"
                       ELSE IF o \in {job, maker} THEN "open" ELSE x.status
             place == IF o = removed THEN "gone" ELSE x.place
  <2>1. IsObject(x)
    BY DEF ObjectsInv
  <2>2. heap'[o] = [x EXCEPT !.version = version, !.status = status, !.place = place]
    BY <1>3
  <2>3. heap'[o] = [body |-> x.body, id |-> x.id, status |-> status,
                    version |-> version, place |-> place]
    <3> HIDE DEF version, status, place
    <3> QED BY <2>1, <2>2 DEF IsObject
  <2>4. /\ status \in Statuses
        /\ version \in Nat /\ version = x.version + (IF o \in {job, maker} THEN 1 ELSE 0)
        /\ o \notin {job, maker} => status = x.status
    BY <2>1 DEF IsObject, Statuses
  <2>5. /\ place \in Places
        /\ place \in {"resting", "gone"} => x.place \in {"resting", "gone"}
        /\ place = x.place \/ (x.place \in {"resting", "gone"} /\ place = "gone")
        /\ o # removed => place = x.place
    <3>1. CASE o = removed
      <4>1. x.place \in {"resting", "gone"}
        BY <1>4, <1>7, <3>1 DEF Placed, NoOrder
      <4> QED BY <3>1, <4>1 DEF Places
    <3>2. CASE o # removed
      BY <2>1, <3>2 DEF IsObject
    <3> QED BY <3>1, <3>2
  <2> HIDE DEF version, status, place, x
  <2>6. /\ heap'[o].id = x.id /\ heap'[o].body = x.body /\ heap'[o].version = version
        /\ heap'[o].status = status /\ heap'[o].place = place
    BY <2>3
  <2>7. IsObject(heap'[o])
    BY <2>1, <2>3, <2>4, <2>5 DEF IsObject
  <2> QED BY <2>4, <2>5, <2>6, <2>7 DEF x
<1>9. heap'[job].place = "request"
  <2>1. job # removed
    BY <1>1, <1>4, <1>7 DEF Placed, NoOrder
  <2> QED BY <1>1, <1>8, <2>1
<1> HIDE DEF Placed
<1> QED BY <1>1, <1>2, <1>5, <1>6, <1>8, <1>9

\* What is left of an order rests, or is cancelled, with an event; what came
\* back filled or cancelled goes without.
LEMMA RestAlters ==
  ASSUME MemoryInv, ObjectsInv, QueueInv, RestOrder
  PROVE  /\ OnlyAlters({job})
         /\ IsObject(heap'[job])
         /\ heap'[job].id = heap[job].id
         /\ heap'[job].version \in {heap[job].version, heap[job].version + 1}
         /\ \/ /\ todo' = [todo EXCEPT ![Matcher] = <<OrderUpdate(job)>>]
               /\ heap'[job].place \in {"resting", "gone"}
            \/ /\ todo' = [todo EXCEPT ![Matcher] = <<>>]
               /\ heap'[job].version = heap[job].version
               /\ heap'[job].place \in {"gone", "vanished"}
               /\ heap'[job].place = "gone" => heap[job].version > 0
         /\ \/ entries' = entries
            \/ /\ entries' = [entries EXCEPT ![heap[job].id] = job]
               /\ heap'[job].place = "resting"
<1>1. /\ job \in DOMAIN heap /\ IsObject(heap[job]) /\ heap[job].id # 0
  BY JobIsObject DEF RestOrder, QueueInv, Working
<1> DEFINE x == heap[job]
           open  == x.status = "open"
           rests == open /\ x.body.type # "market"
           place == IF rests THEN "resting"
                    ELSE IF open \/ x.version > 0 THEN "gone" ELSE "vanished"
           version == IF open /\ ~rests THEN x.version + 1 ELSE x.version
           status == IF open /\ ~rests THEN "cancelled" ELSE x.status
<1>2. /\ heap' = [heap EXCEPT ![job].place = place,
                              ![job].version = IF open /\ ~rests THEN @ + 1 ELSE @,
                              ![job].status = IF open /\ ~rests THEN "cancelled" ELSE @]
      /\ todo' = [todo EXCEPT ![Matcher] = IF open THEN <<OrderUpdate(job)>> ELSE <<>>]
      /\ entries' = IF rests THEN [entries EXCEPT ![heap[job].id] = job] ELSE entries
  BY DEF RestOrder
<1>3. heap'[job] = [x EXCEPT !.place = place, !.version = version, !.status = status]
  <2> HIDE DEF rests, open, place
  <2> QED BY <1>1, <1>2
<1>4. \A p \in DOMAIN heap \ {job} : heap'[p] = heap[p]
  <2> HIDE DEF rests, open, place
  <2> QED BY <1>2
<1>5. OnlyAlters({job})
  BY <1>4, OthersKeep DEF ChangesOrders
<1>6. heap'[job] = [body |-> x.body, id |-> x.id, status |-> status,
                    version |-> version, place |-> place]
  <2> HIDE DEF rests, open, place, version, status
  <2> QED BY <1>1, <1>3 DEF IsObject
<1>7. /\ place \in {"resting", "gone", "vanished"} /\ status \in Statuses
      /\ version \in {x.version, x.version + 1} /\ version \in Nat
      /\ x.id # 0 /\ x.id \in 0..MaxObjects
      /\ rests => place = "resting"
  <2> HIDE DEF open
  <2> QED BY <1>1 DEF IsObject, Statuses
<1>8. IF open THEN place \in {"resting", "gone"}
              ELSE /\ version = x.version
                   /\ place \in {"gone", "vanished"} /\ (place = "gone" => x.version > 0)
  OBVIOUS
<1>9. IsObject(heap'[job]) /\ heap'[job].id = x.id /\ heap'[job].version = version
      /\ heap'[job].place = place
  <2> HIDE DEF rests, open, place, version, status, x
  <2> QED BY <1>6, <1>7 DEF IsObject, Places
<1>10. \/ entries' = entries
       \/ entries' = [entries EXCEPT ![heap[job].id] = job] /\ place = "resting"
  <2> HIDE DEF rests, place
  <2> QED BY <1>2, <1>7
<1>11. todo' = [todo EXCEPT ![Matcher] = IF open THEN <<OrderUpdate(job)>> ELSE <<>>]
  BY <1>2
<1> HIDE DEF rests, open, place, version, status
<1> QED BY <1>5, <1>7, <1>8, <1>9, <1>10, <1>11

\* The events of a match: its trades, the taker and the last maker.
LEMMA FillEventsShape ==
  ASSUME matched \in Nat, traded \in Nat, matched <= traded
  PROVE  /\ IsSequence(FillEvents)
         /\ ToSet(FillEvents) =
              {TradeEvent(t) : t \in (traded - matched + 1)..traded} \cup
              (IF matched = 0 THEN {} ELSE {OrderUpdate(job), OrderUpdate(maker)})
<1> DEFINE n == matched
           k == traded - matched
           a == [i \in 1..n |-> TradeEvent(k + i)]
           b == <<OrderUpdate(job), OrderUpdate(maker)>>
           A == {TradeEvent(t) : t \in (k + 1)..traded}
           B == {OrderUpdate(job), OrderUpdate(maker)}
<1>1. n \in Nat /\ k \in Nat /\ traded = k + n
  OBVIOUS
<1>2. CASE matched = 0
  <2>1. FillEvents = <<>> /\ A = {}
    BY <1>1, <1>2 DEF FillEvents
  <2> QED BY <1>1, <1>2, <2>1, ShortSequences
<1>3. CASE matched # 0
  <2>1. FillEvents = a \o b
    BY <1>3 DEF FillEvents
  <2>2. a \in Seq(A \cup B) /\ Len(a) = n
    <3>1. \A i \in 1..n : k + i \in (k + 1)..traded
      BY <1>1
    <3> DEFINE C == A \cup B
    <3>2. a \in [1..n -> C]
      BY <3>1
    <3> HIDE DEF a, C, k
    <3>3. a \in Seq(C)
      BY <1>1, <3>2, IsASeq
    <3>4. Len(a) = n
      BY <1>1, <3>2, <3>3, LenProperties
    <3> QED BY <3>3, <3>4 DEF C
  <2>3. b \in Seq(A \cup B) /\ Len(b) = 2
    OBVIOUS
  <2>4. \A i \in 1..n : a[i] = TradeEvent(k + i)
    OBVIOUS
  <2>5. b[1] = OrderUpdate(job) /\ b[2] = OrderUpdate(maker)
    OBVIOUS
  <2> DEFINE c == a \o b
             C == A \cup B
  <2>6. c \in Seq(C) /\ Len(c) = n + 2
        /\ \A i \in 1..(n + 2) : c[i] = IF i <= n THEN a[i] ELSE b[i - n]
    <3> HIDE DEF a, b, C, A, B, n
    <3>1. a \in Seq(C) /\ b \in Seq(C)
      BY <2>2, <2>3 DEF C
    <3>2. Len(a) = n /\ Len(b) = 2
      BY <2>2, <2>3
    <3>3. /\ c \in Seq(C) /\ Len(c) = Len(a) + Len(b)
          /\ \A i \in 1..(Len(a) + Len(b)) : c[i] = IF i <= Len(a) THEN a[i] ELSE b[i - Len(a)]
      BY <3>1, ConcatProperties
    <3> HIDE DEF c
    <3> QED BY <3>2, <3>3
  <2>7. DOMAIN c = 1..(n + 2) /\ c = [i \in 1..(n + 2) |-> c[i]] /\ n + 2 \in Nat
    <3> HIDE DEF c, C, n
    <3> QED BY <1>1, <2>6, LenProperties
  <2>8. IsSequence(c)
    <3> HIDE DEF c, n
    <3> QED BY <2>7, SequenceIntro
  <2>9. ToSet(c) = A \cup B
    <3>1. \A i \in 1..n : c[i] = TradeEvent(k + i)
      <4> HIDE DEF c, a, b
      <4> QED BY <1>1, <2>4, <2>6
    <3>2. c[n + 1] = OrderUpdate(job) /\ c[n + 2] = OrderUpdate(maker)
      <4> HIDE DEF c, a, b
      <4> QED BY <1>1, <2>5, <2>6
    <3> HIDE DEF c, a, b, n, k, C
    <3>3. ASSUME NEW x \in ToSet(c)
          PROVE  x \in A \cup B
      <4>1. PICK i \in 1..(n + 2) : x = c[i]
        BY <2>7 DEF ToSet
      <4>2. CASE i \in 1..n
        BY <1>1, <3>1, <4>1, <4>2
      <4>3. CASE i \in {n + 1, n + 2}
        BY <3>2, <4>1, <4>3
      <4> QED BY <1>1, <4>1, <4>2, <4>3
    <3>4. ASSUME NEW t \in (k + 1)..traded
          PROVE  TradeEvent(t) \in ToSet(c)
      <4>1. t - k \in 1..n /\ t - k \in 1..(n + 2)
            /\ k + (t - k) = t
        BY <1>1
      <4>2. c[t - k] = TradeEvent(t)
        BY <3>1, <4>1
      <4> QED BY <2>7, <4>1, <4>2 DEF ToSet
    <3>5. B \subseteq ToSet(c)
      <4>1. n + 1 \in 1..(n + 2) /\ n + 2 \in 1..(n + 2)
        BY <1>1
      <4> QED BY <2>7, <3>2, <4>1 DEF ToSet
    <3> QED BY <3>3, <3>4, <3>5
  <2> HIDE DEF c, a, b, A, B, n
  <2>10. FillEvents = c /\ matched # 0
    BY <1>3, <2>1 DEF c
  <2> QED BY <2>8, <2>9, <2>10 DEF A, B
<1> QED BY <1>2, <1>3

\* Everything in memory is lost.
LEMMA DeathAlters ==
  ASSUME MemoryInv, ObjectsInv, ProcessDies
  PROVE  /\ OnlyAlters(DOMAIN heap)
         /\ \A o \in DOMAIN heap : /\ IsObject(heap'[o])
                                   /\ heap'[o].id = heap[o].id
                                   /\ heap'[o].version = heap[o].version
                                   /\ heap'[o].place = "lost"
<1>1. heap' = [o \in DOMAIN heap |-> [heap[o] EXCEPT !.place = "lost"]]
  BY DEF ProcessDies
<1>2. OnlyAlters(DOMAIN heap)
  BY <1>1, HeapStays, SameDomainIsSequence DEF OnlyAlters, MemoryInv, ChangesOrders
<1>3. ASSUME NEW o \in DOMAIN heap
      PROVE  /\ IsObject(heap'[o])
             /\ heap'[o].id = heap[o].id
             /\ heap'[o].version = heap[o].version
             /\ heap'[o].place = "lost"
  <2> DEFINE x == heap[o]
  <2>1. IsObject(x)
    BY DEF ObjectsInv
  <2>2. heap'[o] = [x EXCEPT !.place = "lost"]
    BY <1>1
  <2>3. heap'[o] = [body |-> x.body, id |-> x.id, status |-> x.status,
                    version |-> x.version, place |-> "lost"]
    BY <2>1, <2>2 DEF IsObject
  <2> QED BY <2>1, <2>3 DEF IsObject, Places
<1> QED BY <1>2, <1>3

-----------------------------------------------------------------------------
(* The kinds of steps.                                                     *)

\* What the argument is about, besides the calls and the channel.
keptVars == <<heap, todo, stage, copy, rows, wireVars, missed, deploy, bookVars,
              phase, maker, matched, traded, historyVars>>

\* An order more, handed to the engine by c.
Added(x, c) ==
  /\ Len(heap) < MaxObjects
  /\ heap' = Append(heap, x)
  /\ IsObject(x) /\ x.place = "request" /\ x.version = 0
  /\ call[c].at \in Returned
  /\ call' = [call EXCEPT ![c] = [at |-> "submit", order |-> Len(heap) + 1]]
  /\ UNCHANGED <<orderChan, job, todo, stage, copy, rows, wireVars, missed, deploy,
                 bookVars, phase, maker, matched, traded, historyVars>>

\* A client, or a message, brings a new order, or a client begins a cancel.
LEMMA ClientAdds ==
  ASSUME MemoryInv, NEW c \in Client, ClientCalls(c)
  PROVE  \/ \E x : Added(x, c)
         \/ /\ UNCHANGED keptVars
            /\ Calls(c, "cancel", NoOrder)
<1> DEFINE x == NewObject(deploy.request[c].body, 0, "open")
<1>1. \/ /\ Len(heap) < MaxObjects /\ heap' = Append(heap, x)
         /\ Calls(c, "submit", Len(heap'))
      \/ Calls(c, "cancel", NoOrder) /\ heap' = heap
  BY DEF ClientCalls
<1>2. UNCHANGED <<todo, stage, copy, rows, wireVars, missed, deploy, bookVars,
                  phase, maker, matched, traded, historyVars>>
  BY DEF ClientCalls, diskVars, eventVars, wireVars, tradingVars, matchVars
<1>3. IsObject(x) /\ x.place = "request" /\ x.version = 0
  BY PipelineAssumption DEF NewObject, IsObject, Statuses, Places
<1>4. heap' = Append(heap, x) => Len(heap') = Len(heap) + 1
  BY AppendIsSequence DEF MemoryInv
<1> HIDE DEF x
<1>5. CASE /\ Len(heap) < MaxObjects /\ heap' = Append(heap, x)
           /\ Calls(c, "submit", Len(heap'))
  <2>1. Added(x, c)
    BY <1>2, <1>3, <1>4, <1>5 DEF Calls, Added
  <2> QED BY <2>1
<1>6. CASE Calls(c, "cancel", NoOrder) /\ heap' = heap
  BY <1>2, <1>6 DEF keptVars
<1> QED BY <1>1, <1>5, <1>6

\* A message of the consumer puts one more into memory.
LEMMA MessageAdds ==
  ASSUME MemoryInv, ConsumerInv, TopicInv, MessageDelivered
  PROVE  \/ \E x : Added(x, Consumer)
         \/ UNCHANGED <<keptVars, engineVars>>
<1> DEFINE message == topic["order"][nextOffset + 1]
           x == NewObject(message.body, message.id, message.status)
<1>1. nextOffset + 1 \in DOMAIN topic["order"]
  <2>1. nextOffset \in Nat /\ nextOffset < End
    BY DEF MessageDelivered, CanDeliver, ConsumerInv, SessionInv
  <2>2. End \in Nat /\ DOMAIN topic["order"] = 1..End
    BY SequenceElim DEF MemoryInv, TopicsAreSequences, End, Kind
  <2> QED BY <2>1, <2>2
<1>2. IsObject(x) /\ x.place = "request" /\ x.version = 0
  <2>1. message.id \in 0..MaxObjects /\ message.status \in Statuses
    BY <1>1 DEF TopicInv, IsMessage
  <2> QED BY <2>1 DEF NewObject, IsObject, Places
<1>3. UNCHANGED <<todo, stage, copy, rows, wireVars, missed, deploy, bookVars,
                  phase, maker, matched, traded, historyVars>>
  BY DEF MessageDelivered, diskVars, eventVars, wireVars, mainVars, tradingVars, matchVars
<1>4. \/ UNCHANGED <<engineVars, heap>>
      \/ heap' = Append(heap, x) /\ Calls(Consumer, "submit", Len(heap'))
  BY DEF MessageDelivered
<1>5. Len(heap) < MaxObjects
  BY DEF MessageDelivered
<1>6. heap' = Append(heap, x) => Len(heap') = Len(heap) + 1
  BY AppendIsSequence DEF MemoryInv
<1> HIDE DEF x
<1>7. CASE heap' = Append(heap, x) /\ Calls(Consumer, "submit", Len(heap'))
  <2>1. Added(x, Consumer)
    BY <1>2, <1>3, <1>5, <1>6, <1>7 DEF Calls, Added
  <2> QED BY <2>1
<1>8. CASE UNCHANGED <<engineVars, heap>>
  BY <1>3, <1>8 DEF keptVars
<1> QED BY <1>4, <1>7, <1>8

\* A call goes on without handing over an order, and a call that does.
CallMoves(c) ==
  /\ UNCHANGED <<keptVars, job, orderChan>>
  /\ \A d \in Caller \ {c} : call'[d] = call[d]
  /\ Handing(c)' => Handing(c) /\ call'[c].order = call[c].order
  /\ c \in Client /\ At(c, "emit") => ~Emitting(c) /\ taken[c] = NoOrder

CallSends(c) ==
  /\ Handing(c)
  /\ Len(orderChan) < Capacity
  /\ orderChan' = Append(orderChan, call[c].order)
  /\ \A d \in Caller \ {c} : call'[d] = call[d]
  /\ call'[c].at = "accepted" /\ call[c].at = "send"
  /\ UNCHANGED <<keptVars, job>>

\* Steps of a call that are no cancel's change nothing else.
LEMMA CallFrame ==
  ASSUME UNCHANGED <<sinkVars, consumerVars, mainVars, tradingVars>>
  PROVE  UNCHANGED keptVars
BY DEF sinkVars, mainVars, tradingVars, matchVars, keptVars, wireVars

\* One step of a call, in these terms.
LEMMA CallKinds ==
  ASSUME CallsInv, NEW c \in Caller,
         \/ /\ UNCHANGED keptVars
            /\ Calls(c, "cancel", NoOrder)
         \/ SubmitEnters(c) \/ SubmitSends(c)
         \/ c \in Client /\ (CancelMisses(c) \/ CancelReturns(c))
  PROVE  CallMoves(c) \/ CallSends(c)
<1>1. call = [d \in Caller |-> call[d]]
      /\ \A d \in Caller : call[d] \in [at: Returned \cup Inside \cup Waiting,
                                       order: Order \cup {NoOrder}]
  BY DEF CallsInv, CallsShape
<1> HIDE DEF keptVars
<1>2. CASE /\ UNCHANGED keptVars
           /\ Calls(c, "cancel", NoOrder)
  BY <1>1, <1>2 DEF Calls, CallMoves, Handing, At, Returned
<1>3. CASE SubmitEnters(c)
  BY <1>1, <1>3, CallFrame
  DEF SubmitEnters, EnterSubmit, CallMoves, Handing, At, Moved
<1>4. CASE SubmitSends(c)
  BY <1>1, <1>4, CallFrame DEF SubmitSends, Send, CallSends, Handing, At, Moved
<1>5. CASE CancelMisses(c)
  BY <1>1, <1>5, CallFrame
  DEF CancelMisses, EnterCancel, CallMoves, Handing, At, Moved
<1>6. CASE CancelReturns(c)
  BY <1>1, <1>6, CallFrame
  DEF CancelReturns, LeaveCancel, CallMoves, Handing, At, Moved
<1> QED BY <1>2, <1>3, <1>4, <1>5, <1>6

\* A trade between the taker and the maker chosen.
Fills == \E filled \in SUBSET {job, maker} : FillMaker(filled)

Chooses == \E m \in Object : ChooseMaker(m)

\* Handlers, producers, the library and other programs.
SinkStep == \/ \E e \in Emitter : HandleEvent(e)
            \/ ProcessMessages \/ Delivery \/ UpstreamSends

\* The steps of the program, in the terms of this argument.
StepKind ==
  \/ \E c \in Caller : \E x : Added(x, c)
  \/ \E c \in Caller : CallMoves(c) \/ CallSends(c)
  \/ ProcessDies
  \/ \E c \in Client : CancelTakes(c) \/ CancelMarks(c)
  \/ TakeOrder \/ OrderDone \/ ParkStop
  \/ Chooses \/ Fills \/ MatchEnds \/ RestOrder
  \/ SinkStep
  \/ UNCHANGED <<keptVars, orderChan, call, job>>

\* Every step of the program is of one of these kinds.
LEMMA StepKinds ==
  ASSUME MemoryInv, CallsInv, ConsumerInv, TopicInv, [Next]_vars
  PROVE  StepKind
<1>1. Client \subseteq Caller /\ Consumer \in Caller
  BY PipelineAssumption DEF PipelineCaller
<1> DEFINE Keeps == UNCHANGED <<keptVars, orderChan, call, job>>
<1>2. UNCHANGED <<engineVars, sinkVars, mainVars, tradingVars>> => Keeps
  BY CallFrame
  DEF engineVars, keptVars, wireVars, sinkVars, mainVars, tradingVars, matchVars
<1>3. CASE UNCHANGED vars
  BY <1>2, <1>3 DEF StepKind, vars
<1>4. CASE MainStep
  <2>1. UNCHANGED <<sinkVars, deploy, tradingVars, orderChan, call, job>> => Keeps
    BY DEF keptVars, wireVars, sinkVars, tradingVars, matchVars
  <2> HIDE DEF Keeps
  <2>2. CASE Exit \/ SendPanics
    BY <2>2 DEF Exit, SendPanics, StepKind
  <2>3. CASE StartProcess
    BY <2>1, <2>3 DEF StartProcess, StartEngine, StepKind, Keeps
  <2>4. CASE Signal \/ GracefulStop \/ HttpShutdown \/ CloseProducers \/ CloseConsumer
    BY <2>1, <2>4
    DEF Signal, GracefulStop, HttpShutdown, CloseProducers, CloseConsumer, MainGoes,
        engineVars, StepKind, Keeps
  <2>5. CASE StopEngine \/ EngineStopped
    BY <2>1, <2>5
    DEF StopEngine, EngineStopped, MainGoes, StopBegins, StopReturns, StepKind, Keeps
  <2> QED BY <1>4, <2>2, <2>3, <2>4, <2>5 DEF MainStep
<1>5. CASE Crash
  BY <1>5 DEF Crash, StepKind
<1>6. ASSUME NEW c \in Client, ClientCalls(c)
      PROVE  StepKind
  BY <1>1, <1>6, ClientAdds, CallKinds DEF StepKind
<1>7. ASSUME NEW c \in Caller, InCall(c)
      PROVE  StepKind
  <2>1. c \in Client => c \in Emitter
    BY MatcherEmits
  <2> QED BY <1>7, <2>1, CallKinds DEF InCall, StepKind, SinkStep
<1>8. CASE Matching
  <2>1. ChannelDone => Keeps
    BY CallFrame DEF ChannelDone, WorkerEnds
  <2> QED
    BY <1>8, <2>1, MatcherEmits DEF Matching, StepKind, SinkStep, Fills, Chooses
<1>9. CASE MessageDelivered
  BY <1>1, <1>9, MessageAdds DEF StepKind, engineVars
<1>10. CASE Consuming
  <2>1. SessionOpens \/ SessionEnds \/ OffsetsCommitted \/ MessageHandled => Keeps
    BY <1>2 DEF SessionOpens, SessionEnds, OffsetsCommitted, MessageHandled
  <2> HIDE DEF Keeps
  <2>2. SessionPanics => ProcessDies
    BY DEF SessionPanics
  <2> QED BY <1>9, <1>10, <2>1, <2>2 DEF Consuming, StepKind, Keeps
<1>11. CASE ProcessMessages \/ Delivery \/ UpstreamSends
  BY <1>11 DEF StepKind, SinkStep
<1> QED
  BY <1>3, <1>4, <1>5, <1>6, <1>7, <1>8, <1>10, <1>11 DEF Next, StepKind

-----------------------------------------------------------------------------
(* Orders.                                                                 *)

\* Memory only grows, an id that is given stays, and a version never goes back.
HeapMoves ==
  /\ DOMAIN heap \subseteq DOMAIN heap'
  /\ \A o \in DOMAIN heap : /\ heap[o].id # 0 => heap'[o].id = heap[o].id
                            /\ heap[o].version <= heap'[o].version
  /\ traded' \in Nat /\ traded <= traded'

\* What handling an event, or sending a message, leaves alone.
callSide == <<heap, orderChan, call, job, deploy, entries, taken, phase, maker,
              matched, traded, silent, raced>>

\* Handlers, producers and brokers change none of them.
LEMMA EventFrame ==
  ASSUME SinkStep
  PROVE  UNCHANGED callSide
<1>1. UNCHANGED <<engineVars, deploy, tradingVars, heap>> => UNCHANGED callSide
  BY DEF engineVars, tradingVars, bookVars, matchVars, historyVars, callSide
<1> HIDE DEF callSide
<1>2. ASSUME NEW e \in Emitter, HandleEvent(e)
      PROVE  UNCHANGED callSide
  <2>1. UNCHANGED <<engineVars, deploy, tradingVars>>
    BY <1>2 DEF HandleEvent, mainVars
  <2>2. \A kind : BrokersTry(kind, e) => UNCHANGED heap
    BY DEF BrokersTry, Attempt
  <2>3. ReadRecord(e) \/ Publish(e, deploy.producer) \/ SendMessage(e) => UNCHANGED heap
    BY DEF ReadRecord, Publish, PublishNothing, Enqueue, Marshal, SendMessage
  <2>4. \A written : WriteRow(e, written) => UNCHANGED heap
    BY DEF WriteRow
  <2>5. UNCHANGED heap
    BY <1>2, <2>2, <2>3, <2>4 DEF HandleEvent
  <2> QED BY <1>1, <2>1, <2>5
<1>3. CASE ProcessMessages
  BY <1>1, <1>3 DEF ProcessMessages, ProcessMessage, mainVars
<1>4. CASE Delivery
  BY <1>1, <1>4 DEF Delivery, BrokersTry, Attempt, mainVars
<1>5. CASE UpstreamSends
  BY <1>1, <1>5 DEF UpstreamSends
<1> QED BY <1>2, <1>3, <1>4, <1>5 DEF SinkStep

\* The orders before and behind a new one.
LEMMA AddedHeap ==
  ASSUME MemoryInv, NEW c, NEW x, Added(x, c)
  PROVE  /\ Len(heap) \in Nat /\ DOMAIN heap = 1..Len(heap)
         /\ DOMAIN heap' = 1..(Len(heap) + 1)
         /\ DOMAIN heap' = DOMAIN heap \cup {Len(heap) + 1}
         /\ Len(heap) + 1 \notin DOMAIN heap
         /\ Len(heap') = Len(heap) + 1
         /\ heap'[Len(heap) + 1] = x
         /\ \A o \in DOMAIN heap : heap'[o] = heap[o]
<1>1. /\ Len(heap) \in Nat /\ DOMAIN heap = 1..Len(heap)
      /\ DOMAIN heap' = 1..(Len(heap) + 1)
      /\ Len(heap') = Len(heap) + 1
      /\ heap'[Len(heap) + 1] = x
      /\ \A o \in DOMAIN heap : heap'[o] = heap[o]
  BY AppendElements DEF MemoryInv, Added
<1> QED BY <1>1

\* A step that alters orders and keeps them orders.
LEMMA AlterKeeps ==
  ASSUME ObjectsInv, NEW S, OnlyAlters(S), traded \in Nat,
         traded' \in Nat /\ traded <= traded',
         \A o \in DOMAIN heap \cap S :
           /\ IsObject(heap'[o])
           /\ heap[o].id # 0 => heap'[o].id = heap[o].id
           /\ heap[o].version <= heap'[o].version
  PROVE  ObjectsInv' /\ HeapMoves
<1>1. ASSUME NEW o \in DOMAIN heap
      PROVE  /\ IsObject(heap'[o])
             /\ heap[o].id # 0 => heap'[o].id = heap[o].id
             /\ heap[o].version <= heap'[o].version
  <2>1. IsObject(heap[o])
    BY DEF ObjectsInv
  <2> QED BY <2>1 DEF OnlyAlters, IsObject
<1> QED BY <1>1 DEF OnlyAlters, ObjectsInv, HeapMoves, IsObject

\* Every step keeps the orders orders.
LEMMA ObjectsStep ==
  ASSUME MemoryInv, ObjectsInv, QueueInv, BookInv, StepKind
  PROVE  ObjectsInv' /\ HeapMoves
<1>1. traded \in Nat
  BY DEF BookInv
<1>2. \A o \in DOMAIN heap : IsObject(heap[o]) /\ heap[o].version \in Nat
  BY DEF ObjectsInv, IsObject
<1>3. ASSUME UNCHANGED <<heap, traded>>
      PROVE  ObjectsInv' /\ HeapMoves
  BY <1>1, <1>2, <1>3 DEF ObjectsInv, HeapMoves, IsObject
<1>4. ASSUME NEW c \in Caller, NEW x, Added(x, c)
      PROVE  ObjectsInv' /\ HeapMoves
  <2>1. /\ Len(heap) \in Nat /\ Len(heap') = Len(heap) + 1
        /\ DOMAIN heap' = DOMAIN heap \cup {Len(heap) + 1}
        /\ heap'[Len(heap) + 1] = x
        /\ \A o \in DOMAIN heap : heap'[o] = heap[o]
    BY <1>4, AddedHeap
  <2>2. IsObject(x) /\ Len(heap) < MaxObjects /\ traded' = traded /\ MaxObjects \in Nat
    BY <1>4, PipelineAssumption DEF Added
  <2>3. \A o \in DOMAIN heap' : IsObject(heap'[o])
    BY <1>2, <2>1, <2>2
  <2>4. ObjectsInv'
    BY <2>1, <2>2, <2>3 DEF ObjectsInv, IsObject
  <2> QED BY <1>1, <1>2, <2>1, <2>2, <2>4 DEF HeapMoves
<1>5. CASE ProcessDies
  <2>1. traded' = traded
    BY <1>5 DEF ProcessDies
  <2> QED BY <1>1, <1>2, <1>5, <2>1, DeathAlters, AlterKeeps
<1>6. ASSUME NEW c \in Client, CancelTakes(c)
      PROVE  ObjectsInv' /\ HeapMoves
  <2>1. traded' = traded
    BY <1>6 DEF CancelTakes, matchVars
  <2>2. PICK o \in DOMAIN heap :
          /\ OnlyAlters({o}) /\ IsObject(heap'[o]) /\ heap'[o].id = heap[o].id
          /\ heap'[o].version = heap[o].version
    BY <1>6, TakenAlters
  <2> QED BY <1>1, <1>2, <2>1, <2>2, AlterKeeps
<1>7. ASSUME NEW c \in Client, CancelMarks(c)
      PROVE  ObjectsInv' /\ HeapMoves
  <2>1. traded' = traded
    BY <1>7 DEF CancelMarks, matchVars
  <2> DEFINE o == taken[c]
  <2>2. /\ o \in DOMAIN heap
        /\ OnlyAlters({o}) /\ IsObject(heap'[o]) /\ heap'[o].id = heap[o].id
        /\ heap'[o].version = heap[o].version + 1
    BY <1>7, MarkedAlters
  <2> HIDE DEF o
  <2> QED BY <1>1, <1>2, <2>1, <2>2, AlterKeeps
<1>8. CASE TakeOrder
  <2>1. traded' = traded
    BY <1>8 DEF TakeOrder
  <2> DEFINE o == job'
  <2>2. /\ o \in DOMAIN heap /\ OnlyAlters({o}) /\ IsObject(heap'[o])
        /\ heap[o].id # 0 => heap'[o].id = heap[o].id
        /\ heap'[o].version = heap[o].version
    BY <1>8, TakeAlters
  <2> HIDE DEF o
  <2> QED BY <1>1, <1>2, <2>1, <2>2, AlterKeeps
<1>9. CASE ParkStop
  <2>1. traded' = traded
    BY <1>9 DEF ParkStop
  <2> QED BY <1>1, <1>2, <1>9, <2>1, ParkAlters, AlterKeeps
<1>10. CASE RestOrder
  <2>1. traded' = traded
    BY <1>10 DEF RestOrder
  <2>2. /\ OnlyAlters({job}) /\ IsObject(heap'[job]) /\ heap'[job].id = heap[job].id
        /\ heap'[job].version \in {heap[job].version, heap[job].version + 1}
    BY <1>10, RestAlters
  <2> QED BY <1>1, <1>2, <2>1, <2>2, AlterKeeps
<1>11. CASE Fills
  <2>1. PICK filled \in SUBSET {job, maker} : FillMaker(filled)
    BY <1>11 DEF Fills
  <2>2. traded' = traded + 1
    BY <2>1 DEF FillMaker
  <2>3. /\ DOMAIN heap' = DOMAIN heap /\ Len(heap') = Len(heap)
        /\ \A o \in DOMAIN heap :
             /\ IsObject(heap'[o]) /\ heap'[o].id = heap[o].id
             /\ heap'[o].version = heap[o].version + (IF o \in {job, maker} THEN 1 ELSE 0)
    BY <2>1, FillAlters
  <2>4. OnlyAlters(DOMAIN heap)
    BY <2>3 DEF OnlyAlters
  <2>5. \A o \in DOMAIN heap : heap[o].version <= heap'[o].version
    BY <1>2, <2>3
  <2> QED BY <1>1, <2>2, <2>3, <2>4, <2>5, AlterKeeps
<1>12. CASE OrderDone \/ Chooses \/ MatchEnds
  BY <1>3, <1>12 DEF OrderDone, Chooses, ChooseMaker, MatchEnds, sinkVars
<1>13. CASE (\E c \in Caller : CallMoves(c) \/ CallSends(c))
             \/ UNCHANGED <<keptVars, orderChan, call, job>>
  BY <1>3, <1>13 DEF CallMoves, CallSends, keptVars
<1>14. CASE SinkStep
  BY <1>3, <1>14, EventFrame DEF callSide
<1> QED
  BY <1>4, <1>5, <1>6, <1>7, <1>8, <1>9, <1>10, <1>11, <1>12, <1>13, <1>14
  DEF StepKind

-----------------------------------------------------------------------------
(* Who has an order.                                                       *)

PhaseInv == /\ phase \in {"none", "match", "fill", "rest", "end"}
            /\ phase # "none" <=> worker = "busy"

\* The worker is busy while processOrder runs.
LEMMA PhaseStep ==
  ASSUME PhaseInv, [Next]_vars
  PROVE  PhaseInv'
<1>1. ASSUME ProcessDies
      PROVE  PhaseInv'
  BY <1>1 DEF ProcessDies, Down, PhaseInv
<1>2. ASSUME UNCHANGED <<phase, worker>>
      PROVE  PhaseInv'
  BY <1>2 DEF PhaseInv
<1>3. UNCHANGED tradingVars => UNCHANGED phase
  BY DEF tradingVars, matchVars
<1>4. CASE UNCHANGED vars
  BY <1>2, <1>3, <1>4 DEF vars, engineVars
<1>5. CASE MainStep
  BY <1>1, <1>2, <1>3, <1>5
  DEF MainStep, StartProcess, Signal, GracefulStop, HttpShutdown, CloseConsumer,
      StopEngine, EngineStopped, CloseProducers, MainGoes, Exit, SendPanics,
      StartEngine, StopBegins, StopReturns, engineVars, PhaseInv, Up
<1>6. CASE Crash
  BY <1>1, <1>6 DEF Crash
<1>7. ASSUME NEW c \in Client, ClientCalls(c)
      PROVE  PhaseInv'
  BY <1>2, <1>3, <1>7 DEF ClientCalls, Calls
<1>8. ASSUME NEW c \in Caller, InCall(c)
      PROVE  PhaseInv'
  BY <1>2, <1>3, <1>8
  DEF InCall, SubmitEnters, EnterSubmit, SubmitSends, Send, CancelTakes, CancelMarks,
      EnterCancel, CancelMisses, HandleEvent, CancelReturns, LeaveCancel,
      engineVars, matchVars
<1>9. CASE Matching
  BY <1>2, <1>3, <1>9
  DEF Matching, TakeOrder, Take, ParkStop, ChooseMaker, FillMaker, MatchEnds,
      RestOrder, OrderDone, Processed, ChannelDone, WorkerEnds, HandleEvent,
      engineVars, PhaseInv
<1>10. CASE Consuming
  BY <1>1, <1>2, <1>3, <1>10
  DEF Consuming, SessionOpens, SessionPanics, SessionEnds, OffsetsCommitted,
      MessageDelivered, Calls, MessageHandled, engineVars
<1>11. CASE ProcessMessages \/ Delivery \/ UpstreamSends
  BY <1>2, <1>3, <1>11 DEF ProcessMessages, Delivery, UpstreamSends, engineVars
<1> QED
  BY <1>4, <1>5, <1>6, <1>7, <1>8, <1>9, <1>10, <1>11 DEF Next

\* A new order is nobody else's.
LEMMA QueueAdded ==
  ASSUME MemoryInv, CallsInv, QueueInv, NEW c \in Caller, NEW x, Added(x, c)
  PROVE  QueueInv'
<1> DEFINE n == Len(heap) + 1
<1>1. /\ DOMAIN heap' = DOMAIN heap \cup {n} /\ n \notin DOMAIN heap
      /\ heap'[n] = x
      /\ \A o \in DOMAIN heap : heap'[o] = heap[o]
  BY AddedHeap
<1>2. /\ orderChan' = orderChan /\ job' = job /\ phase' = phase
      /\ x.place = "request" /\ x.version = 0
      /\ call' = [call EXCEPT ![c] = [at |-> "submit", order |-> n]]
  BY DEF Added
<1> HIDE DEF n
<1>3. /\ call'[c].order = n
      /\ \A d \in Caller \ {c} : call'[d] = call[d]
  BY <1>2 DEF CallsInv, CallsShape
<1>4. /\ \A d \in Caller \ {c} : Handing(d)' = Handing(d)
      /\ ~Handing(c)
  BY <1>3 DEF Handing, Added, Returned
<1>5. ASSUME NEW d \in Caller, Handing(d)'
      PROVE  /\ call'[d].order \in DOMAIN heap' \ ToSet(orderChan)
             /\ d = c \/ (Handing(d) /\ call'[d].order = call[d].order
                          /\ call'[d].order \in DOMAIN heap)
  BY <1>1, <1>3, <1>4, <1>5 DEF QueueInv
<1>6. \A d, e \in Caller :
        Handing(d)' /\ Handing(e)' /\ call'[d].order = call'[e].order => d = e
  BY <1>1, <1>3, <1>5 DEF QueueInv
<1>7. ASSUME NEW o, o # n, Waits(o)'
      PROVE  Waits(o)
  BY <1>2, <1>3, <1>4, <1>7 DEF Waits
<1>8. ASSUME NEW o \in DOMAIN heap', Waits(o)'
      PROVE  heap'[o].place = "request" /\ heap'[o].version = 0
  BY <1>1, <1>2, <1>7, <1>8 DEF QueueInv
<1>9. phase # "none" => job \in DOMAIN heap /\ job # n
  BY <1>1 DEF QueueInv
<1>10. ASSUME Working'
       PROVE  ~Waits(job)' /\ heap'[job'].place = "request" /\ heap'[job'].id # 0
  <2>1. Working /\ job \in DOMAIN heap /\ job # n
    BY <1>2, <1>9, <1>10 DEF Working
  <2>2. Waits(job)' => Waits(job)
    BY <1>2, <1>3, <1>4, <2>1 DEF Waits
  <2> QED BY <1>1, <1>2, <2>1, <2>2 DEF QueueInv
<1> QED
  BY <1>1, <1>2, <1>5, <1>6, <1>8, <1>9, <1>10 DEF QueueInv

\* A call that goes on without an order, or gives it up.
LEMMA QueueMoves ==
  ASSUME QueueInv, NEW c \in Caller, CallMoves(c)
  PROVE  QueueInv'
<1>1. UNCHANGED <<heap, orderChan, job, phase>>
  BY DEF CallMoves, keptVars
<1>2. \A d \in Caller : Handing(d)' => Handing(d) /\ call'[d].order = call[d].order
  BY DEF CallMoves, Handing
<1>3. \A o : Waits(o)' => Waits(o)
  BY <1>1, <1>2 DEF Waits
<1>4. Working' = Working /\ (Waits(job)' => Waits(job))
  BY <1>1, <1>2 DEF Working, Waits
<1> QED BY <1>1, <1>2, <1>3, <1>4 DEF QueueInv

\* An order goes from its caller to the channel.
LEMMA QueueSends ==
  ASSUME QueueInv, NEW c \in Caller, CallSends(c)
  PROVE  QueueInv'
<1> DEFINE o == call[c].order
<1>1. /\ UNCHANGED <<heap, job, phase>>
      /\ \A d \in Caller \ {c} : call'[d] = call[d]
      /\ Handing(c) /\ ~Handing(c)'
      /\ Len(orderChan) < Capacity
  BY DEF CallSends, keptVars, Handing
<1>2. o \in DOMAIN heap \ ToSet(orderChan) /\ IsSequence(orderChan)
      /\ Len(orderChan) <= Capacity /\ IsInjective(orderChan) /\ Capacity \in Nat
  BY <1>1, CallsAssumption DEF QueueInv
<1>3. /\ IsSequence(orderChan') /\ Len(orderChan') = Len(orderChan) + 1
      /\ Len(orderChan) \in Nat
      /\ ToSet(orderChan') = ToSet(orderChan) \cup {o}
      /\ DOMAIN orderChan = 1..Len(orderChan)
      /\ DOMAIN orderChan' = 1..(Len(orderChan) + 1)
      /\ \A i \in DOMAIN orderChan : orderChan'[i] = orderChan[i]
      /\ orderChan'[Len(orderChan) + 1] = o
  BY <1>2, AppendElements DEF CallSends
<1> HIDE DEF o
<1>4. IsInjective(orderChan')
  <2> SUFFICES ASSUME NEW i \in DOMAIN orderChan', NEW j \in DOMAIN orderChan',
                      orderChan'[i] = orderChan'[j]
               PROVE  i = j
    BY DEF IsInjective
  <2>1. \A k \in DOMAIN orderChan : orderChan[k] # o
    BY <1>2 DEF ToSet
  <2> QED BY <1>2, <1>3, <2>1 DEF IsInjective
<1>5. \A d \in Caller : Handing(d)' =>
        /\ Handing(d) /\ d # c /\ call'[d] = call[d] /\ call[d].order # o
  BY <1>1 DEF QueueInv, Handing, o
<1>6. \A p : Waits(p)' => Waits(p)
  BY <1>1, <1>3, <1>5 DEF Waits, o
<1>7. Working' = Working /\ (Waits(job)' => Waits(job))
  BY <1>1, <1>3, <1>5 DEF Working, Waits, o
<1>8. Len(orderChan') <= Capacity
  BY <1>1, <1>2, <1>3
<1> QED BY <1>1, <1>2, <1>3, <1>4, <1>5, <1>6, <1>7, <1>8 DEF QueueInv

\* processOrders takes the first.
LEMMA QueueTakes ==
  ASSUME MemoryInv, ObjectsInv, QueueInv, PhaseInv, TakeOrder
  PROVE  QueueInv'
<1> DEFINE o == job'
<1>1. /\ UNCHANGED call /\ orderChan # <<>>
      /\ job' = Head(orderChan) /\ orderChan' = Tail(orderChan)
      /\ phase' = "match"
  BY DEF TakeOrder, Take
<1>2. /\ IsSequence(orderChan') /\ Len(orderChan') = Len(orderChan) - 1
      /\ Len(orderChan) \in Nat \ {0} /\ DOMAIN orderChan = 1..Len(orderChan)
      /\ DOMAIN orderChan' = 1..(Len(orderChan) - 1)
      /\ \A i \in DOMAIN orderChan' : orderChan'[i] = orderChan[i + 1]
      /\ job' = orderChan[1]
      /\ ToSet(orderChan) = ToSet(orderChan') \cup {job'}
  BY <1>1, TailElements DEF QueueInv
<1>3. IsInjective(orderChan')
  <2> SUFFICES ASSUME NEW i \in DOMAIN orderChan', NEW j \in DOMAIN orderChan',
                      orderChan'[i] = orderChan'[j]
               PROVE  i = j
    BY DEF IsInjective
  <2>1. i + 1 \in DOMAIN orderChan /\ j + 1 \in DOMAIN orderChan
    BY <1>2
  <2>2. i + 1 = j + 1
    BY <1>2, <2>1 DEF QueueInv, IsInjective
  <2> QED BY <1>2, <2>2
<1>4. job' \notin ToSet(orderChan')
  <2> SUFFICES ASSUME NEW i \in DOMAIN orderChan', orderChan'[i] = job'
               PROVE  FALSE
    BY DEF ToSet
  <2>1. i + 1 \in DOMAIN orderChan /\ 1 \in DOMAIN orderChan
        /\ orderChan[i + 1] = orderChan[1] /\ i + 1 # 1
    BY <1>2
  <2> QED BY <2>1 DEF QueueInv, IsInjective
<1>5. \A d \in Caller : Handing(d)' <=> Handing(d)
  BY <1>1 DEF Handing
<1>6. /\ o \in DOMAIN heap /\ Waits(o) /\ OnlyAlters({o}) /\ IsObject(heap'[o])
      /\ heap'[o].id # 0 /\ heap'[o].place = heap[o].place
      /\ heap'[o].version = heap[o].version
  BY TakeAlters
<1>7. o \in ToSet(orderChan) /\ \A d \in Caller : Handing(d) => call[d].order # o
  BY <1>2 DEF QueueInv
<1> HIDE DEF o
<1>8. \A p : Waits(p)' => Waits(p) /\ p # o
  BY <1>1, <1>2, <1>4, <1>5, <1>7 DEF Waits, o
<1>9. ~Waits(job)'
  BY <1>1, <1>4, <1>5, <1>7 DEF Waits, o
<1>10. heap'[o].place = "request" /\ heap'[o].version = 0
  BY <1>6 DEF QueueInv
<1>11. Len(orderChan') <= Capacity
  BY <1>2, CallsAssumption DEF QueueInv
<1>12. /\ DOMAIN heap' = DOMAIN heap
       /\ \A p \in DOMAIN heap : p # o => heap'[p] = heap[p]
  BY <1>6 DEF OnlyAlters
<1>13. \A p \in DOMAIN heap' : Waits(p)' => heap'[p].place = "request" /\ heap'[p].version = 0
  BY <1>8, <1>12 DEF QueueInv
<1>14. /\ ToSet(orderChan') \subseteq DOMAIN heap'
       /\ \A d \in Caller : Handing(d)' => call'[d].order \in DOMAIN heap' \ ToSet(orderChan')
       /\ \A d, e \in Caller :
            Handing(d)' /\ Handing(e)' /\ call'[d].order = call'[e].order => d = e
  BY <1>1, <1>2, <1>5, <1>12 DEF QueueInv
<1>15. job' \in DOMAIN heap' /\ heap'[job'].place = "request" /\ heap'[job'].id # 0
  BY <1>6, <1>10, <1>12 DEF o
<1> QED
  BY <1>2, <1>3, <1>9, <1>11, <1>13, <1>14, <1>15 DEF QueueInv

\* Orders that are not waiting may change.
LEMMA QueueAlters ==
  ASSUME QueueInv, UNCHANGED <<orderChan, job>>, NEW S, OnlyAlters(S),
         \A d \in Caller : Handing(d)' => Handing(d) /\ call'[d].order = call[d].order,
         phase' # "none" => phase # "none",
         Working' => /\ Working
                     /\ heap'[job].place = "request" /\ heap'[job].id # 0,
         \A o \in S : ~Waits(o)
  PROVE  QueueInv'
<1>1. ASSUME NEW o, Waits(o)'
      PROVE  Waits(o)
  BY <1>1 DEF Waits
<1>2. Waits(job)' => Waits(job)
  BY DEF Waits
<1>3. ASSUME NEW o \in DOMAIN heap', Waits(o)'
      PROVE  heap'[o].place = "request" /\ heap'[o].version = 0
  <2>1. Waits(o) /\ o \notin S
    BY <1>1, <1>3
  <2> QED BY <2>1 DEF QueueInv, OnlyAlters
<1> QED BY <1>2, <1>3 DEF QueueInv, OnlyAlters

\* Every step keeps an order with one owner.
LEMMA QueueStep ==
  ASSUME MemoryInv, CallsInv, ObjectsInv, QueueInv, BookInv, EventsInv, PhaseInv, StepKind
  PROVE  QueueInv'
<1>1. ASSUME NEW c \in Client, CancelTakes(c)
      PROVE  QueueInv'
  <2>1. PICK o \in DOMAIN heap :
          OnlyAlters({o}) /\ heap[o].place \in {"resting", "gone"}
    BY <1>1, TakenAlters
  <2>2. /\ UNCHANGED <<orderChan, job, phase>>
        /\ call' = [call EXCEPT ![c].at = "emit"]
    BY <1>1 DEF CancelTakes, EnterCancel, Moved, matchVars
  <2>3. \A d \in Caller : Handing(d)' => Handing(d) /\ call'[d].order = call[d].order
    BY <2>2 DEF Handing, CallsInv, CallsShape
  <2>4. ~Waits(o) /\ (Working => job # o)
    BY <2>1 DEF QueueInv
  <2>5. Working' => Working /\ heap'[job].place = "request" /\ heap'[job].id # 0
    BY <2>1, <2>2, <2>4 DEF OnlyAlters, QueueInv, Working
  <2> QED BY <2>1, <2>2, <2>3, <2>4, <2>5, QueueAlters
<1>2. ASSUME NEW c \in Client, CancelMarks(c)
      PROVE  QueueInv'
  <2> DEFINE o == taken[c]
  <2>1. o \in DOMAIN heap /\ OnlyAlters({o}) /\ heap[o].place = "gone"
    BY <1>2, MarkedAlters
  <2>2. UNCHANGED <<orderChan, job, phase, call>>
    BY <1>2 DEF CancelMarks, engineVars, matchVars
  <2> HIDE DEF o
  <2>3. \A d \in Caller : Handing(d)' => Handing(d) /\ call'[d].order = call[d].order
    BY <2>2 DEF Handing
  <2>4. ~Waits(o) /\ (Working => job # o)
    BY <2>1 DEF QueueInv
  <2>5. Working' => Working /\ heap'[job].place = "request" /\ heap'[job].id # 0
    BY <2>1, <2>2, <2>4 DEF OnlyAlters, QueueInv, Working
  <2> QED BY <2>1, <2>2, <2>3, <2>4, <2>5, QueueAlters
<1>3. CASE ProcessDies
  <2>1. /\ orderChan' = <<>> /\ phase' = "none"
        /\ \A d \in Caller : ~Handing(d)'
    BY <1>3, NoCallIsIdle DEF ProcessDies, Down, Handing
  <2>2. \A o : ~Waits(o)'
    BY <2>1, ShortSequences DEF Waits
  <2>3. IsInjective(<<>>)
    BY ShortSequences DEF IsInjective
  <2>4. /\ IsSequence(<<>>) /\ Len(<<>>) = 0 /\ ToSet(<<>>) = {} /\ Capacity \in Nat
    BY ShortSequences, CallsAssumption
  <2> QED BY <2>1, <2>2, <2>3, <2>4 DEF QueueInv, Working
<1>4. CASE OrderDone
  <2>1. /\ UNCHANGED <<heap, orderChan, call>> /\ phase' = "none"
    BY <1>4 DEF OrderDone, Processed, sinkVars
  <2>2. \A d \in Caller : Handing(d)' <=> Handing(d)
    BY <2>1 DEF Handing
  <2>3. \A o : Waits(o)' => Waits(o)
    BY <2>1, <2>2 DEF Waits
  <2> QED BY <2>1, <2>2, <2>3 DEF QueueInv, Working
<1>5. ASSUME UNCHANGED <<heap, orderChan, call, job>>, phase' = phase \/ (Working /\ Working')
      PROVE  QueueInv'
  <2>1. \A d \in Caller : Handing(d)' <=> Handing(d)
    BY <1>5 DEF Handing
  <2>2. /\ \A o : Waits(o)' <=> Waits(o)
        /\ Waits(job)' <=> Waits(job)
    BY <1>5, <2>1 DEF Waits
  <2>3. (Working' => Working) /\ (phase' # "none" => phase # "none")
    BY <1>5 DEF Working
  <2> QED BY <1>5, <2>1, <2>2, <2>3 DEF QueueInv
<1>6. CASE ParkStop
  <2>1. /\ UNCHANGED <<orderChan, call, job>> /\ phase = "match" /\ phase' = "end"
    BY <1>6 DEF ParkStop, engineVars
  <2>2. OnlyAlters({job})
    BY <1>6, ParkAlters
  <2>3. \A d \in Caller : Handing(d)' => Handing(d) /\ call'[d].order = call[d].order
    BY <2>1 DEF Handing
  <2>4. \A o \in {job} : ~Waits(o)
    BY <2>1 DEF QueueInv, Working
  <2> QED BY <2>1, <2>2, <2>3, <2>4, QueueAlters DEF Working
<1>7. CASE RestOrder
  <2>1. /\ UNCHANGED <<orderChan, call, job>> /\ phase = "rest" /\ phase' = "end"
    BY <1>7 DEF RestOrder, engineVars
  <2>2. OnlyAlters({job})
    BY <1>7, RestAlters
  <2>3. \A d \in Caller : Handing(d)' => Handing(d) /\ call'[d].order = call[d].order
    BY <2>1 DEF Handing
  <2>4. \A o \in {job} : ~Waits(o)
    BY <2>1 DEF QueueInv, Working
  <2> QED BY <2>1, <2>2, <2>3, <2>4, QueueAlters DEF Working
<1>8. CASE Fills
  <2>1. PICK filled \in SUBSET {job, maker} : FillMaker(filled)
    BY <1>8 DEF Fills
  <2>2. /\ UNCHANGED <<orderChan, call, job>> /\ phase = "fill" /\ phase' = "match"
    BY <2>1 DEF FillMaker, engineVars
  <2>3. /\ DOMAIN heap' = DOMAIN heap
        /\ \A o \in DOMAIN heap :
              /\ IsObject(heap'[o]) /\ heap'[o].id = heap[o].id
              /\ heap'[o].version = heap[o].version + (IF o \in {job, maker} THEN 1 ELSE 0)
              /\ \/ heap'[o].place = heap[o].place
                 \/ heap[o].place \in {"resting", "gone"} /\ heap'[o].place = "gone"
        /\ heap'[job].place = "request" /\ job \in DOMAIN heap /\ Placed(maker)
    BY <2>1, FillAlters
  <2>4. \A d \in Caller : Handing(d)' <=> Handing(d)
    BY <2>2 DEF Handing
  <2>5. /\ \A o : Waits(o)' <=> Waits(o)
        /\ Waits(job)' <=> Waits(job)
    BY <2>2, <2>4 DEF Waits
  <2>6. ~Waits(job) /\ ~Waits(maker) /\ heap[job].id # 0
    BY <2>2, <2>3 DEF QueueInv, Working, Placed
  <2>7. \A o \in DOMAIN heap : Waits(o) => /\ heap'[o].place = "request"
                                           /\ heap'[o].version = 0
    <3> SUFFICES ASSUME NEW o \in DOMAIN heap, Waits(o)
                 PROVE  heap'[o].place = "request" /\ heap'[o].version = 0
      OBVIOUS
    <3>1. o \notin {job, maker}
      BY <2>6
    <3>2. heap[o].place = "request" /\ heap[o].version = 0
      BY DEF QueueInv
    <3> QED BY <2>3, <3>1, <3>2
  <2> QED BY <2>2, <2>3, <2>4, <2>5, <2>6, <2>7 DEF QueueInv, Working
<1>9. CASE TakeOrder
  BY <1>9, QueueTakes
<1>10. ASSUME NEW c \in Caller, NEW x, Added(x, c)
      PROVE  QueueInv'
  BY <1>10, QueueAdded
<1>11. ASSUME NEW c \in Caller, CallMoves(c) \/ CallSends(c)
       PROVE  QueueInv'
  BY <1>11, QueueMoves, QueueSends
<1>12. CASE UNCHANGED <<keptVars, orderChan, call, job>>
  BY <1>5, <1>12 DEF keptVars
<1>13. CASE Chooses \/ MatchEnds
  <2>1. UNCHANGED <<heap, orderChan, call, job>>
    BY <1>13 DEF Chooses, ChooseMaker, MatchEnds, engineVars, sinkVars
  <2>2. phase = "match" /\ phase' \in {"fill", "rest"}
    BY <1>13 DEF Chooses, ChooseMaker, MatchEnds
  <2> QED BY <1>5, <2>1, <2>2 DEF Working
<1>14. CASE SinkStep
  BY <1>5, <1>14, EventFrame DEF callSide
<1> QED
  BY <1>1, <1>2, <1>3, <1>4, <1>6, <1>7, <1>8, <1>9, <1>10, <1>11, <1>12, <1>13, <1>14
  DEF StepKind

-----------------------------------------------------------------------------
(* Events.                                                                 *)

\* An update is not a trade, and each is of one order or trade.
LEMMA EventKinds ==
  /\ \A x \in Updates : x.kind = "order" /\ x.of \in DOMAIN heap /\ x = OrderUpdate(x.of)
  /\ \A x \in Trades : x.kind = "trade" /\ x.of \in 1..traded /\ x = TradeEvent(x.of)
  /\ Updates \cap Trades = {}
  /\ \A o, p : OrderUpdate(o) = OrderUpdate(p) => o = p
  /\ \A o, p : TradeEvent(o) = TradeEvent(p) => o = p
  /\ \A o, t : OrderUpdate(o) # TradeEvent(t)
  /\ \A o : OrderUpdate(o).kind = "order" /\ OrderUpdate(o).of = o
  /\ \A t : TradeEvent(t).kind = "trade" /\ TradeEvent(t).of = t
  /\ \A o : o \in DOMAIN heap <=> OrderUpdate(o) \in Updates
<1>1. /\ \A o, p : OrderUpdate(o) = OrderUpdate(p) => o = p
      /\ \A o, p : TradeEvent(o) = TradeEvent(p) => o = p
      /\ \A o, t : OrderUpdate(o) # TradeEvent(t)
      /\ \A o : OrderUpdate(o).kind = "order" /\ OrderUpdate(o).of = o
      /\ \A t : TradeEvent(t).kind = "trade" /\ TradeEvent(t).of = t
  BY DEF OrderUpdate, TradeEvent
<1>2. /\ \A x \in Updates : x.kind = "order" /\ x.of \in DOMAIN heap /\ x = OrderUpdate(x.of)
      /\ \A x \in Trades : x.kind = "trade" /\ x.of \in 1..traded /\ x = TradeEvent(x.of)
  BY <1>1 DEF Updates, Trades
<1>3. Updates \cap Trades = {}
  BY <1>2
<1>4. \A o : o \in DOMAIN heap <=> OrderUpdate(o) \in Updates
  BY <1>1 DEF Updates
<1> QED BY <1>1, <1>2, <1>3, <1>4

\* The same after a step.
LEMMA EventKindsNext ==
  /\ \A x \in Updates' : x.kind = "order" /\ x.of \in DOMAIN heap' /\ x = OrderUpdate(x.of)
  /\ \A x \in Trades' : x.kind = "trade" /\ x.of \in 1..traded' /\ x = TradeEvent(x.of)
  /\ Updates' \cap Trades' = {}
  /\ \A o : o \in DOMAIN heap' <=> OrderUpdate(o) \in Updates'
<1>1. /\ \A x \in Updates' : x.kind = "order" /\ x.of \in DOMAIN heap' /\ x = OrderUpdate(x.of)
      /\ \A x \in Trades' : x.kind = "trade" /\ x.of \in 1..traded' /\ x = TradeEvent(x.of)
      /\ \A o : o \in DOMAIN heap' <=> OrderUpdate(o) \in Updates'
  BY EventKinds DEF Updates, Trades
<1> QED BY <1>1

\* Events stay events.
LEMMA EventsGrow ==
  ASSUME HeapMoves, traded \in Nat
  PROVE  Updates \subseteq Updates' /\ Trades \subseteq Trades'
BY DEF HeapMoves, Updates, Trades

\* A change that the copies others have made of o need not follow: nobody
\* claims they are current, or the order is as it was.
Harmless(o) == \/ o \in (raced \cup silent)'
               \/ heap'[o].version = heap[o].version /\ o \notin raced \cup silent

\* An emitter that does nothing meanwhile keeps its copy good.
LEMMA EmitterKeeps ==
  ASSUME EventsInv, ObjectsInv, ObjectsInv', HeapMoves, traded \in Nat,
         NEW e \in Emitter, deploy' = deploy,
         todo'[e] = todo[e], stage'[e] = stage[e], copy'[e] = copy[e],
         \A o \in DOMAIN heap : OrderUpdate(o) \in ToSet(todo[e]) => Harmless(o)
  PROVE  EmitterInv(e)'
<1>1. EmitterInv(e)
  BY DEF EventsInv
<1>2. Updates \subseteq Updates' /\ Trades \subseteq Trades'
  BY <1>1, EventsGrow
<1>3. ASSUME NEW o \in DOMAIN heap', OrderUpdate(o) \in ToSet(todo[e])
      PROVE  /\ o \in DOMAIN heap /\ heap[o].id # 0 /\ heap'[o].id = heap[o].id
             /\ heap[o].version \in Nat /\ heap'[o].version \in Nat
             /\ heap[o].version <= heap'[o].version
  <2>1. o \in DOMAIN heap
    BY <1>1, <1>3, EventKinds DEF EmitterInv
  <2> QED BY <1>1, <1>3, <2>1 DEF EmitterInv, HeapMoves, ObjectsInv, IsObject
<1>4. First(e)' = First(e) /\ Emitting(e)' = Emitting(e)
  BY DEF First, Emitting
<1>5. ASSUME stage[e] \in {"write", "send"}
      PROVE  CopyInv(e)'
  <2>1. CopyInv(e) /\ Emitting(e)
    BY <1>1, <1>5 DEF EmitterInv
  <2>2. First(e) \in ToSet(todo[e])
    BY <1>1, <2>1, TailElements DEF EmitterInv, First, Emitting
  <2>3. CASE First(e) \in Updates
    <3>1. /\ First(e) = OrderUpdate(First(e).of) /\ First(e).of \in DOMAIN heap'
          /\ First(e) \notin Trades'
      BY <1>2, <2>3, EventKinds, EventKindsNext
    <3> DEFINE of == First(e).of
    <3>2. /\ of \in DOMAIN heap /\ heap'[of].id = heap[of].id
          /\ heap[of].version \in Nat /\ heap'[of].version \in Nat
          /\ heap[of].version <= heap'[of].version
          /\ Harmless(of)
      BY <1>3, <2>2, <3>1
    <3>3. /\ copy[e].of = of /\ copy[e].id = heap[of].id /\ copy[e].status \in Statuses
          /\ copy[e].version \in 0..heap[of].version
          /\ of \notin raced \cup silent => copy[e].version = heap[of].version
      BY <2>1, <2>3 DEF CopyInv
    <3>4. /\ copy[e].version \in 0..heap'[of].version
          /\ of \notin (raced \cup silent)' => copy[e].version = heap'[of].version
      <4> HIDE DEF of
      <4> QED BY <3>2, <3>3 DEF Harmless
    <3> QED BY <1>4, <3>1, <3>2, <3>3, <3>4 DEF CopyInv
  <2>4. CASE First(e) \in Trades
    <3>1. First(e) \notin Updates'
      BY <1>2, <2>4, EventKindsNext
    <3> QED BY <1>4, <2>1, <2>4, <3>1 DEF CopyInv
  <2> QED BY <1>1, <2>2, <2>3, <2>4 DEF EmitterInv
<1> QED BY <1>1, <1>2, <1>3, <1>4, <1>5 DEF EmitterInv

\* A new list of events, for an emitter that was through with the old one.
LEMMA EmitterBegins ==
  ASSUME EventsInv, NEW e \in Emitter, ~Emitting(e), stage'[e] = stage[e],
         IsSequence(todo'[e]), ToSet(todo'[e]) \subseteq (Updates \cup Trades)',
         \A o \in DOMAIN heap' : OrderUpdate(o) \in ToSet(todo'[e]) => heap'[o].id # 0
  PROVE  EmitterInv(e)'
<1>1. stage[e] = "save"
  BY DEF EventsInv, EmitterInv
<1> QED BY <1>1 DEF EmitterInv

\* One emitter handles its first event; the others do nothing.
Handles(e) ==
  /\ Emitting(e)
  /\ UNCHANGED callSide
  /\ \A d \in Emitter \ {e} : todo'[d] = todo[d] /\ stage'[d] = stage[d] /\ copy'[d] = copy[d]
  /\ todo' = [d \in Emitter |-> todo'[d]]
  /\ stage' = [d \in Emitter |-> stage'[d]]
  /\ copy' = [d \in Emitter |-> copy'[d]]

\* It reads the order,
Reads(e) == /\ todo'[e] = todo[e]
            /\ stage'[e] \in {"write", "send"}
            /\ stage'[e] = "send" => deploy.producer = "sync"
            /\ copy'[e] = Fields(First(e))

\* is through with one handler, or waits for the brokers,
Goes(e) == /\ todo'[e] = todo[e]
           /\ \/ stage[e] = "write" /\ stage'[e] = "publish"
              \/ stage[e] = "send" /\ stage'[e] = "wait"

\* or is through with the event.
Ends(e) == todo'[e] = Tail(todo[e]) /\ stage'[e] = "save"

Rests == UNCHANGED <<callSide, todo, stage, copy>>

\* What an attempt of the client library does to who waits.
LEMMA AttemptEnds ==
  ASSUME EventsInv, FlyingInv, UNCHANGED callSide, NEW kind \in Kind,
         NEW i \in DOMAIN flying[kind], NEW written \in BOOLEAN,
         NEW confirmed \in BOOLEAN, Attempt(kind, i, written, confirmed)
  PROVE  \/ Rests
         \/ LET e == flying[kind][i].from
            IN  /\ e \in Emitter /\ e # Nobody
                /\ Handles(e) /\ stage[e] = "wait" /\ Ends(e)
                /\ Awaits(e, kind, flying[kind][i])
                /\ confirmed \/ flying[kind][i].left = 1
<1> DEFINE e == flying[kind][i].from
<1>1. CASE (confirmed \/ flying[kind][i].left = 1) /\ e # Nobody
  <2>1. Awaits(e, kind, flying[kind][i])
    BY <1>1 DEF FlyingInv
  <2>2. NextEvent(e)
    BY <1>1 DEF Attempt
  <2> HIDE DEF e
  <2>3. /\ todo = [d \in Emitter |-> todo[d]] /\ stage = [d \in Emitter |-> stage[d]]
        /\ copy = [d \in Emitter |-> copy[d]]
    BY DEF EventsInv
  <2>4. e \in Emitter /\ Emitting(e) /\ stage[e] = "wait"
    BY <2>1 DEF Awaits, Works
  <2>5. Handles(e) /\ Ends(e)
    BY <2>2, <2>3, <2>4 DEF NextEvent, Handles, Ends
  <2> QED BY <1>1, <2>1, <2>4, <2>5 DEF e
<1>2. CASE ~((confirmed \/ flying[kind][i].left = 1) /\ e # Nobody)
  BY <1>2 DEF Attempt, Rests
<1> QED BY <1>1, <1>2

\* The steps of handlers,
Fetches(e) == /\ Handles(e) /\ Reads(e)
              /\ \/ stage[e] = "save" /\ stage'[e] = "write"
                 \/ stage[e] = "publish" /\ stage'[e] = "send"
              /\ UNCHANGED <<rows, wireVars, missed>>

Writes(e) == /\ Handles(e) /\ Goes(e) /\ stage[e] = "write"
             /\ \E written \in BOOLEAN : WriteRow(e, written)

HandsOver(e) == /\ Handles(e) /\ Ends(e) /\ stage[e] = "publish"
                /\ PublishNothing(e) \/ Enqueue(e)
                /\ UNCHANGED <<rows, flying, topic, overtaken>>

Sends(e) == /\ Handles(e) /\ Goes(e) /\ stage[e] = "send"
            /\ SendMessage(e)

\* of producers, and of the library.
TakesFrom(kind) == /\ Rests /\ deploy.producer = "async"
                   /\ ProcessMessage(kind)

Answers(kind, i, written, confirmed) ==
  /\ i \in DOMAIN flying[kind]
  /\ UNCHANGED callSide
  /\ Attempt(kind, i, written, confirmed)

LEMMA HandlerKinds ==
  ASSUME EventsInv, FlyingInv, NEW e \in Emitter, HandleEvent(e)
  PROVE  \/ Fetches(e) \/ Writes(e) \/ HandsOver(e) \/ Sends(e)
         \/ \E kind \in Kind : \E i \in Nat, written, confirmed \in BOOLEAN :
              Answers(kind, i, written, confirmed)
<1>1. /\ todo = [d \in Emitter |-> todo[d]] /\ stage = [d \in Emitter |-> stage[d]]
      /\ copy = [d \in Emitter |-> copy[d]]
  BY DEF EventsInv
<1>2. UNCHANGED callSide
  BY EventFrame DEF SinkStep
<1>3. \A sink : Outcomes(sink) \subseteq BOOLEAN
  BY DEF Outcomes
<1>4. CASE ReadRecord(e)
  BY <1>1, <1>2, <1>4 DEF ReadRecord, Works, Handles, Reads, Fetches
<1>5. ASSUME NEW written \in BOOLEAN, WriteRow(e, written)
      PROVE  Writes(e)
  <2>1. Handles(e) /\ Goes(e) /\ stage[e] = "write"
    BY <1>1, <1>2, <1>5 DEF WriteRow, Works, Handles, Goes
  <2> QED BY <1>5, <2>1 DEF Writes
<1>6. CASE PublishNothing(e)
  <2>1. Handles(e) /\ Ends(e) /\ stage[e] = "publish"
    BY <1>1, <1>2, <1>6 DEF PublishNothing, NextEvent, Works, Handles, Ends
  <2>2. UNCHANGED <<rows, flying, topic, overtaken>>
    BY <1>6 DEF PublishNothing, wireVars
  <2> QED BY <1>6, <2>1, <2>2 DEF HandsOver
<1>7. CASE Enqueue(e)
  <2>1. Handles(e) /\ Ends(e) /\ stage[e] = "publish"
    BY <1>1, <1>2, <1>7 DEF Enqueue, NextEvent, Works, Handles, Ends
  <2>2. UNCHANGED <<rows, flying, topic, overtaken>>
    BY <1>7 DEF Enqueue
  <2> QED BY <1>7, <2>1, <2>2 DEF HandsOver
<1>8. CASE deploy.producer = "sync" /\ Marshal(e)
  BY <1>1, <1>2, <1>8 DEF Marshal, Works, Handles, Reads, Fetches
<1>9. CASE SendMessage(e)
  <2>1. Handles(e) /\ Goes(e) /\ stage[e] = "send"
    BY <1>1, <1>2, <1>9 DEF SendMessage, Works, Handles, Goes
  <2> QED BY <1>9, <2>1 DEF Sends
<1>10. ASSUME NEW kind \in Kind, BrokersTry(kind, e)
       PROVE  \E i \in Nat, written, confirmed \in BOOLEAN :
                Answers(kind, i, written, confirmed)
  <2>1. PICK i \in DOMAIN flying[kind],
             written \in Outcomes("brokers"), confirmed \in Outcomes("brokers") :
               Attempt(kind, i, written, confirmed)
    BY <1>10 DEF BrokersTry
  <2>2. written \in BOOLEAN /\ confirmed \in BOOLEAN /\ i \in Nat
    BY <1>3, <1>10, <2>1, SequenceElim DEF FlyingInv
  <2>3. Answers(kind, i, written, confirmed)
    BY <1>2, <2>1 DEF Answers
  <2> QED BY <2>2, <2>3
<1> QED
  BY <1>3, <1>4, <1>5, <1>6, <1>7, <1>8, <1>9, <1>10 DEF HandleEvent, Publish

\* Every step of the sinks is one of these.
LEMMA SinkKinds ==
  ASSUME EventsInv, FlyingInv, SinkStep
  PROVE  \/ \E e \in Emitter : Fetches(e) \/ Writes(e) \/ HandsOver(e) \/ Sends(e)
         \/ \E kind \in Kind : TakesFrom(kind)
         \/ \E kind \in Kind : \E i \in Nat, written, confirmed \in BOOLEAN :
              Answers(kind, i, written, confirmed)
         \/ UpstreamSends /\ Rests
<1>1. UNCHANGED callSide
  BY EventFrame
<1>2. CASE ProcessMessages
  BY <1>1, <1>2
  DEF ProcessMessages, AsyncOpen, ProcessMessage, TakesFrom, Rests
<1>3. CASE Delivery
  <2>1. PICK kind \in Kind : BrokersTry(kind, Nobody)
    BY <1>3 DEF Delivery
  <2>2. PICK i \in DOMAIN flying[kind],
             written \in Outcomes("brokers"), confirmed \in Outcomes("brokers") :
               Attempt(kind, i, written, confirmed)
    BY <2>1 DEF BrokersTry
  <2>3. written \in BOOLEAN /\ confirmed \in BOOLEAN
    BY <2>2 DEF Outcomes
  <2>4. i \in Nat
    BY <2>2, SequenceElim DEF FlyingInv
  <2>5. Answers(kind, i, written, confirmed)
    BY <1>1, <2>2 DEF Answers
  <2> QED BY <2>3, <2>4, <2>5
<1>4. CASE UpstreamSends
  BY <1>1, <1>4 DEF UpstreamSends, Rests, eventVars
<1>5. ASSUME NEW e \in Emitter, HandleEvent(e)
      PROVE  \/ Fetches(e) \/ Writes(e) \/ HandsOver(e) \/ Sends(e)
             \/ \E kind \in Kind : \E i \in Nat, written, confirmed \in BOOLEAN :
                  Answers(kind, i, written, confirmed)
  BY <1>5, HandlerKinds
<1> QED BY <1>2, <1>3, <1>4, <1>5 DEF SinkStep

\* What an event says of an order or trade is what the order is.
LEMMA FieldsAreCurrent ==
  ASSUME ObjectsInv, NEW x \in Updates \cup Trades
  PROVE  /\ Fields(x).of = x.of
         /\ x \in Updates => /\ Fields(x).id = heap[x.of].id
                             /\ Fields(x).status = heap[x.of].status
                             /\ Fields(x).status \in Statuses
                             /\ Fields(x).version = heap[x.of].version
                             /\ heap[x.of].version \in Nat
         /\ x \in Trades => Fields(x).id = x.of
<1>1. CASE x \in Updates
  <2>1. x.kind = "order" /\ x.of \in DOMAIN heap /\ x \notin Trades
    BY <1>1, EventKinds
  <2>2. IsObject(heap[x.of])
    BY <2>1 DEF ObjectsInv
  <2> QED BY <1>1, <2>1, <2>2 DEF Fields, IsObject
<1>2. CASE x \in Trades
  <2>1. x.kind = "trade" /\ x \notin Updates
    BY <1>2, EventKinds
  <2> QED BY <1>2, <2>1 DEF Fields
<1> QED BY <1>1, <1>2

\* The first event is an event.
LEMMA FirstIsEvent ==
  ASSUME EventsInv, NEW e \in Emitter, Emitting(e)
  PROVE  First(e) \in ToSet(todo[e]) /\ First(e) \in Updates \cup Trades
<1>1. EmitterInv(e)
  BY DEF EventsInv
<1>2. First(e) \in ToSet(todo[e])
  BY <1>1, TailElements DEF EmitterInv, First, Emitting
<1> QED BY <1>1, <1>2 DEF EmitterInv

\* Handling events keeps the events.
LEMMA HandlerKeeps ==
  ASSUME EventsInv, ObjectsInv, BookInv, NEW e \in Emitter, Handles(e),
         Reads(e) \/ Goes(e) \/ Ends(e)
  PROVE  EventsInv' /\ (\A d \in Emitter : Emitting(d)' => Emitting(d))
<1>1. UNCHANGED <<heap, call, deploy, phase, traded, raced, silent>>
  BY DEF Handles, callSide
<1>2. ObjectsInv' /\ HeapMoves /\ traded \in Nat
  BY <1>1 DEF ObjectsInv, HeapMoves, BookInv, IsObject
<1>3. \A d \in Emitter \ {e} : EmitterInv(d)'
  <2>1. \A o \in DOMAIN heap : Harmless(o)
    BY <1>1 DEF Harmless
  <2> QED BY <1>1, <1>2, <2>1, EmitterKeeps DEF Handles
<1>4. EmitterInv(e) /\ Emitting(e)
  BY DEF EventsInv, Handles
<1>5. Updates' = Updates /\ Trades' = Trades
  BY <1>1 DEF Updates, Trades
<1>6. ASSUME Reads(e)
      PROVE  EmitterInv(e)'
  <2>1. First(e)' = First(e) /\ Emitting(e)'
    BY <1>4, <1>6 DEF Reads, First, Emitting
  <2> DEFINE x == First(e)
  <2>2. x \in Updates \cup Trades
    BY <1>4, FirstIsEvent
  <2> HIDE DEF x
  <2>3. /\ copy'[e].of = x.of
        /\ x \in Updates => /\ copy'[e].id = heap[x.of].id
                            /\ copy'[e].status \in Statuses
                            /\ copy'[e].version \in 0..heap[x.of].version
                            /\ copy'[e].version = heap[x.of].version
        /\ x \in Trades => copy'[e].id = x.of
    BY <1>6, <2>2, FieldsAreCurrent DEF Reads, x
  <2>4. CopyInv(e)'
    BY <1>1, <1>5, <2>1, <2>3 DEF CopyInv, x
  <2> QED BY <1>1, <1>4, <1>5, <1>6, <2>1, <2>4 DEF EmitterInv, Reads
<1>7. ASSUME Goes(e)
      PROVE  EmitterInv(e)'
  BY <1>1, <1>4, <1>5, <1>7 DEF EmitterInv, Goes, Emitting
<1>8. ASSUME Ends(e)
      PROVE  EmitterInv(e)'
  <2>1. /\ IsSequence(todo'[e]) /\ ToSet(todo'[e]) \subseteq ToSet(todo[e])
    BY <1>4, <1>8, TailElements DEF EmitterInv, Emitting, Ends
  <2> QED BY <1>1, <1>4, <1>5, <1>8, <2>1 DEF EmitterInv, Ends
<1>9. EmitterInv(e)' /\ ToSet(todo'[e]) \subseteq ToSet(todo[e])
  <2>1. Ends(e) => ToSet(todo'[e]) \subseteq ToSet(todo[e])
    BY <1>4, TailElements DEF EmitterInv, Emitting, Ends
  <2> QED BY <1>6, <1>7, <1>8, <2>1 DEF Reads, Goes
<1>10. \A d \in Emitter : /\ EmitterInv(d)'
                          /\ ToSet(todo'[d]) \subseteq ToSet(todo[d])
                          /\ Emitting(d)' => Emitting(d)
  BY <1>3, <1>4, <1>9 DEF Handles, Emitting
<1>11. \A c \in Client : c \in Emitter
  BY MatcherEmits
<1> QED
  BY <1>1, <1>10, <1>11, MatcherEmits DEF EventsInv, Handles, At

\* Steps without events.
LEMMA EventsStay ==
  ASSUME EventsInv, ObjectsInv, ObjectsInv', HeapMoves, traded \in Nat,
         UNCHANGED <<todo, stage, copy, deploy>>,
         \A o \in DOMAIN heap : Harmless(o),
         phase' \in {"none", "match", "fill"} => ~Emitting(Matcher),
         \A c \in Client : Emitting(c) => At(c, "emit")',
         \A o \in DOMAIN heap : heap[o].place = "gone" => heap'[o].place = "gone"
  PROVE  EventsInv'
<1>1. \A e \in Emitter : EmitterInv(e)'
  BY EmitterKeeps
<1>2. \A e \in Emitter : Emitting(e)' = Emitting(e)
  BY DEF Emitting
<1>3. ASSUME NEW c \in Client, NEW o \in DOMAIN heap',
             OrderUpdate(o) \in ToSet(todo'[c])
      PROVE  heap'[o].place = "gone"
  <2>1. EmitterInv(c)
    BY MatcherEmits DEF EventsInv
  <2>2. o \in DOMAIN heap
    BY <1>3, <2>1, EventKinds DEF EmitterInv
  <2>3. heap[o].place = "gone"
    BY <1>3, <2>2 DEF EventsInv
  <2> QED BY <2>2, <2>3
<1> QED BY <1>1, <1>2, <1>3, MatcherEmits DEF EventsInv

\* An emitter that was through with its events has new ones.
Begins(e) ==
  /\ e \in Emitter /\ ~Emitting(e)
  /\ todo' = [d \in Emitter |-> todo'[d]]
  /\ \A d \in Emitter \ {e} : todo'[d] = todo[d]
  /\ IsSequence(todo'[e]) /\ ToSet(todo'[e]) \subseteq (Updates \cup Trades)'
  /\ \A o \in DOMAIN heap : OrderUpdate(o) \in ToSet(todo'[e]) => heap'[o].id # 0
  /\ DOMAIN heap' = DOMAIN heap
  /\ UNCHANGED <<stage, copy, deploy, call, rows, wireVars, missed, traded>>

\* That keeps the events, if no copy another has made becomes stale.
LEMMA EventsBegin ==
  ASSUME EventsInv, ObjectsInv, ObjectsInv', HeapMoves, traded \in Nat,
         NEW e, Begins(e),
         \A d \in Emitter \ {e}, o \in DOMAIN heap : Announces(d, o) => Harmless(o),
         phase' \in {"none", "match", "fill"} => e # Matcher /\ ~Emitting(Matcher),
         e \in Client => At(e, "emit"),
         e \in Client => \A o \in DOMAIN heap : Announces(e, o)' => heap'[o].place = "gone",
         \A o \in DOMAIN heap : heap[o].place = "gone" => heap'[o].place = "gone"
  PROVE  EventsInv'
<1>1. \A d \in Emitter \ {e} : EmitterInv(d)'
  BY EmitterKeeps DEF Begins, Announces
<1>2. EmitterInv(e)'
  BY EmitterBegins DEF Begins
<1>3. ASSUME NEW c \in Client
      PROVE  /\ Emitting(c)' => At(c, "emit")'
             /\ \A o \in DOMAIN heap' :
                  OrderUpdate(o) \in ToSet(todo'[c]) => heap'[o].place = "gone"
  <2>1. c \in Emitter /\ call' = call /\ DOMAIN heap' = DOMAIN heap
    BY MatcherEmits DEF Begins
  <2>2. CASE c = e
    BY <2>1, <2>2 DEF At, Announces
  <2>3. CASE c # e
    <3>1. todo'[c] = todo[c]
      BY <2>1, <2>3 DEF Begins
    <3>2. Emitting(c)' => At(c, "emit")'
      BY <2>1, <3>1 DEF EventsInv, Emitting, At
    <3>3. \A o \in DOMAIN heap : OrderUpdate(o) \in ToSet(todo'[c]) => heap[o].place = "gone"
      BY <3>1 DEF EventsInv
    <3> QED BY <2>1, <3>2, <3>3
  <2> QED BY <2>2, <2>3
<1>4. phase' \in {"none", "match", "fill"} => ~Emitting(Matcher)'
  BY MatcherEmits DEF Begins, Emitting
<1>5. /\ stage' = [d \in Emitter |-> stage'[d]] /\ copy' = [d \in Emitter |-> copy'[d]]
      /\ todo' = [d \in Emitter |-> todo'[d]]
  BY DEF EventsInv, Begins
<1> QED BY <1>1, <1>2, <1>3, <1>4, <1>5 DEF EventsInv

\* A cancel announces its order; if another has an update of it, it is raced.
LEMMA MarkBegins ==
  ASSUME MemoryInv, ObjectsInv, BookInv, EventsInv, NEW c \in Client, CancelMarks(c)
  PROVE  /\ Begins(c) /\ c # Matcher /\ At(c, "emit")
         /\ todo'[c] = <<OrderUpdate(taken[c])>>
         /\ ToSet(todo'[c]) = {OrderUpdate(taken[c])}
         /\ silent' = silent \ {taken[c]}
         /\ raced \subseteq raced'
         /\ \A d \in Emitter \ {c} : Announces(d, taken[c]) => taken[c] \in raced'
         /\ UNCHANGED <<phase, maker, matched, job, entries>>
         /\ taken' = [taken EXCEPT ![c] = NoOrder]
<1> DEFINE o == taken[c]
<1>1. /\ o \in DOMAIN heap /\ o # NoOrder /\ heap[o].place = "gone"
      /\ OnlyAlters({o}) /\ IsObject(heap'[o]) /\ heap'[o].place = "gone"
  BY MarkedAlters
<1>2. c \in Emitter /\ c # Matcher
  BY PipelineAssumption DEF PipelineEmitter
<1>3. ~Emitting(c) /\ At(c, "emit")
  BY <1>1 DEF BookInv
<1>4. /\ todo' = [todo EXCEPT ![c] = <<OrderUpdate(o)>>]
      /\ silent' = silent \ {o} /\ raced' = raced \cup RacedBy(c, {o})
      /\ taken' = [taken EXCEPT ![c] = NoOrder]
      /\ UNCHANGED <<stage, copy, deploy, call, job, rows, wireVars, missed, traded,
                     phase, maker, matched, entries>>
  BY DEF CancelMarks, engineVars, mainVars, matchVars
<1> HIDE DEF o
<1>5. /\ todo'[c] = <<OrderUpdate(o)>>
      /\ todo' = [d \in Emitter |-> todo'[d]]
      /\ \A d \in Emitter \ {c} : todo'[d] = todo[d]
  BY <1>2, <1>4 DEF EventsInv
<1>6. IsSequence(todo'[c]) /\ ToSet(todo'[c]) = {OrderUpdate(o)}
  BY <1>5, ShortSequences
<1>7. DOMAIN heap' = DOMAIN heap
  BY <1>1 DEF OnlyAlters
<1>8. ToSet(todo'[c]) \subseteq (Updates \cup Trades)'
  BY <1>1, <1>6, <1>7, EventKindsNext
<1>9. \A p \in DOMAIN heap : OrderUpdate(p) \in ToSet(todo'[c]) => heap'[p].id # 0
  <2>1. heap'[o].id # 0
    BY <1>1 DEF IsObject
  <2> QED BY <1>6, <2>1, EventKinds
<1>10. Begins(c)
  BY <1>2, <1>3, <1>4, <1>5, <1>6, <1>7, <1>8, <1>9 DEF Begins
<1>11. \A d \in Emitter \ {c} : Announces(d, o) => o \in raced'
  BY <1>4 DEF RacedBy
<1> QED BY <1>2, <1>3, <1>4, <1>5, <1>6, <1>10, <1>11 DEF o

\* The end of a match announces its trades, the taker and the last maker.
LEMMA MatchBegins ==
  ASSUME MemoryInv, ObjectsInv, QueueInv, BookInv, EventsInv, MatchEnds
  PROVE  LET told == IF matched = 0 THEN {} ELSE {job, maker}
         IN  /\ Begins(Matcher) /\ heap' = heap
             /\ told \subseteq DOMAIN heap
             /\ ToSet(todo'[Matcher]) =
                  {TradeEvent(t) : t \in (traded - matched + 1)..traded} \cup
                  {OrderUpdate(o) : o \in told}
             /\ silent' = silent \ told
             /\ raced \subseteq raced'
             /\ \A o \in told, d \in Emitter \ {Matcher} : Announces(d, o) => o \in raced'
             /\ phase = "match" /\ phase' = "rest" /\ maker' = NoOrder /\ matched' = 0
             /\ UNCHANGED <<job, entries, taken>>
<1> DEFINE told == IF matched = 0 THEN {} ELSE {job, maker}
<1>1. /\ todo' = [todo EXCEPT ![Matcher] = FillEvents]
      /\ silent' = silent \ told /\ raced' = raced \cup RacedBy(Matcher, told)
      /\ phase = "match" /\ phase' = "rest" /\ maker' = NoOrder /\ matched' = 0
      /\ UNCHANGED <<heap, stage, copy, deploy, call, job, rows, wireVars, missed,
                     traded, entries, taken>>
  BY DEF MatchEnds, engineVars, mainVars, bookVars
<1>2. ~Emitting(Matcher) /\ Matcher \in Emitter
  BY <1>1, MatcherEmits DEF EventsInv
<1>3. /\ matched \in Nat /\ traded \in Nat /\ matched <= traded
      /\ matched # 0 => Placed(maker)
      /\ job \in DOMAIN heap /\ heap[job].id # 0
  BY <1>1 DEF BookInv, QueueInv, Working
<1>4. told \subseteq DOMAIN heap /\ \A o \in told : heap[o].id # 0
  BY <1>3 DEF Placed, ObjectsInv, IsObject
<1>5. /\ IsSequence(FillEvents)
      /\ ToSet(FillEvents) =
           {TradeEvent(t) : t \in (traded - matched + 1)..traded} \cup
           {OrderUpdate(o) : o \in told}
  <2>1. {OrderUpdate(o) : o \in told} =
          IF matched = 0 THEN {} ELSE {OrderUpdate(job), OrderUpdate(maker)}
    BY Zenon
  <2> HIDE DEF told
  <2> QED BY <1>3, <2>1, FillEventsShape
<1> HIDE DEF told
<1>6. /\ todo'[Matcher] = FillEvents
      /\ todo' = [d \in Emitter |-> todo'[d]]
      /\ \A d \in Emitter \ {Matcher} : todo'[d] = todo[d]
  BY <1>1, <1>2 DEF EventsInv
<1>7. ToSet(todo'[Matcher]) \subseteq (Updates \cup Trades)'
  <2>1. \A o \in told : OrderUpdate(o) \in Updates'
    BY <1>1, <1>4 DEF Updates
  <2>2. \A t \in (traded - matched + 1)..traded : TradeEvent(t) \in Trades'
    BY <1>1, <1>3 DEF Trades
  <2> QED BY <1>5, <1>6, <2>1, <2>2
<1>8. \A o \in DOMAIN heap : OrderUpdate(o) \in ToSet(todo'[Matcher]) => heap'[o].id # 0
  <2> SUFFICES ASSUME NEW o \in DOMAIN heap, OrderUpdate(o) \in ToSet(todo'[Matcher])
               PROVE  heap'[o].id # 0
    OBVIOUS
  <2>1. o \in told
    BY <1>5, <1>6, EventKinds
  <2> QED BY <1>1, <1>4, <2>1
<1>9. Begins(Matcher)
  BY <1>1, <1>2, <1>5, <1>6, <1>7, <1>8 DEF Begins
<1>10. \A o \in told, d \in Emitter \ {Matcher} : Announces(d, o) => o \in raced'
  BY <1>1 DEF RacedBy
<1> QED BY <1>1, <1>4, <1>5, <1>6, <1>9, <1>10 DEF told

\* What rests is announced.
LEMMA RestBegins ==
  ASSUME MemoryInv, ObjectsInv, QueueInv, BookInv, EventsInv, RestOrder
  PROVE  /\ Begins(Matcher)
         /\ todo'[Matcher] \in {<<>>, <<OrderUpdate(job)>>}
         /\ \A d \in Emitter \ {Matcher} : ~Announces(d, job)
         /\ phase = "rest" /\ phase' = "end"
         /\ UNCHANGED <<job, taken, maker, matched, historyVars>>
<1>1. /\ job \in DOMAIN heap /\ heap[job].id # 0 /\ heap[job].place = "request"
      /\ phase = "rest" /\ phase' = "end"
      /\ ~Emitting(Matcher) /\ Matcher \in Emitter
      /\ UNCHANGED <<stage, copy, deploy, call, job, rows, wireVars, missed, traded,
                     taken, maker, matched, historyVars>>
  BY MatcherEmits DEF RestOrder, QueueInv, Working, engineVars, mainVars
<1>2. /\ OnlyAlters({job}) /\ heap'[job].id = heap[job].id
      /\ \/ todo' = [todo EXCEPT ![Matcher] = <<OrderUpdate(job)>>]
         \/ todo' = [todo EXCEPT ![Matcher] = <<>>]
  BY RestAlters
<1>3. /\ todo'[Matcher] \in {<<>>, <<OrderUpdate(job)>>}
      /\ todo' = [d \in Emitter |-> todo'[d]]
      /\ \A d \in Emitter \ {Matcher} : todo'[d] = todo[d]
  BY <1>1, <1>2 DEF EventsInv
<1>4. IsSequence(todo'[Matcher]) /\ ToSet(todo'[Matcher]) \subseteq {OrderUpdate(job)}
  BY <1>3, ShortSequences
<1>5. DOMAIN heap' = DOMAIN heap /\ OrderUpdate(job) \in Updates'
  BY <1>1, <1>2, EventKindsNext DEF OnlyAlters
<1>6. \A o \in DOMAIN heap : OrderUpdate(o) \in ToSet(todo'[Matcher]) => heap'[o].id # 0
  BY <1>1, <1>2, <1>4, EventKinds
<1>7. Begins(Matcher)
  BY <1>1, <1>3, <1>4, <1>5, <1>6 DEF Begins
<1>8. ASSUME NEW d \in Emitter \ {Matcher}, Announces(d, job)
      PROVE  FALSE
  <2>1. d \in Client
    BY PipelineAssumption DEF PipelineEmitter
  <2> QED BY <1>1, <1>8, <2>1 DEF EventsInv, Announces
<1> QED BY <1>1, <1>3, <1>7, <1>8

\* When neither an order nor the history of it changes, no copy becomes stale.
LEMMA NoneStale ==
  ASSUME UNCHANGED historyVars, \A o \in DOMAIN heap : heap'[o].version = heap[o].version
  PROVE  \A o \in DOMAIN heap : Harmless(o)
BY DEF Harmless, historyVars

\* Whoever emits goes on to do so while others call.
LEMMA EmittersStay ==
  ASSUME EventsInv, NEW c \in Caller, \A d \in Caller \ {c} : call'[d] = call[d],
         c \in Client /\ Emitting(c) => At(c, "emit")'
  PROVE  \A d \in Client : Emitting(d) => At(d, "emit")'
<1>1. Client \subseteq Caller
  BY PipelineAssumption DEF PipelineCaller
<1> QED BY <1>1 DEF EventsInv, At

\* The death of the process ends all events.
LEMMA EventsDie ==
  ASSUME ProcessDies
  PROVE  EventsInv'
<1>1. /\ todo' = [e \in Emitter |-> <<>>] /\ stage' = [e \in Emitter |-> "save"]
      /\ copy' = [e \in Emitter |-> NoCopy]
  BY DEF ProcessDies
<1>2. /\ todo' = [e \in Emitter |-> todo'[e]] /\ stage' = [e \in Emitter |-> stage'[e]]
      /\ copy' = [e \in Emitter |-> copy'[e]]
      /\ \A e \in Emitter : todo'[e] = <<>> /\ stage'[e] = "save"
  BY <1>1
<1>3. \A e \in Emitter : EmitterInv(e)'
  BY <1>2, ShortSequences DEF EmitterInv
<1> QED BY <1>2, <1>3, ShortSequences, MatcherEmits DEF EventsInv, Emitting

\* Cancels keep the events,
LEMMA EventsCancel ==
  ASSUME MemoryInv, CallsInv, ObjectsInv, ObjectsInv', HeapMoves, BookInv, EventsInv,
         NEW c \in Client, CancelTakes(c) \/ CancelMarks(c)
  PROVE  EventsInv'
<1>1. traded \in Nat /\ c \in Caller
  BY PipelineAssumption DEF BookInv, PipelineCaller
<1>2. CASE CancelTakes(c)
  <2>1. /\ UNCHANGED <<todo, stage, copy, deploy, phase, historyVars>>
        /\ call' = [call EXCEPT ![c].at = "emit"]
    BY <1>2
    DEF CancelTakes, EnterCancel, Moved, eventVars, mainVars, matchVars
  <2>2. At(c, "emit")' /\ \A d \in Caller \ {c} : call'[d] = call[d]
    BY <1>1, <2>1 DEF CallsInv, CallsShape, At
  <2>3. \A d \in Client : Emitting(d) => At(d, "emit")'
    BY <1>1, <2>2, EmittersStay
  <2>4. PICK o \in DOMAIN heap :
          /\ OnlyAlters({o}) /\ heap'[o].version = heap[o].version
          /\ heap'[o].place = "gone"
    BY <1>2, TakenAlters
  <2>5. /\ \A p \in DOMAIN heap : heap'[p].version = heap[p].version
        /\ \A p \in DOMAIN heap : heap[p].place = "gone" => heap'[p].place = "gone"
    BY <2>4 DEF OnlyAlters
  <2>6. phase' \in {"none", "match", "fill"} => ~Emitting(Matcher)
    BY <2>1 DEF EventsInv
  <2>7. \A p \in DOMAIN heap : Harmless(p)
    BY <2>1, <2>5, NoneStale
  <2> QED BY <1>1, <2>1, <2>3, <2>5, <2>6, <2>7, EventsStay
<1>3. CASE CancelMarks(c)
  <2> DEFINE o == taken[c]
  <2>1. /\ Begins(c) /\ c # Matcher /\ At(c, "emit")
        /\ ToSet(todo'[c]) = {OrderUpdate(o)}
        /\ silent' = silent \ {o} /\ raced \subseteq raced'
        /\ \A d \in Emitter \ {c} : Announces(d, o) => o \in raced'
        /\ UNCHANGED phase
    BY <1>3, MarkBegins
  <2>2. OnlyAlters({o}) /\ heap'[o].place = "gone"
    BY <1>3, MarkedAlters
  <2> HIDE DEF o
  <2>3. ASSUME NEW d \in Emitter \ {c}, NEW p \in DOMAIN heap, Announces(d, p)
        PROVE  Harmless(p)
    <3>1. CASE p = o
      BY <2>1, <2>3, <3>1 DEF Harmless
    <3>2. CASE p # o
      BY <2>1, <2>2, <3>2 DEF Harmless, OnlyAlters
    <3> QED BY <3>1, <3>2
  <2>4. \A p \in DOMAIN heap : Announces(c, p)' => heap'[p].place = "gone"
    BY <2>1, <2>2, EventKinds DEF Announces
  <2>5. \A p \in DOMAIN heap : heap[p].place = "gone" => heap'[p].place = "gone"
    BY <2>2 DEF OnlyAlters
  <2>6. phase' \in {"none", "match", "fill"} => ~Emitting(Matcher)
    BY <2>1 DEF EventsInv
  <2> QED BY <1>1, <2>1, <2>3, <2>4, <2>5, <2>6, EventsBegin
<1> QED BY <1>2, <1>3

\* the steps of processOrder do,
LEMMA EventsMatch ==
  ASSUME MemoryInv, ObjectsInv, ObjectsInv', HeapMoves, QueueInv, BookInv, EventsInv,
         ParkStop \/ Chooses \/ Fills \/ MatchEnds \/ RestOrder
  PROVE  EventsInv'
<1>1. traded \in Nat /\ Matcher \notin Client
  BY PipelineAssumption DEF BookInv
<1>2. CASE ParkStop
  <2>1. /\ UNCHANGED <<call, todo, stage, copy, deploy, historyVars>>
        /\ phase = "match" /\ phase' = "end"
    BY <1>2 DEF ParkStop, engineVars, eventVars, mainVars
  <2>2. OnlyAlters({job}) /\ heap'[job].version = heap[job].version
    BY <1>2, ParkAlters
  <2>3. heap[job].place = "request"
    BY <2>1 DEF QueueInv, Working
  <2>4. /\ \A o \in DOMAIN heap : heap'[o].version = heap[o].version
        /\ \A o \in DOMAIN heap : heap[o].place = "gone" => heap'[o].place = "gone"
    BY <2>2, <2>3 DEF OnlyAlters
  <2>5. \A d \in Client : Emitting(d) => At(d, "emit")'
    BY <2>1 DEF EventsInv, At
  <2>6. \A o \in DOMAIN heap : Harmless(o)
    BY <2>1, <2>4, NoneStale
  <2> QED BY <1>1, <2>1, <2>4, <2>5, <2>6, EventsStay
<1>3. CASE Chooses
  <2>1. /\ UNCHANGED <<heap, call, todo, stage, copy, deploy, historyVars>>
        /\ phase = "match" /\ phase' = "fill"
    BY <1>3 DEF Chooses, ChooseMaker, engineVars, sinkVars, mainVars
  <2>2. \A o \in DOMAIN heap : Harmless(o)
    BY <2>1, NoneStale
  <2>3. \A d \in Client : Emitting(d) => At(d, "emit")'
    BY <2>1 DEF EventsInv, At
  <2>4. ~Emitting(Matcher)
    BY <2>1 DEF EventsInv
  <2> QED BY <1>1, <2>1, <2>2, <2>3, <2>4, EventsStay
<1>4. CASE Fills
  <2>1. PICK filled \in SUBSET {job, maker} : FillMaker(filled)
    BY <1>4 DEF Fills
  <2>2. /\ UNCHANGED <<call, todo, stage, copy, deploy, raced>>
        /\ silent' = silent \cup {job, maker}
        /\ phase = "fill" /\ phase' = "match"
    BY <2>1 DEF FillMaker, engineVars, eventVars, mainVars
  <2>3. \A o \in DOMAIN heap :
          /\ heap'[o].version = heap[o].version + (IF o \in {job, maker} THEN 1 ELSE 0)
          /\ heap[o].place = "gone" => heap'[o].place = "gone"
    BY <2>1, FillAlters
  <2>4. ASSUME NEW o \in DOMAIN heap
        PROVE  Harmless(o)
    <3>1. CASE o \in {job, maker}
      BY <2>2, <3>1 DEF Harmless
    <3>2. CASE o \notin {job, maker}
      <4>1. heap'[o].version = heap[o].version
        BY <2>3, <3>2 DEF ObjectsInv, IsObject
      <4> QED BY <2>2, <4>1 DEF Harmless
    <3> QED BY <3>1, <3>2
  <2>5. \A d \in Client : Emitting(d) => At(d, "emit")'
    BY <2>2 DEF EventsInv, At
  <2>6. ~Emitting(Matcher)
    BY <2>2 DEF EventsInv
  <2> QED BY <1>1, <2>2, <2>3, <2>4, <2>5, <2>6, EventsStay
<1>5. CASE MatchEnds
  <2> DEFINE told == IF matched = 0 THEN {} ELSE {job, maker}
  <2>1. /\ Begins(Matcher) /\ heap' = heap
        /\ silent' = silent \ told /\ raced \subseteq raced'
        /\ \A o \in told, d \in Emitter \ {Matcher} : Announces(d, o) => o \in raced'
        /\ phase' = "rest"
    BY <1>5, MatchBegins
  <2> HIDE DEF told
  <2>2. ASSUME NEW d \in Emitter \ {Matcher}, NEW o \in DOMAIN heap, Announces(d, o)
        PROVE  Harmless(o)
    <3>1. CASE o \in told
      BY <2>1, <2>2, <3>1 DEF Harmless
    <3>2. CASE o \notin told
      BY <2>1, <3>2 DEF Harmless
    <3> QED BY <3>1, <3>2
  <2> QED BY <1>1, <2>1, <2>2, EventsBegin
<1>6. CASE RestOrder
  <2>1. /\ Begins(Matcher) /\ phase = "rest" /\ phase' = "end"
        /\ \A d \in Emitter \ {Matcher} : ~Announces(d, job)
        /\ UNCHANGED historyVars
    BY <1>6, RestBegins
  <2>2. OnlyAlters({job}) /\ heap[job].place = "request"
    BY <1>6, <2>1, RestAlters DEF QueueInv, Working
  <2>3. ASSUME NEW d \in Emitter \ {Matcher}, NEW o \in DOMAIN heap, Announces(d, o)
        PROVE  Harmless(o)
    BY <2>1, <2>2, <2>3 DEF Harmless, OnlyAlters, historyVars
  <2>4. \A o \in DOMAIN heap : heap[o].place = "gone" => heap'[o].place = "gone"
    BY <2>2 DEF OnlyAlters
  <2> QED BY <1>1, <2>1, <2>3, <2>4, EventsBegin
<1> QED BY <1>2, <1>3, <1>4, <1>5, <1>6

\* and so does every step.
LEMMA EventsStep ==
  ASSUME MemoryInv, CallsInv, ObjectsInv, QueueInv, BookInv, EventsInv, FlyingInv,
         PhaseInv, StepKind
  PROVE  EventsInv'
<1>1. ObjectsInv' /\ HeapMoves /\ traded \in Nat
  BY ObjectsStep DEF BookInv
<1>2. Client \subseteq Caller
  BY PipelineAssumption DEF PipelineCaller
<1>3. ASSUME UNCHANGED <<todo, stage, copy, deploy, historyVars, phase>>,
             \A o \in DOMAIN heap : heap'[o] = heap[o],
             \A d \in Client : Emitting(d) => At(d, "emit")'
      PROVE  EventsInv'
  <2>1. \A o \in DOMAIN heap : Harmless(o)
    BY <1>3, NoneStale
  <2>2. phase' \in {"none", "match", "fill"} => ~Emitting(Matcher)
    BY <1>3 DEF EventsInv
  <2> QED BY <1>1, <1>3, <2>1, <2>2, EventsStay
<1>4. ASSUME NEW c \in Caller, NEW x, Added(x, c)
      PROVE  EventsInv'
  <2>1. /\ UNCHANGED <<todo, stage, copy, deploy, historyVars, phase>>
        /\ call[c].at \in Returned
        /\ \A d \in Caller \ {c} : call'[d] = call[d]
    BY <1>4 DEF Added, CallsInv, CallsShape
  <2>2. \A o \in DOMAIN heap : heap'[o] = heap[o]
    BY <1>4, AddedHeap
  <2>3. c \in Client => ~Emitting(c)
    BY <2>1 DEF EventsInv, At, Returned
  <2>4. \A d \in Client : Emitting(d) => At(d, "emit")'
    BY <2>1, <2>3, EmittersStay
  <2> QED BY <1>3, <2>1, <2>2, <2>4
<1>5. ASSUME NEW c \in Caller, CallMoves(c) \/ CallSends(c)
      PROVE  EventsInv'
  <2>1. /\ UNCHANGED <<todo, stage, copy, deploy, historyVars, phase, heap>>
        /\ \A d \in Caller \ {c} : call'[d] = call[d]
    BY <1>5 DEF CallMoves, CallSends, keptVars
  <2>2. c \in Client => ~Emitting(c)
    BY <1>5 DEF EventsInv, At, CallMoves, CallSends
  <2>3. \A d \in Client : Emitting(d) => At(d, "emit")'
    BY <2>1, <2>2, EmittersStay
  <2> QED BY <1>3, <2>1, <2>3
<1>6. CASE ProcessDies
  BY <1>6, EventsDie
<1>7. ASSUME NEW c \in Client, CancelTakes(c) \/ CancelMarks(c)
      PROVE  EventsInv'
  BY <1>1, <1>7, EventsCancel
<1>8. CASE TakeOrder
  <2>1. UNCHANGED <<call, todo, stage, copy, deploy, historyVars>> /\ phase' = "match"
    BY <1>8 DEF TakeOrder, Take, eventVars, mainVars
  <2>2. phase = "none"
    BY <1>8 DEF TakeOrder, Take, PhaseInv
  <2>3. /\ OnlyAlters({job'}) /\ heap'[job'].version = heap[job'].version
        /\ heap'[job'].place = heap[job'].place
    BY <1>8, TakeAlters
  <2> DEFINE j == job'
  <2>4. /\ OnlyAlters({j}) /\ heap'[j].version = heap[j].version
        /\ heap'[j].place = heap[j].place
    BY <2>3
  <2> HIDE DEF j
  <2>5. /\ \A o \in DOMAIN heap : heap'[o].version = heap[o].version
        /\ \A o \in DOMAIN heap : heap[o].place = "gone" => heap'[o].place = "gone"
    BY <2>4 DEF OnlyAlters
  <2>6. \A o \in DOMAIN heap : Harmless(o)
    BY <2>1, <2>5, NoneStale
  <2>7. \A d \in Client : Emitting(d) => At(d, "emit")'
    BY <2>1 DEF EventsInv, At
  <2>8. ~Emitting(Matcher)
    BY <2>2 DEF EventsInv
  <2> QED BY <1>1, <2>1, <2>5, <2>6, <2>7, <2>8, EventsStay
<1>9. CASE OrderDone
  <2>1. /\ UNCHANGED <<heap, call, todo, stage, copy, deploy, historyVars>>
        /\ ~Emitting(Matcher)
    BY <1>9 DEF OrderDone, Processed, sinkVars, mainVars
  <2>2. \A o \in DOMAIN heap : Harmless(o)
    BY <2>1, NoneStale
  <2>3. \A d \in Client : Emitting(d) => At(d, "emit")'
    BY <2>1 DEF EventsInv, At
  <2> QED BY <1>1, <2>1, <2>2, <2>3, EventsStay
<1>10. CASE ParkStop \/ Chooses \/ Fills \/ MatchEnds \/ RestOrder
  BY <1>1, <1>10, EventsMatch
<1>11. ASSUME UNCHANGED <<heap, call, todo, stage, copy, deploy, historyVars, phase>>
       PROVE  EventsInv'
  <2>1. \A d \in Client : Emitting(d) => At(d, "emit")'
    BY <1>11 DEF EventsInv, At
  <2> QED BY <1>3, <1>11, <2>1
<1>12. CASE SinkStep
  <2>1. ASSUME NEW e \in Emitter, Fetches(e) \/ Writes(e) \/ HandsOver(e) \/ Sends(e)
        PROVE  EventsInv'
    <3>1. Handles(e) /\ (Reads(e) \/ Goes(e) \/ Ends(e))
      BY <2>1 DEF Fetches, Writes, HandsOver, Sends
    <3> QED BY <3>1, HandlerKeeps
  <2>2. Rests => EventsInv'
    BY <1>11 DEF Rests, callSide, historyVars
  <2>3. ASSUME NEW kind \in Kind, NEW i \in Nat, NEW written \in BOOLEAN,
               NEW confirmed \in BOOLEAN, Answers(kind, i, written, confirmed)
        PROVE  EventsInv'
    <3> DEFINE e == flying[kind][i].from
    <3>1. \/ Rests
          \/ e \in Emitter /\ Handles(e) /\ Ends(e)
      BY <2>3, AttemptEnds DEF Answers
    <3> HIDE DEF e
    <3> QED BY <2>2, <3>1, HandlerKeeps
  <2> QED BY <1>12, <2>1, <2>2, <2>3, SinkKinds DEF TakesFrom
<1>13. CASE UNCHANGED <<keptVars, orderChan, call, job>>
  BY <1>11, <1>13 DEF keptVars, historyVars
<1> QED
  BY <1>4, <1>5, <1>6, <1>7, <1>8, <1>9, <1>10, <1>12, <1>13 DEF StepKind

-----------------------------------------------------------------------------
(* The index, the cancels and the match.                                   *)

\* What a cancel has taken from the book is out of it, and not announced yet.
TakenInv ==
  /\ taken = [c \in Client |-> taken[c]]
  /\ \A c \in Client : taken[c] # NoOrder =>
       /\ taken[c] \in DOMAIN heap /\ heap[taken[c]].place = "gone"
       /\ At(c, "emit") /\ ~Emitting(c)

\* Steps that change neither the index nor the match.
LEMMA BookKeeps ==
  ASSUME BookInv, TakenInv', UNCHANGED <<entries, maker, matched, traded, phase, job>>,
         phase \in {"match", "fill"} => heap'[job] = heap[job],
         \A o : Placed(o) => Placed(o)'
  PROVE  BookInv'
BY DEF BookInv, TakenInv

\* Cancels that go on meanwhile.
LEMMA TakenKeeps ==
  ASSUME BookInv, UNCHANGED taken, DOMAIN heap \subseteq DOMAIN heap',
         \A o \in DOMAIN heap : heap[o].place = "gone" => heap'[o].place = "gone",
         \A c \in Client : taken[c] # NoOrder => At(c, "emit")' /\ ~Emitting(c)'
  PROVE  TakenInv'
BY DEF BookInv, TakenInv

LEMMA TakenStays ==
  ASSUME BookInv, UNCHANGED <<taken, call>>, DOMAIN heap \subseteq DOMAIN heap',
         \A o \in DOMAIN heap : heap[o].place = "gone" => heap'[o].place = "gone",
         \A c \in Client : Emitting(c)' => Emitting(c)
  PROVE  TakenInv'
<1>1. \A c \in Client : taken[c] # NoOrder => At(c, "emit")' /\ ~Emitting(c)'
  BY DEF BookInv, At
<1> QED BY <1>1, TakenKeeps

\* Cancels keep the book,
LEMMA BookCancel ==
  ASSUME MemoryInv, CallsInv, ObjectsInv, QueueInv, BookInv, EventsInv,
         NEW c \in Client, CancelTakes(c) \/ CancelMarks(c)
  PROVE  BookInv'
<1>1. c \in Caller /\ c \in Emitter
  BY PipelineAssumption, MatcherEmits DEF PipelineCaller
<1>2. CASE CancelTakes(c)
  <2>1. PICK o \in DOMAIN heap :
          /\ heap[o].place \in {"resting", "gone"}
          /\ OnlyAlters({o}) /\ heap'[o].version = heap[o].version
          /\ heap'[o].place = "gone"
          /\ entries' = [entries EXCEPT ![Target(c)] = NoOrder]
          /\ taken' = [taken EXCEPT ![c] = o]
    BY <1>2, TakenAlters
  <2>2. /\ UNCHANGED <<todo, job, maker, matched, traded, phase>>
        /\ call' = [call EXCEPT ![c].at = "emit"] /\ At(c, "cancel")
        /\ Target(c) \in Object
    BY <1>2
    DEF CancelTakes, EnterCancel, Moved, eventVars, matchVars, Indexed
  <2>3. At(c, "emit")' /\ ~Emitting(c)' /\ \A d \in Caller \ {c} : call'[d] = call[d]
    BY <1>1, <2>2 DEF CallsInv, CallsShape, At, EventsInv, Emitting
  <2>4. /\ \A p : Placed(p) => Placed(p)'
        /\ \A p \in DOMAIN heap : heap[p].place = "gone" => heap'[p].place = "gone"
        /\ DOMAIN heap' = DOMAIN heap
        /\ \A p \in DOMAIN heap : heap'[p].version = heap[p].version
    BY <2>1 DEF OnlyAlters, Placed
  <2>5. TakenInv'
    <3>1. taken = [d \in Client |-> taken[d]] /\ Client \subseteq Caller
      BY PipelineAssumption DEF BookInv, PipelineCaller
    <3>2. /\ taken' = [d \in Client |-> taken'[d]]
          /\ taken'[c] = o /\ \A d \in Client \ {c} : taken'[d] = taken[d]
      BY <2>1, <3>1
    <3>3. ASSUME NEW d \in Client, taken'[d] # NoOrder
          PROVE  /\ taken'[d] \in DOMAIN heap' /\ heap'[taken'[d]].place = "gone"
                 /\ At(d, "emit")' /\ ~Emitting(d)'
      <4>1. CASE d = c
        BY <2>1, <2>3, <2>4, <3>2, <4>1
      <4>2. CASE d # c
        <5>1. taken'[d] = taken[d] /\ call'[d] = call[d]
          BY <2>3, <3>1, <3>2, <4>2
        <5>2. /\ taken[d] \in DOMAIN heap /\ heap[taken[d]].place = "gone"
              /\ At(d, "emit") /\ ~Emitting(d)
          BY <3>3, <5>1 DEF BookInv
        <5> QED BY <2>2, <2>4, <5>1, <5>2 DEF At, Emitting
      <4> QED BY <4>1, <4>2
    <3> QED BY <3>2, <3>3 DEF TakenInv
  <2>6. /\ entries' = [id \in Object |-> entries'[id]]
        /\ \A id \in Object : entries'[id] # NoOrder => Placed(entries[id])'
    <3>1. entries = [id \in Object |-> entries[id]]
      BY DEF BookInv
    <3>2. /\ entries' = [id \in Object |-> entries'[id]]
          /\ \A id \in Object : entries'[id] \in {entries[id], NoOrder}
      BY <2>1, <2>2, <3>1
    <3>3. \A id \in Object : entries[id] # NoOrder => Placed(entries[id])
      BY DEF BookInv
    <3>4. ASSUME NEW id \in Object, entries'[id] # NoOrder
          PROVE  Placed(entries[id])'
      <4>1. entries'[id] = entries[id] /\ Placed(entries[id])
        BY <3>2, <3>3, <3>4
      <4>2. /\ entries[id] \in DOMAIN heap
            /\ heap[entries[id]].place \in {"resting", "gone"}
        BY <4>1 DEF Placed
      <4>3. heap'[entries[id]].place \in {"resting", "gone"}
        BY <2>1, <4>2 DEF OnlyAlters
      <4> QED BY <2>4, <4>1, <4>2, <4>3 DEF Placed
    <3> QED BY <3>2, <3>4
  <2>7. phase \in {"match", "fill"} => heap'[job] = heap[job]
    <3>1. phase \in {"match", "fill"} => job \in DOMAIN heap /\ heap[job].place = "request"
      BY DEF QueueInv, Working
    <3> QED BY <2>1, <3>1 DEF OnlyAlters
  <2>8. matched # 0 => heap'[job].version > 0
    <3>1. matched # 0 => phase \in {"match", "fill"} /\ heap[job].version > 0
      BY DEF BookInv
    <3> QED BY <2>7, <3>1
  <2>9. phase \in {"match", "fill"} /\ matched = 0 => heap'[job].version = 0
    BY <2>7 DEF BookInv
  <2>10. maker # NoOrder => Placed(maker)'
    <3>1. maker # NoOrder => Placed(maker)
      BY DEF BookInv
    <3> QED BY <2>2, <2>4, <3>1 DEF Placed
  <2>11. maker # NoOrder => heap'[job].body.type # "stop_limit"
    BY <2>7 DEF BookInv
  <2> QED BY <2>2, <2>5, <2>6, <2>8, <2>9, <2>10, <2>11 DEF BookInv, TakenInv
<1>3. CASE CancelMarks(c)
  <2> DEFINE o == taken[c]
  <2>1. /\ Begins(c) /\ taken' = [taken EXCEPT ![c] = NoOrder]
        /\ UNCHANGED <<phase, maker, matched, job, entries>>
    BY <1>3, MarkBegins
  <2>2. /\ OnlyAlters({o}) /\ heap[o].place = "gone" /\ heap'[o].place = "gone"
        /\ o \in DOMAIN heap
    BY <1>3, MarkedAlters
  <2> HIDE DEF o
  <2>3. UNCHANGED <<traded, call>> /\ \A d \in Emitter \ {c} : todo'[d] = todo[d]
    BY <2>1 DEF Begins
  <2>4. /\ \A p : Placed(p) => Placed(p)'
        /\ \A p \in DOMAIN heap : heap[p].place = "gone" => heap'[p].place = "gone"
        /\ DOMAIN heap' = DOMAIN heap
    BY <2>2 DEF OnlyAlters, Placed
  <2>5. phase \in {"match", "fill"} => heap'[job] = heap[job]
    <3>1. phase \in {"match", "fill"} => job \in DOMAIN heap /\ heap[job].place = "request"
      BY DEF QueueInv, Working
    <3> QED BY <2>2, <3>1 DEF OnlyAlters
  <2>6. TakenInv'
    <3>1. taken = [d \in Client |-> taken[d]] /\ Client \subseteq Emitter
      BY MatcherEmits DEF BookInv
    <3>2. /\ taken' = [d \in Client |-> taken'[d]]
          /\ taken'[c] = NoOrder /\ \A d \in Client \ {c} : taken'[d] = taken[d]
      BY <2>1, <3>1
    <3>3. ASSUME NEW d \in Client, taken'[d] # NoOrder
          PROVE  /\ taken'[d] \in DOMAIN heap' /\ heap'[taken'[d]].place = "gone"
                 /\ At(d, "emit")' /\ ~Emitting(d)'
      <4>1. d # c /\ taken'[d] = taken[d] /\ todo'[d] = todo[d]
        BY <2>3, <3>1, <3>2, <3>3
      <4>2. /\ taken[d] \in DOMAIN heap /\ heap[taken[d]].place = "gone"
            /\ At(d, "emit") /\ ~Emitting(d)
        BY <3>3, <4>1 DEF BookInv
      <4> QED BY <2>3, <2>4, <4>1, <4>2 DEF At, Emitting
    <3> QED BY <3>2, <3>3 DEF TakenInv
  <2> QED BY <2>1, <2>3, <2>4, <2>5, <2>6, BookKeeps
<1> QED BY <1>2, <1>3

\* the steps of processOrder do,
LEMMA BookMatch ==
  ASSUME MemoryInv, CallsInv, ObjectsInv, QueueInv, BookInv, EventsInv, PhaseInv,
         \/ TakeOrder \/ OrderDone \/ ParkStop
         \/ Chooses \/ Fills \/ MatchEnds \/ RestOrder
  PROVE  BookInv'
<1>1. \A c \in Client : c \in Emitter /\ c # Matcher
  BY MatcherEmits, PipelineAssumption
<1>2. CASE TakeOrder
  <2>1. /\ UNCHANGED <<call, todo, entries, taken, maker, matched, traded>>
        /\ phase' = "match" /\ phase = "none"
    BY <1>2 DEF TakeOrder, Take, eventVars, bookVars, PhaseInv
  <2> DEFINE j == job'
  <2>2. /\ OnlyAlters({j}) /\ heap'[j].version = 0
        /\ j \in DOMAIN heap /\ heap[j].place = "request" /\ heap'[j].place = "request"
    BY <1>2, TakeAlters DEF QueueInv
  <2> HIDE DEF j
  <2>3. maker = NoOrder /\ matched = 0
    BY <2>1 DEF BookInv
  <2>4. /\ \A p : Placed(p) => Placed(p)'
        /\ \A p \in DOMAIN heap : heap[p].place = "gone" => heap'[p].place = "gone"
        /\ DOMAIN heap' = DOMAIN heap
    BY <2>2 DEF OnlyAlters, Placed
  <2>5. TakenInv'
    BY <2>1, <2>4, TakenStays DEF Emitting
  <2> QED BY <2>1, <2>2, <2>3, <2>4, <2>5 DEF BookInv, TakenInv, j
<1>3. CASE OrderDone
  <2>1. /\ UNCHANGED <<heap, call, todo, entries, taken, maker, matched, traded>>
        /\ phase' = "none" /\ phase = "end"
    BY <1>3 DEF OrderDone, Processed, sinkVars, bookVars
  <2>2. TakenInv' /\ \A p : Placed(p) => Placed(p)'
    BY <2>1, TakenStays DEF Emitting, Placed
  <2>3. maker = NoOrder /\ matched = 0
    BY <2>1 DEF BookInv
  <2> QED BY <2>1, <2>2, <2>3 DEF BookInv, TakenInv
<1>4. CASE ParkStop
  <2>1. /\ UNCHANGED <<job, call, todo, entries, taken, maker, matched, traded>>
        /\ phase' = "end" /\ phase = "match"
    BY <1>4 DEF ParkStop, engineVars, eventVars, bookVars
  <2>2. /\ OnlyAlters({job}) /\ heap'[job].version = heap[job].version
        /\ job \in DOMAIN heap /\ heap[job].place = "request"
    BY <1>4, <2>1, ParkAlters DEF QueueInv, Working
  <2>3. /\ \A p : Placed(p) => Placed(p)'
        /\ \A p \in DOMAIN heap : heap[p].place = "gone" => heap'[p].place = "gone"
        /\ DOMAIN heap' = DOMAIN heap
    BY <2>2 DEF OnlyAlters, Placed
  <2>4. TakenInv'
    BY <2>1, <2>3, TakenStays DEF Emitting
  <2>5. heap[job].body.type = "stop_limit"
    BY <1>4 DEF ParkStop
  <2>6. maker = NoOrder
    BY <2>5 DEF BookInv
  <2>7. matched = 0 /\ traded \in Nat
    BY <2>6 DEF BookInv
  <2> QED BY <2>1, <2>2, <2>3, <2>4, <2>6, <2>7 DEF BookInv, TakenInv
<1>5. CASE Chooses
  <2>1. PICK m \in Object : ChooseMaker(m)
    BY <1>5 DEF Chooses
  <2>2. /\ UNCHANGED <<heap, job, call, todo, entries, taken, matched, traded>>
        /\ phase' = "fill" /\ phase = "match" /\ maker' = m /\ m \in Resting
        /\ heap[job].body.type # "stop_limit"
    BY <2>1 DEF ChooseMaker, engineVars, sinkVars, bookVars
  <2>3. Placed(m) /\ m # NoOrder
    BY <2>2, HeapDomain DEF Resting, Placed, NoOrder
  <2>4. TakenInv' /\ \A p : Placed(p) => Placed(p)'
    BY <2>2, TakenStays DEF Emitting, Placed
  <2>5. Placed(maker)'
    BY <2>2, <2>3 DEF Placed
  <2> QED BY <2>2, <2>3, <2>4, <2>5 DEF BookInv, TakenInv
<1>6. CASE Fills
  <2>1. PICK filled \in SUBSET {job, maker} : FillMaker(filled)
    BY <1>6 DEF Fills
  <2>2. /\ UNCHANGED <<job, call, todo, entries, taken, maker>>
        /\ phase = "fill" /\ phase' = "match"
        /\ matched' = matched + 1 /\ traded' = traded + 1
    BY <2>1 DEF FillMaker, engineVars, eventVars, bookVars
  <2>3. /\ job \in DOMAIN heap /\ DOMAIN heap' = DOMAIN heap
        /\ \A o \in DOMAIN heap :
              /\ IsObject(heap'[o])
              /\ heap'[o].version = heap[o].version + (IF o \in {job, maker} THEN 1 ELSE 0)
              /\ \/ heap'[o].place = heap[o].place
                 \/ heap[o].place \in {"resting", "gone"} /\ heap'[o].place = "gone"
    BY <2>1, FillAlters
  <2>4. /\ \A p : Placed(p) => Placed(p)'
        /\ \A p \in DOMAIN heap : heap[p].place = "gone" => heap'[p].place = "gone"
    BY <2>3 DEF Placed
  <2>5. TakenInv'
    BY <2>2, <2>3, <2>4, TakenStays DEF Emitting
  <2>9. heap'[job].body.type # "stop_limit"
    BY <2>1, <2>2, FillAlters DEF BookInv
  <2>6. heap'[job].version > 0
    <3>1. heap[job].version \in Nat /\ heap'[job].version = heap[job].version + 1
      BY <2>3 DEF ObjectsInv, IsObject
    <3> QED BY <3>1
  <2>7. matched \in Nat /\ traded \in Nat /\ matched <= traded /\ maker # NoOrder
    BY <2>2 DEF BookInv
  <2>8. matched' \in Nat /\ traded' \in Nat /\ matched' <= traded' /\ matched' # 0
    BY <2>2, <2>7
  <2> QED BY <2>2, <2>4, <2>5, <2>6, <2>7, <2>8, <2>9 DEF BookInv, TakenInv
<1>7. CASE MatchEnds
  <2>1. /\ Begins(Matcher) /\ heap' = heap /\ phase' = "rest"
        /\ maker' = NoOrder /\ matched' = 0 /\ UNCHANGED <<job, entries, taken>>
    BY <1>7, MatchBegins
  <2>2. UNCHANGED <<traded, call>> /\ \A d \in Client : Emitting(d)' => Emitting(d)
    BY <1>1, <2>1 DEF Begins, Emitting
  <2>3. TakenInv' /\ \A p : Placed(p) => Placed(p)'
    BY <2>1, <2>2, TakenStays DEF Placed
  <2>4. traded \in Nat
    BY DEF BookInv
  <2> QED BY <2>1, <2>2, <2>3, <2>4 DEF BookInv, TakenInv
<1>8. CASE RestOrder
  <2>1. /\ Begins(Matcher) /\ phase = "rest" /\ phase' = "end"
        /\ UNCHANGED <<job, taken, maker, matched>>
    BY <1>8, RestBegins
  <2>2. UNCHANGED <<traded, call>> /\ \A d \in Client : Emitting(d)' => Emitting(d)
    BY <1>1, <2>1 DEF Begins, Emitting
  <2>3. /\ OnlyAlters({job}) /\ IsObject(heap'[job])
        /\ job \in DOMAIN heap /\ heap[job].place = "request"
        /\ \/ entries' = entries
           \/ /\ entries' = [entries EXCEPT ![heap[job].id] = job]
              /\ heap'[job].place = "resting"
    BY <1>8, <2>1, RestAlters DEF QueueInv, Working
  <2>4. /\ \A p : Placed(p) => Placed(p)'
        /\ \A p \in DOMAIN heap : heap[p].place = "gone" => heap'[p].place = "gone"
        /\ DOMAIN heap' = DOMAIN heap
    BY <2>3 DEF OnlyAlters, Placed
  <2>5. TakenInv'
    BY <2>1, <2>2, <2>4, TakenStays
  <2>6. /\ entries' = [id \in Object |-> entries'[id]]
        /\ \A id \in Object : entries'[id] # NoOrder => Placed(entries[id])'
    <3>1. /\ entries = [id \in Object |-> entries[id]]
          /\ \A id \in Object : entries[id] # NoOrder => Placed(entries[id])
      BY DEF BookInv
    <3>2. /\ entries' = [id \in Object |-> entries'[id]]
          /\ \A id \in Object :
               \/ entries'[id] = entries[id]
               \/ entries'[id] = job /\ heap'[job].place = "resting"
      BY <2>3, <3>1
    <3>3. ASSUME NEW id \in Object, entries'[id] # NoOrder
          PROVE  Placed(entries[id])'
      <4>1. CASE entries'[id] = entries[id]
        <5>1. /\ entries[id] \in DOMAIN heap
              /\ heap[entries[id]].place \in {"resting", "gone"}
          BY <3>1, <3>3, <4>1 DEF Placed
        <5>2. heap'[entries[id]].place \in {"resting", "gone"}
          BY <2>3, <5>1 DEF OnlyAlters
        <5> QED BY <2>4, <4>1, <5>1, <5>2 DEF Placed
      <4>2. CASE entries'[id] = job /\ heap'[job].place = "resting"
        BY <2>3, <2>4, <4>2 DEF Placed
      <4> QED BY <3>2, <4>1, <4>2
    <3> QED BY <3>2, <3>3
  <2>7. maker = NoOrder /\ matched = 0 /\ traded \in Nat
    BY <2>1 DEF BookInv
  <2> QED BY <2>1, <2>2, <2>5, <2>6, <2>7 DEF BookInv, TakenInv
<1> QED BY <1>2, <1>3, <1>4, <1>5, <1>6, <1>7, <1>8

\* and so does every step.
LEMMA BookStep ==
  ASSUME MemoryInv, CallsInv, ObjectsInv, QueueInv, BookInv, EventsInv, FlyingInv,
         PhaseInv, StepKind
  PROVE  BookInv'
<1>1. Client \subseteq Caller
  BY PipelineAssumption DEF PipelineCaller
<1>2. ASSUME UNCHANGED <<heap, entries, taken, maker, matched, traded, phase, job>>,
             \A c \in Client : taken[c] # NoOrder => At(c, "emit")' /\ ~Emitting(c)'
      PROVE  BookInv'
  <2>1. TakenInv' /\ \A o : Placed(o) => Placed(o)'
    BY <1>2, TakenKeeps DEF Placed
  <2> QED BY <1>2, <2>1, BookKeeps
<1>3. ASSUME NEW c \in Caller, NEW x, Added(x, c)
      PROVE  BookInv'
  <2>1. /\ UNCHANGED <<todo, entries, taken, maker, matched, traded, phase, job>>
        /\ call[c].at \in Returned
        /\ \A d \in Caller \ {c} : call'[d] = call[d]
    BY <1>3 DEF Added, CallsInv, CallsShape, bookVars
  <2>2. /\ \A o \in DOMAIN heap : heap'[o] = heap[o]
        /\ DOMAIN heap \subseteq DOMAIN heap'
    BY <1>3, AddedHeap
  <2>3. ASSUME NEW d \in Client, taken[d] # NoOrder
        PROVE  At(d, "emit")' /\ ~Emitting(d)'
    <3>1. call[d].at = "emit" /\ ~Emitting(d)
      BY <2>3 DEF BookInv, At
    <3>2. d # c
      BY <2>1, <3>1 DEF Returned
    <3> QED BY <1>1, <2>1, <3>1, <3>2 DEF At, Emitting
  <2>4. TakenInv' /\ \A o : Placed(o) => Placed(o)'
    BY <2>1, <2>2, <2>3, TakenKeeps DEF Placed
  <2>5. phase \in {"match", "fill"} => heap'[job] = heap[job]
    BY <2>2 DEF QueueInv
  <2> QED BY <2>1, <2>4, <2>5, BookKeeps
<1>4. ASSUME NEW c \in Caller, CallMoves(c) \/ CallSends(c)
      PROVE  BookInv'
  <2>1. /\ UNCHANGED <<heap, todo, entries, taken, maker, matched, traded, phase, job>>
        /\ \A d \in Caller \ {c} : call'[d] = call[d]
    BY <1>4 DEF CallMoves, CallSends, keptVars, bookVars
  <2>2. ASSUME NEW d \in Client, taken[d] # NoOrder
        PROVE  At(d, "emit")' /\ ~Emitting(d)'
    <3>1. call[d].at = "emit" /\ ~Emitting(d)
      BY <2>2 DEF BookInv, At
    <3>2. d # c
      BY <1>4, <2>2, <3>1 DEF CallMoves, CallSends, At
    <3> QED BY <1>1, <2>1, <3>1, <3>2 DEF At, Emitting
  <2> QED BY <1>2, <2>1, <2>2
<1>5. CASE ProcessDies
  <2>1. /\ entries' = NoEntries /\ taken' = NoneTaken /\ phase' = "none"
        /\ maker' = NoOrder /\ matched' = 0 /\ traded' = traded
    BY <1>5 DEF ProcessDies
  <2>2. /\ entries' = [id \in Object |-> entries'[id]]
        /\ \A id \in Object : entries'[id] = NoOrder
        /\ taken' = [c \in Client |-> taken'[c]]
        /\ \A c \in Client : taken'[c] = NoOrder
    BY <2>1 DEF NoEntries, NoneTaken
  <2>3. traded \in Nat
    BY DEF BookInv
  <2> QED BY <2>1, <2>2, <2>3 DEF BookInv
<1>6. ASSUME NEW c \in Client, CancelTakes(c) \/ CancelMarks(c)
      PROVE  BookInv'
  BY <1>6, BookCancel
<1>7. CASE \/ TakeOrder \/ OrderDone \/ ParkStop
           \/ Chooses \/ Fills \/ MatchEnds \/ RestOrder
  BY <1>7, BookMatch
<1>8. ASSUME UNCHANGED <<callSide, call>>, \A c \in Client : Emitting(c)' => Emitting(c)
      PROVE  BookInv'
  <2>1. \A c \in Client : taken[c] # NoOrder => At(c, "emit")' /\ ~Emitting(c)'
    BY <1>8 DEF BookInv, At
  <2> QED BY <1>2, <1>8, <2>1 DEF callSide
<1>9. CASE SinkStep
  <2>1. UNCHANGED <<callSide, call>> /\ Client \subseteq Emitter
    BY <1>9, EventFrame, MatcherEmits DEF callSide
  <2>2. ASSUME NEW e \in Emitter, Fetches(e) \/ Writes(e) \/ HandsOver(e) \/ Sends(e)
        PROVE  BookInv'
    <3>1. Handles(e) /\ (Reads(e) \/ Goes(e) \/ Ends(e))
      BY <2>2 DEF Fetches, Writes, HandsOver, Sends
    <3>2. \A d \in Emitter : Emitting(d)' => Emitting(d)
      BY <3>1, HandlerKeeps
    <3> QED BY <1>8, <2>1, <3>2
  <2>3. Rests => BookInv'
    BY <1>8, <2>1 DEF Rests, Emitting
  <2>4. ASSUME NEW kind \in Kind, NEW i \in Nat, NEW written \in BOOLEAN,
               NEW confirmed \in BOOLEAN, Answers(kind, i, written, confirmed)
        PROVE  BookInv'
    <3> DEFINE e == flying[kind][i].from
    <3>1. \/ Rests
          \/ e \in Emitter /\ Handles(e) /\ Ends(e)
      BY <2>4, AttemptEnds DEF Answers
    <3> HIDE DEF e
    <3>2. ASSUME e \in Emitter /\ Handles(e) /\ Ends(e)
          PROVE  BookInv'
      <4>1. \A d \in Emitter : Emitting(d)' => Emitting(d)
        BY <3>2, HandlerKeeps
      <4> QED BY <1>8, <2>1, <4>1
    <3> QED BY <2>3, <3>1, <3>2
  <2> QED BY <1>9, <2>2, <2>3, <2>4, SinkKinds DEF TakesFrom
<1>10. CASE UNCHANGED <<keptVars, orderChan, call, job>>
  <2>1. \A c \in Client : taken[c] # NoOrder => At(c, "emit")' /\ ~Emitting(c)'
    BY <1>10 DEF BookInv, At, Emitting, keptVars
  <2> QED BY <1>2, <1>10, <2>1 DEF keptVars, bookVars
<1> QED
  BY <1>3, <1>4, <1>5, <1>6, <1>7, <1>9, <1>10 DEF StepKind

-----------------------------------------------------------------------------
(* The client library.                                                     *)

\* A sequence without its i-th element.
LEMMA RemoveElements ==
  ASSUME NEW s, IsSequence(s), NEW i \in DOMAIN s
  PROVE  LET t == RemoveAt(s, i)
         IN  /\ IsSequence(t) /\ Len(s) \in Nat /\ DOMAIN s = 1..Len(s)
             /\ DOMAIN t = 1..(Len(s) - 1)
             /\ \A j \in DOMAIN t : t[j] = s[IF j < i THEN j ELSE j + 1]
<1> DEFINE S == {s[k] : k \in DOMAIN s}
           a == SubSeq(s, 1, i - 1)
           b == SubSeq(s, i + 1, Len(s))
           t == RemoveAt(s, i)
           n == Len(s)
<1>1. n \in Nat /\ DOMAIN s = 1..n /\ i \in 1..n
  BY SequenceElim
<1>2. \A k \in 1..n : s[k] \in S
  BY <1>1
<1>3. /\ a \in Seq(S) /\ Len(a) = i - 1
      /\ \A j \in 1..(i - 1) : a[j] = s[j]
  <2> HIDE DEF S, n
  <2>1. \A k \in 1..(i - 1) : s[k] \in S
    BY <1>1, <1>2
  <2>2. /\ a \in Seq(S) /\ Len(a) = IF 1 <= i - 1 THEN (i - 1) - 1 + 1 ELSE 0
        /\ \A j \in 1..((i - 1) - 1 + 1) : a[j] = s[1 + j - 1]
    BY <1>1, <2>1, SubSeqProperties
  <2> HIDE DEF a
  <2> QED BY <1>1, <2>2
<1>4. /\ b \in Seq(S) /\ Len(b) = n - i
      /\ \A j \in 1..(n - i) : b[j] = s[i + j]
  <2> HIDE DEF S
  <2>1. \A k \in (i + 1)..n : s[k] \in S
    BY <1>1, <1>2
  <2>2. /\ b \in Seq(S) /\ Len(b) = IF i + 1 <= n THEN n - (i + 1) + 1 ELSE 0
        /\ \A j \in 1..(n - (i + 1) + 1) : b[j] = s[i + 1 + j - 1]
    BY <1>1, <2>1, SubSeqProperties
  <2> HIDE DEF b
  <2> QED BY <1>1, <2>2
<1>5. t = a \o b
  BY DEF RemoveAt
<1> HIDE DEF a, b, S, t, n
<1>6. /\ t \in Seq(S) /\ Len(t) = Len(a) + Len(b)
      /\ \A j \in 1..(Len(a) + Len(b)) : t[j] = IF j <= Len(a) THEN a[j] ELSE b[j - Len(a)]
  BY <1>3, <1>4, <1>5, ConcatProperties
<1>7. Len(t) = n - 1 /\ n - 1 \in Nat
  BY <1>1, <1>3, <1>4, <1>6
<1>8. DOMAIN t = 1..(n - 1) /\ t = [j \in 1..(n - 1) |-> t[j]]
  BY <1>6, <1>7, LenProperties
<1>9. IsSequence(t)
  BY <1>7, <1>8, SequenceIntro
<1>10. ASSUME NEW j \in 1..(n - 1)
       PROVE  t[j] = s[IF j < i THEN j ELSE j + 1]
  <2>1. t[j] = IF j <= i - 1 THEN a[j] ELSE b[j - (i - 1)]
    BY <1>1, <1>3, <1>4, <1>6, <1>10
  <2>2. CASE j < i
    BY <1>1, <1>3, <1>10, <2>1, <2>2
  <2>3. CASE ~(j < i)
    <3>1. j - (i - 1) \in 1..(n - i) /\ i + (j - (i - 1)) = j + 1 /\ ~(j <= i - 1)
      BY <1>1, <1>10, <2>3
    <3> QED BY <1>4, <2>1, <2>3, <3>1
  <2> QED BY <2>2, <2>3
<1> QED BY <1>1, <1>8, <1>9, <1>10 DEF t, n

\* The flights after a step, each with the one it was before, in their order.
Follow(kind, f) ==
  \A j \in DOMAIN flying'[kind] :
    /\ f[j] \in DOMAIN flying[kind]
    /\ IsFlight(flying'[kind][j])
    /\ flying'[kind][j].message = flying[kind][f[j]].message
    /\ flying'[kind][j].from = flying[kind][f[j]].from
    /\ \A k \in DOMAIN flying'[kind] : (j < k => f[j] < f[k]) /\ (j # k => f[j] # f[k])

\* What an attempt does to the flights of its topic.
LEMMA AttemptShape ==
  ASSUME FlyingInv, NEW kind \in Kind, NEW i \in DOMAIN flying[kind],
         NEW written, NEW confirmed, Attempt(kind, i, written, confirmed)
  PROVE  /\ flying' = [k \in Kind |-> flying'[k]] /\ IsSequence(flying'[kind])
         /\ \A k \in Kind \ {kind} : flying'[k] = flying[k]
         /\ \E f : /\ Follow(kind, f)
                   /\ \A k \in DOMAIN flying[kind] :
                        \/ \E j \in DOMAIN flying'[kind] : f[j] = k
                        \/ k = i /\ (confirmed \/ flying[kind][i].left = 1)
                   /\ confirmed \/ flying[kind][i].left = 1 =>
                        \A j \in DOMAIN flying'[kind] : f[j] # i
<1> DEFINE s == flying[kind]
           over == confirmed \/ s[i].left = 1
           t == flying'[kind]
<1>1. /\ flying = [k \in Kind |-> flying[k]] /\ IsSequence(s)
      /\ \A j \in DOMAIN s : IsFlight(s[j])
  BY DEF FlyingInv
<1> DEFINE tried == [s[i] EXCEPT !.left = s[i].left - 1]
<1>2. flying' = [flying EXCEPT ![kind] =
                   IF over THEN RemoveAt(@, i) ELSE ReplaceAt(@, i, tried)]
  BY DEF Attempt
<1>3. /\ flying' = [k \in Kind |-> flying'[k]]
      /\ \A k \in Kind \ {kind} : flying'[k] = flying[k]
      /\ t = IF over THEN RemoveAt(s, i) ELSE [s EXCEPT ![i] = tried]
  <2> HIDE DEF over, tried
  <2> QED BY <1>1, <1>2 DEF ReplaceAt
<1>4. i \in DOMAIN s /\ Len(s) \in Nat /\ DOMAIN s = 1..Len(s) /\ s = [j \in DOMAIN s |-> s[j]]
  BY <1>1, SequenceElim
<1> DEFINE g == [j \in DOMAIN t |-> IF over /\ ~(j < i) THEN j + 1 ELSE j]
<1>5. CASE over
  <2>1. /\ IsSequence(t) /\ DOMAIN t = 1..(Len(s) - 1)
        /\ \A j \in DOMAIN t : t[j] = s[IF j < i THEN j ELSE j + 1]
    BY <1>1, <1>3, <1>5, RemoveElements
  <2> HIDE DEF t, s, over
  <2>2. \A j \in DOMAIN t : g[j] \in DOMAIN s /\ t[j] = s[g[j]] /\ g[j] # i
    BY <1>4, <1>5, <2>1
  <2>3. \A j, k \in DOMAIN t : (j < k => g[j] < g[k]) /\ (j # k => g[j] # g[k])
    BY <1>4, <1>5, <2>1
  <2>4. ASSUME NEW k \in DOMAIN s, k # i
        PROVE  \E j \in DOMAIN t : g[j] = k
    <3>1. CASE k < i
      <4>1. k \in DOMAIN t /\ g[k] = k
        BY <1>4, <2>1, <2>4, <3>1
      <4> QED BY <4>1
    <3>2. CASE ~(k < i)
      <4>1. k - 1 \in DOMAIN t /\ g[k - 1] = k
        BY <1>4, <1>5, <2>1, <2>4, <3>2
      <4> QED BY <4>1
    <3> QED BY <3>1, <3>2
  <2> HIDE DEF g
  <2>5. Follow(kind, g)
    BY <1>1, <2>2, <2>3 DEF Follow, t, s
  <2>6. /\ \A k \in DOMAIN s : (\E j \in DOMAIN t : g[j] = k) \/ k = i
        /\ \A j \in DOMAIN t : g[j] # i
    BY <2>2, <2>4
  <2> QED BY <1>3, <1>5, <2>1, <2>5, <2>6 DEF t, s, over
<1>6. CASE ~over
  <2>1. t = [s EXCEPT ![i] = tried]
    BY <1>3, <1>6
  <2>2. /\ DOMAIN t = DOMAIN s /\ t = [j \in 1..Len(s) |-> t[j]]
        /\ \A j \in DOMAIN s : /\ IsFlight(t[j])
                               /\ t[j].message = s[j].message /\ t[j].from = s[j].from
    <3> HIDE DEF t, over, tried
    <3>1. DOMAIN t = DOMAIN s /\ t = [j \in 1..Len(s) |-> t[j]]
      BY <1>4, <2>1
    <3>2. \A j \in DOMAIN s \ {i} : t[j] = s[j]
      BY <1>4, <2>1
    <3>3. t[i] = [s[i] EXCEPT !.left = s[i].left - 1]
      BY <1>4, <2>1 DEF tried
    <3>4. IsFlight(s[i])
      BY <1>1
    <3> HIDE DEF s
    <3>5. t[i] = [message |-> s[i].message, left |-> s[i].left - 1, from |-> s[i].from]
      BY <3>3, <3>4 DEF IsFlight
    <3>6. IsFlight(t[i]) /\ t[i].message = s[i].message /\ t[i].from = s[i].from
      BY <3>5 DEF IsFlight
    <3> QED BY <1>1, <3>1, <3>2, <3>6 DEF s
  <2>3. IsSequence(t)
    BY <1>4, <2>2, SequenceIntro
  <2>4. \A j \in DOMAIN t : g[j] = j
    BY <1>6
  <2> HIDE DEF g, t, s, over
  <2>5. Follow(kind, g)
    BY <2>2, <2>4 DEF Follow, t, s
  <2>6. \A k \in DOMAIN s : \E j \in DOMAIN t : g[j] = k
    BY <2>2, <2>4
  <2> QED BY <1>3, <1>6, <2>3, <2>5, <2>6 DEF t, s, over
<1> QED BY <1>5, <1>6

\* A message that was right stays so.
LEMMA MessagesStay ==
  ASSUME ObjectsInv, ObjectsInv', HeapMoves, NEW m, IsMessage(m)
  PROVE  IsMessage(m)'
<1>1. ASSUME m.of # NoOrder
      PROVE  m.of \in DOMAIN heap' /\ m.version <= heap'[m.of].version
  <2>1. /\ m.of \in DOMAIN heap /\ m.version <= heap[m.of].version /\ m.version \in Nat
        /\ heap[m.of].version \in Nat
    BY <1>1 DEF IsMessage, ObjectsInv, IsObject
  <2>2. m.of \in DOMAIN heap' /\ heap[m.of].version <= heap'[m.of].version
        /\ heap'[m.of].version \in Nat
    BY <2>1 DEF HeapMoves, ObjectsInv, IsObject
  <2> QED BY <2>1, <2>2
<1> QED BY <1>1 DEF IsMessage

\* The flights of a topic stay right when nothing is added, and who waits stays.
LEMMA FlightsFollow ==
  ASSUME FlyingInv, ObjectsInv, ObjectsInv', HeapMoves, traded \in Nat,
         NEW kind \in Kind, NEW f, Follow(kind, f),
         \A j \in DOMAIN flying'[kind] :
           LET e == flying'[kind][j].from
           IN  e # Nobody /\ e \in Emitter =>
                 todo'[e] = todo[e] /\ stage'[e] = stage[e]
  PROVE  /\ \A i \in DOMAIN flying'[kind] :
              /\ IsFlight(flying'[kind][i])
              /\ flying'[kind][i].from # Nobody =>
                   Awaits(flying[kind][i].from, kind, flying[kind][i])'
         /\ \A i, j \in DOMAIN flying'[kind] :
              flying'[kind][i].from = flying'[kind][j].from
                => i = j \/ flying'[kind][i].from = Nobody
         /\ kind = "order" =>
              \A i \in DOMAIN flying'[kind] :
                IsMessage(flying[kind][i].message)' /\ flying'[kind][i].message.of # NoOrder
         /\ kind = "trade" =>
              \A i \in DOMAIN flying'[kind] : flying'[kind][i].message.of \in 1..traded'
<1>1. ASSUME NEW i \in DOMAIN flying'[kind]
      PROVE  /\ f[i] \in DOMAIN flying[kind] /\ IsFlight(flying'[kind][i])
             /\ flying'[kind][i].message = flying[kind][f[i]].message
             /\ flying'[kind][i].from = flying[kind][f[i]].from
  BY DEF Follow
<1>2. ASSUME NEW i \in DOMAIN flying'[kind], flying'[kind][i].from # Nobody
      PROVE  Awaits(flying[kind][i].from, kind, flying[kind][i])'
  <2> DEFINE e == flying'[kind][i].from
             x == [kind |-> kind, of |-> flying'[kind][i].message.of]
  <2>1. Awaits(e, kind, flying[kind][f[i]])
    BY <1>1, <1>2 DEF FlyingInv
  <2>2. /\ e \in Emitter /\ Works(e, "wait") /\ First(e) = x
    BY <1>1, <2>1 DEF Awaits
  <2>3. todo'[e] = todo[e] /\ stage'[e] = stage[e]
    BY <1>2, <2>2
  <2>4. todo'[e] # <<>> /\ stage'[e] = "wait" /\ Head(todo'[e]) = x
    BY <2>2, <2>3 DEF Works, Emitting, First
  <2> QED BY <2>2, <2>4 DEF Awaits, Works, Emitting, First
<1>3. ASSUME NEW i \in DOMAIN flying'[kind], NEW j \in DOMAIN flying'[kind],
             flying'[kind][i].from = flying'[kind][j].from
      PROVE  i = j \/ flying'[kind][i].from = Nobody
  <2>1. f[i] = f[j] \/ flying[kind][f[i]].from = Nobody
    BY <1>1, <1>3 DEF FlyingInv
  <2>2. i # j => f[i] # f[j]
    BY DEF Follow
  <2> QED BY <1>1, <2>1, <2>2
<1>4. ASSUME kind = "order", NEW i \in DOMAIN flying'[kind]
      PROVE  IsMessage(flying[kind][i].message)' /\ flying'[kind][i].message.of # NoOrder
  <2> DEFINE m == flying[kind][f[i]].message
  <2>1. IsMessage(m) /\ m.of # NoOrder /\ flying'[kind][i].message = m
    BY <1>1, <1>4 DEF FlyingInv
  <2> HIDE DEF m
  <2>2. PICK n : n = m
    OBVIOUS
  <2>3. IsMessage(n)'
    BY <2>1, <2>2, MessagesStay
  <2> QED BY <2>1, <2>2, <2>3 DEF IsMessage
<1>5. ASSUME kind = "trade", NEW i \in DOMAIN flying'[kind]
      PROVE  flying'[kind][i].message.of \in 1..traded'
  <2>1. flying'[kind][i].message.of \in 1..traded
    BY <1>1, <1>5 DEF FlyingInv
  <2> QED BY <2>1 DEF HeapMoves
<1> QED BY <1>1, <1>2, <1>3, <1>4, <1>5

\* A topic nothing happens to.
LEMMA FollowStays ==
  ASSUME FlyingInv, NEW kind \in Kind, flying'[kind] = flying[kind]
  PROVE  Follow(kind, [j \in DOMAIN flying[kind] |-> j])
BY DEF Follow, FlyingInv

\* Whoever waits for the brokers goes on doing so.
WaitersStay == \A e \in Emitter : Works(e, "wait") => todo'[e] = todo[e] /\ stage'[e] = stage[e]

\* What a step does to the channels, the library and the topics.
WiresRest == UNCHANGED <<outbox, flying, topic, overtaken>> /\ WaitersStay

LEMMA WireKinds ==
  ASSUME MemoryInv, ObjectsInv, QueueInv, BookInv, EventsInv, FlyingInv, StepKind
  PROVE  \/ ProcessDies
         \/ WiresRest
         \/ \E e \in Emitter : HandsOver(e) \/ Sends(e)
         \/ \E kind \in Kind : TakesFrom(kind)
         \/ \E kind \in Kind : \E i \in Nat, written, confirmed \in BOOLEAN :
              Answers(kind, i, written, confirmed)
         \/ UpstreamSends /\ Rests
<1>1. ASSUME UNCHANGED <<outbox, flying, topic, overtaken, todo, stage>>
      PROVE  WiresRest
  BY <1>1 DEF WiresRest, WaitersStay
<1>2. ASSUME NEW e, Begins(e)
      PROVE  WiresRest
  <2>1. /\ ~Emitting(e) /\ UNCHANGED <<stage, outbox, flying, topic, overtaken>>
        /\ \A d \in Emitter \ {e} : todo'[d] = todo[d]
    BY <1>2 DEF Begins, wireVars
  <2> QED BY <2>1 DEF WiresRest, WaitersStay, Works
<1>3. (\E c \in Caller : \E x : Added(x, c)) => WiresRest
  BY <1>1 DEF Added, wireVars
<1>4. (\E c \in Caller : CallMoves(c) \/ CallSends(c)) => WiresRest
  BY <1>1 DEF CallMoves, CallSends, keptVars, wireVars
<1>5. (\E c \in Client : CancelTakes(c)) => WiresRest
  BY <1>1 DEF CancelTakes, eventVars, diskVars
<1>6. (\E c \in Client : CancelMarks(c)) => WiresRest
  BY <1>2, MarkBegins
<1>7. TakeOrder \/ OrderDone \/ ParkStop => WiresRest
  BY <1>1 DEF TakeOrder, OrderDone, ParkStop, eventVars, diskVars, sinkVars
<1>8. Chooses \/ Fills => WiresRest
  BY <1>1 DEF Chooses, ChooseMaker, Fills, FillMaker, eventVars, diskVars, sinkVars
<1>9. MatchEnds => WiresRest
  BY <1>2, MatchBegins
<1>10. RestOrder => WiresRest
  BY <1>2, RestBegins
<1>11. UNCHANGED <<keptVars, orderChan, call, job>> => WiresRest
  BY <1>1 DEF keptVars, wireVars
<1>12. ASSUME NEW e \in Emitter, Fetches(e) \/ Writes(e)
       PROVE  WiresRest
  <2>1. /\ UNCHANGED wireVars /\ stage[e] # "wait"
        /\ \A d \in Emitter \ {e} : todo'[d] = todo[d] /\ stage'[d] = stage[d]
    BY <1>12 DEF Fetches, Writes, WriteRow, Handles
  <2> QED BY <2>1 DEF WiresRest, WaitersStay, Works, wireVars
<1>13. CASE SinkStep
  <2>1. \/ \E e \in Emitter : Fetches(e) \/ Writes(e) \/ HandsOver(e) \/ Sends(e)
        \/ \E kind \in Kind : TakesFrom(kind)
        \/ \E kind \in Kind : \E i \in Nat, written, confirmed \in BOOLEAN :
             Answers(kind, i, written, confirmed)
        \/ UpstreamSends /\ Rests
    BY <1>13, SinkKinds
  <2>2. CASE \E e \in Emitter : Fetches(e) \/ Writes(e) \/ HandsOver(e) \/ Sends(e)
    BY <1>12, <2>2
  <2> QED BY <2>1, <2>2
<1> QED
  BY <1>3, <1>4, <1>5, <1>6, <1>7, <1>8, <1>9, <1>10, <1>11, <1>13 DEF StepKind

\* The message an emitter has built, and the one the producer builds.
LEMMA CopyIsMessage ==
  ASSUME MemoryInv, ObjectsInv, EventsInv, NEW e \in Emitter, Works(e, "send")
  PROVE  /\ deploy.producer = "sync"
         /\ copy[e].of = First(e).of
         /\ \/ First(e) \in Trades
            \/ /\ First(e) \in Updates
               /\ IsMessage(copy[e]) /\ copy[e].of # NoOrder
<1>1. EmitterInv(e) /\ First(e) \in Updates \cup Trades /\ stage[e] = "send"
  BY FirstIsEvent DEF EventsInv, Works
<1>2. deploy.producer = "sync" /\ CopyInv(e)
  BY <1>1 DEF EmitterInv
<1>3. ASSUME First(e) \in Updates
      PROVE  IsMessage(copy[e]) /\ copy[e].of # NoOrder
  <2> DEFINE of == First(e).of
             m == copy[e]
  <2>1. of \in DOMAIN heap
    BY <1>3, EventKinds
  <2>2. /\ m.of = of /\ m.id = heap[of].id
        /\ m.status \in Statuses /\ m.version \in 0..heap[of].version
    BY <1>2, <1>3 DEF CopyInv
  <2>3. heap[of].id \in 0..MaxObjects /\ heap[of].version \in Nat /\ of # NoOrder
    BY <2>1, HeapDomain DEF ObjectsInv, IsObject, NoOrder
  <2> HIDE DEF of, m
  <2>4. IsMessage(m) /\ m.of # NoOrder
    BY <2>1, <2>2, <2>3 DEF IsMessage
  <2> QED BY <2>4 DEF m
<1> QED BY <1>1, <1>2, <1>3 DEF CopyInv

LEMMA MessageBuilt ==
  ASSUME MemoryInv, ObjectsInv, OutboxInv, traded \in Nat, NEW kind \in Kind,
         ProcessMessage(kind)
  PROVE  LET of == Head(outbox[kind])
             x == [kind |-> kind, of |-> of]
         IN  /\ outbox[kind] # <<>> /\ of \in ToSet(outbox[kind])
             /\ \/ kind = "order" /\ x = OrderUpdate(of) /\ of \in DOMAIN heap /\ of # NoOrder
                   /\ IsMessage(Fields(x)) /\ Fields(x).version = heap[of].version
                \/ kind = "trade" /\ x = TradeEvent(of) /\ of \in 1..traded
             /\ Fields(x).of = of
             /\ IsSequence(outbox'[kind]) /\ Len(outbox'[kind]) <= OutboxCapacity
             /\ ToSet(outbox[kind]) = ToSet(outbox'[kind]) \cup {of}
             /\ outbox' = [k \in Kind |-> outbox'[k]]
             /\ \A k \in Kind \ {kind} : outbox'[k] = outbox[k]
<1> DEFINE of == Head(outbox[kind])
           x == [kind |-> kind, of |-> of]
           m == Fields(x)
<1>1. /\ outbox = [k \in Kind |-> outbox[k]] /\ IsSequence(outbox[kind])
      /\ Len(outbox[kind]) <= OutboxCapacity /\ outbox[kind] # <<>>
      /\ outbox' = [outbox EXCEPT ![kind] = Tail(@)]
  BY DEF OutboxInv, ProcessMessage
<1>2. /\ IsSequence(Tail(outbox[kind])) /\ Len(Tail(outbox[kind])) = Len(outbox[kind]) - 1
      /\ Len(outbox[kind]) \in Nat
      /\ ToSet(outbox[kind]) = ToSet(Tail(outbox[kind])) \cup {of}
  BY <1>1, TailElements
<1>3. outbox'[kind] = Tail(outbox[kind])
  BY <1>1
<1>4. /\ outbox' = [k \in Kind |-> outbox'[k]]
      /\ \A k \in Kind \ {kind} : outbox'[k] = outbox[k]
  BY <1>1
<1>5. Len(outbox'[kind]) <= OutboxCapacity
  BY <1>1, <1>2, <1>3, SinksAssumption
<1>6. \/ kind = "order" /\ x = OrderUpdate(of) /\ x \in Updates /\ of \in DOMAIN heap
      \/ kind = "trade" /\ x = TradeEvent(of) /\ x \in Trades /\ of \in 1..traded
  BY <1>2, EventKinds DEF OutboxInv, OrderUpdate, TradeEvent, Trades, Kind
<1>7. x.of = of
  OBVIOUS
<1> HIDE DEF of, x
<1>8. of \in ToSet(outbox[kind])
  BY <1>2
<1>9. m.of = of
  BY <1>6, <1>7, FieldsAreCurrent
<1>10. ASSUME kind = "order"
       PROVE  IsMessage(m) /\ m.version = heap[of].version /\ of # NoOrder
  <2>1. /\ m.of = of /\ m.id = heap[of].id /\ m.status \in Statuses
        /\ m.version = heap[of].version /\ of \in DOMAIN heap
    BY <1>6, <1>7, <1>10, FieldsAreCurrent
  <2>2. heap[of].id \in 0..MaxObjects /\ heap[of].version \in Nat /\ of # NoOrder
    BY <2>1, HeapDomain DEF ObjectsInv, IsObject, NoOrder
  <2> HIDE DEF m
  <2> QED BY <2>1, <2>2 DEF IsMessage
<1> HIDE DEF m
<1>11. \/ kind = "order" /\ x = OrderUpdate(of) /\ of \in DOMAIN heap /\ of # NoOrder
          /\ IsMessage(m) /\ m.version = heap[of].version
       \/ kind = "trade" /\ x = TradeEvent(of) /\ of \in 1..traded
  BY <1>6, <1>10
<1> QED BY <1>1, <1>2, <1>3, <1>4, <1>5, <1>8, <1>9, <1>11 DEF of, x, m

\* An event put into its channel.
LEMMA EventQueued ==
  ASSUME EventsInv, OutboxInv, NEW e \in Emitter, Enqueue(e),
         Len(outbox[First(e).kind]) < OutboxCapacity
  PROVE  LET kind == First(e).kind
             of == First(e).of
         IN  /\ kind \in Kind
             /\ kind = "order" => of \in DOMAIN heap
             /\ kind = "trade" => of \in 1..traded
             /\ IsSequence(outbox'[kind]) /\ Len(outbox'[kind]) <= OutboxCapacity
             /\ ToSet(outbox'[kind]) = ToSet(outbox[kind]) \cup {of}
             /\ outbox' = [k \in Kind |-> outbox'[k]]
             /\ \A k \in Kind \ {kind} : outbox'[k] = outbox[k]
<1> DEFINE kind == First(e).kind
           of == First(e).of
<1>1. /\ Emitting(e) /\ Len(outbox[kind]) < OutboxCapacity
      /\ outbox' = [outbox EXCEPT ![kind] = Append(@, of)]
  BY DEF Enqueue, Works
<1>2. First(e) \in Updates \cup Trades
  BY <1>1, FirstIsEvent
<1>3. /\ \/ kind = "order" /\ of \in DOMAIN heap
         \/ kind = "trade" /\ of \in 1..traded
      /\ kind \in Kind
  BY <1>2, EventKinds DEF Kind
<1> HIDE DEF kind, of
<1>4. outbox = [k \in Kind |-> outbox[k]] /\ IsSequence(outbox[kind])
  BY <1>3 DEF OutboxInv
<1>5. outbox'[kind] = Append(outbox[kind], of)
  BY <1>1, <1>3, <1>4
<1>6. /\ IsSequence(outbox'[kind]) /\ Len(outbox'[kind]) = Len(outbox[kind]) + 1
      /\ Len(outbox[kind]) \in Nat
      /\ ToSet(outbox'[kind]) = ToSet(outbox[kind]) \cup {of}
  BY <1>4, <1>5, AppendElements
<1>7. /\ outbox' = [k \in Kind |-> outbox'[k]]
      /\ \A k \in Kind \ {kind} : outbox'[k] = outbox[k]
  BY <1>1, <1>4
<1>8. Len(outbox'[kind]) <= OutboxCapacity
  BY <1>1, <1>6, SinksAssumption
<1> QED BY <1>3, <1>6, <1>7, <1>8 DEF kind, of

\* Every step keeps the channels.
LEMMA OutboxStep ==
  ASSUME MemoryInv, ObjectsInv, QueueInv, BookInv, EventsInv, OutboxInv, FlyingInv, StepKind
  PROVE  OutboxInv'
<1>1. HeapMoves /\ traded \in Nat
  BY ObjectsStep DEF BookInv
<1>2. DOMAIN heap \subseteq DOMAIN heap' /\ 1..traded \subseteq 1..traded'
  BY <1>1 DEF HeapMoves
<1>3. CASE UNCHANGED outbox
  BY <1>2, <1>3 DEF OutboxInv
<1>4. CASE ProcessDies
  <2>1. outbox' = [kind \in Kind |-> <<>>]
    BY <1>4 DEF ProcessDies
  <2>2. \A kind \in Kind : outbox'[kind] = <<>>
    BY <2>1
  <2> QED
    BY <2>1, <2>2, ShortSequences, SinksAssumption DEF OutboxInv, Kind
<1>5. ASSUME NEW e \in Emitter, Enqueue(e), outbox' # outbox
      PROVE  OutboxInv'
  <2> DEFINE kind == First(e).kind
             of == First(e).of
  <2>1. /\ kind \in Kind
        /\ kind = "order" => of \in DOMAIN heap
        /\ kind = "trade" => of \in 1..traded
        /\ IsSequence(outbox'[kind]) /\ Len(outbox'[kind]) <= OutboxCapacity
        /\ ToSet(outbox'[kind]) = ToSet(outbox[kind]) \cup {of}
        /\ outbox' = [k \in Kind |-> outbox'[k]]
        /\ \A k \in Kind \ {kind} : outbox'[k] = outbox[k]
    <3>1. Len(outbox[kind]) < OutboxCapacity
      BY <1>5 DEF Enqueue
    <3> QED BY <1>5, <3>1, EventQueued
  <2> HIDE DEF kind, of
  <2> QED BY <1>2, <2>1 DEF OutboxInv, Kind
<1>6. ASSUME NEW kind \in Kind, ProcessMessage(kind)
      PROVE  OutboxInv'
  <2> DEFINE of == Head(outbox[kind])
  <2>1. /\ IsSequence(outbox'[kind]) /\ Len(outbox'[kind]) <= OutboxCapacity
        /\ ToSet(outbox[kind]) = ToSet(outbox'[kind]) \cup {of}
        /\ outbox' = [k \in Kind |-> outbox'[k]]
        /\ \A k \in Kind \ {kind} : outbox'[k] = outbox[k]
    BY <1>1, <1>6, MessageBuilt
  <2> HIDE DEF of
  <2> QED BY <1>2, <2>1 DEF OutboxInv, Kind
<1>7. CASE \E e \in Emitter : HandsOver(e) \/ Sends(e)
  BY <1>3, <1>5, <1>7 DEF HandsOver, PublishNothing, Sends, SendMessage, wireVars
<1>8. CASE \E kind \in Kind : \E i \in Nat, written, confirmed \in BOOLEAN :
             Answers(kind, i, written, confirmed)
  BY <1>3, <1>8 DEF Answers, Attempt
<1>9. WiresRest \/ UpstreamSends => UNCHANGED outbox
  BY DEF WiresRest, UpstreamSends, eventVars
<1> QED BY <1>3, <1>4, <1>6, <1>7, <1>8, <1>9, WireKinds DEF TakesFrom

\* The flights of one topic are right.
FlightsAre(kind) ==
  /\ \A i \in DOMAIN flying[kind] :
       /\ IsFlight(flying[kind][i])
       /\ flying[kind][i].from # Nobody =>
            Awaits(flying[kind][i].from, kind, flying[kind][i])
  /\ \A i, j \in DOMAIN flying[kind] :
       flying[kind][i].from = flying[kind][j].from
         => i = j \/ flying[kind][i].from = Nobody
  /\ kind = "order" =>
       \A i \in DOMAIN flying[kind] :
         IsMessage(flying[kind][i].message) /\ flying[kind][i].message.of # NoOrder
  /\ kind = "trade" =>
       \A i \in DOMAIN flying[kind] : flying[kind][i].message.of \in 1..traded

LEMMA FlyingBoth ==
  ASSUME flying' = [k \in Kind |-> flying'[k]],
         \A k \in Kind : IsSequence(flying'[k]) /\ FlightsAre(k)'
  PROVE  FlyingInv'
<1>1. "order" \in Kind /\ "trade" \in Kind
  BY DEF Kind
<1> QED BY <1>1 DEF FlyingInv, FlightsAre

\* One flight more, behind the others.
Launched(kind, m, e) ==
  flying' = [flying EXCEPT ![kind] =
               Append(@, [message |-> m, left |-> Tries, from |-> e])]

LEMMA LaunchShape ==
  ASSUME FlyingInv, NEW kind \in Kind, NEW m, NEW e, Launched(kind, m, e)
  PROVE  \E n \in Nat :
           /\ flying' = [k \in Kind |-> flying'[k]] /\ IsSequence(flying'[kind])
           /\ \A k \in Kind \ {kind} : flying'[k] = flying[k]
           /\ DOMAIN flying[kind] \subseteq Nat
           /\ DOMAIN flying'[kind] = DOMAIN flying[kind] \cup {n}
           /\ \A j \in DOMAIN flying[kind] : flying'[kind][j] = flying[kind][j] /\ j < n
           /\ IsFlight(flying'[kind][n])
           /\ flying'[kind][n].message = m /\ flying'[kind][n].from = e
<1> DEFINE s == flying[kind]
           x == [message |-> m, left |-> Tries, from |-> e]
           n == Len(s) + 1
<1>1. flying = [k \in Kind |-> flying[k]] /\ IsSequence(s)
  BY DEF FlyingInv
<1>2. IsFlight(x) /\ x.message = m /\ x.from = e
  BY DEF IsFlight
<1> HIDE DEF x
<1>3. /\ flying' = [k \in Kind |-> flying'[k]]
      /\ \A k \in Kind \ {kind} : flying'[k] = flying[k]
      /\ flying'[kind] = Append(s, x)
  BY <1>1 DEF x, Launched
<1>4. /\ IsSequence(flying'[kind]) /\ Len(s) \in Nat /\ DOMAIN s = 1..Len(s)
      /\ DOMAIN flying'[kind] = 1..n
      /\ \A j \in DOMAIN s : flying'[kind][j] = s[j]
      /\ flying'[kind][n] = x
  BY <1>1, <1>3, AppendElements
<1> HIDE DEF s
<1>5. /\ DOMAIN flying'[kind] = DOMAIN s \cup {n} /\ \A j \in DOMAIN s : j < n
      /\ n \in Nat /\ DOMAIN s \subseteq Nat
  BY <1>4
<1> QED BY <1>2, <1>3, <1>4, <1>5 DEF s

\* The flights of a topic nothing happens to stay right.
LEMMA FlightsRest ==
  ASSUME FlyingInv, ObjectsInv, ObjectsInv', HeapMoves, traded \in Nat,
         NEW kind \in Kind, flying'[kind] = flying[kind],
         \A j \in DOMAIN flying[kind] :
           LET e == flying[kind][j].from
           IN  e # Nobody /\ e \in Emitter =>
                 todo'[e] = todo[e] /\ stage'[e] = stage[e]
  PROVE  FlightsAre(kind)'
<1> DEFINE f == [j \in DOMAIN flying[kind] |-> j]
<1>1. Follow(kind, f)
  BY FollowStays
<1> HIDE DEF f
<1> QED BY <1>1, FlightsFollow DEF FlightsAre

\* A new flight is right if its message is, and if who waits for it did not wait.
LEMMA FlightsLaunch ==
  ASSUME FlyingInv, ObjectsInv, ObjectsInv', HeapMoves, traded \in Nat,
         NEW kind \in Kind, NEW m, NEW e, Launched(kind, m, e),
         \A d \in Emitter \ {e} : todo'[d] = todo[d] /\ stage'[d] = stage[d],
         e # Nobody =>
           /\ e \in Emitter /\ ~Works(e, "wait")
           /\ Works(e, "wait")' /\ First(e)' = [kind |-> kind, of |-> m.of],
         kind = "order" => IsMessage(m) /\ m.of # NoOrder,
         kind = "trade" => m.of \in 1..traded
  PROVE  FlyingInv'
<1> DEFINE s == flying[kind]
           t == flying'[kind]
<1>1. PICK n \in Nat :
      /\ flying' = [k \in Kind |-> flying'[k]] /\ IsSequence(t)
      /\ \A k \in Kind \ {kind} : flying'[k] = flying[k]
      /\ DOMAIN t = DOMAIN s \cup {n}
      /\ \A j \in DOMAIN s : t[j] = s[j] /\ j < n
      /\ IsFlight(t[n]) /\ t[n].message = m /\ t[n].from = e
  BY LaunchShape
<1>2. \A k \in Kind : \A j \in DOMAIN flying[k] :
        flying[k][j].from # Nobody =>
          flying[k][j].from # e /\ Awaits(flying[k][j].from, k, flying[k][j])
  BY DEF FlyingInv, Awaits
<1>3. \A k \in Kind \ {kind} : FlightsAre(k)'
  BY <1>1, <1>2, FlightsRest
<1>4. \A k \in Kind : IsSequence(flying'[k])
  BY <1>1 DEF FlyingInv
<1>5. ASSUME NEW j \in DOMAIN s
      PROVE  /\ t[j] = s[j] /\ IsFlight(t[j])
             /\ t[j].from # Nobody => t[j].from # e /\ Awaits(flying[kind][j].from, kind, flying[kind][j])'
  <2>1. t[j] = s[j] /\ IsFlight(t[j])
    BY <1>1 DEF FlyingInv
  <2>2. ASSUME t[j].from # Nobody
        PROVE  t[j].from # e /\ Awaits(flying[kind][j].from, kind, flying[kind][j])'
    <3> DEFINE d == s[j].from
               y == [kind |-> kind, of |-> s[j].message.of]
    <3>1. d # e /\ d \in Emitter /\ Works(d, "wait") /\ First(d) = y
      BY <1>2, <2>1, <2>2 DEF Awaits
    <3>2. todo'[d] # <<>> /\ stage'[d] = "wait" /\ Head(todo'[d]) = y
      BY <3>1 DEF Works, Emitting, First
    <3> QED BY <2>1, <3>1, <3>2 DEF Awaits, Works, Emitting, First
  <2> QED BY <2>1, <2>2
<1>6. FlightsAre(kind)'
  <2>1. ASSUME NEW j \in DOMAIN t
        PROVE  /\ IsFlight(t[j])
               /\ t[j].from # Nobody => Awaits(flying[kind][j].from, kind, flying[kind][j])'
    <3>1. CASE j \in DOMAIN s
      BY <1>5, <3>1
    <3>2. CASE j = n
      BY <1>1, <3>2 DEF Awaits
    <3> QED BY <1>1, <3>1, <3>2
  <2>2. ASSUME NEW i \in DOMAIN t, NEW j \in DOMAIN t, t[i].from = t[j].from
        PROVE  i = j \/ t[i].from = Nobody
    <3>1. CASE i \in DOMAIN s /\ j \in DOMAIN s
      BY <1>1, <2>2, <3>1 DEF FlyingInv
    <3>2. CASE i = n \/ j = n
      BY <1>1, <1>5, <2>2, <3>2
    <3> QED BY <1>1, <3>1, <3>2
  <2>3. ASSUME kind = "order", NEW j \in DOMAIN t
        PROVE  IsMessage(flying[kind][j].message)' /\ t[j].message.of # NoOrder
    <3>1. PICK k : k = t[j].message
      OBVIOUS
    <3>2. IsMessage(k) /\ k.of # NoOrder
      BY <1>1, <2>3, <3>1 DEF FlyingInv
    <3>3. IsMessage(k)'
      BY <3>2, MessagesStay
    <3> QED BY <3>1, <3>2, <3>3 DEF IsMessage
  <2>4. ASSUME kind = "trade", NEW j \in DOMAIN t
        PROVE  t[j].message.of \in 1..traded'
    <3>1. t[j].message.of \in 1..traded
      BY <1>1, <2>4 DEF FlyingInv
    <3> QED BY <3>1 DEF HeapMoves
  <2> QED BY <2>1, <2>2, <2>3, <2>4 DEF FlightsAre
<1> HIDE DEF s, t
<1> QED BY <1>1, <1>3, <1>4, <1>6, FlyingBoth

\* Every step keeps the flights.
LEMMA FlyingStep ==
  ASSUME MemoryInv, ObjectsInv, QueueInv, BookInv, EventsInv, OutboxInv, FlyingInv, StepKind
  PROVE  FlyingInv'
<1>1. ObjectsInv' /\ HeapMoves /\ traded \in Nat
  BY ObjectsStep DEF BookInv
<1>2. ASSUME UNCHANGED flying, WaitersStay
      PROVE  FlyingInv'
  <2>1. \A k \in Kind : \A j \in DOMAIN flying[k] :
          flying[k][j].from # Nobody =>
            LET e == flying[k][j].from
            IN  todo'[e] = todo[e] /\ stage'[e] = stage[e]
    BY <1>2 DEF FlyingInv, Awaits, WaitersStay
  <2>2. \A k \in Kind : FlightsAre(k)'
    BY <1>1, <1>2, <2>1, FlightsRest
  <2> QED BY <1>2, <2>2, FlyingBoth DEF FlyingInv
<1>3. CASE ProcessDies
  <2>1. flying' = [kind \in Kind |-> <<>>]
    BY <1>3 DEF ProcessDies
  <2>2. \A kind \in Kind : flying'[kind] = <<>>
    BY <2>1
  <2> QED BY <2>1, <2>2, ShortSequences, FlyingBoth DEF FlightsAre
<1>4. ASSUME NEW e \in Emitter, HandsOver(e)
      PROVE  FlyingInv'
  <2>1. UNCHANGED flying /\ WaitersStay
    BY <1>4 DEF HandsOver, Handles, WaitersStay, Works
  <2> QED BY <1>2, <2>1
<1>5. ASSUME NEW e \in Emitter, Sends(e)
      PROVE  FlyingInv'
  <2> DEFINE x == First(e)
             m == copy[e]
  <2>1. /\ Works(e, "send") /\ Emitting(e) /\ stage'[e] = "wait"
        /\ Launched(x.kind, m, e)
        /\ todo'[e] = todo[e]
        /\ \A d \in Emitter \ {e} : todo'[d] = todo[d] /\ stage'[d] = stage[d]
    BY <1>5 DEF Sends, SendMessage, Launch, Launched, Handles, Goes
  <2>2. /\ m.of = x.of
        /\ x \in Trades \/ (x \in Updates /\ IsMessage(m) /\ m.of # NoOrder)
    BY <2>1, CopyIsMessage
  <2>3. /\ x.kind \in Kind
        /\ x = [kind |-> x.kind, of |-> m.of]
        /\ x.kind = "order" => IsMessage(m) /\ m.of # NoOrder
        /\ x.kind = "trade" => m.of \in 1..traded
    <3> HIDE DEF x, m
    <3> QED BY <2>2, EventKinds DEF Kind, OrderUpdate, TradeEvent
  <2>4. /\ Works(e, "wait")' /\ First(e)' = [kind |-> x.kind, of |-> m.of]
        /\ ~Works(e, "wait")
    <3>1. First(e)' = x /\ todo'[e] # <<>>
      BY <2>1 DEF First, Emitting
    <3> HIDE DEF x, m
    <3> QED BY <2>1, <2>3, <3>1 DEF Works, Emitting
  <2>7. PICK kind \in Kind : kind = x.kind
    BY <2>3
  <2>5. PICK msg : msg = m
    OBVIOUS
  <2> HIDE DEF x, m
  <2>6. /\ Launched(kind, msg, e)
        /\ First(e)' = [kind |-> kind, of |-> msg.of]
        /\ kind = "order" => IsMessage(msg) /\ msg.of # NoOrder
        /\ kind = "trade" => msg.of \in 1..traded
    BY <2>1, <2>3, <2>4, <2>5, <2>7
  <2> QED BY <1>1, <2>1, <2>4, <2>6, FlightsLaunch
<1>6. ASSUME NEW kind \in Kind, TakesFrom(kind)
      PROVE  FlyingInv'
  <2> DEFINE of == Head(outbox[kind])
             x == [kind |-> kind, of |-> of]
             m == Fields(x)
  <2>1. /\ ProcessMessage(kind) /\ UNCHANGED <<todo, stage>>
    BY <1>6 DEF TakesFrom, Rests
  <2>2. Launched(kind, m, Nobody)
    BY <2>1 DEF ProcessMessage, Launch, Launched
  <2>3. /\ m.of = of
        /\ \/ kind = "order" /\ of # NoOrder /\ IsMessage(m)
           \/ kind = "trade" /\ of \in 1..traded
    BY <1>1, <2>1, MessageBuilt
  <2> HIDE DEF m, of
  <2>4. kind = "order" => IsMessage(m) /\ m.of # NoOrder
    BY <2>3
  <2>5. kind = "trade" => m.of \in 1..traded
    BY <2>3
  <2>6. PICK msg : msg = m
    OBVIOUS
  <2>7. PICK e : e = Nobody
    OBVIOUS
  <2>8. /\ Launched(kind, msg, e)
        /\ kind = "order" => IsMessage(msg) /\ msg.of # NoOrder
        /\ kind = "trade" => msg.of \in 1..traded
    BY <2>2, <2>4, <2>5, <2>6, <2>7
  <2> QED BY <1>1, <2>1, <2>7, <2>8, FlightsLaunch
<1>7. ASSUME NEW kind \in Kind, NEW i \in Nat, NEW written \in BOOLEAN,
             NEW confirmed \in BOOLEAN, Answers(kind, i, written, confirmed)
      PROVE  FlyingInv'
  <2> DEFINE over == confirmed \/ flying[kind][i].left = 1
             e == flying[kind][i].from
  <2>1. /\ i \in DOMAIN flying[kind] /\ UNCHANGED callSide
        /\ Attempt(kind, i, written, confirmed)
    BY <1>7 DEF Answers
  <2>2. /\ flying' = [k \in Kind |-> flying'[k]] /\ IsSequence(flying'[kind])
        /\ \A k \in Kind \ {kind} : flying'[k] = flying[k]
    BY <2>1, AttemptShape
  <2>3. PICK f : /\ Follow(kind, f)
                 /\ over => \A j \in DOMAIN flying'[kind] : f[j] # i
    BY <2>1, AttemptShape
  <2>4. \/ UNCHANGED <<todo, stage>>
        \/ /\ e \in Emitter /\ e # Nobody /\ over
           /\ \A d \in Emitter \ {e} : todo'[d] = todo[d] /\ stage'[d] = stage[d]
           /\ Awaits(e, kind, flying[kind][i])
    BY <2>1, AttemptEnds DEF Rests, Handles
  <2> DEFINE Free(d) == d # Nobody /\ d \in Emitter => todo'[d] = todo[d] /\ stage'[d] = stage[d]
  <2>5. \A d : d # e \/ UNCHANGED <<todo, stage>> => Free(d)
    <3> HIDE DEF e, over
    <3> QED BY <2>4
  <2> HIDE DEF Free
  <2>6. ASSUME NEW j \in DOMAIN flying'[kind]
        PROVE  Free(flying'[kind][j].from)
    <3>1. /\ f[j] \in DOMAIN flying[kind]
          /\ flying'[kind][j].from = flying[kind][f[j]].from
      BY <2>3 DEF Follow
    <3>2. CASE UNCHANGED <<todo, stage>>
      BY <2>5, <3>2
    <3>3. CASE ~UNCHANGED <<todo, stage>>
      <4>1. f[j] # i /\ e # Nobody
        BY <2>3, <2>4, <3>3
      <4>2. flying[kind][f[j]].from # e
        BY <2>1, <3>1, <4>1 DEF FlyingInv
      <4> QED BY <2>5, <3>1, <4>2
    <3> QED BY <3>2, <3>3
  <2>7. FlightsAre(kind)'
    BY <1>1, <2>3, <2>6, FlightsFollow DEF FlightsAre, Free
  <2>8. ASSUME NEW k \in Kind \ {kind}, NEW j \in DOMAIN flying[k]
        PROVE  Free(flying[k][j].from)
    <3>1. CASE UNCHANGED <<todo, stage>>
      BY <2>5, <3>1
    <3>2. CASE ~UNCHANGED <<todo, stage>>
      <4>1. Awaits(e, kind, flying[kind][i]) /\ e # Nobody
        BY <2>4, <3>2
      <4>2. flying[k][j].from = e => Awaits(e, k, flying[k][j])
        BY <4>1 DEF FlyingInv
      <4>3. flying[k][j].from # e
        BY <4>1, <4>2 DEF Awaits
      <4> QED BY <2>5, <4>3
    <3> QED BY <3>1, <3>2
  <2>9. \A k \in Kind \ {kind} : FlightsAre(k)'
    BY <1>1, <2>2, <2>8, FlightsRest DEF Free
  <2>10. \A k \in Kind : IsSequence(flying'[k])
    BY <2>2 DEF FlyingInv
  <2> HIDE DEF e, over
  <2> QED BY <2>2, <2>7, <2>9, <2>10, FlyingBoth
<1>8. WiresRest => FlyingInv'
  BY <1>2 DEF WiresRest
<1>9. UpstreamSends /\ Rests => FlyingInv'
  BY <1>2 DEF UpstreamSends, Rests, eventVars, WaitersStay
<1> QED BY <1>3, <1>4, <1>5, <1>6, <1>7, <1>8, <1>9, WireKinds

-----------------------------------------------------------------------------
(* What the brokers hold.                                                  *)

\* The configuration stays.
LEMMA DeployStays ==
  ASSUME StepKind
  PROVE  deploy' = deploy
<1>1. \A c \in Caller : (\E x : Added(x, c)) \/ CallMoves(c) \/ CallSends(c) => deploy' = deploy
  BY DEF Added, CallMoves, CallSends, keptVars
<1>2. ProcessDies \/ (\E c \in Client : CancelTakes(c) \/ CancelMarks(c)) => deploy' = deploy
  BY DEF ProcessDies, CancelTakes, CancelMarks, mainVars
<1>3. TakeOrder \/ OrderDone \/ ParkStop \/ MatchEnds \/ RestOrder => deploy' = deploy
  BY DEF TakeOrder, OrderDone, ParkStop, MatchEnds, RestOrder, mainVars
<1>4. Chooses \/ Fills => deploy' = deploy
  BY DEF Chooses, ChooseMaker, Fills, FillMaker, mainVars
<1>5. SinkStep => deploy' = deploy
  BY EventFrame DEF callSide
<1>6. UNCHANGED <<keptVars, orderChan, call, job>> => deploy' = deploy
  BY DEF keptVars
<1> QED BY <1>1, <1>2, <1>3, <1>4, <1>5, <1>6 DEF StepKind

\* One message more, behind those of the order topic.
Receives(m) == topic'["order"] = Append(topic["order"], m)

\* It comes from the library, or from another program.
LEMMA OrderTopicGrows ==
  ASSUME MemoryInv, ObjectsInv, QueueInv, BookInv, EventsInv, FlyingInv, StepKind
  PROVE  \/ topic'["order"] = topic["order"]
         \/ \E i \in DOMAIN flying["order"], confirmed \in BOOLEAN :
              /\ Answers("order", i, TRUE, confirmed)
              /\ Receives(flying["order"][i].message)
         \/ /\ UpstreamSends /\ Rests
            /\ \E m : Receives(m) /\ m.of = NoOrder /\ IsMessage(m)
<1>1. topic = [kind \in Kind |-> topic[kind]] /\ "order" \in Kind
  BY DEF MemoryInv, TopicsAreSequences, Kind
<1>2. ASSUME UNCHANGED topic
      PROVE  topic'["order"] = topic["order"]
  BY <1>2
<1>3. ProcessDies \/ WiresRest => UNCHANGED topic
  BY DEF ProcessDies, WiresRest, diskVars
<1>4. (\E e \in Emitter : HandsOver(e) \/ Sends(e)) => UNCHANGED topic
  BY DEF HandsOver, Sends, SendMessage
<1>5. (\E kind \in Kind : TakesFrom(kind)) => UNCHANGED topic
  BY DEF TakesFrom, ProcessMessage
<1>6. ASSUME NEW kind \in Kind, NEW i \in Nat, NEW written \in BOOLEAN,
             NEW confirmed \in BOOLEAN, Answers(kind, i, written, confirmed)
      PROVE  \/ topic'["order"] = topic["order"]
             \/ /\ kind = "order" /\ written = TRUE /\ i \in DOMAIN flying["order"]
                /\ Receives(flying["order"][i].message)
  <2>1. /\ i \in DOMAIN flying[kind]
        /\ topic' = IF written
                    THEN [topic EXCEPT ![kind] = Append(@, flying[kind][i].message)]
                    ELSE topic
    BY <1>6 DEF Answers, Attempt
  <2>2. CASE written = TRUE /\ kind = "order"
    BY <1>1, <2>1, <2>2 DEF Receives
  <2>3. CASE ~(written = TRUE /\ kind = "order")
    BY <1>1, <2>1, <2>3
  <2> QED BY <2>2, <2>3
<1>7. ASSUME UpstreamSends /\ Rests
      PROVE  \E m : Receives(m) /\ m.of = NoOrder /\ IsMessage(m)
  <2> DEFINE m == [of |-> NoOrder, id |-> 0, version |-> 0,
                   status |-> "open", body |-> Head(upstream)]
  <2>1. topic' = [topic EXCEPT !["order"] = Append(@, m)]
    BY <1>7 DEF UpstreamSends
  <2>2. IsMessage(m) /\ m.of = NoOrder
    BY PipelineAssumption DEF IsMessage, Statuses
  <2> HIDE DEF m
  <2> QED BY <1>1, <2>1, <2>2 DEF Receives
<1>8. ASSUME NEW kind \in Kind, NEW i \in Nat, NEW written \in BOOLEAN,
             NEW confirmed \in BOOLEAN, Answers(kind, i, written, confirmed),
             topic'["order"] # topic["order"]
      PROVE  \E j \in DOMAIN flying["order"], sure \in BOOLEAN :
               /\ Answers("order", j, TRUE, sure)
               /\ Receives(flying["order"][j].message)
  BY <1>6, <1>8
<1> QED BY <1>2, <1>3, <1>4, <1>5, <1>7, <1>8, WireKinds

\* What a message more means for the elements of the topic.
LEMMA TopicElements ==
  ASSUME MemoryInv, NEW m, Receives(m)
  PROVE  \E n \in Nat :
           /\ DOMAIN topic["order"] \subseteq Nat
           /\ DOMAIN topic'["order"] = DOMAIN topic["order"] \cup {n}
           /\ \A i \in DOMAIN topic["order"] :
                topic'["order"][i] = topic["order"][i] /\ i < n
           /\ topic'["order"][n] = m
<1> DEFINE s == topic["order"]
           t == topic'["order"]
<1>1. IsSequence(s) /\ t = Append(s, m)
  BY DEF MemoryInv, TopicsAreSequences, Kind, Receives
<1>2. /\ Len(s) \in Nat /\ DOMAIN s = 1..Len(s) /\ DOMAIN t = 1..(Len(s) + 1)
      /\ \A i \in DOMAIN s : t[i] = s[i]
      /\ t[Len(s) + 1] = m
  BY <1>1, AppendElements
<1> HIDE DEF s, t
<1>3. /\ Len(s) + 1 \in Nat /\ DOMAIN s \subseteq Nat
      /\ DOMAIN t = DOMAIN s \cup {Len(s) + 1}
      /\ \A i \in DOMAIN s : i < Len(s) + 1
  BY <1>2
<1> QED BY <1>2, <1>3 DEF s, t

\* Every step keeps the messages right.
LEMMA TopicStep ==
  ASSUME MemoryInv, ObjectsInv, QueueInv, BookInv, EventsInv, FlyingInv, TopicInv, StepKind
  PROVE  TopicInv'
<1>1. ObjectsInv' /\ HeapMoves
  BY ObjectsStep
<1>2. CASE topic'["order"] = topic["order"]
  <2>1. ASSUME NEW i \in DOMAIN topic'["order"]
        PROVE  IsMessage(topic["order"][i])'
    <3>1. PICK m : m = topic["order"][i]
      OBVIOUS
    <3>2. IsMessage(m)'
      BY <1>1, <1>2, <2>1, <3>1, MessagesStay DEF TopicInv
    <3> QED BY <1>2, <3>1, <3>2 DEF IsMessage
  <2> QED BY <2>1 DEF TopicInv
<1>3. ASSUME NEW m, Receives(m), IsMessage(m)
      PROVE  TopicInv'
  <2>1. PICK n \in Nat :
          /\ DOMAIN topic'["order"] = DOMAIN topic["order"] \cup {n}
          /\ \A i \in DOMAIN topic["order"] : topic'["order"][i] = topic["order"][i]
          /\ topic'["order"][n] = m
    BY <1>3, TopicElements
  <2>2. ASSUME NEW i \in DOMAIN topic'["order"]
        PROVE  IsMessage(topic["order"][i])'
    <3>1. PICK k : k = topic'["order"][i]
      OBVIOUS
    <3>2. IsMessage(k)
      <4>1. CASE i \in DOMAIN topic["order"]
        BY <2>1, <3>1, <4>1 DEF TopicInv
      <4>2. CASE i = n
        BY <1>3, <2>1, <3>1, <4>2
      <4> QED BY <2>1, <2>2, <4>1, <4>2
    <3>3. IsMessage(k)'
      BY <1>1, <3>2, MessagesStay
    <3> QED BY <3>1, <3>3 DEF IsMessage
  <2> QED BY <2>2 DEF TopicInv
<1>4. \A i \in DOMAIN flying["order"] : IsMessage(flying["order"][i].message)
  BY DEF FlyingInv
<1> QED BY <1>2, <1>3, <1>4, OrderTopicGrows

\* The messages of one order, in the topic and in the library, are in order.
InOrder(o) ==
  /\ \A i, j \in DOMAIN topic["order"] :
       i < j /\ topic["order"][i].of = o /\ topic["order"][j].of = o
         => topic["order"][i].version <= topic["order"][j].version
  /\ \A i, j \in DOMAIN flying["order"] :
       i < j /\ flying["order"][i].message.of = o /\ flying["order"][j].message.of = o
         => flying["order"][i].message.version <= flying["order"][j].message.version
  /\ \A i \in DOMAIN topic["order"], j \in DOMAIN flying["order"] :
       topic["order"][i].of = o /\ flying["order"][j].message.of = o
         => topic["order"][i].version <= flying["order"][j].message.version

\* An answer keeps them so, unless it lets a message pass another.
LEMMA AnswerKeepsOrder ==
  ASSUME MemoryInv, FlyingInv, TopicInv,
         NEW i \in Nat, NEW written \in BOOLEAN, NEW confirmed \in BOOLEAN,
         Answers("order", i, written, confirmed),
         NEW o, o \notin overtaken', InOrder(o)
  PROVE  InOrder(o)'
<1> DEFINE F == flying["order"]
           G == flying'["order"]
           T == topic["order"]
           U == topic'["order"]
           over == confirmed \/ F[i].left = 1
<1>1. i \in DOMAIN F /\ Attempt("order", i, written, confirmed) /\ "order" \in Kind
  BY DEF Answers, Kind
<1>2. PICK f : /\ Follow("order", f)
               /\ over => \A j \in DOMAIN G : f[j] # i
  BY <1>1, AttemptShape
<1>3. \A j \in DOMAIN G : f[j] \in DOMAIN F /\ G[j].message = F[f[j]].message
  BY <1>2 DEF Follow
<1>4. \A j, k \in DOMAIN G : j < k => f[j] < f[k]
  BY <1>2 DEF Follow
<1>5. written = TRUE /\ F[i].message.of = o =>
        \A j \in 1..(i - 1) : F[j].message.of # o
  BY <1>1 DEF Attempt, Passes
<1>6. DOMAIN F \subseteq Nat \ {0}
  <2>1. IsSequence(F)
    BY DEF FlyingInv, Kind
  <2> QED BY <2>1, SequenceElim
<1>7. /\ \A j \in DOMAIN T : T[j].version \in Nat
      /\ \A j \in DOMAIN F : F[j].message.version \in Nat
  BY DEF TopicInv, FlyingInv, IsMessage
<1>8. ASSUME NEW j \in DOMAIN G, NEW k \in DOMAIN G, j < k,
             G[j].message.of = o, G[k].message.of = o
      PROVE  G[j].message.version <= G[k].message.version
  BY <1>3, <1>4, <1>8 DEF InOrder
<1>9. ASSUME NEW j \in DOMAIN T, NEW k \in DOMAIN G, T[j].of = o, G[k].message.of = o
      PROVE  T[j].version <= G[k].message.version
  BY <1>3, <1>9 DEF InOrder
<1>10. \/ U = T
       \/ written = TRUE /\ Receives(F[i].message)
  <2>1. topic = [kind \in Kind |-> topic[kind]]
    BY DEF MemoryInv, TopicsAreSequences
  <2>2. topic' = IF written
                   THEN [topic EXCEPT !["order"] = Append(@, F[i].message)]
                   ELSE topic
    BY <1>1 DEF Attempt
  <2> QED BY <1>1, <2>1, <2>2 DEF Receives
<1>11. CASE U = T
  BY <1>8, <1>9, <1>11 DEF InOrder
<1>12. CASE written = TRUE /\ Receives(F[i].message)
  <2> DEFINE m == F[i].message
  <2>1. PICK n \in Nat :
          /\ DOMAIN T \subseteq Nat /\ DOMAIN U = DOMAIN T \cup {n}
          /\ \A j \in DOMAIN T : U[j] = T[j] /\ j < n
          /\ U[n] = m
    BY <1>12, TopicElements
  <2>2. ASSUME NEW j \in DOMAIN U, NEW k \in DOMAIN U, j < k, U[j].of = o, U[k].of = o
        PROVE  U[j].version <= U[k].version
    <3>1. j \in DOMAIN T
      BY <2>1, <2>2
    <3>2. CASE k \in DOMAIN T
      BY <2>1, <2>2, <3>1, <3>2 DEF InOrder
    <3>3. CASE k = n
      BY <1>1, <2>1, <2>2, <3>1, <3>3 DEF InOrder
    <3> QED BY <2>1, <3>2, <3>3
  <2>3. ASSUME NEW j \in DOMAIN U, NEW k \in DOMAIN G, U[j].of = o, G[k].message.of = o
        PROVE  U[j].version <= G[k].message.version
    <3>1. CASE j \in DOMAIN T
      BY <1>9, <2>1, <2>3, <3>1
    <3>2. CASE j = n
      <4>1. m.of = o /\ U[j].version = m.version
        BY <2>1, <2>3, <3>2
      <4>2. f[k] \in DOMAIN F /\ G[k].message = F[f[k]].message
        BY <1>3
      <4>3. ~(f[k] < i)
        BY <1>1, <1>5, <1>6, <1>12, <2>3, <4>1, <4>2
      <4>4. CASE f[k] = i
        BY <1>1, <1>7, <4>1, <4>2, <4>4
      <4>5. CASE i < f[k]
        BY <1>1, <2>3, <4>1, <4>2, <4>5 DEF InOrder
      <4> QED BY <1>1, <1>6, <4>2, <4>3, <4>4, <4>5
    <3> QED BY <2>1, <3>1, <3>2
  <2> HIDE DEF m
  <2> QED BY <1>8, <2>2, <2>3 DEF InOrder
<1> QED BY <1>10, <1>11, <1>12

\* Every step keeps the updates in order that do not pass each other.
LEMMA OrderedStep ==
  ASSUME MemoryInv, ObjectsInv, QueueInv, BookInv, EventsInv, OutboxInv, FlyingInv, TopicInv,
         OrderedInv, StepKind
  PROVE  OrderedInv'
<1> SUFFICES ASSUME deploy'.producer = "async", NEW o \in DOMAIN heap' \ overtaken'
             PROVE  InOrder(o)'
  BY DEF OrderedInv, InOrder
<1>1. ObjectsInv' /\ HeapMoves /\ traded \in Nat /\ deploy.producer = "async"
  BY ObjectsStep, DeployStays DEF BookInv
<1>2. overtaken \subseteq overtaken'
  <2>1. ProcessDies \/ WiresRest => overtaken' = overtaken
    BY DEF ProcessDies, WiresRest
  <2>2. (\E e \in Emitter : HandsOver(e) \/ Sends(e)) => overtaken' = overtaken
    BY DEF HandsOver, Sends, SendMessage
  <2>3. (\E kind \in Kind : TakesFrom(kind)) => overtaken' = overtaken
    BY DEF TakesFrom, ProcessMessage
  <2>4. (\E kind \in Kind : \E i \in Nat, written, confirmed \in BOOLEAN :
          Answers(kind, i, written, confirmed)) => overtaken \subseteq overtaken'
    BY DEF Answers, Attempt
  <2>5. UpstreamSends => overtaken' = overtaken
    BY DEF UpstreamSends, eventVars
  <2> QED BY <2>1, <2>2, <2>3, <2>4, <2>5, WireKinds
<1>3. o # NoOrder
  BY HeapDomain, ObjectsStep, SequenceElim DEF NoOrder, ObjectsInv, IsObject
<1>4. InOrder(o)
  <2>1. CASE o \in DOMAIN heap
    BY <1>1, <1>2, <2>1 DEF OrderedInv, InOrder
  <2>2. CASE o \notin DOMAIN heap
    <3>1. \A i \in DOMAIN topic["order"] : topic["order"][i].of # o
      BY <1>3, <2>2 DEF TopicInv, IsMessage
    <3>2. \A i \in DOMAIN flying["order"] : flying["order"][i].message.of # o
      BY <2>2 DEF FlyingInv, IsMessage
    <3> QED BY <3>1, <3>2 DEF InOrder
  <2> QED BY <2>1, <2>2
<1>5. CASE UNCHANGED <<flying, topic>>
  BY <1>4, <1>5 DEF InOrder
<1>6. CASE ProcessDies
  <2>1. UNCHANGED topic /\ flying'["order"] = <<>>
    BY <1>6 DEF ProcessDies, diskVars, Kind
  <2> QED BY <1>4, <2>1, ShortSequences DEF InOrder
<1>7. ASSUME NEW e \in Emitter, Sends(e)
      PROVE  FALSE
  <2>1. Works(e, "send")
    BY <1>7 DEF Sends, SendMessage
  <2> QED BY <1>1, <2>1, CopyIsMessage
<1>8. ASSUME NEW kind \in Kind, TakesFrom(kind)
      PROVE  InOrder(o)'
  <2> DEFINE of == Head(outbox[kind])
             x == [kind |-> kind, of |-> of]
             m == Fields(x)
  <2>1. /\ ProcessMessage(kind) /\ UNCHANGED <<heap, topic>>
    BY <1>8 DEF TakesFrom, Rests, callSide, ProcessMessage
  <2>2. Launched(kind, m, Nobody)
    BY <2>1 DEF ProcessMessage, Launch, Launched
  <2>3. kind = "order" => m.of = of /\ m.version = heap[of].version
    BY <1>1, <2>1, MessageBuilt
  <2> HIDE DEF m, of
  <2>4. PICK n \in Nat :
          /\ \A k \in Kind \ {kind} : flying'[k] = flying[k]
          /\ DOMAIN flying[kind] \subseteq Nat
          /\ DOMAIN flying'[kind] = DOMAIN flying[kind] \cup {n}
          /\ \A j \in DOMAIN flying[kind] : flying'[kind][j] = flying[kind][j] /\ j < n
          /\ flying'[kind][n].message = m
    BY <2>2, LaunchShape
  <2>5. CASE kind # "order"
    <3>1. flying'["order"] = flying["order"]
      BY <2>4, <2>5 DEF Kind
    <3> QED BY <1>4, <2>1, <3>1 DEF InOrder
  <2>6. CASE kind = "order"
    <3> DEFINE F == flying["order"]
               G == flying'["order"]
               T == topic["order"]
    <3>1. m.of = o => /\ \A j \in DOMAIN F : F[j].message.of = o => F[j].message.version <= m.version
                      /\ \A j \in DOMAIN T : T[j].of = o => T[j].version <= m.version
      BY <1>3, <2>3, <2>6 DEF FlyingInv, TopicInv, IsMessage
    <3>2. ASSUME NEW j \in DOMAIN G, NEW k \in DOMAIN G, j < k,
                 G[j].message.of = o, G[k].message.of = o
          PROVE  G[j].message.version <= G[k].message.version
      <4>1. j \in DOMAIN F
        BY <2>4, <2>6, <3>2
      <4>2. CASE k \in DOMAIN F
        BY <1>4, <2>4, <2>6, <3>2, <4>1, <4>2 DEF InOrder
      <4>3. CASE k = n
        BY <2>4, <2>6, <3>1, <3>2, <4>1, <4>3
      <4> QED BY <2>4, <2>6, <4>2, <4>3
    <3>3. ASSUME NEW j \in DOMAIN T, NEW k \in DOMAIN G, T[j].of = o, G[k].message.of = o
          PROVE  T[j].version <= G[k].message.version
      <4>1. CASE k \in DOMAIN F
        BY <1>4, <2>4, <2>6, <3>3, <4>1 DEF InOrder
      <4>2. CASE k = n
        BY <2>4, <2>6, <3>1, <3>3, <4>2
      <4> QED BY <2>4, <2>6, <4>1, <4>2
    <3> QED BY <1>4, <2>1, <3>2, <3>3 DEF InOrder
  <2> QED BY <2>5, <2>6
<1>9. ASSUME NEW kind \in Kind, NEW i \in Nat, NEW written \in BOOLEAN,
             NEW confirmed \in BOOLEAN, Answers(kind, i, written, confirmed)
      PROVE  InOrder(o)'
  <2>1. CASE kind = "order"
    BY <1>4, <1>9, <2>1, AnswerKeepsOrder
  <2>2. CASE kind # "order"
    <3>1. flying'["order"] = flying["order"]
      BY <1>9, <2>2, AttemptShape DEF Answers, Kind
    <3>2. topic'["order"] = topic["order"]
      BY <1>9, <2>2 DEF Answers, Attempt, MemoryInv, TopicsAreSequences, Kind
    <3> QED BY <1>4, <3>1, <3>2 DEF InOrder
  <2> QED BY <2>1, <2>2
<1>10. CASE UpstreamSends /\ Rests
  <2>1. UNCHANGED flying
    BY <1>10 DEF UpstreamSends, eventVars
  <2>2. CASE topic'["order"] = topic["order"]
    BY <1>4, <2>1, <2>2 DEF InOrder
  <2>3. ASSUME NEW m, Receives(m), m.of = NoOrder
        PROVE  InOrder(o)'
    <3>1. PICK n \in Nat :
            /\ DOMAIN topic'["order"] = DOMAIN topic["order"] \cup {n}
            /\ \A i \in DOMAIN topic["order"] : topic'["order"][i] = topic["order"][i]
            /\ topic'["order"][n] = m
      BY <2>3, TopicElements
    <3> QED BY <1>3, <1>4, <2>1, <2>3, <3>1 DEF InOrder
  <2>4. topic' = [topic EXCEPT !["order"] =
                 Append(@, [of |-> NoOrder, id |-> 0, version |-> 0,
                            status |-> "open", body |-> Head(upstream)])]
    BY <1>10 DEF UpstreamSends
  <2>5. \E m : Receives(m) /\ m.of = NoOrder
    <3> DEFINE m == [of |-> NoOrder, id |-> 0, version |-> 0,
                     status |-> "open", body |-> Head(upstream)]
    <3>1. m.of = NoOrder
      OBVIOUS
    <3> HIDE DEF m
    <3>2. topic' = [topic EXCEPT !["order"] = Append(@, m)]
      BY <2>4 DEF m
    <3>3. Receives(m)
      BY <3>2 DEF Receives, MemoryInv, TopicsAreSequences, Kind
    <3> QED BY <3>1, <3>3
  <2> QED BY <2>3, <2>5
<1>11. WiresRest => UNCHANGED <<flying, topic>>
  BY DEF WiresRest
<1>12. ASSUME NEW e \in Emitter, HandsOver(e)
       PROVE  InOrder(o)'
  BY <1>5, <1>12 DEF HandsOver
<1> QED BY <1>5, <1>6, <1>7, <1>8, <1>9, <1>10, <1>11, <1>12, WireKinds

\* So the topic never goes back.
LEMMA OrderedIsForward ==
  ASSUME MemoryInv, TopicInv, OrderedInv
  PROVE  UpdatesNeverGoBack
<1> SUFFICES ASSUME deploy.producer = "async",
                    NEW i \in DOMAIN topic["order"], NEW j \in DOMAIN topic["order"], i < j,
                    topic["order"][i].of = topic["order"][j].of,
                    topic["order"][i].of \notin overtaken
             PROVE  topic["order"][i].version <= topic["order"][j].version
  BY DEF UpdatesNeverGoBack
<1> DEFINE o == topic["order"][i].of
<1>1. CASE o = NoOrder
  BY <1>1 DEF TopicInv, IsMessage
<1>2. CASE o # NoOrder
  <2>1. o \in DOMAIN heap
    BY <1>2 DEF TopicInv, IsMessage
  <2> QED BY <2>1 DEF OrderedInv
<1> QED BY <1>1, <1>2

-----------------------------------------------------------------------------
(* Who is told of what.                                                    *)

\* An event for a goroutine that had none.
NewlyTold(x) == \E e \in Emitter : ~Emitting(e) /\ x \in ToSet(todo'[e])

\* An order stays as it is, and known.
StaysTold(o) == /\ o \in DOMAIN heap /\ Told(o)
                /\ heap'[o].id = heap[o].id
                /\ heap'[o].version = heap[o].version

\* The engine's steps leave the sinks alone; what they change is announced, or
\* will be: until then it is silent, or is not known.
EngineTells ==
  /\ UNCHANGED <<rows, wireVars, missed, stage, deploy>>
  /\ raced \subseteq raced'
  /\ \A e \in Emitter : Emitting(e) => todo'[e] = todo[e]
  /\ \A o \in DOMAIN heap' : Told(o)' => NewlyTold(OrderUpdate(o)) \/ StaysTold(o)
  /\ \A t \in Known' : t \in Known \/ NewlyTold(TradeEvent(t))

\* Nothing to tell.
LEMMA QuietTells ==
  ASSUME UNCHANGED <<rows, wireVars, missed, stage, deploy, raced, todo>>,
         silent \subseteq silent',
         \A o \in DOMAIN heap' : Told(o)' => StaysTold(o),
         Known' = Known
  PROVE  EngineTells
BY DEF EngineTells

\* Orders that stay as they are stay known.
LEMMA SameIsTold ==
  ASSUME UNCHANGED silent, phase' = "rest" => phase = "rest" /\ job' = job,
         NEW o \in DOMAIN heap, Told(o)',
         heap'[o].id = heap[o].id, heap'[o].version = heap[o].version,
         heap'[o].place \in {"resting", "gone"} => heap[o].place \in {"resting", "gone"}
  PROVE  StaysTold(o)
BY DEF Told, StaysTold

\* What a cancel changes is announced by the client.
LEMMA CancelTells ==
  ASSUME MemoryInv, ObjectsInv, BookInv, EventsInv,
         NEW c \in Client, CancelTakes(c) \/ CancelMarks(c)
  PROVE  EngineTells
<1>1. CASE CancelTakes(c)
  <2>1. PICK o \in DOMAIN heap :
          /\ heap[o].place \in {"resting", "gone"}
          /\ OnlyAlters({o})
          /\ heap'[o].id = heap[o].id
          /\ heap'[o].version = heap[o].version
    BY <1>1, TakenAlters
  <2>2. UNCHANGED <<rows, wireVars, missed, stage, deploy, raced, todo, silent, phase,
                    traded, matched, job>>
    BY <1>1
    DEF CancelTakes, EnterCancel, eventVars, wireVars, diskVars, mainVars, matchVars,
        historyVars
  <2>3. ASSUME NEW p \in DOMAIN heap', Told(p)'
        PROVE  StaysTold(p)
    <3>1. p \in DOMAIN heap
      BY <2>1 DEF OnlyAlters
    <3>2. /\ heap'[p].id = heap[p].id /\ heap'[p].version = heap[p].version
          /\ heap'[p].place \in {"resting", "gone"} => heap[p].place \in {"resting", "gone"}
      BY <2>1, <3>1 DEF OnlyAlters
    <3> QED BY <2>2, <2>3, <3>1, <3>2, SameIsTold
  <2> QED BY <2>2, <2>3, QuietTells DEF Known
<1>2. CASE CancelMarks(c)
  <2> DEFINE o == taken[c]
  <2>1. /\ Begins(c)
        /\ ToSet(todo'[c]) = {OrderUpdate(o)}
        /\ silent' = silent \ {o}
        /\ raced \subseteq raced'
        /\ UNCHANGED <<phase, matched, job>>
    BY <1>2, MarkBegins
  <2>2. OnlyAlters({o})
    BY <1>2, MarkedAlters
  <2> HIDE DEF o
  <2>3. ASSUME NEW p \in DOMAIN heap', Told(p)'
        PROVE  NewlyTold(OrderUpdate(p)) \/ StaysTold(p)
    <3>1. CASE p = o
      BY <2>1, <3>1 DEF NewlyTold, Begins
    <3>2. CASE p # o
      <4>1. p \in DOMAIN heap /\ heap'[p] = heap[p]
        BY <2>2, <3>2 DEF OnlyAlters
      <4> QED BY <2>1, <2>3, <3>2, <4>1 DEF Told, StaysTold
    <3> QED BY <3>1, <3>2
  <2>4. Known' = Known
    BY <2>1 DEF Known, Begins
  <2>5. \A e \in Emitter : Emitting(e) => todo'[e] = todo[e]
    BY <2>1 DEF Begins
  <2>6. UNCHANGED <<rows, wireVars, missed, stage, deploy>>
    BY <2>1 DEF Begins
  <2> QED BY <2>1, <2>3, <2>4, <2>5, <2>6 DEF EngineTells
<1> QED BY <1>1, <1>2

\* A trade silences taker and maker; nobody is told before the match ends.
LEMMA FillTells ==
  ASSUME MemoryInv, ObjectsInv, QueueInv, BookInv, Fills
  PROVE  EngineTells
<1>1. PICK filled \in SUBSET {job, maker} : FillMaker(filled)
  BY DEF Fills
<1>2. /\ UNCHANGED <<rows, wireVars, missed, stage, deploy, raced, todo, job>>
      /\ silent' = silent \cup {job, maker}
      /\ phase' = "match" /\ matched' = matched + 1 /\ traded' = traded + 1
  BY <1>1 DEF FillMaker, engineVars, eventVars, wireVars, diskVars, mainVars
<1>3. /\ DOMAIN heap' = DOMAIN heap
      /\ \A o \in DOMAIN heap :
           /\ heap'[o].id = heap[o].id
           /\ heap'[o].version = heap[o].version + (IF o \in {job, maker} THEN 1 ELSE 0)
           /\ \/ heap'[o].place = heap[o].place
              \/ heap[o].place \in {"resting", "gone"} /\ heap'[o].place = "gone"
  BY <1>1, FillAlters
<1>4. ASSUME NEW o \in DOMAIN heap', Told(o)'
      PROVE  StaysTold(o)
  <2>1. o \in DOMAIN heap /\ o \notin silent \cup {job, maker}
    BY <1>2, <1>3, <1>4 DEF Told
  <2>2. heap[o].version \in Nat
    BY <2>1 DEF ObjectsInv, IsObject
  <2>3. heap'[o].version = heap[o].version /\ heap'[o].id = heap[o].id
    BY <1>3, <2>1, <2>2
  <2>4. heap[o].place \in {"resting", "gone"}
    BY <1>2, <1>3, <1>4, <2>1 DEF Told
  <2> QED BY <2>1, <2>3, <2>4 DEF Told, StaysTold
<1>5. Known' = Known
  <2>1. matched \in Nat /\ traded \in Nat
    BY DEF BookInv
  <2>2. traded' - matched' = traded - matched
    BY <1>2, <2>1
  <2> QED BY <2>2 DEF Known
<1> QED BY <1>2, <1>4, <1>5, QuietTells

\* The end of a match announces its trades, the taker and the last maker.
LEMMA MatchTells ==
  ASSUME MemoryInv, ObjectsInv, QueueInv, BookInv, EventsInv, MatchEnds
  PROVE  EngineTells
<1> DEFINE told == IF matched = 0 THEN {} ELSE {job, maker}
<1>1. /\ Begins(Matcher) /\ heap' = heap
      /\ ToSet(todo'[Matcher]) =
           {TradeEvent(t) : t \in (traded - matched + 1)..traded} \cup
           {OrderUpdate(o) : o \in told}
      /\ silent' = silent \ told
      /\ raced \subseteq raced'
      /\ phase = "match" /\ phase' = "rest" /\ matched' = 0
      /\ UNCHANGED job
  BY MatchBegins
<1>2. matched \in Nat /\ traded \in Nat /\ traded' = traded
  BY <1>1 DEF BookInv, Begins
<1>3. job \in told \/ heap[job].version = 0
  BY <1>1 DEF BookInv
<1> HIDE DEF told
<1>4. \A x \in ToSet(todo'[Matcher]) : NewlyTold(x)
  BY <1>1 DEF NewlyTold, Begins
<1>5. ASSUME NEW o \in DOMAIN heap', Told(o)'
      PROVE  NewlyTold(OrderUpdate(o)) \/ StaysTold(o)
  <2>1. CASE o \in told
    <3>1. OrderUpdate(o) \in ToSet(todo'[Matcher])
      BY <1>1, <2>1
    <3> QED BY <1>4, <3>1
  <2>2. CASE o \notin told
    <3>1. heap[o].place \in {"resting", "gone"}
      BY <1>1, <1>3, <1>5, <2>2 DEF Told
    <3> QED BY <1>1, <1>5, <2>2, <3>1 DEF Told, StaysTold
  <2> QED BY <2>1, <2>2
<1>6. ASSUME NEW t \in Known'
      PROVE  t \in Known \/ NewlyTold(TradeEvent(t))
  <2>1. t \in 1..traded
    BY <1>1, <1>2, <1>6 DEF Known
  <2>2. t \in Known \/ t \in (traded - matched + 1)..traded
    BY <1>2, <2>1 DEF Known
  <2>3. t \in (traded - matched + 1)..traded => TradeEvent(t) \in ToSet(todo'[Matcher])
    BY <1>1
  <2> QED BY <1>4, <2>2, <2>3
<1>7. /\ UNCHANGED <<rows, wireVars, missed, stage, deploy>>
      /\ \A e \in Emitter : Emitting(e) => todo'[e] = todo[e]
  BY <1>1 DEF Begins
<1> QED BY <1>1, <1>5, <1>6, <1>7 DEF EngineTells

\* What is left of an order is announced, unless nothing has changed.
LEMMA RestTells ==
  ASSUME MemoryInv, ObjectsInv, QueueInv, BookInv, EventsInv, RestOrder
  PROVE  EngineTells
<1>1. /\ Begins(Matcher)
      /\ phase = "rest" /\ phase' = "end"
      /\ UNCHANGED <<job, matched, historyVars>>
  BY RestBegins
<1>2. /\ OnlyAlters({job}) /\ heap'[job].id = heap[job].id
      /\ \/ /\ todo' = [todo EXCEPT ![Matcher] = <<OrderUpdate(job)>>]
            /\ heap'[job].place \in {"resting", "gone"}
         \/ /\ todo' = [todo EXCEPT ![Matcher] = <<>>]
            /\ heap'[job].version = heap[job].version
            /\ heap'[job].place \in {"gone", "vanished"}
            /\ heap'[job].place = "gone" => heap[job].version > 0
  BY RestAlters
<1>3. todo' = [todo EXCEPT ![Matcher] = <<OrderUpdate(job)>>]
        => OrderUpdate(job) \in ToSet(todo'[Matcher])
  <2>1. todo' = [todo EXCEPT ![Matcher] = <<OrderUpdate(job)>>]
          => todo'[Matcher] = <<OrderUpdate(job)>>
    BY MatcherEmits DEF EventsInv
  <2> QED BY <2>1, ShortSequences
<1>4. ASSUME NEW o \in DOMAIN heap', Told(o)'
      PROVE  NewlyTold(OrderUpdate(o)) \/ StaysTold(o)
  <2>1. o \in DOMAIN heap
    BY <1>2 DEF OnlyAlters
  <2>2. CASE o # job
    <3>1. heap'[o] = heap[o]
      BY <1>2, <2>1, <2>2 DEF OnlyAlters
    <3> QED BY <1>1, <1>4, <2>1, <3>1 DEF Told, StaysTold, historyVars
  <2>3. CASE o = job /\ todo' = [todo EXCEPT ![Matcher] = <<OrderUpdate(job)>>]
    BY <1>1, <1>3, <2>3 DEF NewlyTold, Begins
  <2>4. CASE /\ o = job /\ heap'[job].version = heap[job].version
             /\ heap'[job].place \in {"gone", "vanished"}
             /\ heap'[job].place = "gone" => heap[job].version > 0
    <3>1. heap'[job].place = "gone"
      BY <1>1, <1>4, <2>4 DEF Told
    <3> QED BY <1>1, <1>2, <1>4, <2>1, <2>4, <3>1 DEF Told, StaysTold, historyVars
  <2> QED BY <1>2, <2>2, <2>3, <2>4
<1>5. Known' = Known
  BY <1>1 DEF Known, Begins
<1>6. /\ UNCHANGED <<rows, wireVars, missed, stage, deploy>>
      /\ raced \subseteq raced'
      /\ \A e \in Emitter : Emitting(e) => todo'[e] = todo[e]
  BY <1>1 DEF Begins, historyVars
<1> QED BY <1>4, <1>5, <1>6 DEF EngineTells

\* Every step of the engine tells what it has changed, except that a process
\* dies without a word.
LEMMA EngineOrSink ==
  ASSUME MemoryInv, ObjectsInv, QueueInv, BookInv, EventsInv, StepKind
  PROVE  EngineTells \/ ProcessDies \/ SinkStep
<1>1. CASE \E c \in Client : CancelTakes(c) \/ CancelMarks(c)
  BY <1>1, CancelTells
<1>2. CASE Fills
  BY <1>2, FillTells
<1>3. CASE MatchEnds
  BY <1>3, MatchTells
<1>4. CASE RestOrder
  BY <1>4, RestTells
<1>5. ASSUME UNCHANGED <<rows, wireVars, missed, stage, deploy, raced, todo, silent>>,
             phase' = "rest" => phase = "rest" /\ job' = job,
             UNCHANGED <<traded, matched>>,
             \A o \in DOMAIN heap' :
               \/ heap'[o].place \notin {"resting", "gone"} /\ heap'[o].version = 0
               \/ heap'[o].place = "parked" /\ phase' # "rest"
               \/ /\ o \in DOMAIN heap
                  /\ heap'[o].id = heap[o].id /\ heap'[o].version = heap[o].version
                  /\ heap'[o].place = heap[o].place
      PROVE  EngineTells
  <2>1. ASSUME NEW o \in DOMAIN heap', Told(o)'
        PROVE  StaysTold(o)
    <3>1. CASE heap'[o].place \notin {"resting", "gone"} /\ heap'[o].version = 0
      BY <2>1, <3>1 DEF Told
    <3>2. CASE heap'[o].place = "parked" /\ phase' # "rest"
      BY <2>1, <3>2 DEF Told
    <3>3. CASE /\ o \in DOMAIN heap
               /\ heap'[o].id = heap[o].id /\ heap'[o].version = heap[o].version
               /\ heap'[o].place = heap[o].place
      BY <1>5, <2>1, <3>3, SameIsTold
    <3> QED BY <1>5, <3>1, <3>2, <3>3
  <2>2. Known' = Known
    BY <1>5 DEF Known
  <2> QED BY <1>5, <2>1, <2>2, QuietTells
<1>6. CASE TakeOrder
  <2>1. /\ UNCHANGED <<rows, wireVars, missed, stage, deploy, raced, todo, silent,
                       traded, matched>>
        /\ phase' = "match"
    BY <1>6 DEF TakeOrder, eventVars, wireVars, diskVars, mainVars, historyVars
  <2>2. /\ job' \in DOMAIN heap /\ Waits(job') /\ OnlyAlters({job'})
        /\ heap'[job'].version = heap[job'].version
        /\ heap'[job'].place = heap[job'].place
    BY <1>6, TakeAlters
  <2>3. PICK o : o = job'
    OBVIOUS
  <2>4. heap[o].place = "request" /\ heap[o].version = 0
    BY <2>2, <2>3 DEF QueueInv
  <2> QED BY <1>5, <2>1, <2>2, <2>3, <2>4 DEF OnlyAlters
<1>7. CASE OrderDone \/ Chooses
  <2>1. /\ UNCHANGED <<rows, wireVars, missed, stage, deploy, raced, todo, silent,
                       traded, matched, heap>>
        /\ phase' # "rest"
    BY <1>7
    DEF OrderDone, Chooses, ChooseMaker, sinkVars, wireVars, mainVars, historyVars
  <2> QED BY <1>5, <2>1
<1>8. CASE ParkStop
  <2>1. /\ UNCHANGED <<rows, wireVars, missed, stage, deploy, raced, todo, silent,
                       traded, matched>>
        /\ phase' = "end"
    BY <1>8 DEF ParkStop, eventVars, wireVars, diskVars, mainVars, historyVars
  <2>2. OnlyAlters({job}) /\ heap'[job].place = "parked"
    BY <1>8, ParkAlters
  <2> QED BY <1>5, <2>1, <2>2 DEF OnlyAlters
<1>9. ASSUME NEW c \in Caller, NEW x, Added(x, c)
      PROVE  EngineTells
  <2>1. /\ UNCHANGED <<rows, wireVars, missed, stage, deploy, todo, phase, job, traded,
                       matched, historyVars>>
        /\ x.place = "request" /\ x.version = 0
    BY <1>9 DEF Added
  <2>2. /\ DOMAIN heap' = DOMAIN heap \cup {Len(heap) + 1}
        /\ heap'[Len(heap) + 1] = x
        /\ \A o \in DOMAIN heap : heap'[o] = heap[o]
    BY <1>9, AddedHeap
  <2> QED BY <1>5, <2>1, <2>2 DEF historyVars
<1>10. ASSUME UNCHANGED <<keptVars, job>>
       PROVE  EngineTells
  BY <1>5, <1>10 DEF keptVars, historyVars
<1>11. ASSUME NEW c \in Caller, CallMoves(c) \/ CallSends(c)
       PROVE  EngineTells
  BY <1>10, <1>11 DEF CallMoves, CallSends
<1> QED
  BY <1>1, <1>2, <1>3, <1>4, <1>6, <1>7, <1>8, <1>9, <1>10, <1>11 DEF StepKind

-----------------------------------------------------------------------------
(* The tables.                                                             *)

\* What a write leaves in the tables.
LEMMA RowWritten ==
  ASSUME TablesInv, EventsInv, NEW e \in Emitter, NEW written \in BOOLEAN,
         WriteRow(e, written)
  PROVE  LET kind == First(e).kind
             key == copy[e].id
             row == [of |-> copy[e].of, version |-> copy[e].version]
         IN  /\ First(e) \in Updates \cup Trades
             /\ CopyInv(e)
             /\ rows' = [k \in Kind |-> rows'[k]]
             /\ \A k \in Kind : rows'[k] = [i \in RowKey |-> rows'[k][i]]
             /\ \A k \in Kind, i \in RowKey :
                  rows'[k][i] = IF written /\ k = kind /\ i = key THEN row ELSE rows[k][i]
             /\ missed' = [rows |-> missed'.rows, topic |-> missed.topic]
             /\ missed'.rows = IF written THEN missed.rows \ {First(e)}
                                          ELSE missed.rows \cup {First(e)}
<1> DEFINE kind == First(e).kind
           key == copy[e].id
           row == [of |-> copy[e].of, version |-> copy[e].version]
<1>1. /\ First(e) \in Updates \cup Trades /\ CopyInv(e)
  BY FirstIsEvent DEF WriteRow, Works, EventsInv, EmitterInv
<1>2. kind \in Kind
  BY <1>1, EventKinds DEF Kind
<1>3. rows' = IF written THEN [rows EXCEPT ![kind][key] = row] ELSE rows
  BY DEF WriteRow
<1>4. /\ rows = [k \in Kind |-> rows[k]]
      /\ \A k \in Kind : rows[k] = [i \in RowKey |-> rows[k][i]]
  BY DEF TablesInv
<1>5. missed' = [missed EXCEPT !["rows"] = IF written THEN @ \ {First(e)}
                                                     ELSE @ \cup {First(e)}]
  BY DEF WriteRow, Tells
<1>6. /\ missed' = [rows |-> missed'.rows, topic |-> missed.topic]
      /\ missed'.rows = IF written THEN missed.rows \ {First(e)}
                                   ELSE missed.rows \cup {First(e)}
  <2> DEFINE r == missed.rows
             t == missed.topic
  <2>1. missed = [rows |-> r, topic |-> t]
    BY DEF TablesInv
  <2> HIDE DEF r, t
  <2> QED BY <1>5, <2>1
<1> HIDE DEF kind, key, row
<1>7. CASE written
  <2> DEFINE table == [rows[kind] EXCEPT ![key] = row]
  <2>1. rows' = [rows EXCEPT ![kind] = table]
    BY <1>3, <1>7
  <2>2. /\ table = [i \in RowKey |-> table[i]]
        /\ \A i \in RowKey : table[i] = IF i = key THEN row ELSE rows[kind][i]
    BY <1>2, <1>4
  <2> HIDE DEF table
  <2>3. /\ rows' = [k \in Kind |-> rows'[k]]
        /\ \A k \in Kind : rows'[k] = IF k = kind THEN table ELSE rows[k]
    BY <1>2, <1>4, <2>1
  <2>4. /\ \A k \in Kind : rows'[k] = [i \in RowKey |-> rows'[k][i]]
        /\ \A k \in Kind, i \in RowKey :
             rows'[k][i] = IF written /\ k = kind /\ i = key THEN row ELSE rows[k][i]
    BY <1>4, <1>7, <2>2, <2>3
  <2> QED BY <1>1, <1>6, <2>3, <2>4 DEF kind, key, row
<1>8. CASE ~written
  <2>1. rows' = rows
    BY <1>3, <1>8
  <2> QED BY <1>1, <1>4, <1>6, <1>8, <2>1 DEF kind, key, row
<1> QED BY <1>7, <1>8

\* Who records what a sink missed of the topics.
LEMMA TopicMissed ==
  ASSUME TablesInv, NEW x, NEW reached \in BOOLEAN, Tells("topic", x, reached)
  PROVE  /\ missed' = [rows |-> missed.rows, topic |-> missed'.topic]
         /\ missed'.topic = IF reached THEN missed.topic \ {x} ELSE missed.topic \cup {x}
<1> DEFINE r == missed.rows
           t == missed.topic
<1>1. missed = [rows |-> r, topic |-> t]
  BY DEF TablesInv
<1>2. missed' = [missed EXCEPT !["topic"] = IF reached THEN @ \ {x} ELSE @ \cup {x}]
  BY DEF Tells
<1> HIDE DEF r, t
<1>3. missed' = [rows |-> r, topic |-> IF reached THEN t \ {x} ELSE t \cup {x}]
  BY <1>1, <1>2
<1> QED BY <1>3 DEF r, t

\* What a death adds to it.
LEMMA DeathMissed ==
  ASSUME ProcessDies
  PROVE  /\ missed' = [rows |-> missed'.rows, topic |-> missed'.topic]
         /\ missed'.rows = missed.rows \cup Unhandled
         /\ missed'.topic = missed.topic \cup Unhandled \cup Unsent
         /\ UNCHANGED <<rows, topic, traded>>
BY DEF ProcessDies, diskVars

\* An emitter goes on with its first event, without writing a row.
Advances(e) ==
  /\ Handles(e)
  /\ \/ stage[e] = "save" /\ Reads(e) /\ stage'[e] = "write"
     \/ stage[e] = "publish" /\ Reads(e) /\ stage'[e] = "send"
     \/ stage[e] \in {"publish", "wait"} /\ Ends(e)
     \/ stage[e] = "send" /\ Goes(e)

\* The table is left alone.
LeavesRows == UNCHANGED rows /\ missed' = [rows |-> missed.rows, topic |-> missed'.topic]

\* Only writing a row changes the tables, or says that one is missing.
LEMMA SinkTables ==
  ASSUME TablesInv, EventsInv, FlyingInv, SinkStep
  PROVE  \/ \E e \in Emitter : Writes(e)
         \/ LeavesRows /\ (Rests \/ \E e \in Emitter : Advances(e))
<1>0. missed = [rows |-> missed.rows, topic |-> missed.topic]
  BY DEF TablesInv
<1>1. ASSUME NEW x, NEW reached \in BOOLEAN, Tells("topic", x, reached), UNCHANGED rows
      PROVE  LeavesRows
  BY <1>1, TopicMissed DEF LeavesRows
<1>2. ASSUME NEW e \in Emitter, Fetches(e)
      PROVE  LeavesRows /\ Advances(e)
  BY <1>0, <1>2 DEF Fetches, LeavesRows, Advances
<1>3. ASSUME NEW e \in Emitter, HandsOver(e)
      PROVE  LeavesRows /\ Advances(e)
  <2> DEFINE room == Len(outbox[First(e).kind]) < OutboxCapacity
  <2>1. Tells("topic", First(e), FALSE) \/ Tells("topic", First(e), room)
    BY <1>3 DEF HandsOver, PublishNothing, Enqueue
  <2>2. room \in BOOLEAN /\ UNCHANGED rows
    BY <1>3 DEF HandsOver
  <2> HIDE DEF room
  <2>3. LeavesRows
    BY <1>1, <2>1, <2>2
  <2> QED BY <1>3, <2>3 DEF HandsOver, Advances
<1>4. ASSUME NEW e \in Emitter, Sends(e)
      PROVE  LeavesRows /\ Advances(e)
  <2>1. Tells("topic", First(e), TRUE) /\ UNCHANGED rows
    BY <1>4 DEF Sends, SendMessage, Launch
  <2>2. LeavesRows
    BY <1>1, <2>1
  <2> QED BY <1>4, <2>2 DEF Sends, Advances
<1>5. ASSUME NEW kind \in Kind, TakesFrom(kind)
      PROVE  LeavesRows /\ Rests
  <2>1. Tells("topic", [kind |-> kind, of |-> Head(outbox[kind])], TRUE) /\ UNCHANGED rows
    BY <1>5 DEF TakesFrom, ProcessMessage, Launch
  <2> QED BY <1>1, <1>5, <2>1 DEF TakesFrom
<1>6. ASSUME NEW kind \in Kind, NEW i \in Nat, NEW written \in BOOLEAN,
             NEW confirmed \in BOOLEAN, Answers(kind, i, written, confirmed)
      PROVE  LeavesRows /\ (Rests \/ \E e \in Emitter : Advances(e))
  <2>1. LeavesRows
    <3> DEFINE event == [kind |-> kind, of |-> flying[kind][i].message.of]
    <3>1. UNCHANGED rows /\ (Tells("topic", event, FALSE) \/ UNCHANGED missed)
      BY <1>6 DEF Answers, Attempt
    <3> HIDE DEF event
    <3> QED BY <1>0, <1>1, <3>1 DEF LeavesRows
  <2>2. /\ UNCHANGED callSide /\ i \in DOMAIN flying[kind]
        /\ Attempt(kind, i, written, confirmed)
    BY <1>6 DEF Answers
  <2> DEFINE e == flying[kind][i].from
  <2>3. Rests \/ (e \in Emitter /\ Handles(e) /\ stage[e] = "wait" /\ Ends(e))
    BY <2>2, AttemptEnds
  <2> HIDE DEF e
  <2> QED BY <2>1, <2>3 DEF Advances
<1>7. CASE UpstreamSends /\ Rests
  <2>1. UNCHANGED <<rows, missed>>
    BY <1>7 DEF UpstreamSends, eventVars
  <2> QED BY <1>0, <1>7, <2>1 DEF LeavesRows
<1>8. CASE \E e \in Emitter : Fetches(e) \/ Writes(e) \/ HandsOver(e) \/ Sends(e)
  BY <1>2, <1>3, <1>4, <1>8
<1>9. CASE \E kind \in Kind : TakesFrom(kind)
  BY <1>5, <1>9
<1>10. CASE \E kind \in Kind : \E i \in Nat, written, confirmed \in BOOLEAN :
              Answers(kind, i, written, confirmed)
  BY <1>6, <1>10
<1> QED BY <1>7, <1>8, <1>9, <1>10, SinkKinds

\* Every step keeps the tables' shape.
LEMMA TablesStep ==
  ASSUME MemoryInv, ObjectsInv, QueueInv, BookInv, EventsInv, FlyingInv, TablesInv,
         StepKind
  PROVE  TablesInv'
<1> DEFINE Bound == traded <= MaxTrades /\ (phase = "fill" => traded < MaxTrades)
<1>1. Bound'
  <2>0. Bound /\ traded \in Nat /\ MaxTrades \in Nat
    BY PipelineAssumption DEF TablesInv, BookInv
  <2>1. CASE UNCHANGED traded /\ (phase' = "fill" => phase = "fill")
    BY <2>0, <2>1
  <2>2. CASE Fills
    <3>1. phase = "fill" /\ phase' = "match" /\ traded' = traded + 1
      BY <2>2 DEF Fills, FillMaker
    <3> QED BY <2>0, <3>1
  <2>3. CASE Chooses
    BY <2>0, <2>3 DEF Chooses, ChooseMaker
  <2> HIDE DEF Bound
  <2>4. CASE \E c \in Client : CancelTakes(c) \/ CancelMarks(c)
    BY <2>1, <2>4 DEF CancelTakes, CancelMarks, matchVars
  <2>5. CASE \/ ProcessDies \/ TakeOrder \/ OrderDone
             \/ ParkStop \/ MatchEnds \/ RestOrder
    BY <2>1, <2>5 DEF ProcessDies, TakeOrder, OrderDone, ParkStop, MatchEnds, RestOrder
  <2>6. CASE SinkStep
    BY <2>1, <2>6, EventFrame DEF callSide
  <2>7. CASE (\E c \in Caller : \E x : Added(x, c))
    BY <2>1, <2>7 DEF Added
  <2>8. CASE (\E c \in Caller : CallMoves(c) \/ CallSends(c))
             \/ UNCHANGED <<keptVars, orderChan, call, job>>
    BY <2>1, <2>8 DEF CallMoves, CallSends, keptVars
  <2> QED BY <2>2, <2>3, <2>4, <2>5, <2>6, <2>7, <2>8 DEF StepKind
<1>2. ASSUME UNCHANGED rows, missed' = [rows |-> missed'.rows, topic |-> missed'.topic]
      PROVE  TablesInv'
  BY <1>1, <1>2 DEF TablesInv
<1> HIDE DEF Bound
<1>3. ASSUME NEW e \in Emitter, Writes(e)
      PROVE  TablesInv'
  <2>1. PICK written \in BOOLEAN : WriteRow(e, written)
    BY <1>3 DEF Writes
  <2>2. /\ rows' = [k \in Kind |-> rows'[k]]
        /\ \A k \in Kind : rows'[k] = [i \in RowKey |-> rows'[k][i]]
        /\ missed' = [rows |-> missed'.rows, topic |-> missed.topic]
    BY <2>1, RowWritten
  <2>3. missed'.topic = missed.topic
    BY <2>2
  <2> QED BY <1>1, <2>2, <2>3 DEF TablesInv, Bound
<1>4. LeavesRows => TablesInv'
  BY <1>2 DEF LeavesRows
<1>5. CASE SinkStep
  BY <1>3, <1>4, <1>5, SinkTables
<1>6. CASE ProcessDies
  BY <1>2, <1>6, DeathMissed
<1>7. CASE EngineTells
  BY <1>2, <1>7 DEF EngineTells, TablesInv
<1> QED BY <1>5, <1>6, <1>7, EngineOrSink

\* What a sink is told of has an id, which stays; a row once shared stays shared.
LEMMA ToldHasId ==
  ASSUME ObjectsInv, QueueInv, NEW o \in DOMAIN heap, Told(o)
  PROVE  /\ heap[o].id # 0 /\ heap[o].id \in RowKey
         /\ HeapMoves => (SharesRow(o) => SharesRow(o)') /\ heap'[o].id = heap[o].id
<1>1. IsObject(heap[o])
  BY DEF ObjectsInv
<1>2. heap[o].id # 0
  BY <1>1 DEF Told, IsObject, QueueInv, Working
<1>3. heap[o].id \in RowKey
  BY <1>1, <1>2, PipelineAssumption DEF IsObject
<1>4. ASSUME HeapMoves
      PROVE  heap'[o].id = heap[o].id
  BY <1>2, <1>4 DEF HeapMoves
<1>5. ASSUME HeapMoves, SharesRow(o)
      PROVE  SharesRow(o)'
  <2>1. PICK p \in DOMAIN heap \ {o} : heap[p].id = heap[o].id
    BY <1>5 DEF SharesRow
  <2>2. heap'[p].id = heap[p].id /\ heap'[o].id = heap[o].id /\ p \in DOMAIN heap'
    BY <1>2, <1>5, <2>1 DEF HeapMoves
  <2> QED BY <2>1, <2>2 DEF SharesRow
<1> QED BY <1>2, <1>3, <1>4, <1>5

\* What stays known keeps its row, or the write that is due.
LEMMA RowsFollow ==
  ASSUME ObjectsInv, QueueInv, HeapMoves, RowsInv, raced \subseteq raced',
         \A o \in DOMAIN heap' :
           Told(o)' /\ o \notin raced' /\ ~SharesRow(o)' /\ OrderUpdate(o) \notin missed'.rows =>
             \/ RowIs(o)' \/ RowPending(OrderUpdate(o))'
             \/ /\ o \in DOMAIN heap /\ Told(o) /\ OrderUpdate(o) \notin missed.rows
                /\ ~SharesRow(o) /\ RowIs(o) => RowIs(o)'
                /\ RowPending(OrderUpdate(o)) => RowPending(OrderUpdate(o))',
         \A t \in Known' :
           TradeEvent(t) \notin missed'.rows =>
             \/ rows'["trade"][t].of = t \/ RowPending(TradeEvent(t))'
             \/ /\ t \in Known /\ TradeEvent(t) \notin missed.rows
                /\ rows["trade"][t].of = t => rows'["trade"][t].of = t
                /\ RowPending(TradeEvent(t)) => RowPending(TradeEvent(t))'
  PROVE  RowsInv'
<1>1. ASSUME NEW o \in DOMAIN heap', Told(o)', o \notin raced', ~SharesRow(o)',
             OrderUpdate(o) \notin missed'.rows,
             o \in DOMAIN heap /\ Told(o) /\ OrderUpdate(o) \notin missed.rows,
             ~SharesRow(o) /\ RowIs(o) => RowIs(o)',
             RowPending(OrderUpdate(o)) => RowPending(OrderUpdate(o))'
      PROVE  RowIs(o)' \/ RowPending(OrderUpdate(o))'
  <2>1. ~SharesRow(o)
    BY <1>1, ToldHasId
  <2>2. o \notin raced
    BY <1>1
  <2> QED BY <1>1, <2>1, <2>2 DEF RowsInv
<1>2. \A o \in DOMAIN heap' :
        Told(o)' /\ o \notin raced' /\ ~SharesRow(o)' /\ OrderUpdate(o) \notin missed'.rows =>
          RowIs(o)' \/ RowPending(OrderUpdate(o))'
  BY <1>1
<1>3. \A t \in Known' :
        TradeEvent(t) \notin missed'.rows =>
          rows'["trade"][t].of = t \/ RowPending(TradeEvent(t))'
  BY DEF RowsInv
<1> QED BY <1>2, <1>3 DEF RowsInv

\* An event for a goroutine that had none is saved first.
LEMMA NewIsPending ==
  ASSUME EventsInv, UNCHANGED stage, NEW x, NewlyTold(x)
  PROVE  RowPending(x)'
<1>1. PICK e \in Emitter : ~Emitting(e) /\ x \in ToSet(todo'[e])
  BY DEF NewlyTold
<1>2. stage'[e] = "save"
  BY <1>1 DEF EventsInv, EmitterInv
<1>3. PICK i \in DOMAIN todo'[e] : todo'[e][i] = x
  BY <1>1, ElementAt
<1> QED BY <1>2, <1>3 DEF RowPending, RowDue

\* The steps of the engine.
LEMMA RowsTold ==
  ASSUME ObjectsInv, QueueInv, EventsInv, HeapMoves, RowsInv, EngineTells
  PROVE  RowsInv'
<1>1. /\ UNCHANGED <<rows, missed, stage>> /\ raced \subseteq raced'
  BY DEF EngineTells
<1>2. ASSUME NEW x, RowPending(x)
      PROVE  RowPending(x)'
  <2>0. PICK e \in Emitter : RowDue(e, x)
    BY <1>2 DEF RowPending
  <2>1. PICK i \in DOMAIN todo[e] :
               todo[e][i] = x /\ (i = 1 => stage[e] \in {"save", "write"})
    BY <2>0 DEF RowDue
  <2>2. Emitting(e)
    BY <2>1, ShortSequences DEF Emitting
  <2>3. todo'[e] = todo[e]
    BY <2>2 DEF EngineTells
  <2> QED BY <1>1, <2>1, <2>3 DEF RowPending, RowDue
<1>3. ASSUME NEW o \in DOMAIN heap', Told(o)'
      PROVE  \/ RowPending(OrderUpdate(o))'
             \/ /\ o \in DOMAIN heap /\ Told(o)
                /\ RowIs(o) => RowIs(o)'
  <2>1. CASE NewlyTold(OrderUpdate(o))
    BY <1>1, <2>1, NewIsPending
  <2>2. CASE StaysTold(o)
    BY <1>1, <2>2 DEF StaysTold, RowIs
  <2> QED BY <1>3, <2>1, <2>2 DEF EngineTells
<1>4. ASSUME NEW t \in Known'
      PROVE  RowPending(TradeEvent(t))' \/ t \in Known
  BY <1>1, <1>4, NewIsPending DEF EngineTells
<1>5. \A o : RowPending(OrderUpdate(o)) => RowPending(OrderUpdate(o))'
  BY <1>2
<1>6. \A t : RowPending(TradeEvent(t)) => RowPending(TradeEvent(t))'
  BY <1>2
<1> QED BY <1>1, <1>3, <1>4, <1>5, <1>6, RowsFollow

\* The event a goroutine is through with, or goes on with, is due a write or not;
\* the others stay.
LEMMA PendingStays ==
  ASSUME EventsInv, NEW e \in Emitter,
         Advances(e) \/ (Handles(e) /\ stage[e] = "write" /\ Goes(e)),
         NEW x, RowPending(x), Advances(e) \/ x # First(e)
  PROVE  RowPending(x)'
<1>0. PICK d \in Emitter : RowDue(d, x)
  BY DEF RowPending
<1>1. PICK i \in DOMAIN todo[d] :
             todo[d][i] = x /\ (i = 1 => stage[d] \in {"save", "write"})
  BY <1>0 DEF RowDue
<1>2. Handles(e)
  BY DEF Advances
<1>3. CASE d # e
  <2>1. todo'[d] = todo[d] /\ stage'[d] = stage[d]
    BY <1>2, <1>3 DEF Handles
  <2> QED BY <1>1, <2>1 DEF RowPending, RowDue
<1>4. ASSUME d = e
      PROVE  RowPending(x)'
  <2>1. /\ IsSequence(todo[e]) /\ todo[e] # <<>>
    BY <1>2 DEF EventsInv, EmitterInv, Handles, Emitting
  <2>2. /\ Len(todo[e]) \in Nat \ {0} /\ DOMAIN todo[e] = 1..Len(todo[e])
        /\ DOMAIN Tail(todo[e]) = 1..(Len(todo[e]) - 1)
        /\ \A j \in DOMAIN Tail(todo[e]) : Tail(todo[e])[j] = todo[e][j + 1]
        /\ First(e) = todo[e][1]
    BY <2>1, TailElements DEF First
  <2>3. CASE stage[e] \in {"publish", "wait"} /\ Ends(e)
    <3>1. todo'[e] = Tail(todo[e]) /\ stage'[e] = "save"
      BY <2>3 DEF Ends
    <3>2. i # 1
      BY <1>1, <1>4, <2>3
    <3>3. i - 1 \in DOMAIN Tail(todo[e]) /\ (i - 1) + 1 = i
      BY <1>1, <1>4, <2>2, <3>2
    <3>4. todo'[e][i - 1] = x
      BY <1>1, <1>4, <2>2, <3>1, <3>3
    <3> QED BY <3>1, <3>3, <3>4 DEF RowPending, RowDue
  <2>4. CASE /\ todo'[e] = todo[e]
             /\ stage'[e] = "write" \/ stage[e] \in {"publish", "send"} \/ x # First(e)
    <3>1. i = 1 => stage'[e] = "write"
      BY <1>1, <1>4, <2>2, <2>4
    <3> QED BY <1>1, <1>4, <2>4, <3>1 DEF RowPending, RowDue
  <2>5. Reads(e) \/ Goes(e) => todo'[e] = todo[e]
    BY DEF Reads, Goes
  <2> QED BY <2>3, <2>4, <2>5 DEF Advances
<1> QED BY <1>3, <1>4

\* A write, done or failed.
LEMMA RowsWritten ==
  ASSUME ObjectsInv, QueueInv, BookInv, EventsInv, TablesInv, HeapMoves, RowsInv,
         NEW e \in Emitter, Writes(e)
  PROVE  RowsInv'
<1>0. PICK written \in BOOLEAN : WriteRow(e, written)
  BY DEF Writes
<1> DEFINE x == First(e)
           row == [of |-> copy[e].of, version |-> copy[e].version]
<1>1. /\ x \in Updates \cup Trades
      /\ CopyInv(e)
      /\ \A k \in Kind, i \in RowKey :
           rows'[k][i] = IF written /\ k = x.kind /\ i = copy[e].id THEN row ELSE rows[k][i]
      /\ missed'.rows = IF written THEN missed.rows \ {x} ELSE missed.rows \cup {x}
  BY <1>0, RowWritten
<1>2. /\ UNCHANGED <<heap, job, phase, traded, matched, silent, raced>>
      /\ "order" \in Kind /\ "trade" \in Kind
      /\ Handles(e) /\ stage[e] = "write" /\ Goes(e)
  BY DEF Writes, Handles, callSide, Kind
<1>3. ASSUME NEW y, y \notin missed'.rows, y # x
      PROVE  /\ y \notin missed.rows
             /\ RowPending(y) => RowPending(y)'
  BY <1>1, <1>2, <1>3, PendingStays
<1>4. ASSUME NEW y, y \notin missed'.rows, y = x
      PROVE  written
  BY <1>1, <1>4
<1> HIDE DEF row
<1>5. ASSUME NEW o \in DOMAIN heap, Told(o), o \notin raced, OrderUpdate(o) = x, written
      PROVE  RowIs(o)'
  <2>1. /\ x.kind = "order" /\ x.of = o /\ x \in Updates /\ o \notin silent
    BY <1>5, EventKinds DEF Told
  <2>2. copy[e].of = o /\ copy[e].id = heap[o].id /\ copy[e].version = heap[o].version
    BY <1>1, <1>5, <2>1 DEF CopyInv
  <2>3. heap[o].id \in RowKey
    BY <1>5, ToldHasId
  <2>4. rows'["order"][heap[o].id] = row
    BY <1>1, <1>2, <1>5, <2>1, <2>2, <2>3
  <2> QED BY <1>2, <2>2, <2>4 DEF RowIs, row
<1>6. ASSUME NEW o \in DOMAIN heap, Told(o), OrderUpdate(o) # x, ~SharesRow(o), RowIs(o)
      PROVE  RowIs(o)'
  <2>1. heap[o].id \in RowKey
    BY <1>6, ToldHasId
  <2>2. ~(x.kind = "order" /\ heap[o].id = copy[e].id)
    <3> SUFFICES ASSUME x.kind = "order", heap[o].id = copy[e].id
                 PROVE  FALSE
      OBVIOUS
    <3>1. x \in Updates /\ x.of \in DOMAIN heap /\ x = OrderUpdate(x.of)
      BY <1>1, EventKinds
    <3>2. copy[e].id = heap[x.of].id /\ x.of # o
      BY <1>1, <1>6, <3>1 DEF CopyInv
    <3> QED BY <1>6, <3>1, <3>2 DEF SharesRow
  <2>3. rows'["order"][heap[o].id] = rows["order"][heap[o].id]
    BY <1>1, <1>2, <2>1, <2>2
  <2> QED BY <1>2, <1>6, <2>3 DEF RowIs
<1>7. ASSUME NEW t \in Known
      PROVE  t \in RowKey /\ t \in 1..traded
  BY <1>7, PipelineAssumption DEF TablesInv, BookInv, Known
<1>8. ASSUME NEW t \in Known, TradeEvent(t) = x, written
      PROVE  rows'["trade"][t].of = t
  <2>1. /\ x.kind = "trade" /\ x.of = t /\ x \in Trades
    BY <1>7, <1>8, EventKinds DEF Trades
  <2>2. copy[e].of = t /\ copy[e].id = t
    BY <1>1, <2>1 DEF CopyInv
  <2>3. rows'["trade"][t] = row
    BY <1>1, <1>2, <1>7, <1>8, <2>1, <2>2
  <2> QED BY <2>2, <2>3 DEF row
<1>9. ASSUME NEW t \in Known, TradeEvent(t) # x, rows["trade"][t].of = t
      PROVE  rows'["trade"][t].of = t
  <2>1. ~(x.kind = "trade" /\ t = copy[e].id)
    <3> SUFFICES ASSUME x.kind = "trade", t = copy[e].id
                 PROVE  FALSE
      OBVIOUS
    <3>1. x \in Trades /\ x = TradeEvent(x.of)
      BY <1>1, EventKinds
    <3>2. copy[e].id = x.of
      BY <1>1, <3>1 DEF CopyInv
    <3> QED BY <1>9, <3>1, <3>2
  <2>2. rows'["trade"][t] = rows["trade"][t]
    BY <1>1, <1>2, <1>7, <2>1
  <2> QED BY <1>9, <2>2
<1> HIDE DEF x
<1>10. ASSUME NEW o \in DOMAIN heap', Told(o)', o \notin raced',
              OrderUpdate(o) \notin missed'.rows
       PROVE  \/ RowIs(o)'
              \/ /\ o \in DOMAIN heap /\ Told(o) /\ OrderUpdate(o) \notin missed.rows
                 /\ ~SharesRow(o) /\ RowIs(o) => RowIs(o)'
                 /\ RowPending(OrderUpdate(o)) => RowPending(OrderUpdate(o))'
  <2>1. o \in DOMAIN heap /\ Told(o) /\ o \notin raced
    BY <1>2, <1>10 DEF Told
  <2>2. CASE OrderUpdate(o) = x
    <3>1. written
      BY <1>4, <1>10, <2>2
    <3> QED BY <1>5, <2>1, <2>2, <3>1
  <2>3. CASE OrderUpdate(o) # x
    BY <1>3, <1>6, <1>10, <2>1, <2>3
  <2> QED BY <2>2, <2>3
<1>11. ASSUME NEW t \in Known', TradeEvent(t) \notin missed'.rows
       PROVE  \/ rows'["trade"][t].of = t
              \/ /\ t \in Known /\ TradeEvent(t) \notin missed.rows
                 /\ rows["trade"][t].of = t => rows'["trade"][t].of = t
                 /\ RowPending(TradeEvent(t)) => RowPending(TradeEvent(t))'
  <2>1. t \in Known
    BY <1>2, <1>11 DEF Known
  <2>2. CASE TradeEvent(t) = x
    <3>1. written
      BY <1>4, <1>11, <2>2
    <3> QED BY <1>8, <2>1, <2>2, <3>1
  <2>3. CASE TradeEvent(t) # x
    BY <1>3, <1>9, <1>11, <2>1, <2>3
  <2> QED BY <2>2, <2>3
<1>12. raced \subseteq raced'
  BY <1>2
<1> QED BY <1>10, <1>11, <1>12, RowsFollow

\* The steps of handlers and producers that leave the tables alone.
LEMMA RowsLeft ==
  ASSUME ObjectsInv, QueueInv, HeapMoves, RowsInv, UNCHANGED callSide, LeavesRows,
         \A x : RowPending(x) => RowPending(x)'
  PROVE  RowsInv'
<1>1. /\ UNCHANGED <<heap, job, phase, traded, matched, silent, raced, rows>>
      /\ missed'.rows = missed.rows
  BY DEF callSide, LeavesRows
<1>2. \A o \in DOMAIN heap' : Told(o)' => Told(o) /\ o \in DOMAIN heap /\ (RowIs(o) => RowIs(o)')
  BY <1>1 DEF Told, RowIs
<1>3. /\ \A o : RowPending(OrderUpdate(o)) => RowPending(OrderUpdate(o))'
      /\ \A t : RowPending(TradeEvent(t)) => RowPending(TradeEvent(t))'
  OBVIOUS
<1>4. raced \subseteq raced' /\ (\A t \in Known' : t \in Known)
  BY <1>1 DEF Known
<1> QED BY <1>1, <1>2, <1>3, <1>4, RowsFollow

\* A death: what was due a write is missed, and so are the trades not announced.
LEMMA RowsDie ==
  ASSUME ObjectsInv, MemoryInv, BookInv, RowsInv, ProcessDies
  PROVE  RowsInv'
<1>1. \A o \in DOMAIN heap' : heap'[o].place = "lost"
  BY DeathAlters DEF OnlyAlters
<1>2. /\ phase' = "none" /\ matched' = 0 /\ UNCHANGED <<rows, traded>>
      /\ missed'.rows = missed.rows \cup Unhandled
  BY DeathMissed DEF ProcessDies
<1>3. \A o \in DOMAIN heap' : ~Told(o)'
  BY <1>1, <1>2 DEF Told
<1>4. ASSUME NEW x, RowPending(x)
      PROVE  x \in Unhandled
  <2>1. PICK e \in Emitter : RowDue(e, x)
    BY <1>4 DEF RowPending
  <2>2. x \in ToSet(todo[e])
    BY <2>1, ElementAt DEF RowDue
  <2> QED BY <2>2 DEF Unhandled
<1>5. ASSUME NEW t \in Known', TradeEvent(t) \notin missed'.rows
      PROVE  rows'["trade"][t].of = t
  <2>1. traded \in Nat /\ matched \in Nat
    BY DEF BookInv
  <2>2. t \in 1..traded
    BY <1>2, <1>5, <2>1 DEF Known
  <2>3. t \notin (traded - matched + 1)..traded
    <3> DEFINE untold == {TradeEvent(u) : u \in (traded - matched + 1)..traded}
               emitted == UNION {ToSet(todo[e]) : e \in Emitter}
    <3>1. TradeEvent(t) \notin Unhandled
      BY <1>2, <1>5
    <3>2. Unhandled = emitted \cup untold
      BY DEF Unhandled
    <3>3. ASSUME t \in (traded - matched + 1)..traded
          PROVE  TradeEvent(t) \in untold
      BY <3>3
    <3> HIDE DEF untold, emitted
    <3> QED BY <3>1, <3>2, <3>3
  <2>4. t \in Known
    BY <2>1, <2>2, <2>3 DEF Known
  <2> QED BY <1>2, <1>4, <1>5, <2>4 DEF RowsInv
<1> QED BY <1>3, <1>5 DEF RowsInv

\* Every step keeps the tables current.
LEMMA RowsStep ==
  ASSUME MemoryInv, ObjectsInv, QueueInv, BookInv, EventsInv, FlyingInv, TablesInv,
         RowsInv, StepKind
  PROVE  RowsInv'
<1>1. HeapMoves
  BY ObjectsStep
<1>2. CASE \E e \in Emitter : Writes(e)
  BY <1>1, <1>2, RowsWritten
<1>3. ASSUME LeavesRows, UNCHANGED callSide, Rests \/ \E e \in Emitter : Advances(e)
      PROVE  RowsInv'
  <2>1. ASSUME NEW x, RowPending(x)
        PROVE  RowPending(x)'
    <3>1. CASE Rests
      BY <2>1, <3>1 DEF Rests, RowPending, RowDue
    <3>2. CASE \E e \in Emitter : Advances(e)
      BY <2>1, <3>2, PendingStays
    <3> QED BY <1>3, <3>1, <3>2
  <2> QED BY <1>1, <1>3, <2>1, RowsLeft
<1>4. CASE SinkStep
  BY <1>2, <1>3, <1>4, SinkTables, EventFrame
<1>5. CASE ProcessDies
  BY <1>5, RowsDie
<1>6. CASE EngineTells
  BY <1>1, <1>6, RowsTold
<1> QED BY <1>4, <1>5, <1>6, EngineOrSink

-----------------------------------------------------------------------------
(* The topics.                                                             *)

\* The last message of an order that left a producer, or will, says what it is.
Covered(o) == LastIs(o) \/ SendPending(OrderUpdate(o))

TradeCovered(t) == Sent(t) \/ Flies("trade", t) \/ SendPending(TradeEvent(t))

\* What stays known stays covered, or is covered anew.
LEMMA TopicsFollow ==
  ASSUME TopicsInv, raced \subseteq raced', overtaken \subseteq overtaken', deploy' = deploy,
         \A o \in DOMAIN heap' :
           /\ Told(o)' /\ o \notin overtaken' /\ OrderUpdate(o) \notin missed'.topic
           /\ deploy.producer = "async" \/ o \notin raced'
           => \/ Covered(o)'
              \/ /\ o \in DOMAIN heap /\ Told(o) /\ OrderUpdate(o) \notin missed.topic
                 /\ Covered(o) => Covered(o)',
         \A t \in Known' :
           TradeEvent(t) \notin missed'.topic =>
             \/ TradeCovered(t)'
             \/ /\ t \in Known /\ TradeEvent(t) \notin missed.topic
                /\ TradeCovered(t) => TradeCovered(t)'
  PROVE  TopicsInv'
<1>1. ASSUME NEW o \in DOMAIN heap', Told(o)', o \notin overtaken',
             OrderUpdate(o) \notin missed'.topic,
             deploy.producer = "async" \/ o \notin raced'
      PROVE  Covered(o)'
  <2>1. o \notin overtaken /\ (deploy.producer = "async" \/ o \notin raced)
    BY <1>1
  <2>2. /\ o \in DOMAIN heap /\ Told(o) /\ OrderUpdate(o) \notin missed.topic
        => Covered(o)
    BY <2>1 DEF TopicsInv, Covered
  <2> QED BY <1>1, <2>2
<1>2. ASSUME NEW t \in Known', TradeEvent(t) \notin missed'.topic
      PROVE  TradeCovered(t)'
  <2>1. t \in Known /\ TradeEvent(t) \notin missed.topic => TradeCovered(t)
    BY DEF TopicsInv, TradeCovered
  <2> QED BY <1>2, <2>1
<1> QED BY <1>1, <1>2 DEF TopicsInv, Covered, TradeCovered

\* What a sink step has to do: the events it says have reached the topic, those
\* in reached, are covered, and the others stay so.
LEMMA SinkFollow ==
  ASSUME TopicsInv, UNCHANGED callSide, overtaken \subseteq overtaken',
         NEW reached, missed.topic \ reached \subseteq missed'.topic,
         \A o \in DOMAIN heap :
           /\ Told(o) /\ o \notin overtaken' /\ OrderUpdate(o) \notin missed'.topic
           /\ deploy.producer = "async" \/ o \notin raced
           /\ OrderUpdate(o) \in reached \/ Covered(o)
           => Covered(o)',
         \A t \in Known :
           /\ TradeEvent(t) \notin missed'.topic
           /\ TradeEvent(t) \in reached \/ TradeCovered(t)
           => TradeCovered(t)'
  PROVE  TopicsInv'
<1>1. UNCHANGED <<heap, job, deploy, phase, traded, matched, silent, raced>>
  BY DEF callSide
<1>2. \A o : Told(o)' <=> Told(o)
  BY <1>1 DEF Told
<1>3. Known' = Known
  BY <1>1 DEF Known
<1>4. ASSUME NEW o \in DOMAIN heap', Told(o)', o \notin overtaken',
             OrderUpdate(o) \notin missed'.topic,
             deploy.producer = "async" \/ o \notin raced'
      PROVE  \/ Covered(o)'
             \/ /\ o \in DOMAIN heap /\ Told(o) /\ OrderUpdate(o) \notin missed.topic
                /\ Covered(o) => Covered(o)'
  BY <1>1, <1>2, <1>4
<1>5. ASSUME NEW t \in Known', TradeEvent(t) \notin missed'.topic
      PROVE  \/ TradeCovered(t)'
             \/ /\ t \in Known /\ TradeEvent(t) \notin missed.topic
                /\ TradeCovered(t) => TradeCovered(t)'
  BY <1>3, <1>5
<1>6. raced \subseteq raced' /\ deploy' = deploy
  BY <1>1
<1> QED BY <1>4, <1>5, <1>6, TopicsFollow

\* A message is still due for an event, unless its first step is the handing
\* over of that event, or its end.
LEMMA DueStays ==
  ASSUME EventsInv, NEW e \in Emitter, Handles(e), NEW x,
         \/ Ends(e) /\ (stage[e] = "wait" \/ x # First(e))
         \/ todo'[e] = todo[e] /\ (stage'[e] # "wait" \/ x # First(e)),
         NEW d \in Emitter, SendDue(d, x)
  PROVE  SendDue(d, x)'
<1>1. PICK i \in DOMAIN todo[d] : todo[d][i] = x /\ (i = 1 => stage[d] # "wait")
  BY DEF SendDue
<1>2. CASE d # e
  <2>1. todo'[d] = todo[d] /\ stage'[d] = stage[d]
    BY <1>2 DEF Handles
  <2> QED BY <1>1, <2>1 DEF SendDue
<1>3. CASE d = e
  <2>1. IsSequence(todo[e]) /\ todo[e] # <<>>
    BY DEF EventsInv, EmitterInv, Handles, Emitting
  <2>2. /\ Len(todo[e]) \in Nat \ {0} /\ DOMAIN todo[e] = 1..Len(todo[e])
        /\ DOMAIN Tail(todo[e]) = 1..(Len(todo[e]) - 1)
        /\ \A j \in DOMAIN Tail(todo[e]) : Tail(todo[e])[j] = todo[e][j + 1]
        /\ First(e) = todo[e][1]
    BY <2>1, TailElements DEF First
  <2>3. CASE Ends(e) /\ (stage[e] = "wait" \/ x # First(e))
    <3>1. todo'[e] = Tail(todo[e]) /\ stage'[e] = "save"
      BY <2>3 DEF Ends
    <3>2. i # 1
      BY <1>1, <1>3, <2>2, <2>3
    <3>3. i - 1 \in DOMAIN Tail(todo[e]) /\ (i - 1) + 1 = i
      BY <1>1, <1>3, <2>2, <3>2
    <3>4. todo'[e][i - 1] = x
      BY <1>1, <1>3, <2>2, <3>1, <3>3
    <3> QED BY <1>3, <3>1, <3>3, <3>4 DEF SendDue
  <2>4. CASE todo'[e] = todo[e] /\ (stage'[e] # "wait" \/ x # First(e))
    <3>1. i = 1 => stage'[e] # "wait"
      BY <1>1, <1>3, <2>2, <2>4
    <3> QED BY <1>1, <1>3, <2>4, <3>1 DEF SendDue
  <2> QED BY <2>3, <2>4
<1> QED BY <1>2, <1>3

\* A topic and flights nothing happens to.
LEMMA LastStays ==
  ASSUME flying'["order"] = flying["order"], topic'["order"] = topic["order"],
         NEW o, heap'[o].version = heap[o].version, LastIs(o)
  PROVE  LastIs(o)'
<1>1. Flies("order", o)' <=> Flies("order", o)
  BY DEF Flies
<1>2. TopicIs(o) => TopicIs(o)'
  BY DEF TopicIs, IsLatest
<1>3. \A i : FliesLast(o, i) => FliesLast(o, i)'
  BY DEF FliesLast
<1> QED BY <1>1, <1>2, <1>3 DEF LastIs

\* A message more in flight: it is the last of its order, and of no other.
LEMMA LaunchCovers ==
  ASSUME FlyingInv, NEW kind \in Kind, NEW m, NEW e, Launched(kind, m, e), UNCHANGED topic,
         NEW o, heap'[o].version = heap[o].version
  PROVE  /\ ~(kind = "order" /\ m.of = o) /\ LastIs(o) => LastIs(o)'
         /\ kind = "order" /\ m.of = o /\ m.version = heap[o].version => LastIs(o)'
         /\ \A t : Flies("trade", t) => Flies("trade", t)'
         /\ kind = "trade" => Flies("trade", m.of)'
<1>1. PICK n \in Nat :
        /\ \A k \in Kind \ {kind} : flying'[k] = flying[k]
        /\ DOMAIN flying[kind] \subseteq Nat
        /\ DOMAIN flying'[kind] = DOMAIN flying[kind] \cup {n}
        /\ \A j \in DOMAIN flying[kind] : flying'[kind][j] = flying[kind][j] /\ j < n
        /\ flying'[kind][n].message = m
  BY LaunchShape
<1>2. TopicIs(o) => TopicIs(o)'
  BY DEF TopicIs, IsLatest
<1>3. "order" \in Kind /\ "trade" \in Kind
  BY DEF Kind
<1>4. ASSUME kind # "order", LastIs(o)
      PROVE  LastIs(o)'
  BY <1>1, <1>3, <1>4, LastStays
<1>5. ASSUME kind = "order", m.of # o, LastIs(o)
      PROVE  LastIs(o)'
  <2>1. Flies("order", o)' => Flies("order", o)
    BY <1>1, <1>5 DEF Flies
  <2>2. \A i \in DOMAIN flying["order"] :
          FliesLast(o, i) => /\ FliesLast(o, i)' /\ i \in DOMAIN flying'["order"]
                             /\ flying'["order"][i] = flying["order"][i]
    BY <1>1, <1>5 DEF FliesLast
  <2> QED BY <1>2, <1>5, <2>1, <2>2 DEF LastIs
<1>6. ASSUME kind = "order", m.of = o, m.version = heap[o].version
      PROVE  LastIs(o)'
  <2>1. n \in DOMAIN flying'["order"] /\ flying'["order"][n].message = m
    BY <1>1, <1>6
  <2>2. FliesLast(o, n)'
    BY <1>1, <1>6, <2>1 DEF FliesLast
  <2> QED BY <1>6, <2>1, <2>2 DEF LastIs
<1>7. ASSUME NEW t, Flies("trade", t)
      PROVE  Flies("trade", t)'
  BY <1>1, <1>3, <1>7 DEF Flies
<1>8. kind = "trade" => Flies("trade", m.of)'
  BY <1>1 DEF Flies
<1> QED BY <1>4, <1>5, <1>6, <1>7, <1>8

\* One message more in the topic: it is the latest of its order, and of no other.
LEMMA TopicIsAfter ==
  ASSUME MemoryInv, NEW m, Receives(m), NEW o, heap'[o].version = heap[o].version
  PROVE  /\ m.of # o /\ TopicIs(o) => TopicIs(o)'
         /\ m.of = o /\ m.version = heap[o].version => TopicIs(o)'
<1>1. PICK n \in Nat :
        /\ DOMAIN topic["order"] \subseteq Nat
        /\ DOMAIN topic'["order"] = DOMAIN topic["order"] \cup {n}
        /\ \A i \in DOMAIN topic["order"] :
             topic'["order"][i] = topic["order"][i] /\ i < n
        /\ topic'["order"][n] = m
  BY TopicElements
<1>2. ASSUME m.of # o, TopicIs(o)
      PROVE  TopicIs(o)'
  <2>1. PICK i \in DOMAIN topic["order"] :
          IsLatest("order", o, i) /\ topic["order"][i].version = heap[o].version
    BY <1>2 DEF TopicIs
  <2>2. i \in DOMAIN topic'["order"] /\ IsLatest("order", o, i)'
    BY <1>1, <1>2, <2>1 DEF IsLatest
  <2> QED BY <1>1, <2>1, <2>2 DEF TopicIs
<1>3. ASSUME m.of = o, m.version = heap[o].version
      PROVE  TopicIs(o)'
  <2>1. n \in DOMAIN topic'["order"] /\ IsLatest("order", o, n)'
    BY <1>1, <1>3 DEF IsLatest
  <2> QED BY <1>1, <1>3, <2>1 DEF TopicIs
<1> QED BY <1>2, <1>3

\* An attempt for a message of an order, given up only if it was confirmed: the
\* last message stays the last, in flight or in the topic.
LEMMA AnswerKeepsLast ==
  ASSUME MemoryInv, FlyingInv,
         NEW i \in Nat, NEW written \in BOOLEAN, NEW confirmed \in BOOLEAN,
         Answers("order", i, written, confirmed),
         NEW o, heap'[o].version = heap[o].version, o \notin overtaken', LastIs(o),
         flying["order"][i].message.of = o =>
           confirmed = TRUE \/ flying["order"][i].left # 1
  PROVE  LastIs(o)'
<1> DEFINE F == flying["order"]
           G == flying'["order"]
           over == confirmed \/ F[i].left = 1
<1>1. i \in DOMAIN F /\ Attempt("order", i, written, confirmed) /\ "order" \in Kind
  BY DEF Answers, Kind
<1>2. PICK f : /\ Follow("order", f)
               /\ \A k \in DOMAIN F : \/ \E j \in DOMAIN G : f[j] = k
                                      \/ k = i /\ over
               /\ over => \A j \in DOMAIN G : f[j] # i
  BY <1>1, AttemptShape
<1>3. \A j \in DOMAIN G : f[j] \in DOMAIN F /\ G[j].message = F[f[j]].message
  BY <1>2 DEF Follow
<1>4. \A j, k \in DOMAIN G : j < k => f[j] < f[k]
  BY <1>2 DEF Follow
<1>5. DOMAIN F \subseteq Nat \ {0}
  <2>1. IsSequence(F)
    BY DEF FlyingInv, Kind
  <2> QED BY <2>1, SequenceElim
<1>6. written = TRUE /\ F[i].message.of = o =>
        \A j \in 1..(i - 1) : F[j].message.of # o
  BY <1>1 DEF Attempt, Passes
<1>7. \/ topic'["order"] = topic["order"]
      \/ written = TRUE /\ Receives(F[i].message)
  <2>1. topic = [kind \in Kind |-> topic[kind]]
    BY DEF MemoryInv, TopicsAreSequences
  <2>2. topic' = IF written
                   THEN [topic EXCEPT !["order"] = Append(@, F[i].message)]
                   ELSE topic
    BY <1>1 DEF Attempt
  <2> QED BY <1>1, <2>1, <2>2 DEF Receives
<1>8. confirmed = TRUE => written = TRUE /\ Receives(F[i].message)
  <2>1. topic = [kind \in Kind |-> topic[kind]]
    BY DEF MemoryInv, TopicsAreSequences
  <2> QED BY <1>1, <2>1 DEF Attempt, Receives
<1>9. ASSUME NEW k \in DOMAIN F, FliesLast(o, k), F[k].message.version = heap[o].version,
             k # i \/ ~over
      PROVE  LastIs(o)'
  <2>1. PICK j \in DOMAIN G : f[j] = k
    BY <1>2, <1>9
  <2>2. G[j].message = F[k].message
    BY <1>3, <2>1
  <2>3. FliesLast(o, j)'
    BY <1>3, <1>4, <1>9, <2>1, <2>2 DEF FliesLast
  <2> QED BY <1>9, <2>2, <2>3 DEF LastIs
<1>10. ASSUME FliesLast(o, i), F[i].message.version = heap[o].version, over
       PROVE  LastIs(o)'
  <2>1. F[i].message.of = o /\ (\A j \in DOMAIN F : j > i => F[j].message.of # o)
    BY <1>10 DEF FliesLast
  <2>2. written = TRUE /\ Receives(F[i].message)
    BY <1>8, <1>10, <2>1 DEF over
  <2>3. \A j \in DOMAIN F : j # i => F[j].message.of # o
    BY <1>1, <1>5, <1>6, <2>1, <2>2
  <2>4. ~Flies("order", o)'
    BY <1>2, <1>3, <1>10, <2>3 DEF Flies
  <2>5. TopicIs(o)'
    BY <1>10, <2>1, <2>2, TopicIsAfter
  <2> QED BY <2>4, <2>5 DEF LastIs
<1>11. ASSUME ~Flies("order", o), TopicIs(o)
       PROVE  LastIs(o)'
  <2>1. F[i].message.of # o /\ ~Flies("order", o)'
    BY <1>1, <1>3, <1>11 DEF Flies
  <2>2. topic'["order"] = topic["order"] => TopicIs(o)'
    BY <1>11 DEF TopicIs, IsLatest
  <2>3. TopicIs(o)'
    BY <1>7, <1>11, <2>1, <2>2, TopicIsAfter
  <2> QED BY <2>1, <2>3 DEF LastIs
<1>12. \/ \E k \in DOMAIN F : FliesLast(o, k) /\ F[k].message.version = heap[o].version
       \/ ~Flies("order", o) /\ TopicIs(o)
  BY DEF LastIs
<1> HIDE DEF over
<1> QED BY <1>9, <1>10, <1>11, <1>12

\* An attempt for a message of a trade.
LEMMA AnswerKeepsTrade ==
  ASSUME MemoryInv, FlyingInv, NEW kind \in Kind,
         NEW i \in Nat, NEW written \in BOOLEAN, NEW confirmed \in BOOLEAN,
         Answers(kind, i, written, confirmed), NEW t,
         kind = "trade" /\ flying[kind][i].message.of = t =>
           confirmed = TRUE \/ flying[kind][i].left # 1
  PROVE  /\ Sent(t) => Sent(t)'
         /\ Flies("trade", t) => Flies("trade", t)' \/ Sent(t)'
<1> DEFINE over == confirmed \/ flying[kind][i].left = 1
           m == flying[kind][i].message
<1>1. i \in DOMAIN flying[kind] /\ Attempt(kind, i, written, confirmed)
  BY DEF Answers
<1>2. /\ topic = [k \in Kind |-> topic[k]] /\ IsSequence(topic["trade"]) /\ "trade" \in Kind
  BY DEF MemoryInv, TopicsAreSequences, Kind
<1>3. /\ topic' = IF written THEN [topic EXCEPT ![kind] = Append(@, m)] ELSE topic
      /\ confirmed => written
  BY <1>1 DEF Attempt
<1> HIDE DEF m
<1>4. \/ topic'["trade"] = topic["trade"]
      \/ kind = "trade" /\ topic'["trade"] = Append(topic["trade"], m)
  BY <1>2, <1>3
<1>5. kind = "trade" /\ confirmed = TRUE => topic'["trade"] = Append(topic["trade"], m)
  BY <1>2, <1>3
<1>6. ASSUME topic'["trade"] = Append(topic["trade"], m)
      PROVE  Sent(t) \/ m.of = t => Sent(t)'
  <2>1. /\ DOMAIN topic["trade"] = 1..Len(topic["trade"]) /\ Len(topic["trade"]) \in Nat
        /\ DOMAIN topic'["trade"] = 1..(Len(topic["trade"]) + 1)
        /\ \A j \in DOMAIN topic["trade"] : topic'["trade"][j] = topic["trade"][j]
        /\ topic'["trade"][Len(topic["trade"]) + 1] = m
    BY <1>2, <1>6, AppendElements
  <2>2. PICK n \in Nat : n = Len(topic["trade"])
    BY <2>1
  <2>3. /\ DOMAIN topic["trade"] \subseteq DOMAIN topic'["trade"]
        /\ n + 1 \in DOMAIN topic'["trade"] /\ topic'["trade"][n + 1] = m
    BY <2>1, <2>2
  <2> QED BY <2>1, <2>3 DEF Sent
<1>7. Sent(t) => Sent(t)'
  BY <1>4, <1>6 DEF Sent
<1>8. ASSUME Flies("trade", t)
      PROVE  Flies("trade", t)' \/ Sent(t)'
  <2>1. PICK k \in DOMAIN flying["trade"] : flying["trade"][k].message.of = t
    BY <1>8 DEF Flies
  <2>2. CASE kind # "trade"
    <3>1. flying'["trade"] = flying["trade"]
      BY <1>1, <1>2, <2>2, AttemptShape
    <3> QED BY <2>1, <3>1 DEF Flies
  <2>3. CASE kind = "trade"
    <3>1. PICK f : /\ Follow(kind, f)
                   /\ \A k1 \in DOMAIN flying[kind] :
                        \/ \E j \in DOMAIN flying'[kind] : f[j] = k1
                        \/ k1 = i /\ over
      BY <1>1, AttemptShape
    <3>2. CASE \E j \in DOMAIN flying'[kind] : f[j] = k
      BY <2>1, <2>3, <3>1, <3>2 DEF Follow, Flies
    <3>3. CASE k = i /\ over
      <4>1. confirmed = TRUE /\ m.of = t
        BY <2>1, <2>3, <3>3 DEF m, over
      <4> QED BY <1>5, <1>6, <2>3, <4>1
    <3> QED BY <2>1, <2>3, <3>1, <3>2, <3>3
  <2> QED BY <2>2, <2>3
<1> QED BY <1>7, <1>8

\* The steps of the engine.
LEMMA TopicsTold ==
  ASSUME EventsInv, TopicsInv, EngineTells
  PROVE  TopicsInv'
<1>1. /\ UNCHANGED <<outbox, flying, topic, overtaken, missed, stage, deploy>>
      /\ raced \subseteq raced'
  BY DEF EngineTells, wireVars
<1>2. ASSUME NEW x, SendPending(x)
      PROVE  SendPending(x)'
  <2>1. ASSUME NEW e \in Emitter, SendDue(e, x)
        PROVE  SendDue(e, x)'
    <3>1. Emitting(e)
      BY <2>1, ShortSequences DEF SendDue, Emitting
    <3>2. todo'[e] = todo[e]
      BY <3>1 DEF EngineTells
    <3> QED BY <1>1, <2>1, <3>2 DEF SendDue
  <2> QED BY <1>1, <1>2, <2>1 DEF SendPending
<1>3. ASSUME NEW x, NewlyTold(x)
      PROVE  SendPending(x)'
  <2>1. PICK e \in Emitter : ~Emitting(e) /\ x \in ToSet(todo'[e])
    BY <1>3 DEF NewlyTold
  <2>2. stage'[e] = "save"
    BY <1>1, <2>1 DEF EventsInv, EmitterInv
  <2>3. PICK i \in DOMAIN todo'[e] : todo'[e][i] = x
    BY <2>1, ElementAt
  <2>4. SendDue(e, x)'
    BY <2>2, <2>3 DEF SendDue
  <2> QED BY <2>4 DEF SendPending
<1>4. ASSUME NEW o \in DOMAIN heap', Told(o)'
      PROVE  \/ Covered(o)'
             \/ /\ o \in DOMAIN heap /\ Told(o)
                /\ Covered(o) => Covered(o)'
  <2>1. CASE NewlyTold(OrderUpdate(o))
    <3>1. SendPending(OrderUpdate(o))'
      BY <1>3, <2>1
    <3> QED BY <3>1 DEF Covered
  <2>2. CASE StaysTold(o)
    <3>1. LastIs(o) => LastIs(o)'
      BY <1>1, <2>2, LastStays DEF StaysTold
    <3>2. SendPending(OrderUpdate(o)) => SendPending(OrderUpdate(o))'
      BY <1>2
    <3> QED BY <2>2, <3>1, <3>2 DEF StaysTold, Covered
  <2> QED BY <1>4, <2>1, <2>2 DEF EngineTells
<1>5. ASSUME NEW t \in Known'
      PROVE  \/ TradeCovered(t)'
             \/ t \in Known /\ (TradeCovered(t) => TradeCovered(t)')
  <2>1. NewlyTold(TradeEvent(t)) => SendPending(TradeEvent(t))'
    BY <1>3
  <2>2. SendPending(TradeEvent(t)) => SendPending(TradeEvent(t))'
    BY <1>2
  <2>3. (Sent(t) => Sent(t)') /\ (Flies("trade", t) => Flies("trade", t)')
    BY <1>1 DEF Sent, Flies
  <2> QED BY <1>5, <2>1, <2>2, <2>3 DEF EngineTells, TradeCovered
<1>6. overtaken \subseteq overtaken' /\ missed' = missed /\ deploy' = deploy
  BY <1>1
<1> QED BY <1>1, <1>4, <1>5, <1>6, TopicsFollow

\* A death: what was due a message, or in flight, is missed, and so are the
\* trades not announced.
LEMMA TopicsDie ==
  ASSUME ObjectsInv, MemoryInv, BookInv, TopicsInv, ProcessDies
  PROVE  TopicsInv'
<1>1. \A o \in DOMAIN heap' : heap'[o].place = "lost"
  BY DeathAlters DEF OnlyAlters
<1>2. /\ phase' = "none" /\ matched' = 0 /\ UNCHANGED <<topic, traded>>
      /\ missed'.topic = missed.topic \cup Unhandled \cup Unsent
  BY DeathMissed DEF ProcessDies
<1>3. \A o \in DOMAIN heap' : ~Told(o)'
  BY <1>1, <1>2 DEF Told
<1>4. ASSUME NEW t \in Known', TradeEvent(t) \notin missed'.topic
      PROVE  Sent(t)
  <2>1. traded \in Nat /\ matched \in Nat
    BY DEF BookInv
  <2>2. t \in 1..traded /\ TradeEvent(t) \notin Unhandled /\ TradeEvent(t) \notin Unsent
    BY <1>2, <1>4, <2>1 DEF Known
  <2>3. t \notin (traded - matched + 1)..traded
    <3> DEFINE untold == {TradeEvent(u) : u \in (traded - matched + 1)..traded}
               emitted == UNION {ToSet(todo[e]) : e \in Emitter}
    <3>1. Unhandled = emitted \cup untold
      BY DEF Unhandled
    <3>2. t \in (traded - matched + 1)..traded => TradeEvent(t) \in untold
      OBVIOUS
    <3> HIDE DEF untold, emitted
    <3> QED BY <2>2, <3>1, <3>2
  <2>4. t \in Known
    BY <2>1, <2>2, <2>3 DEF Known
  <2>5. ASSUME NEW e \in Emitter, SendDue(e, TradeEvent(t))
        PROVE  FALSE
    <3>1. TradeEvent(t) \in ToSet(todo[e])
      BY <2>5, ElementAt DEF SendDue
    <3> QED BY <2>2, <3>1 DEF Unhandled
  <2>6. /\ t \notin ToSet(outbox["trade"])
        /\ \A f \in ToSet(flying["trade"]) : f.message.of # t
    <3> DEFINE of(kind) == ToSet(outbox[kind]) \cup {f.message.of : f \in ToSet(flying[kind])}
               unsent(kind) == {[kind |-> kind, of |-> o] : o \in of(kind)}
    <3>1. Unsent = UNION {unsent(kind) : kind \in Kind}
      BY DEF Unsent
    <3>2. \A o : o \in of("trade") => TradeEvent(o) \in unsent("trade")
      BY DEF TradeEvent
    <3>3. \A o : o \in ToSet(outbox["trade"]) => o \in of("trade")
      OBVIOUS
    <3>4. \A f \in ToSet(flying["trade"]) : f.message.of \in of("trade")
      OBVIOUS
    <3> HIDE DEF unsent, of
    <3>5. \A o : o \in of("trade") => TradeEvent(o) \in Unsent
      BY <3>1, <3>2 DEF Kind
    <3> QED BY <2>2, <3>3, <3>4, <3>5
  <2>7. ~Flies("trade", t)
    BY <2>6, ElementAt DEF Flies
  <2>8. ~SendPending(TradeEvent(t))
    <3>1. TradeEvent(t).kind = "trade" /\ TradeEvent(t).of = t
      BY EventKinds
    <3> QED BY <2>5, <2>6, <3>1 DEF SendPending
  <2>9. TradeEvent(t) \notin missed.topic
    BY <1>2, <1>4
  <2> QED BY <2>4, <2>7, <2>8, <2>9 DEF TopicsInv
<1>5. \A t : Sent(t) => Sent(t)'
  BY <1>2 DEF Sent
<1> QED BY <1>3, <1>4, <1>5 DEF TopicsInv

\* What is due a message stays so, whatever handlers do before they hand it over.
LEMMA PendingKept ==
  ASSUME UNCHANGED outbox, NEW x, SendPending(x),
         \A d \in Emitter : SendDue(d, x) => SendDue(d, x)'
  PROVE  SendPending(x)'
BY DEF SendPending

\* The steps of handlers that concern the tables alone.
LEMMA TopicsLeft ==
  ASSUME EventsInv, TablesInv, TopicsInv, NEW e \in Emitter, Fetches(e) \/ Writes(e)
  PROVE  TopicsInv'
<1>1. /\ UNCHANGED callSide /\ UNCHANGED <<outbox, flying, topic, overtaken>>
      /\ Handles(e) /\ todo'[e] = todo[e] /\ stage'[e] # "wait"
  <2>1. CASE Fetches(e)
    BY <2>1 DEF Fetches, Handles, Reads, wireVars
  <2>2. CASE Writes(e)
    BY <2>2 DEF Writes, WriteRow, Handles, Goes, wireVars
  <2> QED BY <2>1, <2>2
<1>2. missed'.topic = missed.topic
  <2>1. CASE Fetches(e)
    BY <2>1 DEF Fetches
  <2>2. CASE Writes(e)
    <3>1. missed' = [rows |-> missed'.rows, topic |-> missed.topic]
      BY <2>2, RowWritten DEF Writes
    <3> QED BY <3>1
  <2> QED BY <2>1, <2>2
<1>3. \A x : SendPending(x) => SendPending(x)'
  BY <1>1, DueStays, PendingKept
<1>4. ASSUME NEW o \in DOMAIN heap, Covered(o)
      PROVE  Covered(o)'
  <2>1. heap' = heap
    BY <1>1 DEF callSide
  <2>2. LastIs(o) => LastIs(o)'
    BY <1>1, <2>1, LastStays
  <2>3. SendPending(OrderUpdate(o)) => SendPending(OrderUpdate(o))'
    BY <1>3
  <2> QED BY <1>4, <2>2, <2>3 DEF Covered
<1>5. ASSUME NEW t, TradeCovered(t)
      PROVE  TradeCovered(t)'
  <2>1. (Sent(t) => Sent(t)') /\ (Flies("trade", t) => Flies("trade", t)')
    BY <1>1 DEF Sent, Flies
  <2>2. SendPending(TradeEvent(t)) => SendPending(TradeEvent(t))'
    BY <1>3
  <2> QED BY <1>5, <2>1, <2>2 DEF TradeCovered
<1>6. missed.topic \ {} \subseteq missed'.topic /\ overtaken \subseteq overtaken'
  BY <1>1, <1>2
<1> QED BY <1>1, <1>4, <1>5, <1>6, SinkFollow

\* An event dropped, or put into its channel.
LEMMA TopicsHandOver ==
  ASSUME EventsInv, OutboxInv, TablesInv, TopicsInv, NEW e \in Emitter, HandsOver(e)
  PROVE  TopicsInv'
<1> DEFINE x == First(e)
           room == Len(outbox[x.kind]) < OutboxCapacity
<1>1. /\ UNCHANGED callSide /\ UNCHANGED <<heap, flying, topic, overtaken>>
      /\ Handles(e) /\ Ends(e)
  BY DEF HandsOver, Handles, callSide
<1>2. x \in Updates \cup Trades
  BY <1>1, FirstIsEvent DEF Handles
<1>3. ASSUME NEW y, y # x, NEW d \in Emitter, SendDue(d, y)
      PROVE  SendDue(d, y)'
  BY <1>1, <1>3, DueStays
<1>4. /\ \A o : LastIs(o) => LastIs(o)'
      /\ \A t : Sent(t) => Sent(t)'
      /\ \A t : Flies("trade", t) => Flies("trade", t)'
  BY <1>1, LastStays DEF Sent, Flies
<1>5. ASSUME NEW reached, missed.topic \ reached \subseteq missed'.topic,
             \A k \in Kind : ToSet(outbox[k]) \subseteq ToSet(outbox'[k]),
             \A y \in reached : y.of \in ToSet(outbox'[y.kind]),
             x \in missed'.topic \cup reached
      PROVE  TopicsInv'
  <2>1. ASSUME NEW y, y.kind \in Kind, y \notin missed'.topic, SendPending(y)
        PROVE  SendPending(y)'
    <3>1. CASE y \in reached
      BY <1>5, <3>1 DEF SendPending
    <3>2. CASE y # x
      BY <1>3, <1>5, <2>1, <3>2 DEF SendPending
    <3> QED BY <1>5, <2>1, <3>1, <3>2
  <2>2. \A y \in reached : SendPending(y)'
    BY <1>5 DEF SendPending
  <2>3. /\ \A o : OrderUpdate(o).kind \in Kind
        /\ \A t : TradeEvent(t).kind \in Kind
    BY EventKinds DEF Kind
  <2>4. ASSUME NEW o \in DOMAIN heap, OrderUpdate(o) \notin missed'.topic,
               OrderUpdate(o) \in reached \/ Covered(o)
        PROVE  Covered(o)'
    <3>1. SendPending(OrderUpdate(o)) => SendPending(OrderUpdate(o))'
      BY <2>1, <2>3, <2>4
    <3>2. OrderUpdate(o) \in reached => SendPending(OrderUpdate(o))'
      BY <2>2
    <3> QED BY <1>4, <2>4, <3>1, <3>2 DEF Covered
  <2>5. ASSUME NEW t \in Known, TradeEvent(t) \notin missed'.topic,
               TradeEvent(t) \in reached \/ TradeCovered(t)
        PROVE  TradeCovered(t)'
    <3>1. SendPending(TradeEvent(t)) => SendPending(TradeEvent(t))'
      BY <2>1, <2>3, <2>5
    <3>2. TradeEvent(t) \in reached => SendPending(TradeEvent(t))'
      BY <2>2
    <3> QED BY <1>4, <2>5, <3>1, <3>2 DEF TradeCovered
  <2>6. overtaken \subseteq overtaken'
    BY <1>1
  <2> QED BY <1>1, <1>5, <2>4, <2>5, <2>6, SinkFollow
<1>6. ASSUME UNCHANGED outbox, Tells("topic", x, FALSE)
      PROVE  TopicsInv'
  <2>1. missed'.topic = missed.topic \cup {x}
    BY <1>6, TopicMissed
  <2> HIDE DEF x
  <2>2. PICK none : none = {}
    OBVIOUS
  <2>3. /\ missed.topic \ none \subseteq missed'.topic /\ x \in missed'.topic \cup none
        /\ \A y \in none : y.of \in ToSet(outbox'[y.kind])
    BY <2>1, <2>2
  <2>4. \A k \in Kind : ToSet(outbox[k]) \subseteq ToSet(outbox'[k])
    BY <1>6
  <2> QED BY <1>5, <2>3, <2>4
<1>7. ASSUME Enqueue(e), room
      PROVE  TopicsInv'
  <2>1. /\ ToSet(outbox'[x.kind]) = ToSet(outbox[x.kind]) \cup {x.of}
        /\ \A k \in Kind \ {x.kind} : outbox'[k] = outbox[k]
    BY <1>7, EventQueued
  <2>2. Tells("topic", x, TRUE)
    BY <1>7 DEF Enqueue
  <2>3. missed'.topic = missed.topic \ {x}
    BY <2>2, TopicMissed
  <2>4. x.of \in ToSet(outbox'[x.kind]) /\ \A k \in Kind : ToSet(outbox[k]) \subseteq ToSet(outbox'[k])
    BY <2>1
  <2>5. PICK y : y = x
    OBVIOUS
  <2>6. /\ missed.topic \ {y} \subseteq missed'.topic /\ x \in missed'.topic \cup {y}
        /\ \A z \in {y} : z.of \in ToSet(outbox'[z.kind])
    BY <2>3, <2>4, <2>5
  <2> HIDE DEF x
  <2> QED BY <1>5, <2>4, <2>6
<1>8. \/ UNCHANGED outbox /\ Tells("topic", x, FALSE)
      \/ Enqueue(e) /\ room
  <2>1. CASE PublishNothing(e)
    BY <2>1 DEF PublishNothing, wireVars
  <2>2. CASE Enqueue(e)
    <3>1. /\ outbox' = IF room THEN [outbox EXCEPT ![x.kind] = Append(@, x.of)] ELSE outbox
          /\ Tells("topic", x, room)
      BY <2>2 DEF Enqueue
    <3>2. room \in BOOLEAN
      OBVIOUS
    <3> HIDE DEF room
    <3>3. CASE room = TRUE
      BY <2>2, <3>3
    <3>4. CASE room = FALSE
      BY <3>1, <3>4
    <3> QED BY <3>2, <3>3, <3>4
  <2> QED BY <2>1, <2>2 DEF HandsOver
<1> QED BY <1>6, <1>7, <1>8

IsEvent(y) == y = [kind |-> y.kind, of |-> y.of] /\ y.kind \in Kind

LEMMA EventsAre == \A of : IsEvent(OrderUpdate(of)) /\ IsEvent(TradeEvent(of))
BY DEF IsEvent, OrderUpdate, TradeEvent, Kind

\* A message about x handed to the client library: what it says of an order that
\* is to be covered is what the order is.
LEMMA TopicsLaunched ==
  ASSUME FlyingInv, TablesInv, TopicsInv, UNCHANGED callSide, UNCHANGED <<topic, overtaken>>,
         NEW x \in Updates \cup Trades, NEW m, NEW e, Launched(x.kind, m, e),
         Tells("topic", x, TRUE), m.of = x.of,
         \A o \in DOMAIN heap :
           x = OrderUpdate(o) /\ Told(o) /\ (deploy.producer = "async" \/ o \notin raced)
             => m.version = heap[o].version,
         \A y : IsEvent(y) /\ y # x /\ SendPending(y) => SendPending(y)'
  PROVE  TopicsInv'
<1>1. heap' = heap
  BY DEF callSide
<1>2. missed'.topic = missed.topic \ {x}
  BY TopicMissed
<1>3. x.kind \in Kind
  BY EventKinds DEF Kind
<1>4. ASSUME NEW o \in DOMAIN heap, Told(o), deploy.producer = "async" \/ o \notin raced,
             OrderUpdate(o) \in {x} \/ Covered(o)
      PROVE  Covered(o)'
  <2>0. heap'[o].version = heap[o].version
    BY <1>1
  <2>1. CASE OrderUpdate(o) = x
    <3>1. x.kind = "order" /\ m.of = o /\ m.version = heap[o].version
      BY <1>4, <2>1, EventKinds
    <3>2. LastIs(o)'
      BY <1>3, <2>0, <3>1, LaunchCovers
    <3> QED BY <3>2 DEF Covered
  <2>2. CASE OrderUpdate(o) # x
    <3>1. ~(x.kind = "order" /\ m.of = o)
      BY <2>2, EventKinds
    <3>2. LastIs(o) => LastIs(o)'
      BY <1>3, <2>0, <3>1, LaunchCovers
    <3>3. SendPending(OrderUpdate(o)) => SendPending(OrderUpdate(o))'
      BY <2>2, EventsAre
    <3> QED BY <1>4, <2>2, <3>2, <3>3 DEF Covered
  <2> QED BY <2>1, <2>2
<1>5. ASSUME NEW t \in Known, TradeEvent(t) \in {x} \/ TradeCovered(t)
      PROVE  TradeCovered(t)'
  <2>0. PICK o : heap'[o].version = heap[o].version
    BY <1>1
  <2>1. /\ Flies("trade", t) => Flies("trade", t)'
        /\ x.kind = "trade" /\ m.of = t => Flies("trade", t)'
    <3>1. PICK p : p = m.of
      OBVIOUS
    <3> QED BY <1>3, <2>0, <3>1, LaunchCovers
  <2>2. Sent(t) => Sent(t)'
    BY DEF Sent
  <2>3. TradeEvent(t) # x =>
          (SendPending(TradeEvent(t)) => SendPending(TradeEvent(t))')
    BY EventsAre
  <2>4. TradeEvent(t) = x => x.kind = "trade" /\ m.of = t
    BY EventKinds
  <2> QED BY <1>5, <2>1, <2>2, <2>3, <2>4 DEF TradeCovered
<1>6. missed.topic \ {x} \subseteq missed'.topic /\ overtaken \subseteq overtaken'
  BY <1>2
<1> QED BY <1>4, <1>5, <1>6, SinkFollow

\* The synchronous producer sends what it has built.
LEMMA TopicsSend ==
  ASSUME MemoryInv, ObjectsInv, EventsInv, FlyingInv, TablesInv, TopicsInv,
         NEW e \in Emitter, Sends(e)
  PROVE  TopicsInv'
<1> DEFINE x == First(e)
           m == copy[e]
<1>1. /\ Handles(e) /\ Goes(e) /\ stage[e] = "send" /\ Works(e, "send")
      /\ UNCHANGED callSide /\ UNCHANGED <<outbox, topic, overtaken>>
  BY DEF Sends, SendMessage, Handles
<1>2. x \in Updates \cup Trades
  BY <1>1, FirstIsEvent DEF Handles
<1>3. deploy.producer = "sync" /\ CopyInv(e)
  BY <1>1 DEF EventsInv, EmitterInv
<1>4. m.of = x.of
  BY <1>3 DEF CopyInv
<1>5. Launched(x.kind, m, e) /\ Tells("topic", x, TRUE)
  BY DEF Sends, SendMessage, Launch, Launched
<1>6. ASSUME NEW o \in DOMAIN heap, x = OrderUpdate(o), Told(o),
             deploy.producer = "async" \/ o \notin raced
      PROVE  m.version = heap[o].version
  <2>1. x \in Updates /\ x.of = o /\ o \notin raced \cup silent
    BY <1>3, <1>6, EventKinds DEF Told
  <2> QED BY <1>3, <2>1 DEF CopyInv
<1>7. ASSUME NEW y, y # x, SendPending(y)
      PROVE  SendPending(y)'
  <2>1. todo'[e] = todo[e]
    BY <1>1 DEF Goes
  <2>2. \A d \in Emitter : SendDue(d, y) => SendDue(d, y)'
    BY <1>1, <1>7, <2>1, DueStays
  <2> QED BY <1>1, <1>7, <2>2, PendingKept
<1> HIDE DEF x, m
<1>8. PICK k : k = x
  OBVIOUS
<1>9. PICK n : n = m
  OBVIOUS
<1>10. /\ Launched(k.kind, n, e) /\ Tells("topic", k, TRUE)
  BY <1>5, <1>8, <1>9
<1>11. k \in Updates \cup Trades /\ n.of = k.of
  BY <1>2, <1>4, <1>8, <1>9
<1>12. \A o \in DOMAIN heap :
           k = OrderUpdate(o) /\ Told(o) /\ (deploy.producer = "async" \/ o \notin raced)
             => n.version = heap[o].version
  BY <1>6, <1>8, <1>9
<1>13. \A y : y # k /\ SendPending(y) => SendPending(y)'
  BY <1>7, <1>8
<1> QED BY <1>1, <1>10, <1>11, <1>12, <1>13, TopicsLaunched

\* The asynchronous producer builds a message and sends it.
LEMMA TopicsTake ==
  ASSUME MemoryInv, ObjectsInv, BookInv, OutboxInv, FlyingInv, TablesInv, TopicsInv,
         NEW kind \in Kind, TakesFrom(kind)
  PROVE  TopicsInv'
<1> DEFINE of == Head(outbox[kind])
           x == [kind |-> kind, of |-> of]
           m == Fields(x)
<1>1. /\ Rests /\ ProcessMessage(kind)
      /\ UNCHANGED callSide /\ UNCHANGED <<topic, overtaken, todo, stage>>
  BY DEF TakesFrom, Rests, ProcessMessage
<1>2. traded \in Nat
  BY DEF BookInv
<1>3. /\ \/ kind = "order" /\ x = OrderUpdate(of) /\ of \in DOMAIN heap
            /\ m.version = heap[of].version
         \/ kind = "trade" /\ x = TradeEvent(of) /\ of \in 1..traded
      /\ m.of = of
      /\ ToSet(outbox[kind]) = ToSet(outbox'[kind]) \cup {of}
      /\ \A k \in Kind \ {kind} : outbox'[k] = outbox[k]
  BY <1>1, <1>2, MessageBuilt
<1>4. Launched(kind, m, Nobody) /\ Tells("topic", x, TRUE)
  BY <1>1 DEF ProcessMessage, Launch, Launched
<1>5. x.kind = kind /\ x.of = of
  OBVIOUS
<1> HIDE DEF m, x, of
<1>6. x \in Updates \cup Trades
  BY <1>3 DEF Updates, Trades
<1>7. PICK k : k = x
  OBVIOUS
<1>8. PICK n : n = m
  OBVIOUS
<1>9. /\ Launched(k.kind, n, Nobody) /\ Tells("topic", k, TRUE)
      /\ k \in Updates \cup Trades /\ n.of = k.of
  BY <1>3, <1>4, <1>5, <1>6, <1>7, <1>8
<1>10. \A o \in DOMAIN heap : k = OrderUpdate(o) => n.version = heap[o].version
  <2> SUFFICES ASSUME NEW o \in DOMAIN heap, k = OrderUpdate(o)
               PROVE  n.version = heap[o].version
    OBVIOUS
  <2>1. k.kind = "order" /\ k.of = o
    BY EventKinds
  <2> QED BY <1>3, <1>5, <1>7, <1>8, <2>1
<1>11. \A d \in Emitter : \A y : SendDue(d, y) => SendDue(d, y)'
  BY <1>1 DEF SendDue
<1>12. ASSUME NEW y, y # k, IsEvent(y), SendPending(y)
       PROVE  SendPending(y)'
  <2>1. k = [kind |-> kind, of |-> of]
    BY <1>7 DEF x
  <2>2. y.of \in ToSet(outbox[y.kind]) => y.of \in ToSet(outbox'[y.kind])
    BY <1>3, <1>12, <2>1 DEF IsEvent
  <2> QED BY <1>11, <1>12, <2>2 DEF SendPending
<1> QED BY <1>1, <1>9, <1>10, <1>12, TopicsLaunched

\* An attempt: what is given up unconfirmed is missed.
LEMMA TopicsAnswer ==
  ASSUME MemoryInv, EventsInv, FlyingInv, TablesInv, TopicsInv, NEW kind \in Kind,
         NEW i \in Nat, NEW written \in BOOLEAN, NEW confirmed \in BOOLEAN,
         Answers(kind, i, written, confirmed)
  PROVE  TopicsInv'
<1> DEFINE of == flying[kind][i].message.of
           x == [kind |-> kind, of |-> of]
           givenUp == ~(confirmed = TRUE \/ flying[kind][i].left # 1)
<1>1. /\ i \in DOMAIN flying[kind] /\ UNCHANGED callSide
      /\ Attempt(kind, i, written, confirmed)
      /\ UNCHANGED outbox /\ overtaken \subseteq overtaken'
  BY DEF Answers, Attempt
<1>2. heap' = heap
  BY <1>1 DEF callSide
<1>3. IF givenUp THEN Tells("topic", x, FALSE) ELSE UNCHANGED missed
  BY <1>1 DEF Attempt
<1>4. missed.topic \subseteq missed'.topic /\ (givenUp => x \in missed'.topic)
  <2>1. Tells("topic", x, FALSE) => missed'.topic = missed.topic \cup {x}
    BY TopicMissed
  <2> HIDE DEF x, givenUp
  <2> QED BY <1>3, <2>1
<1>5. ASSUME NEW y, SendPending(y)
      PROVE  SendPending(y)'
  <2> DEFINE e == flying[kind][i].from
  <2>1. Rests \/ (e \in Emitter /\ Handles(e) /\ stage[e] = "wait" /\ Ends(e))
    BY <1>1, AttemptEnds
  <2> HIDE DEF e
  <2>2. CASE Rests
    <3>1. \A d \in Emitter : SendDue(d, y) => SendDue(d, y)'
      BY <2>2 DEF Rests, SendDue
    <3> QED BY <1>1, <1>5, <3>1, PendingKept
  <2>3. CASE e \in Emitter /\ Handles(e) /\ stage[e] = "wait" /\ Ends(e)
    <3>1. PICK d \in Emitter : Handles(d) /\ stage[d] = "wait" /\ Ends(d)
      BY <2>3
    <3>2. \A c \in Emitter : SendDue(c, y) => SendDue(c, y)'
      BY <3>1, DueStays
    <3> QED BY <1>1, <1>5, <3>2, PendingKept
  <2> QED BY <2>1, <2>2, <2>3
<1>6. ASSUME NEW o \in DOMAIN heap, o \notin overtaken', OrderUpdate(o) \notin missed'.topic,
             LastIs(o)
      PROVE  LastIs(o)'
  <2>1. heap'[o].version = heap[o].version
    BY <1>2
  <2>2. CASE kind = "order"
    <3>1. of = o => ~givenUp
      <4>1. of = o => x = OrderUpdate(o)
        BY <2>2 DEF OrderUpdate
      <4> HIDE DEF x, of, givenUp
      <4> QED BY <1>4, <1>6, <4>1
    <3>2. of = o => confirmed = TRUE \/ flying[kind][i].left # 1
      BY <3>1
    <3> HIDE DEF x, givenUp
    <3> QED BY <1>6, <2>1, <2>2, <3>2, AnswerKeepsLast
  <2>3. CASE kind # "order"
    <3>1. "order" \in Kind /\ topic = [k \in Kind |-> topic[k]]
      BY DEF Kind, MemoryInv, TopicsAreSequences
    <3>2. flying'["order"] = flying["order"]
      BY <1>1, <2>3, <3>1, AttemptShape
    <3>3. topic'["order"] = topic["order"]
      BY <1>1, <2>3, <3>1 DEF Attempt
    <3> QED BY <1>6, <2>1, <3>2, <3>3, LastStays
  <2> QED BY <2>2, <2>3
<1>7. ASSUME NEW t, TradeEvent(t) \notin missed'.topic
      PROVE  /\ Sent(t) => Sent(t)'
             /\ Flies("trade", t) => Flies("trade", t)' \/ Sent(t)'
  <2>1. kind = "trade" /\ of = t => ~givenUp
    <3>1. kind = "trade" /\ of = t => x = TradeEvent(t)
      BY DEF TradeEvent
    <3> HIDE DEF x, of, givenUp
    <3> QED BY <1>4, <1>7, <3>1
  <2>2. kind = "trade" /\ of = t => confirmed = TRUE \/ flying[kind][i].left # 1
    BY <2>1
  <2> HIDE DEF x, givenUp
  <2> QED BY <2>2, AnswerKeepsTrade
<1>8. ASSUME NEW o \in DOMAIN heap, o \notin overtaken', OrderUpdate(o) \notin missed'.topic,
             Covered(o)
      PROVE  Covered(o)'
  <2>1. SendPending(OrderUpdate(o)) => SendPending(OrderUpdate(o))'
    BY <1>5
  <2> QED BY <1>6, <1>8, <2>1 DEF Covered
<1>9. ASSUME NEW t \in Known, TradeEvent(t) \notin missed'.topic, TradeCovered(t)
      PROVE  TradeCovered(t)'
  <2>1. SendPending(TradeEvent(t)) => SendPending(TradeEvent(t))'
    BY <1>5
  <2> QED BY <1>7, <1>9, <2>1 DEF TradeCovered
<1>10. missed.topic \ {} \subseteq missed'.topic
  BY <1>4
<1> HIDE DEF x, of, givenUp
<1> QED BY <1>1, <1>8, <1>9, <1>10, SinkFollow

\* Messages of other programs are of no order here.
LEMMA TopicsUpstream ==
  ASSUME MemoryInv, TablesInv, TopicsInv, UpstreamSends, Rests
  PROVE  TopicsInv'
<1> DEFINE m == [of |-> NoOrder, id |-> 0, version |-> 0,
                 status |-> "open", body |-> Head(upstream)]
<1>1. /\ UNCHANGED callSide /\ UNCHANGED <<heap, outbox, flying, overtaken, missed, todo, stage>>
  BY DEF UpstreamSends, Rests, eventVars
<1>2. topic' = [topic EXCEPT !["order"] = Append(@, m)]
  BY DEF UpstreamSends
<1>3. m.of = NoOrder
  OBVIOUS
<1> HIDE DEF m
<1>4. Receives(m) /\ topic'["trade"] = topic["trade"]
  BY <1>2 DEF MemoryInv, TopicsAreSequences, Kind, Receives
<1>5. \A o \in DOMAIN heap : m.of # o
  BY <1>3, HeapDomain DEF NoOrder
<1>6. \A x : SendPending(x) => SendPending(x)'
  BY <1>1 DEF SendPending, SendDue
<1>7. ASSUME NEW o \in DOMAIN heap, Covered(o)
      PROVE  Covered(o)'
  <2>1. TopicIs(o) => TopicIs(o)'
    <3>1. PICK n : n = m
      OBVIOUS
    <3>2. Receives(n) /\ n.of # o
      BY <1>4, <1>5, <3>1
    <3> QED BY <1>1, <3>2, TopicIsAfter
  <2>2. /\ Flies("order", o)' <=> Flies("order", o)
        /\ \A i : FliesLast(o, i) => FliesLast(o, i)'
    BY <1>1 DEF Flies, FliesLast
  <2>3. LastIs(o) => LastIs(o)'
    BY <1>1, <2>1, <2>2 DEF LastIs
  <2>4. SendPending(OrderUpdate(o)) => SendPending(OrderUpdate(o))'
    BY <1>6
  <2> QED BY <1>7, <2>3, <2>4 DEF Covered
<1>8. ASSUME NEW t, TradeCovered(t)
      PROVE  TradeCovered(t)'
  <2>1. (Sent(t) => Sent(t)') /\ (Flies("trade", t) => Flies("trade", t)')
    BY <1>1, <1>4 DEF Sent, Flies
  <2>2. SendPending(TradeEvent(t)) => SendPending(TradeEvent(t))'
    BY <1>6
  <2> QED BY <1>8, <2>1, <2>2 DEF TradeCovered
<1>9. missed.topic \ {} \subseteq missed'.topic /\ overtaken \subseteq overtaken'
  BY <1>1
<1> QED BY <1>1, <1>7, <1>8, <1>9, SinkFollow

\* Every step keeps the topics current.
LEMMA TopicsStep ==
  ASSUME MemoryInv, ObjectsInv, QueueInv, BookInv, EventsInv, OutboxInv, FlyingInv,
         TablesInv, TopicsInv, StepKind
  PROVE  TopicsInv'
<1>1. CASE EngineTells
  BY <1>1, TopicsTold
<1>2. CASE ProcessDies
  BY <1>2, TopicsDie
<1>3. CASE SinkStep
  <2>1. ASSUME NEW e \in Emitter, Fetches(e) \/ Writes(e) \/ HandsOver(e) \/ Sends(e)
        PROVE  TopicsInv'
    <3>1. Fetches(e) \/ Writes(e) => TopicsInv'
      BY TopicsLeft
    <3>2. HandsOver(e) => TopicsInv'
      BY TopicsHandOver
    <3>3. Sends(e) => TopicsInv'
      BY TopicsSend
    <3> QED BY <2>1, <3>1, <3>2, <3>3
  <2>2. \A kind \in Kind : TakesFrom(kind) => TopicsInv'
    BY TopicsTake
  <2>3. \A kind \in Kind : \A i \in Nat, written, confirmed \in BOOLEAN :
          Answers(kind, i, written, confirmed) => TopicsInv'
    BY TopicsAnswer
  <2>4. UpstreamSends /\ Rests => TopicsInv'
    BY TopicsUpstream
  <2> QED BY <1>3, <2>1, <2>2, <2>3, <2>4, SinkKinds
<1> QED BY <1>1, <1>2, <1>3, EngineOrSink

-----------------------------------------------------------------------------
(* main, the first state, and the theorems.                                *)

MainInv == /\ deploy \in Deployments
           /\ main \in {"down", "serving", "grpc", "http", "consumer", "engine",
                        "stopping", "stopped", "closed"}
           /\ Up <=> main # "down"

\* The configuration stays, and main is up when the process is.
LEMMA MainStays ==
  ASSUME MainInv, [Next]_vars
  PROVE  MainInv'
<1>1. ASSUME ProcessDies
      PROVE  MainInv'
  BY <1>1 DEF ProcessDies, Down, MainInv, Up
<1>2. ASSUME UNCHANGED <<deploy, main>>, Up' <=> Up
      PROVE  MainInv'
  BY <1>2 DEF MainInv
<1>3. CASE UNCHANGED vars
  BY <1>2, <1>3 DEF vars, engineVars, mainVars, Up
<1>4. CASE MainStep
  <2>1. CASE StartProcess
    BY <2>1 DEF StartProcess, StartEngine, MainInv, Up
  <2>2. ASSUME NEW from \in {"serving", "grpc", "http", "consumer", "engine",
                             "stopping", "stopped"},
               NEW to \in {"grpc", "http", "consumer", "engine", "stopping", "stopped",
                           "closed"},
               MainGoes(from, to), worker' = worker
        PROVE  MainInv'
    BY <2>2 DEF MainGoes, MainInv, Up
  <2>3. CASE Exit \/ SendPanics
    BY <1>1, <2>3 DEF Exit, SendPanics
  <2>4. CASE Signal \/ GracefulStop \/ HttpShutdown \/ CloseProducers
    BY <2>2, <2>4 DEF Signal, GracefulStop, HttpShutdown, CloseProducers, engineVars
  <2>5. CASE CloseConsumer \/ StopEngine \/ EngineStopped
    BY <2>2, <2>5
    DEF CloseConsumer, StopEngine, EngineStopped, StopBegins, StopReturns, engineVars
  <2> QED BY <1>4, <2>1, <2>3, <2>4, <2>5 DEF MainStep
<1>5. CASE Crash
  BY <1>1, <1>5 DEF Crash
<1>6. ASSUME NEW c \in Client, ClientCalls(c)
      PROVE  MainInv'
  BY <1>2, <1>6 DEF ClientCalls, Calls, Up
<1>7. ASSUME NEW c \in Caller, InCall(c)
      PROVE  MainInv'
  BY <1>2, <1>7
  DEF InCall, SubmitEnters, EnterSubmit, SubmitSends, Send, CancelTakes, CancelMarks,
      EnterCancel, CancelMisses, HandleEvent, CancelReturns, LeaveCancel,
      engineVars, mainVars, Up
<1>8. CASE Matching
  BY <1>2, <1>8
  DEF Matching, TakeOrder, Take, ParkStop, ChooseMaker, FillMaker, MatchEnds, RestOrder,
      OrderDone, Processed, ChannelDone, WorkerEnds, HandleEvent, engineVars, mainVars,
      Up
<1>9. CASE Consuming
  BY <1>1, <1>2, <1>9
  DEF Consuming, SessionOpens, SessionPanics, SessionEnds, OffsetsCommitted,
      MessageDelivered, Calls, MessageHandled, engineVars, mainVars, Up
<1>10. CASE ProcessMessages \/ Delivery \/ UpstreamSends
  BY <1>2, <1>10 DEF ProcessMessages, Delivery, UpstreamSends, engineVars, mainVars, Up
<1> QED
  BY <1>3, <1>4, <1>5, <1>6, <1>7, <1>8, <1>9, <1>10 DEF Next

\* All of it.
Inv == /\ MemoryInv /\ CallsInv /\ ConsumerInv
       /\ MainInv /\ PhaseInv
       /\ ObjectsInv /\ QueueInv /\ BookInv /\ EventsInv
       /\ OutboxInv /\ FlyingInv /\ TopicInv /\ OrderedInv
       /\ TablesInv /\ RowsInv /\ TopicsInv

\* No order, no event, no message.
LEMMA NothingYet == Init => Inv
<1> SUFFICES ASSUME Init
             PROVE  Inv
  OBVIOUS
<1>1. MemoryInv /\ CallsInv /\ ConsumerInv
  BY MemoryInit, FreshInvariant, ConsumerStart DEF Init
<1>2. /\ heap = <<>> /\ orderChan = <<>> /\ phase = "none" /\ worker = "none"
      /\ main = "down" /\ deploy \in Deployments /\ traded = 0 /\ matched = 0
      /\ maker = NoOrder
      /\ \A c \in Caller : call[c].at = "idle"
  BY NoCallIsIdle DEF Init, EngineInit, SinksInit
<1>3. /\ todo = [e \in Emitter |-> <<>>] /\ stage = [e \in Emitter |-> "save"]
      /\ copy = [e \in Emitter |-> NoCopy]
      /\ outbox = [kind \in Kind |-> <<>>]
      /\ flying = [kind \in Kind |-> <<>>]
      /\ topic = [kind \in Kind |-> <<>>]
      /\ entries = NoEntries /\ taken = NoneTaken
  BY DEF Init, SinksInit
<1>4. /\ DOMAIN heap = {} /\ Len(heap) = 0 /\ ToSet(orderChan) = {} /\ DOMAIN orderChan = {}
      /\ Len(orderChan) = 0 /\ IsSequence(orderChan)
      /\ 0 <= MaxObjects /\ 0 <= MaxTrades /\ 0 <= Capacity /\ 0 <= OutboxCapacity
      /\ 1..traded = {}
  BY <1>2, ShortSequences, PipelineAssumption, CallsAssumption, SinksAssumption
<1>5. MainInv /\ PhaseInv
  BY <1>2 DEF MainInv, PhaseInv, Up
<1>6. ObjectsInv
  BY <1>4 DEF ObjectsInv
<1>7. QueueInv
  <2>1. \A c \in Caller : ~Handing(c)
    BY <1>2 DEF Handing
  <2>2. IsInjective(orderChan)
    BY <1>4 DEF IsInjective
  <2> QED BY <1>2, <1>4, <2>1, <2>2 DEF QueueInv, Working
<1>8. BookInv
  <2>1. entries = [id \in Object |-> entries[id]] /\ \A id \in Object : entries[id] = NoOrder
    BY <1>3 DEF NoEntries
  <2>2. taken = [c \in Client |-> taken[c]] /\ \A c \in Client : taken[c] = NoOrder
    BY <1>3 DEF NoneTaken
  <2> QED BY <1>2, <2>1, <2>2 DEF BookInv
<1>9. EventsInv
  <2>1. \A e \in Emitter : todo[e] = <<>> /\ stage[e] = "save" /\ ~Emitting(e)
    BY <1>3 DEF Emitting
  <2>2. \A e \in Emitter : ToSet(todo[e]) = {} /\ IsSequence(todo[e])
    BY <2>1, ShortSequences
  <2>3. \A e \in Emitter : EmitterInv(e)
    BY <2>1, <2>2 DEF EmitterInv
  <2>4. \A c \in Client : c \in Emitter
    BY MatcherEmits
  <2>5. /\ todo = [e \in Emitter |-> todo[e]] /\ stage = [e \in Emitter |-> stage[e]]
        /\ copy = [e \in Emitter |-> copy[e]]
    BY <1>3
  <2> QED BY <2>1, <2>2, <2>3, <2>4, <2>5, MatcherEmits DEF EventsInv
<1>10. OutboxInv
  <2>1. \A kind \in Kind : outbox[kind] = <<>>
    BY <1>3
  <2>2. outbox = [kind \in Kind |-> outbox[kind]]
    BY <1>3
  <2> QED BY <1>4, <2>1, <2>2, ShortSequences DEF OutboxInv, Kind
<1>11. FlyingInv /\ TopicInv /\ OrderedInv
  <2>1. /\ flying = [kind \in Kind |-> flying[kind]]
        /\ \A kind \in Kind : flying[kind] = <<>> /\ topic[kind] = <<>>
    BY <1>3
  <2>2. \A kind \in Kind : /\ DOMAIN flying[kind] = {} /\ IsSequence(flying[kind])
                           /\ DOMAIN topic[kind] = {}
    BY <2>1, ShortSequences
  <2> QED BY <1>4, <2>1, <2>2 DEF FlyingInv, TopicInv, OrderedInv, Kind
<1>12. TablesInv
  <2>1. /\ rows = [kind \in Kind |-> rows[kind]]
        /\ \A kind \in Kind : rows[kind] = [key \in RowKey |-> rows[kind][key]]
    <3>1. rows = [kind \in Kind |-> [key \in RowKey |-> NoRow]]
      BY DEF Init, SinksInit
    <3> QED BY <3>1
  <2>2. missed = [rows |-> missed.rows, topic |-> missed.topic]
    BY DEF Init, SinksInit
  <2> QED BY <1>2, <1>4, <2>1, <2>2 DEF TablesInv
<1>13. RowsInv /\ TopicsInv
  <2>1. Known = {}
    BY <1>2 DEF Known
  <2> QED BY <1>4, <2>1 DEF RowsInv, TopicsInv
<1> QED
  BY <1>1, <1>5, <1>6, <1>7, <1>8, <1>9, <1>10, <1>11, <1>12, <1>13 DEF Inv

\* Every step of the program keeps all of it.
LEMMA AllStay == Inv /\ [Next]_vars => Inv'
<1> SUFFICES ASSUME Inv, [Next]_vars
             PROVE  Inv'
  OBVIOUS
<1>1. /\ MemoryInv /\ CallsInv /\ ConsumerInv
      /\ MainInv /\ PhaseInv
      /\ ObjectsInv /\ QueueInv /\ BookInv /\ EventsInv
      /\ OutboxInv /\ FlyingInv /\ TopicInv /\ OrderedInv
      /\ TablesInv /\ RowsInv /\ TopicsInv
  BY DEF Inv
<1>2. MemoryInv' /\ CallsInv'
  BY <1>1, MemoryStep, EngineStep, EngineStepInvariant
<1>3. ConsumerInv'
  BY <1>1, ConsumerStep
<1>4. StepKind
  BY <1>1, StepKinds
<1>5. MainInv' /\ PhaseInv'
  BY <1>1, MainStays, PhaseStep
<1>6. ObjectsInv' /\ QueueInv' /\ BookInv' /\ EventsInv'
  BY <1>1, <1>4, ObjectsStep, QueueStep, BookStep, EventsStep
<1>7. OutboxInv' /\ FlyingInv' /\ TopicInv' /\ OrderedInv'
  BY <1>1, <1>4, OutboxStep, FlyingStep, TopicStep, OrderedStep
<1>8. TablesInv' /\ RowsInv'
  BY <1>1, <1>4, TablesStep, RowsStep
<1>9. TopicsInv'
  BY <1>1, <1>4, TopicsStep
<1> QED BY <1>2, <1>3, <1>5, <1>6, <1>7, <1>8, <1>9 DEF Inv

\* The variables keep to their values: no channel exceeds its capacity
\* (engine.go 137, kafka_producer.go 140-141), an order has the status of one, and
\* whoever holds an order, the index, a cancel or the matcher, holds one that is
\* in memory.
THEOREM PipelineTypesAreKept == Spec => []TypeOK
<1>1. ASSUME Inv
      PROVE  TypeOK
  <2>1. /\ MainInv /\ PhaseInv /\ ObjectsInv /\ QueueInv /\ BookInv /\ EventsInv
        /\ OutboxInv /\ session \in {"none", "open", "closed"}
    BY <1>1 DEF Inv, ConsumerInv, ConsumerShape
  <2>2. \A e \in Emitter : stage[e] \in {"save", "write", "publish", "send", "wait"}
    BY <2>1 DEF EventsInv, EmitterInv
  <2>3. \A o \in DOMAIN heap :
          /\ heap[o].id \in 0..MaxObjects
          /\ heap[o].status \in {"open", "filled", "cancelled", "spent"}
    BY <2>1 DEF ObjectsInv, IsObject, Statuses
  <2>4. /\ entries \in [Object -> DOMAIN heap \cup {NoOrder}]
        /\ taken \in [Client -> DOMAIN heap \cup {NoOrder}]
        /\ maker \in DOMAIN heap \cup {NoOrder}
    BY <2>1 DEF BookInv, Placed
  <2>5. matched \in 0..traded
    BY <2>1 DEF BookInv
  <2>6. /\ Len(orderChan) <= Capacity /\ ToSet(orderChan) \subseteq DOMAIN heap
        /\ \A kind \in Kind : Len(outbox[kind]) <= OutboxCapacity
    BY <2>1 DEF QueueInv, OutboxInv
  <2> QED
    BY <2>1, <2>2, <2>3, <2>4, <2>5, <2>6 DEF TypeOK, MainInv, PhaseInv
<1> QED BY <1>1, NothingYet, AllStay, PTL DEF Spec

\* Behind the asynchronous producer the updates of an order reach the topic in
\* the order in which it changed, because its one goroutine reads the order when
\* it sends (kafka_producer.go 176-213), unless the client library let one of
\* them pass another.
THEOREM UpdatesStayInOrder == Spec => []UpdatesNeverGoBack
<1>1. Inv => UpdatesNeverGoBack
  BY OrderedIsForward DEF Inv
<1> QED BY <1>1, NothingYet, AllStay, PTL DEF Spec

\* When the handlers are through, nothing is pending and all trades are known.
LEMMA QuietIsKnown ==
  ASSUME BookInv, EventsInv, Quiet
  PROVE  /\ \A x : ~RowPending(x)
         /\ \A e \in Emitter : \A x : ~SendDue(e, x)
         /\ \A o \in DOMAIN heap : Announced(o) => Told(o)
         /\ Known = 1..traded
<1>1. \A e \in Emitter : DOMAIN todo[e] = {}
  BY ShortSequences DEF Quiet, Emitting
<1>2. /\ \A x : ~RowPending(x)
      /\ \A e \in Emitter : \A x : ~SendDue(e, x)
  BY <1>1 DEF RowPending, RowDue, SendDue
<1>3. \A o \in DOMAIN heap : Announced(o) => Told(o)
  BY DEF Announced, Told
<1>4. Known = 1..traded
  <2>1. matched = 0 /\ traded \in Nat
    BY DEF Quiet, BookInv
  <2> QED BY <2>1 DEF Known
<1> QED BY <1>2, <1>3, <1>4

\* Once the handlers are through, the tables have every announced order as it is,
\* and every trade (storage_handler.go 24-43, mysql.go 112-138 and 171-190),
\* wherever a cancel met the match of its order: also when the maker had been
\* chosen before it was cancelled.  Excepted are rows that failed, raced or are
\* shared, and makers whose fill is not announced (all but the last of a match).
THEOREM RowsAlwaysCurrent == Spec => []RowsAreCurrent
<1>1. ASSUME Inv
      PROVE  RowsAreCurrent
  <2> SUFFICES ASSUME Quiet
               PROVE  /\ \A o \in DOMAIN heap :
                           /\ Announced(o)
                           /\ o \notin raced
                           /\ ~SharesRow(o)
                           /\ OrderUpdate(o) \notin missed.rows
                           => RowIs(o)
                      /\ \A t \in 1..traded :
                           TradeEvent(t) \notin missed.rows => rows["trade"][t].of = t
    BY DEF RowsAreCurrent, RowIs
  <2>1. RowsInv /\ BookInv /\ EventsInv
    BY <1>1 DEF Inv
  <2>2. /\ \A x : ~RowPending(x)
        /\ \A o \in DOMAIN heap : Announced(o) => Told(o)
        /\ Known = 1..traded
    BY <2>1, QuietIsKnown
  <2> QED BY <2>1, <2>2 DEF RowsInv
<1> QED BY <1>1, NothingYet, AllStay, PTL DEF Spec

\* Once the channels and the client library are empty too, the topics have them
\* as well, whatever became of the tables (event_handler.go 28-47, kafka_handler.go
\* 33-70, kafka_producer.go 44-98 and 176-213), except for messages that failed,
\* passed each other or, behind the synchronous producer, raced.
THEOREM TopicAlwaysCurrent == Spec => []TopicIsCurrent
<1>1. ASSUME Inv
      PROVE  TopicIsCurrent
  <2> SUFFICES ASSUME Quiet, \A kind \in Kind : outbox[kind] = <<>> /\ flying[kind] = <<>>
               PROVE  /\ \A o \in DOMAIN heap :
                           /\ Announced(o)
                           /\ deploy.producer = "async" \/ o \notin raced
                           /\ o \notin overtaken
                           /\ OrderUpdate(o) \notin missed.topic
                           => TopicIs(o)
                      /\ \A t \in 1..traded : TradeEvent(t) \notin missed.topic => Sent(t)
    BY DEF TopicIsCurrent, TopicIs, Sent
  <2>1. TopicsInv /\ BookInv /\ EventsInv
    BY <1>1 DEF Inv
  <2>2. /\ \A e \in Emitter : \A x : ~SendDue(e, x)
        /\ \A o \in DOMAIN heap : Announced(o) => Told(o)
        /\ Known = 1..traded
    BY <2>1, QuietIsKnown
  <2>3. /\ \A kind \in Kind : ToSet(outbox[kind]) = {} /\ DOMAIN flying[kind] = {}
        /\ "order" \in Kind /\ "trade" \in Kind
    BY ShortSequences DEF Kind
  <2>4. /\ \A o : ~SendPending(OrderUpdate(o))
        /\ \A t : ~SendPending(TradeEvent(t))
    BY <2>2, <2>3, EventKinds DEF SendPending
  <2>5. /\ \A o : LastIs(o) => TopicIs(o)
        /\ \A t : ~Flies("trade", t)
    BY <2>3 DEF LastIs, Flies
  <2> QED BY <2>1, <2>2, <2>4, <2>5 DEF TopicsInv
<1> QED BY <1>1, NothingYet, AllStay, PTL DEF Spec

=============================================================================
