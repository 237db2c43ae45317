----------------------------- MODULE EventSinks -----------------------------
(***************************************************************************)
(* From an event of the engine to MySQL and Kafka: the handler chain of    *)
(* internal/engine, SaveOrder and SaveTrade of internal/storage/mysql.go,  *)
(* and the producers of internal/producer.                                 *)
(*                                                                         *)
(* An event carries a pointer.  Each handler reads the order when it runs, *)
(* and the asynchronous producer when its goroutine takes the pointer from *)
(* its channel; meanwhile other goroutines go on changing the order.       *)
(*                                                                         *)
(* Between a producer and the brokers is the client library: it tries a    *)
(* message again when no answer comes, with others in flight meanwhile, so *)
(* messages may pass each other, arrive twice or be given up.              *)
(***************************************************************************)
EXTENDS SequencesExt, Integers

CONSTANTS Emitter,          \* the goroutines that emit events
          OutboxCapacity,   \* of the producer's channels, 10000 in the program
          RowKey,           \* the ids of orders and trades
          Tries             \* of a message: Retry.Max = 5 and the first

ASSUME SinksAssumption == {OutboxCapacity, Tries} \subseteq Nat \ {0}

\* Whoever does not wait for the brokers.
Nobody == "nobody"
ASSUME NobodyAssumption == Nobody \notin Emitter

VARIABLES heap,     \* the orders in memory: what was asked, id, status, and
                    \* how often matching or a cancel has changed them
          todo,     \* per emitter, the events not handled yet
          stage,    \* per emitter, what it does for the first of them
          copy,     \* per emitter, the record or the message it built
          rows,     \* the tables orders and trades, by primary key
          outbox,   \* tradeChan and orderChan of the asynchronous producer
          flying,   \* messages in the client library, not answered yet
          topic,    \* what the brokers hold
          missed,   \* per sink, the events that failed there and were not
                    \* sent again since
          overtaken \* history: orders a message of which was passed by a later

sinkVars == <<heap, todo, stage, copy, rows, outbox, flying, topic, missed,
              overtaken>>
wireVars == <<outbox, flying, topic, overtaken>>
eventVars == <<todo, stage, copy, outbox, flying, missed, overtaken>>
diskVars == <<rows, topic>>

Kind == {"order", "trade"}
NoCopy == [of |-> 0, id |-> 0, version |-> 0]
NoRow  == [of |-> 0, version |-> 0]

OrderUpdate(o) == [kind |-> "order", of |-> o]
TradeEvent(t)  == [kind |-> "trade", of |-> t]

SinksInit == /\ heap = <<>>
             /\ todo = [e \in Emitter |-> <<>>]
             /\ stage = [e \in Emitter |-> "save"]
             /\ copy = [e \in Emitter |-> NoCopy]
             /\ rows = [kind \in Kind |-> [key \in RowKey |-> NoRow]]
             /\ outbox = [kind \in Kind |-> <<>>]
             /\ flying = [kind \in Kind |-> <<>>]
             /\ topic = [kind \in Kind |-> <<>>]
             /\ missed = [rows |-> {}, topic |-> {}]
             /\ overtaken = {}

\* The fields of an order, or of a trade, which never changes, at this moment.
Fields(event) ==
  IF event.kind = "order"
    THEN [of |-> event.of, id |-> heap[event.of].id,
          version |-> heap[event.of].version,
          status |-> heap[event.of].status, body |-> heap[event.of].body]
    ELSE [of |-> event.of, id |-> event.of, version |-> 0]

Emitting(e) == todo[e] # <<>>

First(e) == Head(todo[e])

NextEvent(e) == /\ todo' = [todo EXCEPT ![e] = Tail(@)]
                /\ stage' = [stage EXCEPT ![e] = "save"]
                /\ copy' = [copy EXCEPT ![e] = NoCopy]

Works(e, where) == Emitting(e) /\ stage[e] = where

Tells(sink, event, reached) ==
  missed' = [missed EXCEPT ![sink] = IF reached THEN @ \ {event} ELSE @ \cup {event}]

-----------------------------------------------------------------------------
(* StorageHandler.                                                         *)

\* SaveOrder and SaveTrade build the record,
ReadRecord(e) ==
  /\ Works(e, "save")
  /\ copy' = [copy EXCEPT ![e] = Fields(First(e))]
  /\ stage' = [stage EXCEPT ![e] = "write"]
  /\ UNCHANGED <<heap, todo, rows, missed, wireVars>>

\* Mutant of WriteRow: a failed write ends the chain.
WriteRowOrStop(e, written) ==
  /\ Works(e, "write")
  /\ rows' = IF written
               THEN [rows EXCEPT ![First(e).kind][copy[e].id] =
                       [of |-> copy[e].of, version |-> copy[e].version]]
               ELSE rows
  /\ Tells("rows", First(e), written)
  /\ IF written
       THEN /\ stage' = [stage EXCEPT ![e] = "publish"]
            /\ copy' = [copy EXCEPT ![e] = NoCopy]
            /\ UNCHANGED todo
       ELSE NextEvent(e)
  /\ UNCHANGED <<heap, wireVars>>

\* and write it: an existing row of an order is updated.  The chain goes on
\* when the write fails.
WriteRow(e, written) ==
  /\ Works(e, "write")
  /\ rows' = IF written
               THEN [rows EXCEPT ![First(e).kind][copy[e].id] =
                       [of |-> copy[e].of, version |-> copy[e].version]]
               ELSE rows
  /\ Tells("rows", First(e), written)
  /\ stage' = [stage EXCEPT ![e] = "publish"]
  /\ copy' = [copy EXCEPT ![e] = NoCopy]
  /\ UNCHANGED <<heap, todo, wireVars>>

-----------------------------------------------------------------------------
(* KafkaHandler.                                                           *)

\* Without a producer the handler does nothing.
PublishNothing(e) ==
  /\ Works(e, "publish")
  /\ NextEvent(e)
  /\ Tells("topic", First(e), FALSE)
  /\ UNCHANGED <<heap, rows, wireVars>>

\* Mutant of Enqueue: a full channel is not noticed.
EnqueueAlways(e) ==
  /\ Works(e, "publish")
  /\ NextEvent(e)
  /\ outbox' = [outbox EXCEPT ![First(e).kind] = Append(@, First(e).of)]
  /\ Tells("topic", First(e), TRUE)
  /\ UNCHANGED <<heap, rows, flying, topic, overtaken>>

\* AsyncProducer.SendOrder and SendTrade: a full channel drops the event.
Enqueue(e) ==
  LET kind == First(e).kind
      room == Len(outbox[kind]) < OutboxCapacity
  IN  /\ Works(e, "publish")
      /\ NextEvent(e)
      /\ outbox' = IF room THEN [outbox EXCEPT ![kind] = Append(@, First(e).of)]
                           ELSE outbox
      /\ Tells("topic", First(e), room)
      /\ UNCHANGED <<heap, rows, flying, topic, overtaken>>

\* A message about an event goes to the client library; who waits for the
\* answer.
Launch(event, message, emitter) ==
  /\ flying' = [flying EXCEPT ![event.kind] =
                  Append(@, [message |-> message, left |-> Tries, from |-> emitter])]
  /\ Tells("topic", event, TRUE)

\* KafkaProducer.SendOrderUpdate and SendTrade: the message is built,
Marshal(e) ==
  /\ Works(e, "publish")
  /\ copy' = [copy EXCEPT ![e] = Fields(First(e))]
  /\ stage' = [stage EXCEPT ![e] = "send"]
  /\ UNCHANGED <<heap, todo, rows, missed, wireVars>>

\* then handed over, and the emitter waits for the brokers.
SendMessage(e) ==
  /\ Works(e, "send")
  /\ Launch(First(e), copy[e], e)
  /\ stage' = [stage EXCEPT ![e] = "wait"]
  /\ copy' = [copy EXCEPT ![e] = NoCopy]
  /\ UNCHANGED <<heap, todo, rows, outbox, topic, overtaken>>

\* Mutant of Publish: useAsync is not consulted.
PublishSync(e, producer) ==
  IF producer = "none" THEN PublishNothing(e) ELSE Marshal(e)

\* KafkaHandler.OnTrade and OnOrderUpdate.
Publish(e, producer) ==
  \/ producer = "async" /\ Enqueue(e)
  \/ producer = "sync"  /\ Marshal(e)
  \/ producer = "none"  /\ PublishNothing(e)

\* AsyncProducer.processMessages takes from either channel; the message is
\* built only now.
ProcessMessage(kind) ==
  LET event == [kind |-> kind, of |-> Head(outbox[kind])]
  IN  /\ outbox[kind] # <<>>
      /\ outbox' = [outbox EXCEPT ![kind] = Tail(@)]
      /\ Launch(event, Fields(event), Nobody)
      /\ UNCHANGED <<heap, todo, stage, copy, rows, topic, overtaken>>

-----------------------------------------------------------------------------
(* The client library and the brokers.                                     *)

\* Messages of one order that entered the library before the i-th.
Passes(kind, i) ==
  \E j \in 1..(i - 1) : flying[kind][j].message.of = flying[kind][i].message.of

\* One attempt for the i-th message in flight.  What the brokers wrote may not
\* be confirmed; then the library tries again, or gives up and reports an error.
\* Neither configuration is idempotent or limits what is in flight, so the
\* messages behind it need not wait.
Attempt(kind, i, written, confirmed) ==
  LET flight == flying[kind][i]
      event  == [kind |-> kind, of |-> flight.message.of]
      over   == confirmed \/ flight.left = 1
      tried  == [flight EXCEPT !.left = flight.left - 1]
  IN  /\ confirmed => written
      /\ topic' = IF written
                    THEN [topic EXCEPT ![kind] = Append(@, flight.message)]
                    ELSE topic
      /\ flying' = [flying EXCEPT ![kind] =
                      IF over THEN RemoveAt(@, i) ELSE ReplaceAt(@, i, tried)]
      /\ overtaken' = IF kind = "order" /\ (written \/ over) /\ Passes(kind, i)
                        THEN overtaken \cup {event.of} ELSE overtaken
      /\ IF over /\ ~confirmed THEN Tells("topic", event, FALSE) ELSE UNCHANGED missed
      /\ IF over /\ flight.from # Nobody
           THEN NextEvent(flight.from) ELSE UNCHANGED <<todo, stage, copy>>
      /\ UNCHANGED <<heap, rows, outbox>>
==============================================================================
