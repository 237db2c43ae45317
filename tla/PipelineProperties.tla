------------------------- MODULE PipelineProperties -------------------------
(* What main, the servers, the consumer, the engine and the event handlers *)
(* of a standalone deployment keep to, whatever their order and whatever   *)
(* fails.                                                                  *)
EXTENDS OrderPipeline

\* The values the variables range over.
TypeOK ==
  /\ deploy \in Deployments
  /\ main \in {"down", "serving", "grpc", "http", "consumer", "engine",
               "stopping", "stopped", "closed"}
  /\ Up <=> main # "down"
  /\ Len(orderChan) <= Capacity
  /\ \A kind \in Kind : Len(outbox[kind]) <= OutboxCapacity
  /\ ToSet(orderChan) \subseteq DOMAIN heap
  /\ \A o \in DOMAIN heap : /\ heap[o].id \in 0..MaxObjects
                            /\ heap[o].status \in {"open", "filled", "cancelled", "spent"}
  /\ phase \in {"none", "match", "fill", "rest", "end"}
  /\ phase # "none" <=> worker = "busy"
  /\ \A e \in Emitter : stage[e] \in {"save", "write", "publish", "send", "wait"}
  /\ entries \in [Object -> DOMAIN heap \cup {NoOrder}]
  /\ taken \in [Client -> DOMAIN heap \cup {NoOrder}]
  /\ maker \in DOMAIN heap \cup {NoOrder}
  /\ matched \in 0..traded
  /\ session \in {"none", "open", "closed"}

-----------------------------------------------------------------------------
(* The consumer's offsets.                                                 *)

\* The committed offset never covers a message HandleOrder has not returned
\* for, however the process dies; the only others it covers are those that
\* OffsetNewest left out while nothing was committed, and those that are not
\* orders (kafka_consumer.go 126-154).
CommittedWasHandled ==
  \A offset \in 0..(committed - 1) : offset \in handled \cup skipped

\* In one process no message is given to the engine twice: the panic of a
\* second Setup is what prevents it, since a session that resumes at the
\* committed offset reads what was handled but not committed once more.
OncePerProcess ==
  [][claimed' # claimed /\ claimed' # NoOffset => claimed' \notin seen]_vars

-----------------------------------------------------------------------------
(* The events.                                                             *)

Quiet == /\ \A e \in Emitter : ~Emitting(e)
         /\ \A c \in Client : taken[c] = NoOrder
         /\ phase = "none"

\* Orders of this process that its goroutine has been through, and that were
\* announced; two copies of one order share a row.
Announced(o) == heap[o].place \in {"resting", "gone"} /\ o \notin silent
SharesRow(o) == \E p \in DOMAIN heap \ {o} : heap[p].id = heap[o].id

\* Once the handlers are through, the table shows every order as it is and
\* every trade, wherever a cancel met the match of its order, except when the
\* last write failed or was cut short, when two goroutines had an update of the
\* order to save at a time (their writes may come in either order), when it was
\* a maker other than the last of its match, and when it came back from Kafka
\* under the id of another.
RowsAreCurrent ==
  Quiet =>
    /\ \A o \in DOMAIN heap :
         /\ Announced(o)
         /\ o \notin raced
         /\ ~SharesRow(o)
         /\ OrderUpdate(o) \notin missed.rows
         => rows["order"][heap[o].id] = [of |-> o, version |-> heap[o].version]
    /\ \A t \in 1..traded :
         TradeEvent(t) \notin missed.rows => rows["trade"][t].of = t

\* A message about x that no other follows.
IsLatest(kind, x, i) ==
  /\ topic[kind][i].of = x
  /\ \A j \in DOMAIN topic[kind] : j > i => topic[kind][j].of # x

\* The topics agree with memory in the same way, whatever became of the rows: a
\* handler that fails does not keep an event from the next one.  Nothing is
\* claimed of an order whose messages passed each other in the client library.
\* Behind the asynchronous producer a cancel that races an update does no harm,
\* because the message is built when it leaves.
TopicIsCurrent ==
  Quiet /\ (\A kind \in Kind : outbox[kind] = <<>> /\ flying[kind] = <<>>) =>
    /\ \A o \in DOMAIN heap :
         /\ Announced(o)
         /\ deploy.producer = "async" \/ o \notin raced
         /\ o \notin overtaken
         /\ OrderUpdate(o) \notin missed.topic
         => \E i \in DOMAIN topic["order"] :
              /\ IsLatest("order", o, i)
              /\ topic["order"][i].version = heap[o].version
    /\ \A t \in 1..traded :
         TradeEvent(t) \notin missed.topic =>
           \E i \in DOMAIN topic["trade"] : topic["trade"][i].of = t

\* With the asynchronous producer the updates of an order appear in the topic
\* in the order in which it changed, although a cancel and a match announce
\* them from two goroutines, and a message may be written twice; unless one of
\* them was tried again while a later one went through.
UpdatesNeverGoBack ==
  deploy.producer = "async" =>
    \A i, j \in DOMAIN topic["order"] :
      /\ i < j
      /\ topic["order"][i].of = topic["order"][j].of
      /\ topic["order"][i].of \notin overtaken
      => topic["order"][i].version <= topic["order"][j].version

-----------------------------------------------------------------------------
(* Calls and orders come to an end.                                        *)

\* Every SubmitOrder and CancelOrder returns, also when the channel is full or
\* Stop waits for the lock, and so does Stop: whoever holds the read lock waits
\* for nothing that waits for the lock.  Requests and messages being finite in
\* number here, a time comes when all of them have.
CallPending == \/ \E c \in Caller : call[c].at \in Waiting \cup Inside
               \/ main = "stopping"

CallsReturn == CallPending ~> ~CallPending

\* Every order the engine has accepted is processed, also after Stop, as long
\* as the process lives: the channel is drained.
OrderPending == orderChan # <<>> \/ job # NoOrder

AcceptedIsProcessed == OrderPending ~> ~OrderPending
=============================================================================
