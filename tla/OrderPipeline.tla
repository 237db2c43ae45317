---------------------------- MODULE OrderPipeline ----------------------------
(***************************************************************************)
(* The standalone program of cmd/matchengine/main.go: clients of the gRPC  *)
(* and HTTP servers and the Kafka consumer hand orders to the engine, the  *)
(* engine's events go to MySQL and Kafka, and main takes everything down   *)
(* on a signal.  The process may also crash and be started again: MySQL,   *)
(* the brokers and the committed offset are all that survives.             *)
(*                                                                         *)
(* Order updates are published to the topic the consumer reads, so orders  *)
(* come back to the engine.                                                *)
(*                                                                         *)
(* Matching is the subject of MarketEngine.  Here prices and amounts are   *)
(* left out: which resting order is the next maker, whether the book has   *)
(* one that suits, and who is filled by a trade are chosen freely.  The    *)
(* steps are those of the code, with the cancels of clients between them.  *)
(***************************************************************************)
EXTENDS EngineCalls, EventSinks, KafkaConsumer, MarketRules, SequencesExt

CONSTANTS Client,         \* request goroutines of the servers
          Deployments,    \* configurations, and what clients and brokers do
          MaxObjects,     \* orders built in memory (a bound)
          MaxTrades       \* a bound

Consumer == "consumer"
Matcher  == "matcher"

PipelineCaller  == Client \cup {Consumer}
PipelineEmitter == Client \cup {Matcher}

Object == 1..MaxObjects
Garbage == [symbol |-> "none"]

ASSUME PipelineAssumption == /\ Caller = PipelineCaller
                             /\ Emitter = PipelineEmitter
                             /\ {Consumer, Matcher, Nobody} \cap Client = {}
                             /\ Order = Object
                             /\ {MaxObjects, MaxTrades} \subseteq Nat
                             /\ 1..MaxObjects \cup 1..MaxTrades \subseteq RowKey

VARIABLES deploy,      \* the configuration; never changes
          main,        \* where main is, "down" while no process runs
          deaths,      \* processes that crashed, panicked or exited
          asked,       \* the clients whose request was served
          upstream,    \* messages other programs have yet to produce
          entries,     \* the index of the book: per id, the order added last
          taken,       \* per client, the order its cancel took from the book
          phase,       \* where processOrder is
          maker,       \* the maker chosen, the last one between two trades
          matched,     \* the trades of this match
          traded,      \* the trades there were
          silent,      \* history: filled since they were last announced
          raced        \* history: announced by two goroutines at a time

mainVars == <<deploy, main, deaths, asked, upstream>>
bookVars == <<entries, taken>>
matchVars == <<phase, maker, matched, traded>>
historyVars == <<silent, raced>>
tradingVars == <<bookVars, matchVars, historyVars>>
vars == <<engineVars, sinkVars, consumerVars, mainVars, tradingVars>>

NoEntries == [id \in Object |-> NoOrder]
NoneTaken == [c \in Client |-> NoOrder]

Init == /\ EngineInit
        /\ SinksInit
        /\ ConsumerInit
        /\ deploy \in Deployments
        /\ main = "down"
        /\ deaths = 0
        /\ asked = {}
        /\ upstream = deploy.upstream
        /\ entries = NoEntries
        /\ taken = NoneTaken
        /\ phase = "none"
        /\ maker = NoOrder
        /\ matched = 0
        /\ traded = 0
        /\ silent = {}
        /\ raced = {}

\* What main has shut down so far.
Serving(via) == main \in (IF via = "grpc" THEN {"serving"} ELSE {"serving", "grpc"})
AsyncOpen == deploy.producer = "async" /\ main \notin {"down", "closed"}

NewObject(body, id, orderStatus) ==
  [body |-> body, id |-> id, status |-> orderStatus, version |-> 0,
   place |-> "request"]

\* The orders in the lists of the book.
Resting == {o \in DOMAIN heap : heap[o].place = "resting"}

\* RemainAmount is not zero.  Nothing is left of a "spent" order: it was filled,
\* and cancelled through the entry it left in the index.
HasLeft(o) == heap[o].status \in {"open", "cancelled"}

-----------------------------------------------------------------------------
(* main                                                                    *)

StartProcess ==
  /\ main = "down"
  /\ deaths <= deploy.restarts
  /\ StartEngine
  /\ main' = "serving"
  /\ NewConsumer
  /\ UNCHANGED <<sinkVars, deploy, deaths, asked, upstream, tradingVars>>

\* The events no handler, or not every handler, has been through, with those
\* of trades that processTrades has yet to announce.
Unhandled == (UNION {ToSet(todo[e]) : e \in Emitter})
               \cup {TradeEvent(t) : t \in (traded - matched + 1)..traded}
Unsent ==
  UNION {{[kind |-> kind, of |-> o] :
            o \in ToSet(outbox[kind]) \cup {f.message.of : f \in ToSet(flying[kind])}} :
           kind \in Kind}

\* The orders, the channels and whatever goroutines were doing are gone.
ProcessDies ==
  /\ Up
  /\ Down
  /\ NewConsumer
  /\ heap' = [o \in DOMAIN heap |-> [heap[o] EXCEPT !.place = "lost"]]
  /\ todo' = [e \in Emitter |-> <<>>]
  /\ stage' = [e \in Emitter |-> "save"]
  /\ copy' = [e \in Emitter |-> NoCopy]
  /\ outbox' = [kind \in Kind |-> <<>>]
  /\ flying' = [kind \in Kind |-> <<>>]
  /\ main' = "down"
  /\ deaths' = deaths + 1
  /\ entries' = NoEntries
  /\ taken' = NoneTaken
  /\ phase' = "none"
  /\ maker' = NoOrder
  /\ matched' = 0
  /\ missed' = [rows |-> missed.rows \cup Unhandled,
                topic |-> missed.topic \cup Unhandled \cup Unsent]
  /\ UNCHANGED <<diskVars, overtaken, deploy, asked, upstream, traded, historyVars>>

Crash == deaths < deploy.restarts /\ ProcessDies

MainGoes(from, to) == /\ main = from
                      /\ main' = to
                      /\ UNCHANGED <<sinkVars, deploy, deaths, asked, upstream,
                                     tradingVars>>

Signal == deploy.signal /\ MainGoes("serving", "grpc") /\ UNCHANGED <<engineVars, consumerVars>>

\* GracefulStop waits for the calls of gRPC clients.
GracefulStop ==
  /\ \A c \in Client : deploy.request[c].via = "grpc" => call[c].at \in Returned
  /\ MainGoes("grpc", "http")
  /\ UNCHANGED <<engineVars, consumerVars>>

\* Shutdown gives up after 5 seconds: calls of HTTP clients may go on.
HttpShutdown == MainGoes("http", "consumer") /\ UNCHANGED <<engineVars, consumerVars>>

CloseConsumer ==
  /\ MainGoes("consumer", "engine")
  /\ \/ deploy.consumer /\ \E flushed \in BOOLEAN : EndSession("closed", flushed)
     \/ deploy.consumer /\ CloseUnopened
     \/ ~deploy.consumer /\ UNCHANGED consumerVars
  /\ UNCHANGED engineVars

StopEngine == MainGoes("engine", "stopping") /\ StopBegins /\ UNCHANGED consumerVars

EngineStopped == MainGoes("stopping", "stopped") /\ StopReturns /\ UNCHANGED consumerVars

\* AsyncProducer.Close and KafkaProducer.Close: what waits in the channels of
\* the asynchronous producer is lost, but the library is done with what it has.
CloseProducers == /\ \A kind \in Kind : flying[kind] = <<>>
                  /\ MainGoes("stopped", "closed")
                  /\ UNCHANGED <<engineVars, consumerVars>>

\* MySQLStorage.Close, and main returns, whatever other goroutines do.
Exit == main = "closed" /\ ProcessDies

\* An emitter that still sends after KafkaProducer.Close panics.
SendPanics == /\ main = "closed"
              /\ \E e \in Emitter : Works(e, "send")
              /\ ProcessDies

-----------------------------------------------------------------------------
(* Clients.                                                                *)

\* What the handlers check themselves; a request that does not pass never
\* reaches the engine.
WellFormed(request) ==
  /\ request.parses
  /\ request.via = "http" => request.user # 0 /\ request.body.symbol # ""

ClientCalls(c) ==
  LET request == deploy.request[c]
  IN  /\ c \notin asked
      /\ Serving(request.via)
      /\ WellFormed(request)
      /\ asked' = asked \cup {c}
      /\ \/ /\ request.op = "submit"
            /\ Len(heap) < MaxObjects
            /\ heap' = Append(heap, NewObject(request.body, 0, "open"))
            /\ Calls(c, "submit", Len(heap'))
         \/ /\ request.op = "cancel"
            /\ Calls(c, "cancel", NoOrder)
            /\ UNCHANGED heap
      /\ UNCHANGED <<eventVars, diskVars, consumerVars, deploy, main, deaths,
                     upstream, tradingVars>>

SubmitEnters(c) ==
  /\ At(c, "submit")
  /\ EnterSubmit(c, Acceptable(heap[call[c].order].body))
  /\ UNCHANGED <<sinkVars, consumerVars, mainVars, tradingVars>>

SubmitSends(c) == Send(c) /\ UNCHANGED <<sinkVars, consumerVars, mainVars, tradingVars>>

\* The id a client wants cancelled, and whether the index has it.
Target(c) == deploy.request[c].target
Indexed(c) == Target(c) \in Object /\ entries[Target(c)] # NoOrder

\* RemoveOrder: the order of the index entry leaves the book, unless the
\* matcher has taken it out before; a filled maker keeps its entry.
CancelTakes(c) ==
  LET o == entries[Target(c)]
  IN  /\ Indexed(c)
      /\ EnterCancel(c, TRUE)
      /\ entries' = [entries EXCEPT ![Target(c)] = NoOrder]
      /\ taken' = [taken EXCEPT ![c] = o]
      /\ heap' = [heap EXCEPT ![o].place = "gone"]
      /\ UNCHANGED <<eventVars, diskVars, consumerVars, mainVars, matchVars,
                     historyVars>>

\* Whether goroutine e has an update of o to handle.
Announces(e, o) == OrderUpdate(o) \in ToSet(todo[e])

\* Of these orders, those somebody else has an update of.
RacedBy(e, orders) ==
  {o \in orders : \E other \in Emitter \ {e} : Announces(other, o)}

\* The status and the event, whatever the matcher has done to the order since.
CancelMarks(c) ==
  LET o == taken[c]
  IN  /\ o # NoOrder
      /\ heap' = [heap EXCEPT ![o].status = IF HasLeft(o) THEN "cancelled" ELSE "spent",
                              ![o].version = @ + 1]
      /\ taken' = [taken EXCEPT ![c] = NoOrder]
      /\ todo' = [todo EXCEPT ![c] = <<OrderUpdate(o)>>]
      /\ silent' = silent \ {o}
      /\ raced' = raced \cup RacedBy(c, {o})
      /\ UNCHANGED <<engineVars, stage, copy, missed, wireVars, rows, consumerVars,
                     mainVars, entries, matchVars>>

CancelMisses(c) ==
  /\ ~Indexed(c)
  /\ EnterCancel(c, FALSE)
  /\ UNCHANGED <<sinkVars, consumerVars, mainVars, tradingVars>>

CancelReturns(c) ==
  /\ taken[c] = NoOrder
  /\ ~Emitting(c)
  /\ LeaveCancel(c)
  /\ UNCHANGED <<sinkVars, consumerVars, mainVars, tradingVars>>

-----------------------------------------------------------------------------
(* The goroutine of processOrders.                                         *)

\* The id is given now, unless the order brought one along.
Identified(o) == IF heap[o].id = 0 THEN o ELSE heap[o].id

TakeOrder == /\ Take
             /\ heap' = [heap EXCEPT ![job'].id = Identified(job')]
             /\ phase' = "match"
             /\ UNCHANGED <<eventVars, diskVars, consumerVars, mainVars, bookVars,
                            maker, matched, traded, historyVars>>

ParkStop ==
  /\ phase = "match"
  /\ heap[job].body.type = "stop_limit"
  /\ heap' = [heap EXCEPT ![job].place = "parked"]
  /\ phase' = "end"
  /\ UNCHANGED <<engineVars, eventVars, diskVars, consumerVars, mainVars, bookVars,
                 maker, matched, traded, historyVars>>

\* GetFirst, while something is left of the taker.  A copy that came back from
\* Kafka cancelled matches like any other order, one that came back filled
\* matches nothing.
ChooseMaker(m) ==
  /\ phase = "match"
  /\ heap[job].body.type # "stop_limit"
  /\ HasLeft(job)
  /\ traded < MaxTrades
  /\ m \in Resting
  /\ maker' = m
  /\ phase' = "fill"
  /\ UNCHANGED <<engineVars, sinkVars, consumerVars, mainVars, bookVars, matched,
                 traded, historyVars>>

\* PriceLevel.RemoveOrder looks for an id: if a cancel has taken the maker out
\* meanwhile, a copy under the same id may leave the list in its place.
Removable ==
  IF maker \in Resting THEN {maker}
    ELSE {maker} \cup {o \in Resting : heap[o].id = heap[maker].id}

\* The trade, and UpdateFilled of both orders, which overwrites what a cancel
\* may have written to the maker: at least one of the two is filled.
FillMaker(filled) ==
  /\ phase = "fill"
  /\ filled # {}
  /\ \E removed \in (IF maker \in filled THEN Removable ELSE {NoOrder}) :
       heap' = [o \in DOMAIN heap |->
                  [heap[o] EXCEPT
                     !.version = IF o \in {job, maker} THEN @ + 1 ELSE @,
                     !.status = IF o \in filled THEN "filled"
                                ELSE IF o \in {job, maker} THEN "open" ELSE @,
                     !.place = IF o = removed THEN "gone" ELSE @]]
  /\ matched' = matched + 1
  /\ traded' = traded + 1
  /\ silent' = silent \cup {job, maker}
  /\ phase' = "match"
  /\ UNCHANGED <<engineVars, eventVars, diskVars, consumerVars, mainVars, bookVars,
                 maker, raced>>

\* Mutant of FillEvents: the maker is not told.
FillEventsTaker ==
  IF matched = 0 THEN <<>>
    ELSE [i \in 1..matched |-> TradeEvent(traded - matched + i)] \o <<OrderUpdate(job)>>

\* The events of processTrades: the trades, then the taker and the last maker.
FillEvents ==
  IF matched = 0 THEN <<>>
    ELSE [i \in 1..matched |-> TradeEvent(traded - matched + i)]
           \o <<OrderUpdate(job), OrderUpdate(maker)>>

\* Nothing is left, or nothing in the book suits.
MatchEnds ==
  LET told == IF matched = 0 THEN {} ELSE {job, maker}
  IN  /\ phase = "match"
      /\ heap[job].body.type # "stop_limit"
      /\ todo' = [todo EXCEPT ![Matcher] = FillEvents]
      /\ silent' = silent \ told
      /\ raced' = raced \cup RacedBy(Matcher, told)
      /\ maker' = NoOrder
      /\ matched' = 0
      /\ phase' = "rest"
      /\ UNCHANGED <<engineVars, heap, stage, copy, missed, wireVars, rows,
                     consumerVars, mainVars, bookVars, traded>>

\* What is left rests in the book, or is cancelled if it is a market order's;
\* a copy that came back filled or cancelled vanishes without a word.
RestOrder ==
  LET open  == heap[job].status = "open"
      rests == open /\ heap[job].body.type # "market"
      place == IF rests THEN "resting"
               ELSE IF open \/ heap[job].version > 0 THEN "gone" ELSE "vanished"
  IN  /\ phase = "rest"
      /\ ~Emitting(Matcher)
      /\ heap' = [heap EXCEPT ![job].place = place,
                              ![job].version = IF open /\ ~rests THEN @ + 1 ELSE @,
                              ![job].status = IF open /\ ~rests THEN "cancelled" ELSE @]
      /\ entries' = IF rests THEN [entries EXCEPT ![heap[job].id] = job] ELSE entries
      /\ todo' = [todo EXCEPT ![Matcher] = IF open THEN <<OrderUpdate(job)>> ELSE <<>>]
      /\ phase' = "end"
      /\ UNCHANGED <<engineVars, stage, copy, missed, wireVars, rows, consumerVars,
                     mainVars, taken, maker, matched, traded, historyVars>>

OrderDone == /\ phase = "end"
             /\ ~Emitting(Matcher)
             /\ Processed
             /\ phase' = "none"
             /\ UNCHANGED <<sinkVars, consumerVars, mainVars, bookVars, maker, matched,
                            traded, historyVars>>

ChannelDone == WorkerEnds /\ UNCHANGED <<sinkVars, consumerVars, mainVars, tradingVars>>

-----------------------------------------------------------------------------
(* Handlers, producers and brokers.                                        *)

\* What may fail is "rows" or "brokers".
Outcomes(sink) == IF sink \in deploy.faults THEN BOOLEAN ELSE {TRUE}

\* What e waits for, or nobody.  Brokers that answer do so in order.
BrokersTry(kind, from) ==
  \E i \in DOMAIN flying[kind], written, confirmed \in Outcomes("brokers") :
    /\ "brokers" \in deploy.faults \/ i = 1
    /\ flying[kind][i].from = from
    /\ Attempt(kind, i, written, confirmed)

HandleEvent(e) ==
  /\ \/ ReadRecord(e)
     \/ \E written \in Outcomes("rows") : WriteRow(e, written)
     \/ Publish(e, deploy.producer)
     \/ main # "closed" /\ SendMessage(e)
     \/ \E kind \in Kind : BrokersTry(kind, e)
  /\ UNCHANGED <<engineVars, consumerVars, mainVars, tradingVars>>

ProcessMessages ==
  /\ AsyncOpen
  /\ \E kind \in Kind : ProcessMessage(kind)
  /\ UNCHANGED <<engineVars, consumerVars, mainVars, tradingVars>>

\* Whoever asked has gone on, and the brokers answer.
Delivery ==
  /\ \E kind \in Kind : BrokersTry(kind, Nobody)
  /\ UNCHANGED <<engineVars, consumerVars, mainVars, tradingVars>>

\* Another program produces an order, or something that is not one.
UpstreamSends ==
  /\ upstream # <<>>
  /\ upstream' = Tail(upstream)
  /\ topic' = [topic EXCEPT !["order"] =
                 Append(@, [of |-> NoOrder, id |-> 0, version |-> 0,
                            status |-> "open", body |-> Head(upstream)])]
  /\ UNCHANGED <<engineVars, heap, eventVars, rows, consumerVars, deploy, main,
                 deaths, asked, tradingVars>>

-----------------------------------------------------------------------------
(* The consumer.                                                           *)

End == Len(topic["order"])

SessionOpens == /\ deploy.consumer /\ Up
                /\ OpenSession(End)
                /\ UNCHANGED <<engineVars, sinkVars, mainVars, tradingVars>>

SessionPanics == /\ deploy.consumer
                 /\ SetupPanics
                 /\ ProcessDies

\* A rebalance or an error of the broker.
SessionEnds == /\ deploy.rebalances
               /\ main = "serving"
               /\ \E flushed \in BOOLEAN : EndSession("none", flushed)
               /\ UNCHANGED <<engineVars, sinkVars, mainVars, tradingVars>>

OffsetsCommitted == AutoCommit /\ UNCHANGED <<engineVars, sinkVars, mainVars, tradingVars>>

MessageDelivered ==
  LET message == topic["order"][nextOffset + 1]
  IN  /\ CanDeliver(End)
      /\ Len(heap) < MaxObjects
      /\ IF message.body = Garbage
           THEN PassOver(End) /\ UNCHANGED <<engineVars, heap>>
           ELSE /\ Deliver(End)
                /\ heap' = Append(heap, NewObject(message.body, message.id,
                                                  message.status))
                /\ Calls(Consumer, "submit", Len(heap'))
      /\ UNCHANGED <<eventVars, diskVars, mainVars, tradingVars>>

MessageHandled ==
  /\ call[Consumer].at \in {"accepted", "refused"}
  /\ HandlerReturned(At(Consumer, "accepted"))
  /\ UNCHANGED <<engineVars, sinkVars, mainVars, tradingVars>>

-----------------------------------------------------------------------------
MainStep == \/ StartProcess \/ Signal \/ GracefulStop \/ HttpShutdown
            \/ CloseConsumer \/ StopEngine \/ EngineStopped \/ CloseProducers
            \/ Exit \/ SendPanics

\* The steps of a call that has begun.
InCall(c) == \/ SubmitEnters(c) \/ SubmitSends(c)
             \/ c \in Client /\ \/ CancelTakes(c)
                                \/ CancelMarks(c)
                                \/ CancelMisses(c)
                                \/ HandleEvent(c)
                                \/ CancelReturns(c)

Matching == \/ TakeOrder \/ ParkStop
            \/ \E m \in Object : ChooseMaker(m)
            \/ \E filled \in SUBSET {job, maker} : FillMaker(filled)
            \/ MatchEnds \/ RestOrder \/ OrderDone
            \/ ChannelDone \/ HandleEvent(Matcher)

Consuming == SessionOpens \/ SessionPanics \/ SessionEnds \/ OffsetsCommitted
               \/ MessageDelivered \/ MessageHandled

Next == \/ MainStep \/ Crash
        \/ \E c \in Client : ClientCalls(c)
        \/ \E c \in Caller : InCall(c)
        \/ Matching
        \/ Consuming
        \/ ProcessMessages
        \/ Delivery
        \/ UpstreamSends

\* Goroutines that can go on do, the brokers and MySQL answer, and Stop gets
\* the lock when it is free.  Nobody needs to send a signal or a request.
Spec == /\ Init
        /\ [][Next]_vars
        /\ WF_vars(Matching \/ SendPanics)
        /\ \A c \in Caller : WF_vars(InCall(c))
        /\ WF_vars(EngineStopped)
==============================================================================
