# A TLA+ development of MatchEngine

TLA+ models of the matching engine under `src/`, TLC configurations that check
them on small instances, and proofs, checked by TLAPS, of the properties that
matter most for every instance.

Contents: [the system](#the-system), [the modules](#the-modules-and-the-code),
[the properties and runs](#what-the-runs-check), [bounds and
fairness](#bounds-and-fairness), [what is proved](#what-is-proved), [where code
and documentation disagree](#where-the-code-and-its-documentation-disagree),
[what is not modelled](#what-is-not-modelled), [the plan](#the-plan).

## The system

MatchEngine is an exchange's matching service. Orders arrive from gRPC, HTTP or a
Kafka topic; the engine has one goroutine, one channel and one order book per
market; trades and order updates go to a chain of event handlers (MySQL, then a
Kafka producer). With Raft configured, orders go through a replicated log instead
of the channel; cancels do not.

| Component | State | Operations | Interacts with |
|---|---|---|---|
| Orders and trades (`internal/models`) | filled and remaining amount, status | `NewOrder`, `UpdateFilled`, `IsFinished`, `NewTrade` | written by the matcher and by cancels, read by every handler |
| Order book (`orderbook/orderbook.go`) | two trees of price levels, index of orders, a mutex | `AddOrder`, `RemoveOrder`, `GetOrder`, `GetDepth`; of a level `RemoveOrder`, `GetFirst` | matchers (without the mutex), cancels (with it) |
| Red-black tree (`orderbook/rbtree.go`) | nodes, root, a shared sentinel | `Insert`, `Delete`, `Get`, `Min`, `Max`, `Ascend` | the book, the matchers |
| Matchers (`internal/matching`) | none of their own | `Match` of limit, market, stop and iceberg orders | the book and both orders of a trade, through pointers |
| Stop order manager (`matching/stop.go`) | per side a map and a sorted slice of stop prices | `AddOrder`, `GetTriggeredOrders`, `RemoveOrder` | `processOrder`, `checkStopOrders` |
| Iceberg order manager (`matching/iceberg.go`) | shown and hidden amounts | `Register`, `OnTrade` | `processOrder`, `processTrades` |
| Engine (`engine/engine.go`) | the markets, `running`, a channel per market, last price, a readers-writer lock | `Start`, `Stop`, `SubmitOrder`, `HandleOrder`, `CancelOrder`, `ApplyOrder`, `GetAllOrders`, `RestoreOrders`, `processOrders` | everything above; Raft |
| Id generator (`pkg/utils/sequence.go`) | last millisecond, sequence | `Generate` | `processOrder`, `NewTrade` |
| Raft node (`raft/node.go`) | the consensus library's log (in memory) and snapshots (on disk), a sequence number | `ProposeOrder`, `Apply`, `Snapshot`, `Persist`, `Restore`, `Shutdown` | engine, peers |
| Kafka consumer (`consumer`) | session, marked offsets, a channel `ready` | `consume`, `Setup`, `ConsumeClaim`, `Close` | engine |
| Market rules (`models/market.go`) | ticks and minima | `ValidateOrder` | `SubmitOrder` |
| Producers and handlers (`producer`, `engine/*_handler.go`) | buffered channels | `OnTrade`, `OnOrderUpdate`, `SendTrade`, `SendOrder`, `SendOrderUpdate`, `Close` | Kafka, MySQL |
| Storage (`storage`) | order and trade rows | `SaveOrder` (upsert), `SaveTrade` | MySQL; the Redis one has no caller |
| Servers (`server`) | none | requests to engine calls | engine |
| `main` | what it has started | start; on a signal, shutdown in a fixed order | all of them |

What is hard in it:

- **Cancels race with the matcher.** `CancelOrder` runs in the caller's goroutine
  and holds the book's mutex; the matchers never take it. A cancel can fall
  between any two steps of a match: between the choice of a level and the look at
  its list, between the choice of a maker and the trade, between the trade and the
  removal of the maker.
- **Pointers that outlive what they point to.** The index keeps, for a filled
  order, a pointer to a level that may be deleted; levels are deleted by price.
- **Loops that end only because the book shrinks.** Every matching loop ends when
  the best level is gone or the taker is filled.
- **Tables that must agree.** The index and the lists, the total of a level and its
  list, the slice of stop prices and the map of stop orders.
- **Sequences of calls.** The repairs of the red-black tree; a stop order that goes
  through `processOrder` twice.
- **A clock that is set back**, under the id generator.
- **One lock for everything.** `SubmitOrder` holds the engine's read lock while it
  waits for room in the channel or for the replicated log, a cancel holds it while
  event handlers talk to MySQL and Kafka, and `Stop` wants the write lock; `ApplyOrder`,
  which a waiting submitter waits for, wants the read lock behind `Stop`.
- **Events that carry pointers.** A handler reads the order when it runs, the
  asynchronous producer when its goroutine gets there, while matching and cancels go
  on changing it; events of one order come from two goroutines.
- **Crashes, redelivery, retries.** Offsets are marked after handling and committed
  later; updates come back as orders, since both use one topic; a submission that
  ends in an error may be in the log all the same.
- **Snapshots** that leave out stop orders and hold pointers to orders that trade on.
- **Shutdown**: `Stop` closes the channel under its users' feet, and the process does
  not wait for what is in it.

`PROJECT.json` lists each hazard at the line where it bites, with the properties
that would show it going wrong.

What makes each component correct: the book's tables agree and the matcher can
reach whatever waits; trades respect price-time priority and are published;
nobody is filled beyond the order, and no quantity is lost; an order taken from
the channel is processed to the end, and every call returns; the tree is a balanced
search tree that implements a set of prices; ids grow and differ; the committed
offset covers nothing unhandled; rows and topics end up showing the orders as they
are; replicas hold the book their log makes, and answers to clients are true.

## The modules and the code

```
Orders  <-  OrderBook, StopOrders, IcebergOrders     one component each
            MarketEngine       composes them: processOrders and CancelOrder
Exchange    what a market comes to: an abstract specification over Orders
            MarketProperties   what a market promises, and its refinement of Exchange
            MCMarket           the instances of the runs
            MarketProofs       theorems about the book while it is matched
            MarketOutcomeProofs  and about what the matching comes to
RBTree  <-  RBTreeProperties   and its refinement of SortedKeys
            RBTreeProofs       theorems about both, for any number of keys
Snowflake <- SnowflakeProofs   the id generator

RWMutex <- EngineCalls         who may be in the engine when, standalone
           EventSinks          handlers, producers, rows and topics
           KafkaConsumer       sessions, marks and commits
           MarketRules         ValidateOrder
           OrderPipeline       composes the four with main: the standalone program
           PipelineProperties, MCPipeline, PipelineProofs, EventProofs
RWMutex <- RaftReplica         the engine in Raft mode, over an agreed log
           RaftProperties, MCRaft, RaftProofs
FoldLemmas  what the folds of the community modules compute, for the proofs
```

**Orders** is `models/order.go`: the attributes the client chose (`order`, rigid, drawn
from the constant `OrderSpace` in `Init`, so that one run covers every stream of
orders), `filled` and `status`. An order is named by its position in the stream:
smaller is older. Amounts are whole units and at least one; the rules of the
market (`models/market.go`) refuse an amount below the minimum.

**OrderBook** is `orderbook/orderbook.go`. A price level is an object with an
identity: it is named by the order for which `AddOrder` created it. That keeps
apart a deleted level and a later one of the same price, which is the difference
the stale pointers of the index make. `tree` is the set of levels reachable from
the two trees, `queue` and `total` are `PriceLevel.Orders` and `Total`, `index` is the
level an order's entry points to. An operation of a tree or a list is atomic.

**StopOrders** and **IcebergOrders** are the two managers. The map of stop orders is
keyed by a `decimal.Decimal`, a struct with a pointer in it, so two orders with the
same stop price have different keys unless both leave it unset: `Key` says so, and
with it the slice, which is cut by a number of orders, stays right. Orders over HTTP
always leave it unset (`createOrder` never sets it, `ValidateOrder` does not look at it), so for
them the slice and the map can disagree: that is the run `stop_cut`. A sell stop is
looked for from the small end of a descending slice; the scan stops at the first
price below the last price, as in the code. Which way round a buy stop triggers is the
code's: `GetOrdersBelowPrice` finds the buy stops whose price is at or below the last price,
while `CheckTrigger` (`stop.go:29`, no caller) and the comment at `stop.go:106` say the opposite.
The model follows what runs, and no property claims either direction.

**MarketEngine** is one market in standalone mode. `pc` is the step the goroutine of
`processOrders` takes next; every access it makes to the shared book or to a shared
order is a step:

| Action | Code |
|---|---|
| `ReceiveForBook`, `ReceiveStop`, `ReceiveUnknown` | `processOrder`, up to the call of a matcher |
| `FokCheck` | the sum of totals in `matchFOK` |
| `FindLevel`, `FindMaker` | the head of `Match`; `GetFirst` |
| `Trade` | `NewTrade` and `UpdateFilled` of both orders |
| `Settle` | `PriceLevel.RemoveOrder` of a finished maker |
| `LeaveLevel` | the end of `matchAtPriceLevel`, the delete of an empty level |
| `PublishTrades`, `ReportOrders`, `CheckStops` | `processTrades`, `checkStopOrders` |
| `FinishOrder`, `DropRemainder`, `RestRemainder`, `AnnounceOrder` | the end of `processOrder` |
| `CancelRemove`, `CancelFinish` | `CancelOrder`: under the mutex, and after it |

The three limit variants, the market matcher and the iceberg matcher run through
the same steps and differ where the code does: the FOK check, `Crosses` (a market
order takes any price), one visit for IOC and GTX, no delete by the iceberg
matcher. Decisions a reader should know:

- The update of `Total` by the matcher and by a cancel are a race on one field:
  `LostUpdates` says when the cancel's may be overwritten. Torn writes of a
  `decimal.Decimal` and damage to the list or tree by unsynchronised access are not
  modelled.
- The FOK check is one step although it walks over levels: while it runs only
  cancels happen, and they only lower totals it has not read yet.
- `CancelFinish` is one step for the status and the event of the cancel.
- What one matching round reads of its own taker needs no step: nobody else has a
  pointer to it before it is added to the book.
- `StopMatcher.Match`, `UpdateOrder` and other functions without a caller are left
  out, and so are branches no state reaches (`matchAmount` not positive).
- A panic (slice bounds in `checkStopOrders`) is the value `panicked` of `pc`. It is
  reached when two buy stop orders leave the stop price unset: they share a key, and
  the slice is cut by two for one price (the run `stop_cut`). `StopPricesMatchMap` says that
  nothing else does it: orders with and without a price are in its run, and it holds
  until a second buy order without one is parked.
- The orders of a stream are new ones, each with an id of its own. Updates that come back from
  Kafka, which keep id, status and fills, and the index entry `AddOrder` then overwrites, are
  in `OrderPipeline`.
- The visible and the hidden part of an iceberg order need not add up to what is left of it:
  `OnTrade` leaves both alone when a trade takes more than is visible. No property claims it.
- `CancelScope` says which orders clients cancel: none, those that wait, or any
  with an index entry. Properties that hold only below some scope say which.

**Exchange** is the abstract specification of all this: no levels, totals, index or program
counter, only an order in hand (`taker`), the one it is about to trade with (`claimed`) and
the set of those who wait. `Claim` takes the best price, and the oldest order of it;
`Finish` is possible when the order in hand is filled or nobody left suits it, and puts
what is left of it among those who wait; `Withdraw` takes one of them away at any time, the
claimed one too. What the code does otherwise than one would think is there in the open, in
`IsThrough`: IOC and GTX orders may stop early (and then wait), and a FOK order that
the depth did not turn away is matched like any other. `MarketProperties` maps the
market to it: in hand is the `taker` until it is announced, those who wait are the orders in
some list with something left. `ImplementsExchange` is the refinement; a receipt is `Enter`,
`FindMaker` is `Claim`, `Trade` is `Fill`, the last step of `processOrder` that decides about the
remainder is `Finish`, `CancelRemove` is `Withdraw`, and every other step goes unnoticed.

**RBTree** is `orderbook/rbtree.go` on its own: one step per comparison of the search
and per round of `insertFixup` and `deleteFixup`, with the rotations, the transplant
and the sentinel whose parent the deletion overwrites. Left and right branches are
mirror images and one definition with a direction. A call runs alone; `desc` is
either. **SortedKeys** is the abstract specification, a set of keys whose membership a
call changes at one instant; `ImplementsSortedKeys` is the refinement. The market's
model relies on exactly this: a tree is the set of its levels.

**Snowflake** is `pkg/utils/sequence.go`: a process in each of several nodes, and a clock
that goes on, stands, or is set back. The shift and or of the id is arithmetic on
fields of constant widths. A `Generate` that finds the clock behind panics and ends
the process; one that has used up its millisecond spins (`waiting`).

**RWMutex** is Go's `sync.RWMutex` as the program uses it: a waiting writer keeps new readers
out, which is what the deadlocks here are made of.

**EngineCalls** is the way into the engine in standalone mode, and at the same time the
abstract specification of the program, whose actions each contain one of these: callers at "submit" or
"cancel" wait for the read lock, at "send" or "emit" they hold it; the goroutine of
`processOrders` drains the channel; `Stop` announces itself, waits for the readers, clears
`running` and closes the channel. Whether an order is acceptable and whether an order to
cancel is found are free choices there.

**EventSinks** is the chain of two handlers, `SaveOrder` and `SaveTrade`, and the two producers. An
event is a pointer, `Fields` is what a reader of the pointer sees at this moment, and
reading and writing (`ReadRecord`, `WriteRow`; `Marshal`, `SendMessage`) are two steps. `version` counts the
changes of an order and stands for its contents. `missed` records which events some sink
did not get last time, by a failed write, a full channel or a crash. Between a producer and
the brokers is the client library, as it is configured: up to five retries, nothing idempotent,
no limit of its own on what is in flight. `flying` holds the messages it has not done with;
`Attempt` is one try of any of them, which may be written or not, and confirmed or not, so a
message may be written twice, be given up, or be passed by a later one. `overtaken` remembers the
orders that happened to. The synchronous producer waits for the end of it (stage `"wait"`), the
asynchronous one does not.

**KafkaConsumer** is the consumer with the library (sarama) as it is used: a session runs
`Setup`, resumes at the committed offset, or at the end of the topic when there is none
(`OffsetNewest`), and commits marks now and then and when it ends. `Setup` closes the
channel `ready` each time, so the second session of a process panics (`SetupPanics`), the
process dies and the next one reads again from the committed offset.

**OrderPipeline** is `main.go` with all of that: configuration (`deploy`, rigid, drawn from
`Deployments`), start, requests of gRPC and HTTP clients, messages, matching, events, a
signal and the shutdown in the order of `main`'s calls and deferred calls, crashes and
restarts. What survives a process is `rows`, `topic` and the committed offset. Of matching there is
what other goroutines can see of it, in the order of the code: the choice of a maker, the trade, the
events at the end. Prices and amounts are left out, so which resting order is the maker and who
of the two is filled are free choices; `MarketEngine` is about those. A cancel is three steps: the
order leaves the book, its status is written and the event begins, the call returns. It may
fall between the choice of its order and the trade, as in `cancel_race`: then the order is
traded after its cancel. The makers of a match but the last are filled and nobody is told (`silent`).
Decisions:

| Action | Code |
|---|---|
| `StartProcess` | `main` up to the servers; `Engine.Start` |
| `ClientCalls`, `SubmitEnters`, `SubmitSends` | the handlers of the servers; `SubmitOrder` |
| `CancelTakes`, `CancelMarks`, `CancelMisses`, `CancelReturns` | `CancelOrder` |
| `TakeOrder`, `ParkStop`, `OrderDone`, `ChannelDone` | `processOrders`, the ends of `processOrder` |
| `ChooseMaker`, `FillMaker` | `matchAtPriceLevel`: `GetFirst`; the trade, both `UpdateFilled` and `PriceLevel.RemoveOrder` |
| `MatchEnds`, `RestOrder` | `processTrades`; `AddOrder` or the cancel of what is left |
| `HandleEvent`, `ProcessMessages`, `Delivery` | the handler chain; `AsyncProducer.processMessages`; what the library does when nobody waits |
| `SessionOpens`, `MessageDelivered`, `MessageHandled`, `SessionEnds` | `consume`, `ConsumeClaim` |
| `Signal`, `GracefulStop`, `HttpShutdown`, `CloseConsumer`, `StopEngine`, `EngineStopped`, `CloseProducers`, `Exit` | the end of `main`, its deferred calls in reverse |

- A start-up that fails ends the process before anything here begins, and is left out.
- `HttpShutdown` gives up after five seconds, so HTTP requests may go on during the rest of the
  shutdown; `GracefulStop` does not.
- What waits in the asynchronous producer when it is closed is lost; a goroutine that
  sends on the synchronous one after its `Close` panics (`SendPanics`).
- An update that comes back from the order topic is an order with an id and a status of
  its own. A filled copy matches nothing and vanishes; a cancelled one may match, since the matchers
  look at what is left and not at the status, and what is left of it then vanishes without a
  word. A copy that rests takes over the index entry of the first order of its id (`entries`).
- `PriceLevel.RemoveOrder` looks for an id, so a copy could leave a list in the place of a maker that
  a cancel has taken out (`Removable`). Three orders in memory are too few to see it.
- Trades the process dies with, before `processTrades` has announced them, count as missed by
  every sink.
- Fields are read one at a time by a handler, and a match may change the order meanwhile. The model
  reads them at once: whoever changes an order announces it afterwards, so a torn record is
  written over by a later one, and if that one comes from the other goroutine the order is in `raced`.
- The endless loop of the iceberg matcher and the panic of the stop prices are the market's
  (`iceberg_hangs`, `stop_cut`); the deployments have neither. With the first, the channel of the
  market fills up, and calls wait with the read lock in hand for good.
- The orders of a market are one partition (the messages are keyed by symbol).

**RaftReplica** is the engine in Raft mode. The consensus library is external: `agreed` is its log,
`flight` what leaders have appended, `Elect`, `LoseLeader` and `Agree` what it may do at any
time; a waiting future ends in an error when leadership is lost, and the entry may still
be agreed on. The program's side is whole: `Submit` under the read lock, the FSM goroutine
(`FsmTakes`, `FsmApplies`, `FsmLoops`), `SnapshotBegins` and `TakeSnapshot` (under the read lock; pointers) and `Persist` (what they show
by then), `RestoreBegins` and `RestoreEnds` (new books, old stop managers), cancels that only
one node sees, `Stop` that waits for the FSM goroutine with the write lock in hand, and
`Restart`. Four things a reader must know:

- An entry of the log has no id. Each node gives its own copy of the order one (`engine.go:396`), so
  one order has as many ids as there are nodes, and what a client cancels by is good on one of them
  only. An order of a book is therefore an entry with an id of the node (`given` counts them), and
  books are compared `WithoutIds`. A restored order keeps the id it has in the snapshot.
- *As written, no cluster ever has a leader.* A node calls itself `node-1` (`node.go:190`)
  and bootstraps a configuration that names `node1` (`node.go:250`), so no node is a voter; and
  the transport is given an address it cannot advertise (`node.go:203`). `Voters` is a constant
  and the run covers both the code as it is, `{}`, where `AnswersAreTrue` says that every order is
  refused, and the cluster the code means, all nodes. Everything the run says of books
  and answers is about the second.
- The program gives the library stores in memory (`node.go:216`). What the library
  promises then holds only while most nodes stay up; the model assumes the agreed log
  survives, and does not restart most of them.
- A node restarted with a snapshot on disk hangs: `Start` holds the write lock
  (`engine.go:97`) when the library restores the snapshot, and `RestoreOrders` asks for it. The
  model makes it `"hung"`.

A snapshot holds pointers: a captured order that trades before `Persist` is written with nothing left,
one that is cancelled with what it had.

An order is a maker, a taker or a stop order, and a book a queue: enough to tell replicas
apart that saw different entries, or the same in another order.

Mutants: a definition whose comment begins with "Mutant of" is the code with a
plausible bug; `PROJECT.json` says which property refutes which. No specification
uses them.

## What the runs check

| Run | Instance | Properties |
|---|---|---|
| `market_book` | 4 limit orders, 2 prices, 1 or 2 units, stop orders with and without a price, cancels of waiting orders | `QueuesMatchIndex`, `StaleEntriesAreFilled`, `OneLevelPerPrice`, `WaitingOrdersAreReachable`, `DepthCovers`, `Uncrossed`, `FillsArePublished`, `OverlookedMakersAreDone`, `StopPricesMatchMap`, `PriceTimePriority` |
| `market_tif` | 3 orders: limit of every validity, market, iceberg and an unknown type, cancels, fairness | `TypeOK`, `NothingIsLost`, `ImplementsExchange`, `MatchingEnds` |
| `rb_tree` | 8 keys, both directions | the red-black rules, `KeysAreOrdered`, `LinksAgree`, `HeightIsLogarithmic`, `QueriesAreRight`, `CallsGetShorter`, `ImplementsSortedKeys` |
| `snowflake` | 2 nodes, 2 ids to a millisecond, 4 milliseconds | `IdsIncrease`, `NodesDisagree` |
| `order_pipeline` | 10 deployments of 3 clients, 3 orders in memory, 3 trades, a channel of 1, an outbox of 3, 2 tries of a message | `TypeOK`, `ClosedIsQuiet`, `CommittedWasHandled`, `RowsAreCurrent`, `TopicIsCurrent`, `UpdatesNeverGoBack`, `OncePerProcess`, `CallsReturn`, `AcceptedIsProcessed` |
| `raft_replica` | 2 nodes, a maker, a taker and a stop order, 2 tries, 2 elections, up to 2 snapshots, 1 cancel, stop or restart | `TypeOK`, `BooksFollowTheLog`, `AnswersAreTrue`, `SubmitsReturn` |

They show, on these instances:

- With cancels of waiting orders between any two steps of the matcher, the lists and
  the index agree, a level somebody waits in is a level the matcher finds, no price
  has two levels, and every trade takes the order that is first by price and time.
  That is not obvious: a cancel can empty and delete the very level the matcher
  holds, and the matcher then deletes *by price* once more.
- A level's total never understates what waits. It may overstate it, for ever: a
  fill takes the remaining amount, by then zero, off the total.
- With orders of every validity and cancels between any two steps, the market is an
  `Exchange`. In particular a FOK order is never refused wrongly (but may be accepted
  wrongly, below), and an order does not stop while somebody suits it. The run has three
  orders; with the instances of the other two market runs TLC finds the same.
- Limit and market matching always ends, also with cancels that empty levels.
- The trade events published for a match add up to what was filled. The order
  updates do not: `processTrades` reports the taker and the last maker only. But whoever is not
  reported (`reported`) is filled and out of the book, so the error never concerns an order that
  can still trade.
- The slices of stop prices list their maps although they are cut by a count of orders, until a
  second buy stop without a price is parked.
- The processing goroutine comes back to the channel, unless it has an iceberg order.
- Each step of a call on the tree leaves less to do: the repairs end although they have
  no counter, for the rotations that push a node down as well.
- `order_pipeline`, standalone: nobody sends on a closed channel; every call returns, also against a full
  channel and a waiting `Stop`, because nobody who holds the read lock waits for anything
  that needs the lock; what is accepted is processed, also after `Stop`, unless the process
  dies, which satisfies the property. The committed offset never covers a message the handler did
  not return for. A refused order counts as handled there, although `kafka_consumer.go:149` says it is
  tried again; a message may be delivered again by the next process; and what waits in the engine's
  channel when the process crashes is lost, offset committed or not. Inside one process no message
  is handled twice, and only because the panic of the second `Setup` prevents it: with a new channel
  per session it would be. When the handlers are through, rows and topics show the orders as they
  are, wherever a cancel met the match of its order, with exceptions the properties spell out: an
  order of which two goroutines had an update to handle at a time (`raced`: either may be written
  last), a maker other than the last of a match (`silent`), orders that share an id because an update
  came back as an order, and in the topic an order a message of which was passed by a later one
  (`overtaken`). With the asynchronous producer the updates of an order never go back in the topic,
  but for those; with the synchronous one they can.
- `raft_replica`: without a cancel on the node and a snapshot written while its orders
  traded, a replica's book is, but for the ids, what the log makes of an empty one, through any elections,
  snapshots, restores and restarts; of the stop orders it may lack those it was restored
  past. "Ok" means in the log, a refusal never there, and an order is in the log twice only
  if a try of it ended in an error. Submitters get their answer, unless `Stop` is waiting for
  the lock or the FSM goroutine is in the endless loop of a matcher that met an order
  restored with nothing left: of such nodes the run claims nothing.
- IOC and GTX orders visit one price level and rest on the book with what is left.
  The model follows the code; `order.go:92` and `order.go:94` describe something else.

## Bounds and fairness

Every bound is a constant: `MaxOrders` (orders in the stream), `OrderSpace` (their
attributes), `MaxKey`, `MaxIds` and `ClockLimit`. With three orders on one side two
share a price and one does not, which is what priority and the deletion by price
need; a fourth is the taker, or re-creates a level that was deleted. Two units let a
taker be filled by two makers or partly. The defects below need two or three
orders. Eight keys reach every case of the two repairs of the tree, in both
directions, and a height of four.

In `order_pipeline` the bounds are the deployments (`MCDeployments`): one question each, with two
orders and a cancel of either, a cancel or an unacceptable order during the shutdown, failing
writes, brokers that do not answer, a crash with messages of every sort, and the configuration of
the repository, where updates come back as orders. A channel of one is full with the second
order; an outbox of three is full with the events of two matches; two trades with two
makers need three orders. Two tries of a message are enough for one to be written twice, given up,
or passed by another; five retries only do it more often. In
`raft_replica`, `MCBounds` gives four budgets: retries across elections; a snapshot sent while orders
trade; two snapshots, so that one a node is still writing meets a newer one from the leader;
one cancel, stop or restart with a snapshot. A second node suffices for a
replica that lags; which entries survive an election is a free choice, so a quorum needs
no third.

`CHECK_DEADLOCK FALSE` in the market runs: when the stream ends, the market waits. In the
other two as well: requests, messages and restarts run out, and nodes hang.

`FairSpec` of the market is weak fairness of `Process`: the goroutine of the market is
never blocked on a lock, so the scheduler always runs it again. Clients are under no
fairness. `Spec` of the pipeline is weakly fair to the goroutine of `processOrders` (`Matching`), to
each call that has begun (`InCall`) and to `Stop` getting a free lock (`EngineStopped`): goroutines are
scheduled, MySQL and the brokers answer or fail. Not to requests, signals, brokers'
sessions or the `Close` of a producer. `Spec` of the replicas is weakly fair to `Agree`, as the
library is while there is a leader, and to the FSM goroutine of each node. Elections,
clients, snapshots, stops and restarts are under no fairness.

## What is proved

`MarketProofs`, for any `MaxOrders` (the length of the stream), any `OrderSpace` of
well-formed orders and, where not said otherwise, any `CancelScope`:

- `StepInvariant`: `IInv` is kept by every step.
- `QueuesAlwaysMatchIndex`, `StaleEntriesAlwaysFilled`, `AlwaysOneLevelPerPrice`.
- `WaitingAlwaysReachable` and `TradesRespectPriority`, when clients do not cancel
  filled orders (`CancelScope # AnyIndexed`); with them the first is false, see below.
- `NeverOverfilled`: no order is filled beyond its amount.

None of these is inductive alone. `IInv` is the conjunction of

- `BookShape`, about the book: types, the three properties above, that a level is named
  by the oldest order that ever waited in it, that nobody is overfilled, that an
  indexed order that is finished is filled, and that an order being cancelled has
  left the index;
- `MatcherInv`, about where the goroutine stands: the taker is unknown to the book while
  it is matched; the level in hand is of the makers' side, acceptable, and the only
  one the tree can hold at its price; nothing better is in the tree; a maker in hand
  was the head of the list, and whoever waits there now is younger. That is
  what survives a cancel: a cancel only shrinks lists and the tree;
- `ReachInv`: `WaitingOrdersAreReachable` under the assumption on cancels.

The proof has one lemma for each action and, below them, one for each operation of the
book (`AddOrderKeepsShape`, `RemoveOrderKeepsShape`, ...), which rest on lemmas about what
removing from and appending to a list do. `IInv` was checked with TLC first.

`MarketOutcomeProofs` goes on from `IInv` to what the matching comes to. Every safety property
of `MarketProperties` that a passing run of the market checks is a theorem, here or above, but for
`OverlookedMakersAreDone`:

| Theorem | Why it holds | Hypothesis |
|---|---|---|
| `DepthAlwaysCovers` | A fill lowers what waits by at least what the total loses, and a cancel's write that gets lost leaves the total higher. | |
| `FokRefusedRightly` | The check adds up totals of levels, each of which covers what waits there; every order within the price waits in one of them. An action property. | no cancels of filled orders |
| `FillsAlwaysPublished` | `TradesInv`: what is filled is what was published and, until `PublishTrades`, what the trades in hand add up to. | |
| `NothingIsEverLost` | `NothingLostYet`: a limit or iceberg order with something left is in the book or in hand. | |
| `BookNeverCrossed` | `UncrossedInv`: the loop ends only when nobody within the taker's price is in the tree, and whoever waits is in the tree; a cancel only takes orders away. | no cancels of filled orders, limit orders are GTC |
| `StopPricesAlwaysMatch` | `StopsInv`: until two buy orders without a price are parked, each slice is sorted and lists the keys of its map. Only a sorted slice makes the scan from one end find every order, and only keys that differ make the cut by a count of orders one of as many prices. Sell orders without a price are never found by a scan, so their shared key is never cut. | |
| `TypesAreKept` | All of these; that totals and shown amounts are numbers needs them. | |
| `MarketIsAnExchange` | `ExchangeInv`, below: the refinement of `Exchange`. | no cancels of filled orders |

The hypotheses are where the code needs them. A cancel of a filled order deletes the level of
others (`cancel_filled`), so that nobody within the price has to be in the tree any more; IOC and GTX
orders leave the loop after one level and rest, so the book crosses. `StopPricesAlwaysMatch` is about
any stop orders, with a price or without, and says with its property that the market gets to
`panicked` only with two buy orders parked that share the unset key. `NothingIsEverLost` is
about any cancels: the only orders it leaves out are those a client has taken out themselves
(`withdrawn`).

`MarketIsAnExchange` is the theorem that says most about a market. `MarketDeals` shows that every
step is one of `Exchange` or leaves its variables alone, one lemma for each action of `Exchange`
(`ReceivingEnters`, `FindingClaims`, `TradingFills`, `EndingFinishes`). On top of `IInv` and `DepthCovers`
it takes `ExchangeInv`:

- an order in a list has something left, but for a maker that was filled a moment ago; so
  the head of a list is one who can be traded with, and `Settle` takes nobody away;
- who has not been matched, or is being matched, is finished only when filled: the
  status, which `CancelFinish` writes late, cannot make `FinishOrder` drop a remainder;
- behind the loop, the order is `Through`: nobody who is open suits it (`LoopEndsAlone`), or it is
  IOC or GTX, or a FOK order that those who wait are not enough for (`RefusedIsThrough`). That
  stays true when others leave (`StaysThrough`), which is what it takes for a cancel to come
  between the end of the loop and the end of `processOrder`.

The hypothesis is needed for the same reason as before: with a level out of reach the market
would finish an order while somebody in that level suits it.

`SnowflakeProofs`, for any set of nodes, widths of the fields and movement of the clock up
to `ClockLimit`: `IdsAlwaysIncrease` and `NodesAlwaysDisagree`. The invariant says that every
id was packed from a moment, its node and a number, and lies below a bound given by
the generator's timestamp and sequence, or by the next millisecond when it waits. Two
lemmas about packed fields (the higher field decides; it is determined) do the
arithmetic.

`RBTreeProofs`, for any `MaxKey`: the order of the keys and the links at every step, the red-black
rules and the queries between calls (`TreeTypes`, `TreeIsOrdered`, `LinksAlwaysAgree`, `NeverARedPair`,
`AlwaysBalanced`, `QueriesAlwaysRight`), and `TreeImplementsKeys`, the refinement of `SortedKeys`. The
properties are defined by recursion over the tree, which the provers cannot do induction on, so
the invariant says the same without it:

- `Shape`: there is a set `U[n]` for every node, `{n}` with the sets of its children, whose
  members are on their side of `n`; links down and up agree; a node outside the tree has no
  children. Since the order is strict, no set has a node twice and nothing can hang from
  itself.
- `Heights`: there is a number `B[n]` for every node, the same from both children and one more if
  the node is black, but for one place below which one black may be missing. `Reds`: no red node
  has a red child, but for the node a repair is at.
- `Held` says which of these there are at each `pc`. A call that is about to begin has a red-black
  tree (`Balanced`); a search stands on the way to its key (`Searching`), so that the place it ends
  at is the right one; `insertFixup` has at most one red pair, at `at` (`Clashing`);
  `deleteFixup` lacks one black below one side of one node (`Lacking`), which is also what
  gives the sentinel the right parent to start from. `TreeInv` is `Held` for some `U`.

For each operation on pointers (`SetChild`, `Attach`, `Transplant`, `Rotate`, `Unlinked`, ...) there is a
lemma that says which links it changes, and one each for what becomes of `Shape`, `Heights` and
`Reds`; a round of a repair composes them: `Conflict` becomes `Repaired`, or the same conflict two
levels up; `Lacking` becomes `Shaken`, which is balance or one black lacking a level up. At the end, `Under`, `PathCounts` and the
walks of `Min` and `Max` are shown to be what `U`, `B` and the ends of `U` say: that the recursive functions
exist and are unique follows from the well-foundedness of strict inclusion among the `U[n]`, with
`WFMin`, which takes a set and not a predicate.

Two theorems about the shape of the tree and the length of calls follow from that:

- `HeightAlwaysLogarithmic`: a path from the root has at most twice as many nodes as black ones,
  since no two reds follow each other, and `2^B[n] <= Cardinality(U[n]) + 1`. The provers know
  nothing of powers, so `2^k` is the number of subsets of `1..k`; and the recursion of
  `PathCounts` over the tree is met by an explicit solution, `Lengths`, and by no other.
- `CallsAlwaysGetShorter`: every step of a call lowers its measure, the number of nodes that may
  still come. For a search that is how many nodes hang from `at`; for a repair it is how
  many nodes are above it, which are those whose set `U[m]` contains its parent (`Above`). A round
  of a repair moves its fault up (`Onward`), or the next step is the last (`Ended`).

The first half of `PipelineProofs`, for any callers, orders and capacity: `ClosedAlwaysQuiet`. `CallsInv` says that whoever
is inside holds the read lock, that whoever stands at the send found the engine running,
and that a closed channel belongs to an engine that does not run: `Stop`, which needs all
readers gone, cannot come in between.

Then, for any clients, deployments and bounds: `PipelineAlwaysQuiet`, the same for the program. It
rests on a lemma that says no more than how the model is built: every action of the program is one
of `EngineCalls` or leaves the engine's variables alone, and memory and topics are sequences
(`MemoryInv`), so that the name of a new order is the name of an order.

Its last part is about the consumer: `CommittedAlwaysHandled` and `AlwaysOncePerProcess`.
`ConsumerInv` says that neither a mark nor a commit is ahead of the handler; that everything a
session has read was handled, but the message in hand, which is the last one read; and that a
process that has not had a session has seen nothing. `ConsumerSteps` reduces the program's
many actions to the nine a consumer makes.

`EventProofs`, for the same: `PipelineTypesAreKept`, `RowsAlwaysCurrent`, `TopicAlwaysCurrent` and
`UpdatesStayInOrder`. The properties speak of a moment at which nothing is left to handle, so they
say nothing of the steps before it; `Inv` follows an order all the way:

- `QueueInv`: until `processOrder` begins to match it, exactly one caller or the channel has an
  order, and it has not changed. So a change is the matcher's or a cancel's.
- `BookInv`: the index, a cancel between `RemoveOrder` and its update, and a matcher between
  `GetFirst` and `UpdateFilled` hold orders that are in memory and have their id. The matcher's
  maker may be one that a cancel has taken out meanwhile, or one that it is about to; then both
  change the order, in either order, and both have an event of it.
- `EventsInv`: what an emitter has built, a record or a message, says what the order is, unless
  another goroutine has an update of it as well (`raced`) or a fill is yet to be announced
  (`silent`). `RacedBy` looks at the events at one moment only, when one more is emitted; that
  this is enough is what the proof shows.
- `RowsInv`: whatever the sinks have been told of is in its row as it is, or an event is on its way
  whose write is still to come, or a write was missed.
- `OutboxInv`, `FlyingInv`, `TopicInv`, `TopicsInv`: the same for messages, with the channel of the
  asynchronous producer and the client library as two more places to wait. Nobody waits for two
  answers, no message is ahead of its order, and the last message of an order to have left its
  producer says what the order is, whether it is still in the library or in the topic.
- `OrderedInv`: behind the one goroutine of the asynchronous producer, the messages of an order are
  in the order in which it changed, first those in the topic and then those in the library, until
  an attempt lets one pass another (`overtaken`).

`StepKinds` reduces the program's actions to a few kinds, `EventFrame` and `SinkKinds` those of the
sinks; below them is one lemma for each invariant and kind. `PipelineAssumption` says what this
needs of the constants: the consumer, the matcher and `Nobody` are not clients, and there is a row for each
id.

`RaftProofs`, for any nodes, sets of voters, orders and bounds: `RaftTypeOK` and `AnswersAlwaysTrue`.
`RaftInv` has three kinds of parts. `LogInv`: an entry is in flight or agreed on, at one place. That
rests on `MayTry`: each try of an order is an entry of its own. `AnswerInv`: what is in the log or in
flight was neither refused nor left untried; an acknowledged entry is in the agreed log, which needs
that no replica applies past it (`ReplicaInv`). `LockInv`: who holds a node's read lock is waiting for
the log there, and who waits for an entry in flight waits on the leader, or a deposed leader would
keep a lock nobody gives back. The last step counts: the places of the log that hold an order are
injected into its tries. The consensus library is assumed to be what `RaftReplica` says of it.

`BooksAlwaysFollow` is about what the replicas hold. `BookInv` says of every node that nobody has
tampered with that its book is, but for the ids, the replay of what it applied, that it has only stop orders of
the log, and that clean snapshots, written or captured, are replays of their index. `Replay` is a
fold; that it grows by one entry at a time and that an earlier part of it stays when the log
grows are lemmas. The attempt found an error in an earlier model of `Persist`: it let a node that
was slow to write put an old snapshot in the place of a newer one the leader had sent. The
library keeps several and gives the latest; the model does so now, and the third budget of
`MCBounds` reaches the case.

`FoldLemmas` is what the proofs about sums and folds rest on. `MapThenFoldSet`, and with it `FoldLeft`,
chooses a recursive function over the subsets of a set; the lemmas show that one exists and is
unique when the set is finite, and from that what a sum does when an element leaves it, when
one of its terms grows, and when it is split into parts. The induction theorems of the library
take a predicate as a parameter, which the provers cannot instantiate; `SubsetInduction` is
stated with a set of subsets instead, and that they can.

The assumptions are the `ASSUME`s of the modules, which TLC evaluates in the runs.

Only model-checked:

- Liveness (`OrdersAreProcessed`, `CallsReturn`, `AcceptedIsProcessed`, `SubmitsReturn`), which is out of
  the prover's reach, as ENABLED is.
- `OverlookedMakersAreDone`.
- The six properties that are violated.

## Where the code and its documentation disagree

Six runs expect a violation. Each checks one thing the repository says.

| Run | Property | What TLC finds |
|---|---|---|
| `cancel_filled` | `WaitingOrdersAreReachable` | Cancelling a filled order finds its old index entry, whose level is empty, and deletes by price: the newer level at that price goes, with the orders that wait in it (`orderbook.go:158`). |
| `cancel_race` | `CancelledIsFinal` | The matcher holds a maker when its cancel returns; the order then trades and its status is overwritten (`engine.go:313`). |
| `fok_stale_total` | `FokIsAllOrNothing` | A level that has traded shows its old total, so a FOK order is filled partly and rests (`limit.go:100`). |
| `stop_never_runs` | `TriggeredStopsLeave` | A triggered stop order is parked again, not matched (`engine.go:484`). |
| `iceberg_hangs` | `OrdersAreProcessed` | An iceberg order that empties a level and wants more visits it for ever (`iceberg.go:53`). The counterexample is under `FairSpec`. |
| `stop_cut` | `PricesAreUpdated` | Two buy stop orders without a stop price share a key, so a slice of one price is cut by two and the process panics (`stop.go:177`). |

## What is not modelled

- Damage below the level of operations: a list or tree corrupted by two goroutines
  that change it at once, torn reads and writes. The modelled interleavings are of
  whole operations.
- Fees, quote amounts, time stamps, symbols, formatting, logging; the
  traversals that print depth and take snapshots.
- Side values other than buy and sell; ticks of zero, which an unreadable configuration
  gives (`engine.go:102`) and which make the validation panic.
- More than one market: markets share the id generator (its mutex makes it atomic) and
  nothing else.
- Restart of a process under the id generator: it keeps nothing, so ids repeat when the
  clock is set back across a restart (a hazard in `PROJECT.json`, `sequence.go:36`).
- Inside the libraries: the consensus protocol (`hashicorp/raft`), the consumer group and the
  producers (`sarama`), `gorm`. The models have what the program relies on. In particular the
  loss of the stores in memory when most nodes restart, and the `Close` of the
  asynchronous producer, which may wait for ever (`kafka_producer.go:250`, a hazard).
- More than one consumer of the group, more than one partition.
- Iceberg states and the last price of a replica; a replica's book is a queue.
- `SaveTrades` (no caller) and the queries of `mysql.go`; `redis.go` and `pkg/errors`, which have no
  caller; reading the configuration and setting up the log; `Suspend`, `Resume` and `Close` of a
  market, which have no caller; generated code; the programs under `src/test`.

## The plan

In order of what is most likely to be wrong and hardest to test:

1. *Done.* The market: `Orders`, `OrderBook`, `StopOrders`, `IcebergOrders`, `MarketEngine`, and its
   proofs.
2. *Done.* The red-black tree against `SortedKeys`, and the id generator with its proofs.
3. *Done.* The engine's lock and channel (`EngineCalls`), the standalone program around it
   (`OrderPipeline`), and the proofs about both.
4. *Done.* The engine in Raft mode (`RaftReplica`).
5. *Done.* Proofs about the replicas: what the answers of `SubmitOrder` mean, and who holds the locks.
6. *Done.* Proofs about what the program leaves behind: rows and topics (`EventProofs`), the books of
   the replicas (`RaftProofs`), and the outcome of matching (`MarketOutcomeProofs`).
7. *Done.* Proofs about the red-black tree (`RBTreeProofs`): its links and the order of the keys, the
   red-black rules, the queries and the refinement of `SortedKeys`.
8. *Done.* That every step of a call of the tree leaves less to do, and how high the tree can be
   (`RBTreeProofs`).
9. *Done.* The market as a whole: `Exchange`, and the proof that `MarketEngine` implements it with
   cancels at any time (`MarketOutcomeProofs`).

What could come next: a proof of `OverlookedMakersAreDone`; a second market; a process that restarts under the id generator.
