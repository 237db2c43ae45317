---------------------------- MODULE MarketEngine ----------------------------
(***************************************************************************)
(* One market of internal/engine/engine.go in standalone mode: the         *)
(* goroutine of processOrders takes the orders one by one from the channel *)
(* and matches them, and API goroutines cancel orders meanwhile.           *)
(*                                                                         *)
(* CancelOrder holds the book's mutex while it takes an order out of the   *)
(* book; the matchers of internal/matching never take that mutex, so a     *)
(* cancel may fall between any two steps of a match.  Each access of the   *)
(* matcher to the shared book or to a shared order is a step of its own,   *)
(* and pc says which one comes next.                                       *)
(***************************************************************************)
EXTENDS OrderBook, StopOrders, IcebergOrders

CONSTANT CancelScope   \* which orders the clients cancel while the market runs

Nobody     == "none"   \* no cancel at all
OpenOnly   == "open"   \* orders that still wait in a price level
AnyIndexed == "any"    \* also orders filled already: their entry is still there

ASSUME CancelAssumption == CancelScope \in {Nobody, OpenOnly, AnyIndexed}

VARIABLES pc,          \* the step processOrder takes next
          next,        \* the order the channel delivers next
          taker,       \* the order being processed
          level,       \* bestLevel
          maker,       \* makerOrder
          trades,      \* TradeResult.Trades
          lastPrice,   \* MarketEngine.lastPrice, 0 before the first trade
          published,   \* per order, the amount of the trade events that name it
          reported,    \* per order, what its last update event said
          cancelling,  \* removed from the book, status not written yet
          withdrawn    \* history: orders a cancel has taken out

procVars == <<pc, next, taker, level, maker, trades>>
eventVars == <<lastPrice, published, reported>>
vars == <<orderVars, bookVars, stopVars, icebergVars, procVars, eventVars,
          cancelling, withdrawn>>

NoOrder == 0
NoReport == [status |-> "none", filled |-> 0]

PC == {"idle", "check", "best", "first", "trade", "settle", "leave", "publish",
       "report", "stops", "rest", "announce", "panicked"}

Init == /\ OrdersInit
        /\ BookInit
        /\ StopsInit
        /\ IcebergInit
        /\ pc = "idle"
        /\ next = 1
        /\ taker = NoOrder /\ level = NoLevel /\ maker = NoOrder
        /\ trades = <<>>
        /\ lastPrice = 0
        /\ published = [o \in OrderId |-> 0]
        /\ reported = [o \in OrderId |-> NoReport]
        /\ cancelling = {}
        /\ withdrawn = {}

\* eventHandler.OnOrderUpdate of the orders in S: the handlers read the
\* order's fields when they are called.
Reports(S) == [o \in OrderId |-> IF o \in S
                                   THEN [status |-> status[o], filled |-> filled[o]]
                                   ELSE reported[o]]

IsType(type) == order[taker].type = type
IsTif(tif) == IsType("limit") /\ order[taker].tif = tif

MakerSide == Opposite(order[taker].side)

\* Mutant of Crosses: an equal price does not match.
CrossesStrictly(l) ==
  \/ IsType("market")
  \/ /\ Accepts(order[taker].side, order[taker].price, order[l].price)
     /\ order[taker].price # order[l].price

\* Market orders take any price; the others stop at their own.
Crosses(l) == \/ IsType("market")
              \/ Accepts(order[taker].side, order[taker].price, order[l].price)

-----------------------------------------------------------------------------
(* processOrder up to the call of a matcher.                               *)

Receive(o) == /\ pc = "idle"
              /\ o = next
              /\ next' = next + 1
              /\ taker' = o
              /\ trades' = <<>>

ReceiveForBook ==
  \E o \in OrderId :
    /\ Receive(o)
    /\ order[o].type \in {"limit", "market", "iceberg"}
    /\ pc' = IF order[o].type = "limit" /\ order[o].tif = "FOK"
               THEN "check" ELSE "best"
    /\ IF order[o].type = "iceberg" THEN Register(o) ELSE UNCHANGED icebergVars
    /\ UNCHANGED <<orderVars, bookVars, stopVars, eventVars, level, maker,
                   cancelling, withdrawn>>

ReceiveStop ==
  \E o \in OrderId :
    /\ Receive(o)
    /\ IsStop(o)
    /\ AddStop(o)
    /\ UNCHANGED <<orderVars, bookVars, icebergVars, eventVars, pc, level,
                   maker, cancelling, withdrawn>>

ReceiveUnknown ==
  \E o \in OrderId :
    /\ Receive(o)
    /\ order[o].type = "unknown"
    /\ status' = [status EXCEPT ![o] = "rejected"]
    /\ UNCHANGED <<order, filled, bookVars, stopVars, icebergVars, eventVars,
                   pc, level, maker, cancelling, withdrawn>>

-----------------------------------------------------------------------------
(* The matchers.                                                           *)

\* Mutant of Available: the check stops at the best level.
AvailableAtBest ==
  LET best == BestLevel(MakerSide)
  IN  IF best # NoLevel /\ Crosses(best) THEN total[best] ELSE 0

\* What the FOK check adds up: the totals of the levels the price accepts.
Available == MapThenSumSet(LAMBDA l : total[l],
                           {l \in Levels(MakerSide) : Crosses(l)})

FokCheck ==
  /\ pc = "check"
  /\ pc' = IF Available < Remain(taker) THEN "rest" ELSE "best"
  /\ UNCHANGED <<orderVars, bookVars, stopVars, icebergVars, eventVars, next,
                 taker, level, maker, trades, cancelling, withdrawn>>

\* The matcher returns: processTrades only when there is a trade.
AfterMatch == IF trades = <<>> THEN "rest" ELSE "publish"

\* The head of the matching loop.
FindLevel ==
  LET best == BestLevel(MakerSide)
      goes == /\ Remain(taker) > 0
              /\ best # NoLevel
              /\ Crosses(best)
  IN  /\ pc = "best"
      /\ pc' = IF goes THEN "first" ELSE AfterMatch
      /\ level' = IF goes THEN best ELSE level
      /\ UNCHANGED <<orderVars, bookVars, stopVars, icebergVars, eventVars,
                     next, taker, maker, trades, cancelling, withdrawn>>

\* GetFirst
FindMaker ==
  /\ pc = "first"
  /\ pc' = IF queue[level] = <<>> THEN "leave" ELSE "trade"
  /\ maker' = IF queue[level] = <<>> THEN maker ELSE Head(queue[level])
  /\ UNCHANGED <<orderVars, bookVars, stopVars, icebergVars, eventVars, next,
                 taker, level, trades, cancelling, withdrawn>>

\* NewTrade and UpdateFilled of both orders.
MatchAmount == Min({Remain(taker), Remain(maker)})

Trade ==
  /\ pc = "trade"
  /\ pc' = "settle"
  /\ trades' = Append(trades, [taker |-> taker, maker |-> maker,
                               price |-> order[level].price,
                               amount |-> MatchAmount])
  /\ UpdateFilled(taker, maker, MatchAmount)
  /\ UNCHANGED <<order, bookVars, stopVars, icebergVars, eventVars, next, taker,
                 level, maker, cancelling, withdrawn>>

\* Mutant of Settle: every maker leaves its level, finished or not.
SettleAlways ==
  /\ pc = "settle"
  /\ pc' = IF Remain(taker) > 0 THEN "first" ELSE "leave"
  /\ LevelRemoveOrder(level, maker)
  /\ UNCHANGED <<orderVars, tree, index, stopVars, icebergVars, eventVars, next,
                 taker, level, maker, trades, cancelling, withdrawn>>

\* A maker that is finished leaves its level, not the index.
Settle ==
  /\ pc = "settle"
  /\ pc' = IF Remain(taker) > 0 THEN "first" ELSE "leave"
  /\ IF IsFinished(maker) THEN LevelRemoveOrder(level, maker)
                          ELSE UNCHANGED <<queue, total>>
  /\ UNCHANGED <<orderVars, tree, index, stopVars, icebergVars, eventVars, next,
                 taker, level, maker, trades, cancelling, withdrawn>>

\* Mutant of LeaveLevel: the level is deleted whoever still waits in it.
LeaveLevelDeleted ==
  /\ pc = "leave"
  /\ tree' = WithoutPrice(order[level].side, order[level].price)
  /\ pc' = IF IsTif("IOC") \/ IsTif("GTX") THEN AfterMatch ELSE "best"
  /\ UNCHANGED <<orderVars, queue, total, index, stopVars, icebergVars,
                 eventVars, next, taker, level, maker, trades, cancelling,
                 withdrawn>>

\* Mutant of LeaveLevel: an emptied level is not deleted.
LeaveLevelBehind ==
  /\ pc = "leave"
  /\ pc' = IF IsTif("IOC") \/ IsTif("GTX") THEN AfterMatch ELSE "best"
  /\ UNCHANGED <<orderVars, bookVars, stopVars, icebergVars, eventVars, next,
                 taker, level, maker, trades, cancelling, withdrawn>>

\* matchAtPriceLevel returns.  The iceberg matcher keeps an empty level; an
\* IOC or GTX limit order visits one level only.
LeaveLevel ==
  /\ pc = "leave"
  /\ tree' = IF queue[level] = <<>> /\ ~IsType("iceberg")
               THEN WithoutPrice(order[level].side, order[level].price)
               ELSE tree
  /\ pc' = IF IsTif("IOC") \/ IsTif("GTX") THEN AfterMatch ELSE "best"
  /\ UNCHANGED <<orderVars, queue, total, index, stopVars, icebergVars,
                 eventVars, next, taker, level, maker, trades, cancelling,
                 withdrawn>>

-----------------------------------------------------------------------------
(* processTrades, and the end of processOrder.                             *)

\* Mutant of TradedAmount: TradeResult.Trade, the last one, is published alone.
LastTradedAmount(o) ==
  IF o \in {Last(trades).taker, Last(trades).maker} THEN Last(trades).amount ELSE 0

TradedAmount(o) ==
  FoldLeft(LAMBDA sum, t : IF o \in {t.taker, t.maker} THEN sum + t.amount ELSE sum,
           0, trades)

PublishTrades ==
  /\ pc = "publish"
  /\ pc' = "report"
  /\ lastPrice' = Last(trades).price
  /\ published' = [o \in OrderId |-> published[o] + TradedAmount(o)]
  /\ IcebergTrades(trades, taker, maker)
  /\ UNCHANGED <<orderVars, bookVars, stopVars, next, taker, level, maker,
                 trades, reported, cancelling, withdrawn>>

\* Mutant of ReportOrders: only the taker is told.
ReportTaker ==
  /\ pc = "report"
  /\ pc' = "stops"
  /\ reported' = Reports({taker})
  /\ UNCHANGED <<orderVars, bookVars, stopVars, icebergVars, next, taker, level,
                 maker, trades, lastPrice, published, cancelling, withdrawn>>

\* The result remembers one maker, the last.
ReportOrders ==
  /\ pc = "report"
  /\ pc' = "stops"
  /\ reported' = Reports({taker, maker})
  /\ UNCHANGED <<orderVars, bookVars, stopVars, icebergVars, next, taker, level,
                 maker, trades, lastPrice, published, cancelling, withdrawn>>

\* Without a last price nothing is checked.
CheckStops ==
  LET checks == lastPrice # 0
      breaks == checks /\ CutOutOfRange(lastPrice)
  IN  /\ pc = "stops"
      /\ pc' = IF breaks THEN "panicked" ELSE "rest"
      /\ IF checks /\ ~breaks THEN CheckStopOrders(lastPrice)
                             ELSE UNCHANGED stopVars
      /\ UNCHANGED <<orderVars, bookVars, icebergVars, eventVars, next, taker,
                     level, maker, trades, cancelling, withdrawn>>

\* Mutant of Leftover: only an order that has not traded is kept.
LeftoverIfNew == Remain(taker) > 0 /\ status[taker] = "new"

Leftover == Remain(taker) > 0 /\ ~IsFinished(taker)

FinishOrder ==
  /\ pc = "rest"
  /\ ~Leftover
  /\ pc' = "idle"
  /\ UNCHANGED <<orderVars, bookVars, stopVars, icebergVars, eventVars, next,
                 taker, level, maker, trades, cancelling, withdrawn>>

DropRemainder ==
  /\ pc = "rest"
  /\ Leftover
  /\ IsType("market")
  /\ pc' = "announce"
  /\ status' = [status EXCEPT ![taker] = "cancelled"]
  /\ UNCHANGED <<order, filled, bookVars, stopVars, icebergVars, eventVars, next,
                 taker, level, maker, trades, cancelling, withdrawn>>

RestRemainder ==
  /\ pc = "rest"
  /\ Leftover
  /\ ~IsType("market")
  /\ pc' = "announce"
  /\ AddOrder(taker)
  /\ UNCHANGED <<orderVars, stopVars, icebergVars, eventVars, next, taker, level,
                 maker, trades, cancelling, withdrawn>>

AnnounceOrder ==
  /\ pc = "announce"
  /\ pc' = "idle"
  /\ reported' = Reports({taker})
  /\ UNCHANGED <<orderVars, bookVars, stopVars, icebergVars, next, taker, level,
                 maker, trades, lastPrice, published, cancelling, withdrawn>>

-----------------------------------------------------------------------------
(* CancelOrder in an API goroutine.                                        *)

ClientCancels(o) ==
  \/ CancelScope = AnyIndexed
  \/ CancelScope = OpenOnly /\ o \in ToSet(queue[index[o]])

\* The matcher may be between the read and the write of its own update of
\* Total (PriceLevel.RemoveOrder of a filled maker) and overwrite this one.
LostUpdates(o) ==
  IF /\ pc = "settle"
     /\ level = index[o]
     /\ IsFinished(maker)
     /\ maker \in ToSet(queue[level])
    THEN BOOLEAN ELSE {FALSE}

CancelRemove(o) ==
  /\ pc # "panicked"
  /\ index[o] # NoLevel
  /\ ClientCancels(o)
  /\ \E lost \in LostUpdates(o) : RemoveOrder(o, lost)
  /\ cancelling' = cancelling \cup {o}
  /\ withdrawn' = withdrawn \cup {o}
  /\ UNCHANGED <<orderVars, stopVars, icebergVars, procVars, eventVars>>

\* After the mutex is released: the status, whatever it is now, and the event.
CancelFinish(o) ==
  /\ pc # "panicked"
  /\ o \in cancelling
  /\ cancelling' = cancelling \ {o}
  /\ status' = [status EXCEPT ![o] = "cancelled"]
  /\ reported' = [reported EXCEPT ![o] = [status |-> "cancelled",
                                          filled |-> filled[o]]]
  /\ UNCHANGED <<order, filled, bookVars, stopVars, icebergVars, procVars,
                 lastPrice, published, withdrawn>>

-----------------------------------------------------------------------------
Match == FokCheck \/ FindLevel \/ FindMaker \/ Trade \/ Settle \/ LeaveLevel

Process == \/ ReceiveForBook \/ ReceiveStop \/ ReceiveUnknown
           \/ Match
           \/ PublishTrades \/ ReportOrders \/ CheckStops
           \/ FinishOrder \/ DropRemainder \/ RestRemainder \/ AnnounceOrder

Cancel == \E o \in OrderId : CancelRemove(o) \/ CancelFinish(o)

Next == Process \/ Cancel

Spec == Init /\ [][Next]_vars

\* The goroutine of processOrders is always scheduled again; clients need not
\* cancel anything.
FairSpec == Spec /\ WF_vars(Process)
=============================================================================
