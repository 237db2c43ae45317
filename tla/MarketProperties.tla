-------------------------- MODULE MarketProperties --------------------------
(***************************************************************************)
(* What one market promises: the safety and liveness properties that the   *)
(* runs check and MarketProofs proves.                                     *)
(***************************************************************************)
EXTENDS MarketEngine

PriceKey == Nat \X (OrderId \cup {NoOrder})

\* A trade of TradeResult.Trades.
TradeRecord == [taker : OrderId, maker : OrderId, price : Nat, amount : Nat]

BookTypeOK ==
  /\ order \in [OrderId -> OrderSpace]
  /\ filled \in [OrderId -> Nat]
  /\ status \in [OrderId -> OrderStatus]
  /\ tree \subseteq OrderId
  /\ queue \in [OrderId -> Seq(OrderId)]
  /\ total \in [OrderId -> Int]
  /\ index \in [OrderId -> OrderId \cup {NoLevel}]
  /\ cancelling \subseteq OrderId

ProcessorTypeOK ==
  /\ pc \in PC
  /\ next \in 1..(MaxOrders + 1)
  /\ taker \in OrderId \cup {NoOrder}
  /\ level \in OrderId \cup {NoLevel}
  /\ maker \in OrderId \cup {NoOrder}
  /\ trades \in Seq(TradeRecord)
  /\ lastPrice \in Nat

ManagersTypeOK ==
  /\ parked \subseteq OrderId
  /\ triggered \subseteq OrderId
  /\ prices \in [OrderSide -> Seq(PriceKey)]
  /\ registered \subseteq OrderId
  /\ visible \in [OrderId -> Nat]
  /\ hidden \in [OrderId -> Nat]

\* The variables keep their types: every field of the book, of the processing
\* goroutine and of the two managers.
TypeOK == /\ BookTypeOK /\ ProcessorTypeOK /\ ManagersTypeOK
          /\ withdrawn \subseteq OrderId

-----------------------------------------------------------------------------
(* The book.                                                               *)

InArrivalOrder(q) == \A i, j \in DOMAIN q : i < j => q[i] < q[j]

\* What a list of a price level holds is what the index says it holds: an order
\* waits in the level its entry points to, on the level's side and at its
\* price, behind every order that came before it, and at most once.
QueuesMatchIndex ==
  \A l \in OrderId :
    /\ InArrivalOrder(queue[l])
    /\ \A o \in ToSet(queue[l]) : /\ index[o] = l
                                  /\ order[o].side = order[l].side
                                  /\ order[o].price = order[l].price

\* An entry that is left in the index after its order has gone from the level
\* belongs to an order that is filled: no order with something left leaves its
\* level without leaving the index.
StaleEntriesAreFilled ==
  \A o \in OrderId :
    (index[o] # NoLevel /\ o \notin ToSet(queue[index[o]])) => Remain(o) = 0

\* Two levels of one side never have the same price in the tree.
OneLevelPerPrice ==
  \A k, l \in tree : (/\ order[k].side = order[l].side
                      /\ order[k].price = order[l].price) => k = l

\* A level somebody waits in is a level the matcher can find.
WaitingOrdersAreReachable ==
  \A l \in OrderId : queue[l] # <<>> => l \in tree

\* What some orders have left together.
RemainIn(orders) == MapThenSumSet(Remain, orders)

\* The depth of a level, which GetDepth shows and the FOK check adds up, never
\* understates what waits there, although cancels race with the matcher for it.
DepthCovers == \A l \in OrderId : total[l] >= RemainIn(ToSet(queue[l]))

\* Between two orders the book is not crossed: nobody who waits to buy offers
\* what somebody who waits to sell asks for.
Uncrossed ==
  pc = "idle" =>
    \A b, s \in {o \in OrderId : Queued(o)} :
      order[b].side = "buy" /\ order[s].side = "sell"
        => order[b].price < order[s].price

-----------------------------------------------------------------------------
(* Trades.                                                                 *)

\* The maker is acceptable to the taker, and no other order that waits on the
\* maker's side has a better price, or the same price and an earlier arrival.
MakerComesFirst ==
  /\ \/ order[taker].type = "market"
     \/ Accepts(order[taker].side, order[taker].price, order[maker].price)
  /\ \A o \in OrderId \ {maker} :
       Queued(o) /\ order[o].side = order[maker].side =>
         /\ AtLeastAsGood(order[o].side, order[maker].price, order[o].price)
         /\ order[o].price = order[maker].price => maker < o

\* Price-time priority of every trade, whatever is cancelled meanwhile.
PriceTimePriority == [][Trade => MakerComesFirst]_vars

\* Nobody is filled beyond the amount ordered, and between two orders the trade
\* events published so far add up to what each order has filled.
FillsArePublished ==
  /\ \A o \in OrderId : filled[o] <= order[o].amount
  /\ pc = "idle" => published = filled

\* Whoever traded is told, except makers other than the last of a match; so an
\* order whose last update event is behind what it has filled is filled and out
\* of the book: no order that can still trade is reported wrongly for good.
OverlookedMakersAreDone ==
  pc = "idle" =>
    \A o \in OrderId :
      reported[o].filled # filled[o] => Remain(o) = 0 /\ ~Queued(o)

\* A quantity never disappears: between two orders, whatever is left of a limit
\* or iceberg order that was processed waits in the book under a status that
\* lets it trade, unless a client has taken that order out.
NothingIsLost ==
  pc = "idle" =>
    \A o \in 1..(next - 1) :
      (order[o].type \in {"limit", "iceberg"} /\ Remain(o) > 0)
        => o \in withdrawn \/ (Queued(o) /\ ~IsFinished(o))

\* A FOK order is turned away only when the orders that wait within its price
\* really are not enough for it.
FokRefusalIsRight ==
  [][(FokCheck /\ pc' = "rest") =>
       RemainIn({o \in OrderId : /\ Queued(o)
                                 /\ order[o].side = MakerSide
                                 /\ Crosses(o)}) < Remain(taker)]_vars

-----------------------------------------------------------------------------
(* The market as a whole.                                                  *)

\* The order that is matched: it leaves the market's hands when it has been put
\* into the book or there is nothing more to do about it.
InHand == IF pc \in {"idle", "announce"} THEN NoOrder ELSE taker

\* The maker that has been looked up and has not traded yet.
LookedUp == IF pc = "trade" THEN maker ELSE NoOrder

\* Who can be traded with: what some list has and is not filled.
Open == {o \in OrderId : Queued(o) /\ Remain(o) > 0}

Promise == INSTANCE Exchange WITH taker <- InHand, claimed <- LookedUp, waiting <- Open

\* The market, with its levels, its index and the cancels between any two of its
\* steps, matches orders as an Exchange does: by price and time, as far as it can,
\* losing nobody who waits.
ImplementsExchange == Promise!ExchangeSpec

-----------------------------------------------------------------------------
(* The managers of stop and iceberg orders.                                *)

\* Each slice of stop prices lists the keys of its map, every one once and in
\* order.
SlicesListTheMaps ==
  \A side \in OrderSide :
    LET p == prices[side]
    IN  /\ ToSet(p) = {Key(o) : o \in {q \in parked : order[q].side = side}}
        /\ \A i, j \in DOMAIN p : i < j =>
             /\ p[i] # p[j]
             /\ AtLeastAsGood(Opposite(side), p[i][1], p[j][1])

\* No two parked buy orders came without a stop price.
BuyKeysDiffer ==
  \A o, q \in parked :
    order[o].side = "buy" /\ order[q].side = "buy" /\ Key(o) = Key(q) => o = q

\* Although it is cut by a count of orders, a slice of stop prices goes on
\* listing its map, and the cut stays in range, until a second buy order without
\* a stop price is parked.  A key that is lost would never trigger again, and
\* one too many ends the process.  Sell orders without a price do no harm: no
\* last price is as low as theirs.
StopPricesMatchMap ==
  BuyKeysDiffer => SlicesListTheMaps /\ pc # "panicked"

-----------------------------------------------------------------------------
(* Liveness.                                                               *)

\* An order taken from the channel is processed to the end, so the market comes
\* back for the next one, whatever is cancelled meanwhile.  (An iceberg order
\* need not be: see OrdersAreProcessed.)
MatchingEnds ==
  (pc # "idle" /\ order[taker].type # "iceberg") ~> (pc = "idle")

-----------------------------------------------------------------------------
(* What the repository says and the code does not do.                      *)

\* models/order.go: a cancelled order is one that has ended ("订单是否已结束"), so
\* it does not trade and become something else.
CancelledIsFinal ==
  [][\A o \in OrderId : status[o] = "cancelled" => status'[o] = "cancelled"]_vars

\* models/order.go: FOK, "全部成交或取消".
FokIsAllOrNothing ==
  (pc \in {"rest", "announce"} /\ IsTif("FOK"))
    => filled[taker] \in {0, order[taker].amount}

\* README.md and matching/stop.go: a stop order that is triggered is matched as
\* a limit or market order ("止损限价单：转为限价单撮合"), so it is no longer
\* parked.
TriggeredStopsLeave == pc = "idle" => triggered \cap parked = {}

\* README.md: iceberg orders are supported, so they are processed like others.
OrdersAreProcessed == (pc # "idle") ~> (pc = "idle")

\* matching/stop.go: when a price level is emptied the list of prices is brought
\* up to date ("更新prices"), so it lists the levels there are and the market goes
\* on.
PricesAreUpdated == SlicesListTheMaps /\ pc # "panicked"
=============================================================================
