------------------------------- MODULE Orders -------------------------------
(***************************************************************************)
(* The order of internal/models/order.go: the attributes a client chose,   *)
(* which never change, and the two fields matching writes (filled amount   *)
(* and status).  An order is named by its position in the stream of orders *)
(* that the market's channel delivers, so a smaller name is an older order.*)
(* Every order is new when it is delivered.  (One that comes back from the *)
(* topic of updates is not: it keeps its id, its status and what it has    *)
(* filled, and its entry takes the place of the first one's in the index.  *)
(* Such copies are in OrderPipeline.)                                      *)
(***************************************************************************)
EXTENDS Integers, FiniteSets

CONSTANTS MaxOrders,    \* how many orders the channel delivers (a bound)
          OrderSpace    \* the attributes an order may have

OrderId == 1..MaxOrders

OrderSide   == {"buy", "sell"}
OrderType   == {"limit", "market", "stop_limit", "stop_market", "iceberg",
                "unknown"}
TimeInForce == {"GTC", "IOC", "FOK", "GTX"}
OrderStatus == {"new", "partially_filled", "filled", "cancelled", "rejected"}

\* stop = 0 is a stop price the client left unset.
OrderAttr == [side: OrderSide, type: OrderType, tif: TimeInForce, price: Nat,
              amount: Nat \ {0}, stop: Nat, visible: Nat, hidden: Nat]

ASSUME OrdersAssumption == /\ MaxOrders \in Nat
                           /\ OrderSpace \subseteq OrderAttr

VARIABLES order,    \* the attributes of each order
          filled,   \* FilledAmount
          status    \* Status

orderVars == <<order, filled, status>>

OrdersInit == /\ order \in [OrderId -> OrderSpace]
              /\ filled = [o \in OrderId |-> 0]
              /\ status = [o \in OrderId |-> "new"]

\* RemainAmount, which every write of FilledAmount recomputes.
Remain(o) == order[o].amount - filled[o]

Opposite(side) == IF side = "buy" THEN "sell" ELSE "buy"

IsFinished(o) == status[o] \in {"filled", "cancelled", "rejected"}

\* The status UpdateFilled leaves, whatever the status was before.
StatusAfterFill(o, amount) ==
  IF Remain(o) = amount THEN "filled" ELSE "partially_filled"

\* UpdateFilled of both orders of a trade.
UpdateFilled(taker, maker, amount) ==
  /\ filled' = [filled EXCEPT ![taker] = @ + amount, ![maker] = @ + amount]
  /\ status' = [status EXCEPT ![taker] = StatusAfterFill(taker, amount),
                              ![maker] = StatusAfterFill(maker, amount)]
=============================================================================
