------------------------------ MODULE MCMarket ------------------------------
(* Small instances of the market: the orders clients may send in each run. *)
EXTENDS MarketProperties

Plain(types, tifs, priceSet, amounts) ==
  [side: OrderSide, type: types, tif: tifs, price: priceSet, amount: amounts,
   stop: {0}, visible: {0}, hidden: {0}]

Limit(side, price, amount) ==
  [side |-> side, type |-> "limit", tif |-> "GTC", price |-> price,
   amount |-> amount, stop |-> 0, visible |-> 0, hidden |-> 0]

Iceberg(side, price, amount, display) ==
  [Limit(side, price, amount) EXCEPT !.type = "iceberg", !.visible = display,
                                     !.hidden = amount - display]

StopLimit(side, stop) == [Limit(side, 1, 1) EXCEPT !.type = "stop_limit", !.stop = stop]

\* Limit orders: makers of one unit at two prices on both sides, and takers of
\* two units that reach both prices.
LimitOrders == Plain({"limit"}, {"GTC"}, {1, 2}, {1})
                 \cup {Limit("buy", 2, 2), Limit("sell", 1, 2)}

\* The same beside stop orders with and without a stop price.
BookOrders == LimitOrders
                \cup {StopLimit("buy", stop) : stop \in {0, 2}}
                \cup {StopLimit("sell", stop) : stop \in {0, 1}}

\* Market orders, every validity a limit order may have, and iceberg orders that
\* show two units of three.
AllOrders == Plain({"limit"}, {"GTC"}, {1, 2}, {1})
               \cup Plain({"limit"}, {"IOC", "FOK", "GTX"}, {2}, {2})
               \cup Plain({"market"}, {"GTC"}, {0}, {2})
               \cup {[Limit("buy", 1, 1) EXCEPT !.type = "unknown"]}
               \cup {Iceberg("buy", 2, 3, 2), Iceberg("sell", 1, 3, 2)}

\* Sell orders at two prices and FOK orders that want all of them.
FokOrders == {Limit("sell", 1, 2), Limit("buy", 1, 1),
              [Limit("buy", 1, 2) EXCEPT !.tif = "FOK"]}

\* One stop order to be triggered, and the two orders whose trade does it.
StopOrdersOnly == {Limit("buy", 1, 1), Limit("sell", 1, 1), StopLimit("buy", 1)}

\* The same with a stop order that came without a stop price.
UnsetStopOrders == {Limit("buy", 1, 1), Limit("sell", 1, 1), StopLimit("buy", 0)}

\* An iceberg order that empties a level and wants more.
IcebergOrdersOnly == {Limit("sell", 1, 1), Iceberg("buy", 1, 2, 1)}
=============================================================================
