----------------------------- MODULE StopOrders -----------------------------
(***************************************************************************)
(* StopOrderManager of internal/matching/stop.go: for each side a map from *)
(* stop price to the orders parked there and a sorted slice of the map's   *)
(* keys.  The map's key is a decimal.Decimal, a struct that holds a        *)
(* pointer: two orders have the same key only when both leave StopPrice    *)
(* unset.  A key is in the map exactly while an order is parked under it.  *)
(***************************************************************************)
EXTENDS Orders, Sequences, SequencesExt

VARIABLES parked,     \* the orders the two maps hold
          prices,     \* StopOrderTree.prices of each side
          triggered   \* the orders whose Triggered is set

stopVars == <<parked, prices, triggered>>

StopsInit == /\ parked = {}
             /\ prices = [s \in OrderSide |-> <<>>]
             /\ triggered = {}

IsStop(o) == order[o].type \in {"stop_limit", "stop_market"}

\* The map key: the price and the pointer that tells equal prices apart.
Key(o) == IF order[o].stop = 0 THEN <<0, 0>> ELSE <<order[o].stop, o>>

ParkedAt(side, keys) == {o \in parked : order[o].side = side /\ Key(o) \in keys}

\* append followed by sortPrices on a slice that is sorted already: buy stops
\* ascend, sell stops descend.
InsertPrice(side, keys, key) ==
  LET before == {i \in DOMAIN keys : IF side = "buy" THEN keys[i][1] <= key[1]
                                                     ELSE keys[i][1] >= key[1]}
  IN  InsertAt(keys, Cardinality(before) + 1, key)

\* StopOrderManager.AddOrder
AddStop(o) ==
  LET side == order[o].side
  IN  /\ parked' = parked \cup {o}
      /\ prices' = IF ParkedAt(side, {Key(o)}) = {}
                     THEN [prices EXCEPT ![side] = InsertPrice(side, @, Key(o))]
                     ELSE prices
      /\ UNCHANGED triggered

\* The keys GetOrdersBelowPrice scans: the front of the slice up to the first
\* one above the price.  GetOrdersAbovePrice scans from the back, down to the
\* first one below the price.
Scanned(side, last) ==
  LET p == prices[side]
      Hit(k) == IF side = "buy" THEN k[1] <= last ELSE k[1] >= last
      Reached(i) == IF side = "buy" THEN \A j \in 1..i : Hit(p[j])
                                    ELSE \A j \in i..Len(p) : Hit(p[j])
      reached == {i \in DOMAIN p : Reached(i)}
  IN  IF side = "buy" THEN SubSeq(p, 1, Cardinality(reached))
      ELSE Reverse(SubSeq(p, Len(p) - Cardinality(reached) + 1, Len(p)))

Triggered(side, last) == ParkedAt(side, ToSet(Scanned(side, last)))

\* Mutant of Cut: the keys that were emptied stay in the slice.
CutNothing(side, last) == prices[side]

\* The slice is cut by the number of ORDERS found, not of keys scanned.
Cut(side, last) ==
  LET p == prices[side]
      n == Cardinality(Triggered(side, last))
  IN  IF side = "buy" THEN SubSeq(p, n + 1, Len(p)) ELSE SubSeq(p, 1, Len(p) - n)

CutOutOfRange(last) ==
  \E side \in OrderSide : Cardinality(Triggered(side, last)) > Len(prices[side])

\* GetTriggeredOrders, and for each order found StopManager.RemoveOrder (which
\* finds nothing left) and processOrder, which parks a stop order again.
CheckStopOrders(last) ==
  LET Again(side) ==
        FoldLeft(LAMBDA keys, k : IF ParkedAt(side, {k}) = {} THEN keys
                                  ELSE InsertPrice(side, keys, k),
                 Cut(side, last), Scanned(side, last))
  IN  /\ prices' = [side \in OrderSide |-> Again(side)]
      /\ triggered' = triggered \cup UNION {Triggered(s, last) : s \in OrderSide}
      /\ UNCHANGED parked
=============================================================================
