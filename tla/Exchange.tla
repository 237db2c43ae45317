------------------------------- MODULE Exchange -------------------------------
(***************************************************************************)
(* What a market promises, whatever trees, lists, totals and indexes it    *)
(* keeps, in whatever steps: the orders of its stream are matched one at a *)
(* time, each with the orders that wait on the other side, the best price  *)
(* first and the oldest of a price first, until it is filled or nobody     *)
(* left suits it; what is left of it then waits itself.  Orders that wait  *)
(* may be withdrawn at any time.                                           *)
(***************************************************************************)
EXTENDS Orders, FiniteSetsExt

VARIABLES next,      \* the order the stream delivers next
          taker,     \* the order that is being matched
          claimed,   \* the order it is about to trade with
          waiting    \* the orders others can trade with

market == <<order, filled, next, taker, claimed, waiting>>

NoOrder == 0

Opening == /\ OrdersInit
           /\ next = 1
           /\ taker = NoOrder
           /\ claimed = NoOrder
           /\ waiting = {}

\* Stop orders are parked and orders of an unknown type turned away.
IsMatched(o) == order[o].type \in {"limit", "market", "iceberg"}

\* A market order takes any price, another one its own or a better one.
Suits(o, m) == \/ order[o].type = "market"
               \/ IF order[o].side = "buy" THEN order[m].price <= order[o].price
                                           ELSE order[m].price >= order[o].price

Partners(o) ==
  {m \in waiting : order[m].side = Opposite(order[o].side) /\ Suits(o, m)}

\* m, of the same side as n, has the better price, or the same and came first.
ServedBefore(m, n) ==
  \/ order[m].price = order[n].price /\ m < n
  \/ IF order[m].side = "sell" THEN order[m].price < order[n].price
                               ELSE order[m].price > order[n].price

\* IOC and GTX orders are matched at one price and may stop before they are
\* through; a FOK order is not matched when those who wait are not enough for it.
HasValidity(o, tifs) == order[o].type = "limit" /\ order[o].tif \in tifs

IsThrough(o) ==
  \/ Remain(o) = 0
  \/ Partners(o) = {}
  \/ HasValidity(o, {"IOC", "GTX"})
  \/ /\ HasValidity(o, {"FOK"})
     /\ filled[o] = 0
     /\ MapThenSumSet(Remain, Partners(o)) < Remain(o)

-----------------------------------------------------------------------------
Enter == /\ taker = NoOrder
         /\ next \in OrderId
         /\ taker' = IF IsMatched(next) THEN next ELSE NoOrder
         /\ next' = next + 1
         /\ UNCHANGED <<order, filled, claimed, waiting>>

Claim == /\ taker # NoOrder /\ claimed = NoOrder
         /\ Remain(taker) > 0
         /\ \E m \in Partners(taker) :
              /\ \A n \in Partners(taker) \ {m} : ServedBefore(m, n)
              /\ claimed' = m
         /\ UNCHANGED <<order, filled, next, taker, waiting>>

\* Also when the order that is claimed has been withdrawn meanwhile.
Fill == /\ claimed # NoOrder
        /\ LET amount == Min({Remain(taker), Remain(claimed)})
           IN  /\ filled' = [filled EXCEPT ![taker] = @ + amount,
                                           ![claimed] = @ + amount]
               /\ waiting' = IF amount = Remain(claimed) THEN waiting \ {claimed}
                                                         ELSE waiting
        /\ claimed' = NoOrder
        /\ UNCHANGED <<order, next, taker>>

\* Only what is left of a market order does not wait.
Finish == /\ taker # NoOrder /\ claimed = NoOrder
          /\ IsThrough(taker)
          /\ waiting' = IF Remain(taker) > 0 /\ order[taker].type # "market"
                          THEN waiting \cup {taker} ELSE waiting
          /\ taker' = NoOrder
          /\ UNCHANGED <<order, filled, next, claimed>>

Withdraw == /\ \E o \in waiting : waiting' = waiting \ {o}
            /\ UNCHANGED <<order, filled, next, taker, claimed>>

Dealing == Enter \/ Claim \/ Fill \/ Finish \/ Withdraw

ExchangeSpec == Opening /\ [][Dealing]_market
=============================================================================
