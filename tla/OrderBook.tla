------------------------------ MODULE OrderBook ------------------------------
(***************************************************************************)
(* The order book of internal/orderbook/orderbook.go: price levels, each a *)
(* FIFO list with a running total, found by price through one tree a side, *)
(* and by order through an index of entries that keep a POINTER to the     *)
(* level.  A level is therefore an object with an identity of its own: it  *)
(* is named here by the order for which AddOrder created it, and a level   *)
(* deleted from its tree and a later level at the same price are different *)
(* objects.  A tree is a set of levels; RBTree operations are taken as the *)
(* map operations they implement.                                          *)
(***************************************************************************)
EXTENDS Orders, Sequences, SequencesExt

VARIABLES tree,    \* the levels Bids and Asks reach
          queue,   \* PriceLevel.Orders of each level
          total,   \* PriceLevel.Total of each level
          index    \* OrderBook.orders: the level an order's entry points to

bookVars == <<tree, queue, total, index>>

NoLevel == 0

BookInit == /\ tree = {}
            /\ queue = [l \in OrderId |-> <<>>]
            /\ total = [l \in OrderId |-> 0]
            /\ index = [o \in OrderId |-> NoLevel]

Levels(side) == {l \in tree : order[l].side = side}

LevelsAt(side, price) == {l \in Levels(side) : order[l].price = price}

\* p comes before q (or is q) on that side: Asks ascend, Bids descend.
AtLeastAsGood(side, p, q) == IF side = "sell" THEN p <= q ELSE p >= q

\* Mutant of BestLevels: the two ends of the tree are swapped.
WorstLevels(side) ==
  {l \in Levels(side) :
     \A k \in Levels(side) : AtLeastAsGood(side, order[k].price, order[l].price)}

BestLevels(side) ==
  {l \in Levels(side) :
     \A k \in Levels(side) : AtLeastAsGood(side, order[l].price, order[k].price)}

\* Asks.Min() and Bids.Max().
BestLevel(side) ==
  IF BestLevels(side) = {} THEN NoLevel ELSE CHOOSE l \in BestLevels(side) : TRUE

\* A limit at price p of the taker's side accepts a level priced q.
Accepts(side, p, q) == IF side = "buy" THEN p >= q ELSE p <= q

\* RBTree.Delete(price): whichever level is at that price NOW.
WithoutPrice(side, price) == tree \ LevelsAt(side, price)

\* Mutant of AddOrder: PushFront for PushBack.
AddOrderInFront(o) ==
  LET found == LevelsAt(order[o].side, order[o].price)
      level == IF found = {} THEN o ELSE CHOOSE l \in found : TRUE
  IN  /\ tree' = tree \cup {level}
      /\ queue' = [queue EXCEPT ![level] = <<o>> \o @]
      /\ total' = [total EXCEPT ![level] = @ + Remain(o)]
      /\ index' = [index EXCEPT ![o] = level]

\* Mutant of AddOrder: the tree is not searched for a level first.
AddOrderToNewLevel(o) ==
  /\ tree' = tree \cup {o}
  /\ queue' = [queue EXCEPT ![o] = <<o>>]
  /\ total' = [total EXCEPT ![o] = Remain(o)]
  /\ index' = [index EXCEPT ![o] = o]

\* OrderBook.AddOrder
AddOrder(o) ==
  LET found == LevelsAt(order[o].side, order[o].price)
      level == IF found = {} THEN o ELSE CHOOSE l \in found : TRUE
  IN  /\ tree' = tree \cup {level}
      /\ queue' = [queue EXCEPT ![level] = Append(@, o)]
      /\ total' = [total EXCEPT ![level] = @ + Remain(o)]
      /\ index' = [index EXCEPT ![o] = level]

\* OrderBook.RemoveOrder of an indexed order.  "lost" says that the update of
\* Total is overwritten by the matcher's unlocked update of the same field.
RemoveOrder(o, lost) ==
  LET level == index[o]
      left  == RemoveFirst(queue[level], o)
  IN  /\ queue' = [queue EXCEPT ![level] = left]
      /\ total' = [total EXCEPT ![level] = IF lost THEN @ ELSE @ - Remain(o)]
      /\ tree' = IF left = <<>>
                   THEN WithoutPrice(order[o].side, order[o].price)
                   ELSE tree
      /\ index' = [index EXCEPT ![o] = NoLevel]

\* Mutant of LevelRemoveOrder: Amount is subtracted where RemainAmount is meant.
LevelRemoveAmount(level, o) ==
  /\ queue' = [queue EXCEPT ![level] = RemoveFirst(@, o)]
  /\ total' = IF o \in ToSet(queue[level])
                THEN [total EXCEPT ![level] = @ - order[o].amount]
                ELSE total

\* PriceLevel.RemoveOrder: the index and the tree keep what they have.
LevelRemoveOrder(level, o) ==
  /\ queue' = [queue EXCEPT ![level] = RemoveFirst(@, o)]
  /\ total' = IF o \in ToSet(queue[level])
                THEN [total EXCEPT ![level] = @ - Remain(o)]
                ELSE total

-----------------------------------------------------------------------------
\* The orders some level's list holds.
Queued(o) == \E l \in OrderId : o \in ToSet(queue[l])
=============================================================================
