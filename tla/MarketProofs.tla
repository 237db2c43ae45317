---------------------------- MODULE MarketProofs ----------------------------
(***************************************************************************)
(* Proofs about MarketEngine for every number of orders, every set of      *)
(* order attributes and every behaviour of the cancelling clients.         *)
(*                                                                         *)
(* The inductive invariant is BookShape, about the book alone, together    *)
(* with MatcherInv, about where the processing goroutine stands in it.     *)
(***************************************************************************)
EXTENDS MarketProperties, SequenceTheorems, TLAPS

-----------------------------------------------------------------------------
(* The inductive invariant.                                                *)

\* A level is named by the order it was created for, the first that waited in it.
LevelsAreOlder == \A l \in OrderId : \A o \in ToSet(queue[l]) : l <= o

NoOverfill == \A o \in OrderId : filled[o] <= order[o].amount

FinishedEntriesAreFilled ==
  \A o \in OrderId : index[o] # NoLevel /\ IsFinished(o) => Remain(o) = 0

CancelledAreUnindexed == \A o \in cancelling : index[o] = NoLevel

BookShape == /\ BookTypeOK
             /\ QueuesMatchIndex
             /\ OneLevelPerPrice
             /\ StaleEntriesAreFilled
             /\ LevelsAreOlder
             /\ NoOverfill
             /\ FinishedEntriesAreFilled
             /\ CancelledAreUnindexed

\* The book does not know the order.
Fresh(o) == index[o] = NoLevel /\ o \notin cancelling /\ o \notin tree

Processing == PC \ {"idle", "panicked"}
Matching   == Processing \ {"announce"}
AtLevel    == {"first", "trade", "settle", "leave"}

\* l is the only level the tree may have at its side and price.
OnlyLevelThere(l) ==
  \A k \in tree : (/\ order[k].side = order[l].side
                   /\ order[k].price = order[l].price) => k = l

\* No level of the makers' side comes before l.
BestThere(l) ==
  \A k \in Levels(MakerSide) :
    AtLeastAsGood(MakerSide, order[l].price, order[k].price)

MatcherInv ==
  /\ pc \in PC
  /\ next \in 1..(MaxOrders + 1)
  /\ \A o \in OrderId : o >= next => Fresh(o)
  /\ pc \in Processing => taker \in OrderId /\ taker = next - 1
  /\ pc \in Matching => Fresh(taker)
  /\ pc \in AtLevel => /\ level \in OrderId
                       /\ order[level].side = MakerSide
                       /\ OnlyLevelThere(level)
  /\ pc \in AtLevel \ {"leave"} => Crosses(level) /\ BestThere(level)
  /\ pc \in {"trade", "settle"} => /\ maker \in OrderId
                                   /\ maker < taker
                                   /\ order[maker].side = order[level].side
                                   /\ order[maker].price = order[level].price
  /\ pc = "trade" => \A o \in ToSet(queue[level]) : maker <= o

ReachInv == CancelScope # AnyIndexed => WaitingOrdersAreReachable

IInv == BookShape /\ MatcherInv /\ ReachInv
-----------------------------------------------------------------------------
(* Lists of a price level.                                                 *)

\* RemoveFirst takes one element out and moves those behind it up by one.
LEMMA RemoveFirstShape ==
  ASSUME NEW S, NEW q \in Seq(S), NEW e,
         \A i, j \in 1..Len(q) : q[i] = e /\ q[j] = e => i = j
  PROVE  LET r == RemoveFirst(q, e)
         IN  /\ r \in Seq(S)
             /\ \/ r = q /\ \A i \in 1..Len(q) : q[i] # e
                \/ \E k \in 1..Len(q) :
                     /\ q[k] = e
                     /\ Len(r) = Len(q) - 1
                     /\ \A i \in 1..Len(r) : r[i] = IF i < k THEN q[i] ELSE q[i + 1]
<1>1. CASE \A i \in 1..Len(q) : q[i] # e
  BY <1>1 DEF RemoveFirst
<1>2. ASSUME NEW k \in 1..Len(q), q[k] = e
      PROVE  LET r == RemoveFirst(q, e)
             IN  /\ r \in Seq(S)
                 /\ Len(r) = Len(q) - 1
                 /\ \A i \in 1..Len(r) : r[i] = IF i < k THEN q[i] ELSE q[i + 1]
  <2> DEFINE r == RemoveFirst(q, e)
             front == SubSeq(q, 1, k - 1)
             back == SubSeq(q, k + 1, Len(q))
  <2>1. r = front \o back
    <3>1. {i \in 1..Len(q) : q[i] = e} = {k}
      BY <1>2
    <3>2. Min({k}) = k
      BY DEF Min
    <3> QED BY <1>2, <3>1, <3>2 DEF RemoveFirst, SelectInSeq, RemoveAt
  <2>2. Len(q) \in Nat
    OBVIOUS
  <2>3. /\ front \in Seq(S)
        /\ Len(front) = k - 1
        /\ \A i \in 1..(k - 1) : front[i] = q[i]
    BY <2>2, SubSeqProperties
  <2>4. /\ back \in Seq(S)
        /\ Len(back) = Len(q) - k
        /\ \A i \in 1..(Len(q) - k) : back[i] = q[k + i]
    BY <2>2, SubSeqProperties
  <2> HIDE DEF front, back, r
  <2>5. /\ r \in Seq(S)
        /\ Len(r) = Len(front) + Len(back)
        /\ \A i \in 1..Len(front) + Len(back) :
             r[i] = IF i <= Len(front) THEN front[i] ELSE back[i - Len(front)]
    <3>1. front \in Seq(S) /\ back \in Seq(S)
      BY <2>3, <2>4
    <3> QED BY <3>1, <2>1, ConcatProperties, Zenon
  <2>6. Len(r) = Len(q) - 1
    BY <2>2, <2>3, <2>4, <2>5
  <2>7. \A i \in 1..Len(r) : r[i] = IF i < k THEN front[i] ELSE back[i - k + 1]
    <3>2. \A i \in 1..Len(r) : /\ i \in 1..Len(front) + Len(back)
                               /\ i <= Len(front) <=> i < k
                               /\ i - Len(front) = i - k + 1
      BY <2>2, <2>3, <2>4, <2>5
    <3> QED BY <3>2, <2>5
  <2>8. \A i \in 1..Len(r) : r[i] = IF i < k THEN q[i] ELSE q[i + 1]
    <3> SUFFICES ASSUME NEW i \in 1..Len(r)
                 PROVE  r[i] = IF i < k THEN q[i] ELSE q[i + 1]
      OBVIOUS
    <3>1. CASE i < k
      BY <3>1, <2>2, <2>3, <2>6, <2>7
    <3>2. CASE ~(i < k)
      <4>1. i - k + 1 \in 1..(Len(q) - k) /\ k + (i - k + 1) = i + 1
        BY <3>2, <2>2, <2>6
      <4> QED BY <3>2, <4>1, <2>4, <2>7
    <3> QED BY <3>1, <3>2
  <2> QED BY <2>5, <2>8, <2>6 DEF r
<1> QED BY <1>1, <1>2

\* RemoveFirst on a list in arrival order: it stays in order and loses exactly
\* the element.
LEMMA RemoveFromQueue ==
  ASSUME NEW S \in SUBSET Int, NEW q \in Seq(S), NEW e \in S, InArrivalOrder(q)
  PROVE  LET r == RemoveFirst(q, e)
         IN  /\ r \in Seq(S)
             /\ InArrivalOrder(r)
             /\ ToSet(r) = ToSet(q) \ {e}
<1> DEFINE r == RemoveFirst(q, e)
<1>1. DOMAIN q = 1..Len(q) /\ Len(q) \in Nat /\ \A i \in 1..Len(q) : q[i] \in S
  OBVIOUS
<1>2. \A i, j \in 1..Len(q) : i < j => q[i] < q[j]
  BY <1>1 DEF InArrivalOrder
<1>3. \A i, j \in 1..Len(q) : q[i] = q[j] => i = j
  <2> SUFFICES ASSUME NEW i \in 1..Len(q), NEW j \in 1..Len(q), q[i] = q[j], i # j
               PROVE  FALSE
    OBVIOUS
  <2>1. q[i] \in Int /\ q[j] \in Int
    BY <1>1
  <2>2. i < j \/ j < i
    BY <1>1
  <2> QED BY <1>2, <2>1, <2>2
<1>4. /\ r \in Seq(S)
      /\ \/ r = q /\ \A i \in 1..Len(q) : q[i] # e
         \/ \E k \in 1..Len(q) :
              /\ q[k] = e
              /\ Len(r) = Len(q) - 1
              /\ \A i \in 1..Len(r) : r[i] = IF i < k THEN q[i] ELSE q[i + 1]
  <2>1. \A i, j \in 1..Len(q) : q[i] = e /\ q[j] = e => i = j
    BY <1>3
  <2> QED BY <2>1, RemoveFirstShape
<1> HIDE DEF r
<1>5. DOMAIN r = 1..Len(r) /\ Len(r) \in Nat
  BY <1>4
<1>6. CASE r = q /\ \A i \in 1..Len(q) : q[i] # e
  <2>1. e \notin ToSet(q)
    BY <1>1, <1>6 DEF ToSet
  <2> QED BY <1>4, <1>6, <2>1 DEF r
<1>7. ASSUME NEW k \in 1..Len(q), q[k] = e, Len(r) = Len(q) - 1,
             \A i \in 1..Len(r) : r[i] = IF i < k THEN q[i] ELSE q[i + 1]
      PROVE  InArrivalOrder(r) /\ ToSet(r) = ToSet(q) \ {e}
  <2> DEFINE at(i) == IF i < k THEN i ELSE i + 1
  <2>1. \A i \in 1..Len(r) : at(i) \in 1..Len(q) /\ at(i) # k /\ r[i] = q[at(i)]
    BY <1>1, <1>7
  <2>2. InArrivalOrder(r)
    <3> SUFFICES ASSUME NEW i \in 1..Len(r), NEW j \in 1..Len(r), i < j
                 PROVE  r[i] < r[j]
      BY <1>5 DEF InArrivalOrder
    <3>1. at(i) < at(j)
      OBVIOUS
    <3> QED BY <1>2, <2>1, <3>1
  <2>3. \A x \in ToSet(r) : x \in ToSet(q) /\ x # e
    <3> SUFFICES ASSUME NEW i \in 1..Len(r)
                 PROVE  r[i] \in ToSet(q) /\ r[i] # e
      BY <1>5 DEF ToSet
    <3> QED BY <1>1, <1>3, <1>7, <2>1 DEF ToSet
  <2>4. \A x \in ToSet(q) : x # e => x \in ToSet(r)
    <3> SUFFICES ASSUME NEW i \in 1..Len(q), q[i] # e
                 PROVE  q[i] \in ToSet(r)
      BY <1>1 DEF ToSet
    <3>1. CASE i < k
      <4>1. i \in 1..Len(r) /\ r[i] = q[i]
        BY <1>1, <1>7, <3>1
      <4> QED BY <4>1, <1>5 DEF ToSet
    <3>2. CASE i > k
      <4>1. i - 1 \in 1..Len(r) /\ ~(i - 1 < k) /\ i - 1 + 1 = i
        BY <1>1, <1>7, <3>2
      <4>2. r[i - 1] = q[i]
        BY <1>7, <4>1
      <4> QED BY <4>1, <4>2, <1>5 DEF ToSet
    <3>3. i # k
      BY <1>7
    <3> QED BY <3>1, <3>2, <3>3
  <2> QED BY <2>2, <2>3, <2>4
<1> QED BY <1>4, <1>6, <1>7 DEF r

\* Append on a list in arrival order, for an order younger than all in it.
LEMMA AppendToQueue ==
  ASSUME NEW S \in SUBSET Int, NEW q \in Seq(S), NEW e \in S, InArrivalOrder(q),
         \A x \in ToSet(q) : x < e
  PROVE  /\ Append(q, e) \in Seq(S)
         /\ InArrivalOrder(Append(q, e))
         /\ ToSet(Append(q, e)) = ToSet(q) \cup {e}
<1> DEFINE r == Append(q, e)
<1>1. DOMAIN q = 1..Len(q) /\ Len(q) \in Nat /\ \A i \in 1..Len(q) : q[i] \in S
  OBVIOUS
<1>2. /\ r \in Seq(S)
      /\ Len(r) = Len(q) + 1
      /\ DOMAIN r = 1..(Len(q) + 1)
      /\ \A i \in 1..Len(q) : r[i] = q[i]
      /\ r[Len(q) + 1] = e
  BY <1>1
<1> HIDE DEF r
<1>3. \A i \in 1..Len(q) : q[i] < e
  BY <1>1 DEF ToSet
<1>4. InArrivalOrder(r)
  <2> SUFFICES ASSUME NEW i \in 1..(Len(q) + 1), NEW j \in 1..(Len(q) + 1), i < j
               PROVE  r[i] < r[j]
    BY <1>2 DEF InArrivalOrder
  <2>1. i \in 1..Len(q)
    BY <1>1
  <2>2. CASE j \in 1..Len(q)
    BY <1>1, <1>2, <2>1, <2>2 DEF InArrivalOrder
  <2>3. CASE j = Len(q) + 1
    BY <1>2, <1>3, <2>1, <2>3
  <2> QED BY <1>1, <2>2, <2>3
<1>5. ToSet(r) = ToSet(q) \cup {e}
  <2>1. \A x \in ToSet(r) : x \in ToSet(q) \cup {e}
    <3> SUFFICES ASSUME NEW i \in 1..(Len(q) + 1)
                 PROVE  r[i] \in ToSet(q) \cup {e}
      BY <1>2 DEF ToSet
    <3>1. i \in 1..Len(q) \/ i = Len(q) + 1
      BY <1>1
    <3> QED BY <1>1, <1>2, <3>1 DEF ToSet
  <2>2. \A x \in ToSet(q) : x \in ToSet(r)
    <3> SUFFICES ASSUME NEW i \in 1..Len(q)
                 PROVE  q[i] \in ToSet(r)
      BY <1>1 DEF ToSet
    <3>1. i \in 1..(Len(q) + 1) /\ r[i] = q[i]
      BY <1>1, <1>2
    <3> QED BY <3>1, <1>2 DEF ToSet
  <2>3. e \in ToSet(r)
    BY <1>1, <1>2 DEF ToSet
  <2> QED BY <2>1, <2>2, <2>3
<1> QED BY <1>2, <1>4, <1>5 DEF r

-----------------------------------------------------------------------------
(* What each operation of the book, and each write of an order, keeps.     *)

\* What the type invariant says of one order.
LEMMA OrderFacts ==
  ASSUME BookTypeOK
  PROVE  \A o \in OrderId : /\ o \in Int /\ o # NoLevel
                            /\ order[o].side \in OrderSide
                            /\ order[o].price \in Nat
                            /\ order[o].amount \in Nat \ {0}
                            /\ filled[o] \in Nat
                            /\ Remain(o) \in Int
                            /\ queue[o] \in Seq(OrderId)
<1>1. \A o \in OrderId : order[o] \in OrderAttr
  BY OrdersAssumption DEF BookTypeOK
<1> QED BY <1>1, OrdersAssumption DEF BookTypeOK, OrderAttr, Remain, OrderId, NoLevel

\* A list only holds orders, and only orders the index knows.
LEMMA QueuedFacts ==
  ASSUME BookTypeOK, QueuesMatchIndex, NEW l \in OrderId, NEW o \in ToSet(queue[l])
  PROVE  o \in OrderId /\ index[o] = l /\ index[o] # NoLevel
<1>1. o \in OrderId
  BY OrderFacts DEF ToSet
<1> QED BY <1>1, OrdersAssumption DEF QueuesMatchIndex, OrderId, NoLevel

\* An order the book does not know goes to the end of the level at its price.
LEMMA AddOrderKeepsShape ==
  ASSUME BookShape, NEW o \in OrderId, Fresh(o), ~IsFinished(o),
         \A p \in OrderId : index[p] # NoLevel => p < o,
         \A k \in tree : k < o,
         AddOrder(o), UNCHANGED <<orderVars, cancelling>>
  PROVE  /\ BookShape'
         /\ WaitingOrdersAreReachable => WaitingOrdersAreReachable'
         /\ tree' \subseteq tree \cup {o}
         /\ \A p \in OrderId : p # o => index'[p] = index[p]
         /\ \E l \in OrderId :
              /\ total' = [total EXCEPT ![l] = @ + Remain(o)]
              /\ o \notin ToSet(queue[l])
              /\ \A k \in OrderId : ToSet(queue'[k]) = IF k = l THEN ToSet(queue[k]) \cup {o}
                                                             ELSE ToSet(queue[k])
<1> DEFINE found == LevelsAt(order[o].side, order[o].price)
           lv == IF found = {} THEN o ELSE CHOOSE l \in found : TRUE
<1>1. /\ tree' = tree \cup {lv}
      /\ queue' = [queue EXCEPT ![lv] = Append(@, o)]
      /\ total' = [total EXCEPT ![lv] = @ + Remain(o)]
      /\ index' = [index EXCEPT ![o] = lv]
      /\ order' = order /\ filled' = filled /\ status' = status
      /\ cancelling' = cancelling
  BY DEF AddOrder, orderVars
<1>2. /\ lv \in OrderId
      /\ order[lv].side = order[o].side /\ order[lv].price = order[o].price
      /\ lv <= o
      /\ \/ lv \in tree
         \/ lv = o /\ \A k \in tree : ~(/\ order[k].side = order[o].side
                                         /\ order[k].price = order[o].price)
  <2>1. CASE found = {}
    BY <2>1, OrderFacts DEF LevelsAt, Levels, BookShape
  <2>2. CASE found # {}
    <3>1. lv \in found
      BY <2>2
    <3>2. lv \in tree /\ order[lv].side = order[o].side
                       /\ order[lv].price = order[o].price
      BY <3>1 DEF LevelsAt, Levels
    <3> QED BY <3>2, OrderFacts DEF BookShape, BookTypeOK
  <2> QED BY <2>1, <2>2
<1> HIDE DEF lv, found
<1>3. /\ order \in [OrderId -> OrderSpace] /\ tree \subseteq OrderId
      /\ queue \in [OrderId -> Seq(OrderId)]
      /\ total \in [OrderId -> Int]
      /\ index \in [OrderId -> OrderId \cup {NoLevel}]
      /\ Remain(o) \in Int
      /\ OrderId \in SUBSET Int
      /\ index[o] = NoLevel /\ o \notin cancelling
  BY OrderFacts DEF BookShape, BookTypeOK, OrderId, Fresh
<1>4. \A l \in OrderId : \A x \in ToSet(queue[l]) : x \in OrderId /\ x < o /\ index[x] = l
  BY QueuedFacts DEF BookShape
<1>5. /\ Append(queue[lv], o) \in Seq(OrderId)
      /\ InArrivalOrder(Append(queue[lv], o))
      /\ ToSet(Append(queue[lv], o)) = ToSet(queue[lv]) \cup {o}
  <2>1. InArrivalOrder(queue[lv]) /\ queue[lv] \in Seq(OrderId)
    BY <1>2, <1>3 DEF BookShape, QueuesMatchIndex
  <2>2. \A x \in ToSet(queue[lv]) : x < o
    BY <1>2, <1>4
  <2> QED BY <2>1, <2>2, <1>3, AppendToQueue
<1>6. \A l \in OrderId : queue'[l] = IF l = lv THEN Append(queue[lv], o) ELSE queue[l]
  BY <1>1, <1>3
<1>7. \A l \in OrderId : ToSet(queue'[l]) = IF l = lv THEN ToSet(queue[l]) \cup {o}
                                                      ELSE ToSet(queue[l])
  BY <1>5, <1>6
<1>8. \A p \in OrderId : index'[p] = IF p = o THEN lv ELSE index[p]
  BY <1>1, <1>3
<1>9. BookTypeOK'
  <2>1. queue' \in [OrderId -> Seq(OrderId)]
    BY <1>1, <1>3, <1>5
  <2>2. total' \in [OrderId -> Int]
    BY <1>1, <1>2, <1>3
  <2>3. index' \in [OrderId -> OrderId \cup {NoLevel}] /\ tree' \subseteq OrderId
    BY <1>1, <1>2, <1>3
  <2> QED BY <1>1, <2>1, <2>2, <2>3 DEF BookShape, BookTypeOK
<1>10. QueuesMatchIndex'
  <2> SUFFICES ASSUME NEW l \in OrderId
               PROVE  /\ InArrivalOrder(queue'[l])
                      /\ \A x \in ToSet(queue'[l]) :
                           /\ index'[x] = l
                           /\ order[x].side = order[l].side
                           /\ order[x].price = order[l].price
    BY <1>1 DEF QueuesMatchIndex
  <2>1. InArrivalOrder(queue'[l])
    BY <1>5, <1>6 DEF BookShape, QueuesMatchIndex
  <2>2. \A x \in ToSet(queue[l]) : /\ x # o /\ x \in OrderId
                                   /\ index[x] = l
                                   /\ order[x].side = order[l].side
                                   /\ order[x].price = order[l].price
    BY <1>3, <1>4 DEF BookShape, QueuesMatchIndex
  <2>3. ASSUME NEW x \in ToSet(queue'[l])
        PROVE  /\ index'[x] = l
               /\ order[x].side = order[l].side
               /\ order[x].price = order[l].price
    <3>1. CASE x \in ToSet(queue[l])
      BY <1>8, <2>2, <3>1
    <3>2. CASE x = o /\ l = lv
      BY <1>2, <1>8, <3>2
    <3> QED BY <1>7, <3>1, <3>2
  <2> QED BY <2>1, <2>3
<1>11. OneLevelPerPrice'
  BY <1>1, <1>2 DEF BookShape, OneLevelPerPrice
<1>12. StaleEntriesAreFilled'
  <2> SUFFICES ASSUME NEW p \in OrderId, index'[p] # NoLevel,
                      p \notin ToSet(queue'[index'[p]])
               PROVE  Remain(p) = 0
    BY <1>1 DEF StaleEntriesAreFilled, Remain
  <2>1. p # o
    BY <1>2, <1>7, <1>8
  <2>2. index[p] # NoLevel /\ index[p] \in OrderId /\ p \notin ToSet(queue[index[p]])
    BY <1>3, <1>7, <1>8, <2>1
  <2> QED BY <2>2 DEF BookShape, StaleEntriesAreFilled
<1>13. LevelsAreOlder'
  BY <1>2, <1>7 DEF BookShape, LevelsAreOlder
<1>14. NoOverfill' /\ CancelledAreUnindexed' /\ FinishedEntriesAreFilled'
  BY <1>1, <1>3, <1>8 DEF BookShape, BookTypeOK, NoOverfill, CancelledAreUnindexed,
                          FinishedEntriesAreFilled, IsFinished, Remain
<1>15. WaitingOrdersAreReachable => WaitingOrdersAreReachable'
  BY <1>1, <1>6 DEF WaitingOrdersAreReachable
<1>16. tree' \subseteq tree \cup {o}
  BY <1>1, <1>2
<1>17. \E l \in OrderId :
         /\ total' = [total EXCEPT ![l] = @ + Remain(o)]
         /\ o \notin ToSet(queue[l])
         /\ \A k \in OrderId : ToSet(queue'[k]) = IF k = l THEN ToSet(queue[k]) \cup {o}
                                                        ELSE ToSet(queue[k])
  <2>1. o \notin ToSet(queue[lv])
    <3>1. index[o] # lv
      BY <1>2, <1>3, OrdersAssumption DEF OrderId, NoLevel
    <3> QED BY <1>2, <1>4, <3>1
  <2>2. total' = [total EXCEPT ![lv] = @ + Remain(o)]
    BY <1>1
  <2> QED BY <1>2, <1>7, <2>1, <2>2
<1> QED BY <1>17, <1>8, <1>9, <1>10, <1>11, <1>12, <1>13, <1>14, <1>15, <1>16 DEF BookShape

\* A list is empty exactly when it holds nobody.
LEMMA EmptyQueue ==
  ASSUME NEW S, NEW q \in Seq(S)
  PROVE  q = <<>> <=> ToSet(q) = {}
<1>1. q # <<>> => q[1] \in ToSet(q)
  BY DEF ToSet
<1>2. q = <<>> => ToSet(q) = {}
  BY DEF ToSet
<1> QED BY <1>1, <1>2

\* One order leaves a list and nothing is put anywhere: the lists stay in shape.
LEMMA RemovalFromQueue ==
  ASSUME BookTypeOK, QueuesMatchIndex, LevelsAreOlder,
         NEW lv \in OrderId, NEW o \in OrderId,
         queue' = [queue EXCEPT ![lv] = RemoveFirst(@, o)]
  PROVE  /\ queue' \in [OrderId -> Seq(OrderId)]
         /\ \A l \in OrderId : InArrivalOrder(queue'[l])
         /\ \A l \in OrderId : ToSet(queue'[l]) = IF l = lv THEN ToSet(queue[l]) \ {o}
                                                           ELSE ToSet(queue[l])
<1>1. queue \in [OrderId -> Seq(OrderId)] /\ OrderId \in SUBSET Int
  BY DEF BookTypeOK, OrderId
<1>2. \A l \in OrderId : InArrivalOrder(queue[l])
  BY DEF QueuesMatchIndex
<1>3. LET r == RemoveFirst(queue[lv], o)
      IN  r \in Seq(OrderId) /\ InArrivalOrder(r) /\ ToSet(r) = ToSet(queue[lv]) \ {o}
  <2>1. queue[lv] \in Seq(OrderId) /\ InArrivalOrder(queue[lv])
    BY <1>1, <1>2
  <2> QED BY <1>1, <2>1, RemoveFromQueue
<1>4. \A l \in OrderId : queue'[l] = IF l = lv THEN RemoveFirst(queue[lv], o) ELSE queue[l]
  BY <1>1
<1> QED BY <1>1, <1>2, <1>3, <1>4

\* A cancel takes the entry with the order, and deletes from the tree the level
\* at the order's price when the list it points to is empty.
LEMMA RemoveOrderKeepsShape ==
  ASSUME BookShape, NEW o \in OrderId, index[o] # NoLevel,
         NEW lost \in BOOLEAN, RemoveOrder(o, lost),
         cancelling' = cancelling \cup {o}, UNCHANGED orderVars
  PROVE  /\ BookShape'
         /\ tree' \subseteq tree
         /\ \A l \in OrderId : ToSet(queue'[l]) \subseteq ToSet(queue[l])
         /\ \A p \in OrderId : index'[p] = IF p = o THEN NoLevel ELSE index[p]
         /\ (WaitingOrdersAreReachable /\ o \in ToSet(queue[index[o]]))
              => WaitingOrdersAreReachable'
<1> DEFINE lv == index[o]
           left == RemoveFirst(queue[lv], o)
<1>1. /\ queue' = [queue EXCEPT ![lv] = RemoveFirst(@, o)]
      /\ total' = [total EXCEPT ![lv] = IF lost THEN @ ELSE @ - Remain(o)]
      /\ tree' = IF left = <<>> THEN WithoutPrice(order[o].side, order[o].price)
                                ELSE tree
      /\ index' = [index EXCEPT ![o] = NoLevel]
      /\ order' = order /\ filled' = filled /\ status' = status
  <2>1. queue' = [queue EXCEPT ![lv] = left]
    BY DEF RemoveOrder
  <2> QED BY <2>1 DEF RemoveOrder, orderVars
<1>2. /\ lv \in OrderId
      /\ Remain(o) \in Int
      /\ tree \subseteq OrderId
      /\ index \in [OrderId -> OrderId \cup {NoLevel}]
      /\ total \in [OrderId -> Int]
      /\ queue \in [OrderId -> Seq(OrderId)]
  BY OrderFacts DEF BookShape, BookTypeOK
<1>3. /\ queue' \in [OrderId -> Seq(OrderId)]
      /\ \A l \in OrderId : InArrivalOrder(queue'[l])
      /\ \A l \in OrderId : ToSet(queue'[l]) = IF l = lv THEN ToSet(queue[l]) \ {o}
                                                        ELSE ToSet(queue[l])
  BY <1>1, <1>2, RemovalFromQueue DEF BookShape
<1>4. queue'[lv] = left
  BY <1>1, <1>2
<1>5. tree' \subseteq tree
  BY <1>1 DEF WithoutPrice
<1>6. \A p \in OrderId : index'[p] = IF p = o THEN NoLevel ELSE index[p]
  BY <1>1, <1>2
<1> HIDE DEF lv, left
<1>7. BookTypeOK'
  <2>1. total' \in [OrderId -> Int]
    BY <1>1, <1>2
  <2>2. index' \in [OrderId -> OrderId \cup {NoLevel}]
    BY <1>1, <1>2
  <2> QED BY <1>1, <1>2, <1>3, <1>5, <2>1, <2>2 DEF BookShape, BookTypeOK
<1>8. QueuesMatchIndex'
  <2>1. \A l \in OrderId : \A x \in ToSet(queue'[l]) :
          /\ x # o /\ x \in OrderId
          /\ index[x] = l
          /\ order[x].side = order[l].side
          /\ order[x].price = order[l].price
    <3> SUFFICES ASSUME NEW l \in OrderId, NEW x \in ToSet(queue'[l])
                 PROVE  /\ x # o /\ x \in OrderId
                        /\ index[x] = l
                        /\ order[x].side = order[l].side
                        /\ order[x].price = order[l].price
      OBVIOUS
    <3>1. x \in ToSet(queue[l]) /\ (l = lv => x # o)
      BY <1>3
    <3>2. x \in OrderId /\ index[x] = l
      BY <3>1, QueuedFacts DEF BookShape
    <3> QED BY <3>1, <3>2 DEF BookShape, QueuesMatchIndex, lv
  <2> QED BY <1>1, <1>3, <1>6, <2>1 DEF QueuesMatchIndex
<1>9. OneLevelPerPrice'
  BY <1>1, <1>5 DEF BookShape, OneLevelPerPrice
<1>10. StaleEntriesAreFilled'
  <2> SUFFICES ASSUME NEW p \in OrderId, index'[p] # NoLevel,
                      p \notin ToSet(queue'[index'[p]])
               PROVE  Remain(p) = 0
    BY <1>1 DEF StaleEntriesAreFilled, Remain
  <2>1. p # o /\ index'[p] = index[p] /\ index[p] \in OrderId
    BY <1>2, <1>6
  <2>2. p \notin ToSet(queue[index[p]])
    BY <1>3, <2>1
  <2> QED BY <2>1, <2>2 DEF BookShape, StaleEntriesAreFilled
<1>11. LevelsAreOlder'
  BY <1>3 DEF BookShape, LevelsAreOlder
<1>12. NoOverfill' /\ CancelledAreUnindexed' /\ FinishedEntriesAreFilled'
  BY <1>1, <1>2, <1>6 DEF BookShape, BookTypeOK, NoOverfill, CancelledAreUnindexed,
                          FinishedEntriesAreFilled, IsFinished, Remain
<1>13. \A l \in OrderId : ToSet(queue'[l]) \subseteq ToSet(queue[l])
  BY <1>3
<1>14. ASSUME WaitingOrdersAreReachable, o \in ToSet(queue[lv])
       PROVE  WaitingOrdersAreReachable'
  <2> SUFFICES ASSUME NEW l \in OrderId, queue'[l] # <<>>
               PROVE  l \in tree'
    BY DEF WaitingOrdersAreReachable
  <2>1. ToSet(queue'[l]) # {} /\ ToSet(queue[l]) # {}
    <3>1. queue'[l] \in Seq(OrderId)
      BY <1>3
    <3>2. ToSet(queue'[l]) # {}
      BY <3>1, EmptyQueue
    <3> QED BY <1>3, <3>2
  <2>2. queue[l] # <<>> /\ queue[lv] # <<>>
    BY <1>2, <1>14, <2>1, EmptyQueue
  <2>3. l \in tree /\ lv \in tree
    BY <1>2, <1>14, <2>2 DEF WaitingOrdersAreReachable
  <2>4. CASE left = <<>>
    <3>1. l # lv
      BY <1>4, <2>4
    <3>2. /\ order[o].side = order[lv].side
          /\ order[o].price = order[lv].price
      BY <1>2, <1>14 DEF BookShape, QueuesMatchIndex
    <3>3. l \notin LevelsAt(order[o].side, order[o].price)
      BY <2>3, <3>1, <3>2 DEF BookShape, OneLevelPerPrice, LevelsAt, Levels
    <3> QED BY <1>1, <2>3, <2>4, <3>3 DEF WithoutPrice
  <2> QED BY <1>1, <2>3, <2>4
<1> QED BY <1>5, <1>6, <1>7, <1>8, <1>9, <1>10, <1>11, <1>12, <1>13, <1>14
        DEF BookShape, lv

\* A maker that is filled, or that is no longer there, leaves its level; the
\* index keeps its entry.
LEMMA LevelRemoveKeepsShape ==
  ASSUME BookShape, NEW lv \in OrderId, NEW o \in OrderId,
         o \in ToSet(queue[lv]) => Remain(o) = 0,
         LevelRemoveOrder(lv, o), UNCHANGED <<orderVars, tree, index, cancelling>>
  PROVE  /\ BookShape'
         /\ \A l \in OrderId : ToSet(queue'[l]) \subseteq ToSet(queue[l])
         /\ WaitingOrdersAreReachable => WaitingOrdersAreReachable'
<1>1. /\ queue' = [queue EXCEPT ![lv] = RemoveFirst(@, o)]
      /\ total' = IF o \in ToSet(queue[lv])
                    THEN [total EXCEPT ![lv] = @ - Remain(o)] ELSE total
      /\ order' = order /\ filled' = filled /\ status' = status
      /\ tree' = tree /\ index' = index /\ cancelling' = cancelling
  BY DEF LevelRemoveOrder, orderVars
<1>2. /\ Remain(o) \in Int
      /\ index \in [OrderId -> OrderId \cup {NoLevel}]
      /\ total \in [OrderId -> Int]
      /\ queue \in [OrderId -> Seq(OrderId)]
  BY OrderFacts DEF BookShape, BookTypeOK
<1>3. /\ queue' \in [OrderId -> Seq(OrderId)]
      /\ \A l \in OrderId : InArrivalOrder(queue'[l])
      /\ \A l \in OrderId : ToSet(queue'[l]) = IF l = lv THEN ToSet(queue[l]) \ {o}
                                                        ELSE ToSet(queue[l])
  BY <1>1, RemovalFromQueue DEF BookShape
<1>4. \A l \in OrderId : ToSet(queue'[l]) \subseteq ToSet(queue[l])
  BY <1>3
<1>5. BookTypeOK'
  <2>1. total' \in [OrderId -> Int]
    BY <1>1, <1>2
  <2> QED BY <1>1, <1>3, <2>1 DEF BookShape, BookTypeOK
<1>6. QueuesMatchIndex' /\ LevelsAreOlder' /\ OneLevelPerPrice'
  BY <1>1, <1>3, <1>4 DEF BookShape, QueuesMatchIndex, LevelsAreOlder, OneLevelPerPrice
<1>7. StaleEntriesAreFilled'
  <2> SUFFICES ASSUME NEW p \in OrderId, index[p] # NoLevel,
                      p \notin ToSet(queue'[index[p]])
               PROVE  Remain(p) = 0
    BY <1>1 DEF StaleEntriesAreFilled, Remain
  <2>1. index[p] \in OrderId
    BY <1>2
  <2>2. CASE p \in ToSet(queue[index[p]])
    <3>1. p = o /\ index[p] = lv
      BY <1>3, <2>1, <2>2
    <3> QED BY <2>2, <3>1
  <2>3. CASE p \notin ToSet(queue[index[p]])
    BY <2>3 DEF BookShape, StaleEntriesAreFilled
  <2> QED BY <2>2, <2>3
<1>8. NoOverfill' /\ CancelledAreUnindexed' /\ FinishedEntriesAreFilled'
  BY <1>1 DEF BookShape, NoOverfill, CancelledAreUnindexed,
              FinishedEntriesAreFilled, IsFinished, Remain
<1>9. WaitingOrdersAreReachable => WaitingOrdersAreReachable'
  <2> SUFFICES ASSUME WaitingOrdersAreReachable, NEW l \in OrderId, queue'[l] # <<>>
               PROVE  l \in tree
    BY <1>1 DEF WaitingOrdersAreReachable
  <2>1. ToSet(queue[l]) # {}
    <3>1. queue'[l] \in Seq(OrderId)
      BY <1>3
    <3>2. ToSet(queue'[l]) # {}
      BY <3>1, EmptyQueue
    <3> QED BY <1>3, <3>2
  <2>2. queue[l] # <<>>
    BY <1>2, <2>1, EmptyQueue
  <2> QED BY <2>2 DEF WaitingOrdersAreReachable
<1> QED BY <1>4, <1>5, <1>6, <1>7, <1>8, <1>9 DEF BookShape

\* A trade of an amount that both orders have left.
LEMMA UpdateFilledKeepsShape ==
  ASSUME BookShape, NEW t \in OrderId, NEW m \in OrderId, t # m, NEW a \in Nat,
         a <= Remain(t), a <= Remain(m), UpdateFilled(t, m, a),
         UNCHANGED <<order, bookVars, cancelling>>
  PROVE  BookShape'
<1>1. /\ filled' = [filled EXCEPT ![t] = @ + a, ![m] = @ + a]
      /\ status' = [status EXCEPT ![t] = StatusAfterFill(t, a),
                                  ![m] = StatusAfterFill(m, a)]
      /\ order' = order /\ tree' = tree /\ queue' = queue /\ total' = total
      /\ index' = index /\ cancelling' = cancelling
  BY DEF UpdateFilled, bookVars
<1>2. /\ filled \in [OrderId -> Nat] /\ status \in [OrderId -> OrderStatus]
      /\ \A o \in OrderId : /\ order[o].amount \in Nat /\ filled[o] <= order[o].amount
                            /\ Remain(o) = order[o].amount - filled[o]
  BY OrderFacts DEF BookShape, BookTypeOK, NoOverfill, Remain
<1>3. \A o \in OrderId : filled'[o] = IF o \in {t, m} THEN filled[o] + a ELSE filled[o]
  BY <1>1, <1>2
<1>4. \A o \in OrderId : status'[o] = IF o \in {t, m} THEN StatusAfterFill(o, a)
                                                      ELSE status[o]
  BY <1>1, <1>2
<1>5. \A o \in OrderId : o \in {t, m} => a <= Remain(o)
  OBVIOUS
<1>6. \A o \in OrderId : Remain(o)' = IF o \in {t, m} THEN Remain(o) - a ELSE Remain(o)
  BY <1>1, <1>2, <1>3 DEF Remain
<1>7. BookTypeOK'
  <2>1. filled' \in [OrderId -> Nat]
    BY <1>1, <1>2
  <2>2. status' \in [OrderId -> OrderStatus]
    <3>1. \A o \in OrderId : StatusAfterFill(o, a) \in OrderStatus
      BY DEF StatusAfterFill, OrderStatus
    <3> QED BY <1>1, <1>2, <3>1
  <2> QED BY <1>1, <2>1, <2>2 DEF BookShape, BookTypeOK
<1>8. NoOverfill'
  BY <1>1, <1>2, <1>3, <1>5 DEF NoOverfill
<1>9. \A o \in OrderId : Remain(o) = 0 => Remain(o)' = 0
  BY <1>2, <1>5, <1>6
<1>10. StaleEntriesAreFilled'
  BY <1>1, <1>9 DEF BookShape, StaleEntriesAreFilled
<1>11. FinishedEntriesAreFilled'
  <2> SUFFICES ASSUME NEW o \in OrderId, index[o] # NoLevel, IsFinished(o)'
               PROVE  Remain(o)' = 0
    BY <1>1 DEF FinishedEntriesAreFilled
  <2>1. CASE o \in {t, m}
    BY <1>2, <1>4, <1>6, <2>1 DEF IsFinished, StatusAfterFill
  <2>2. CASE o \notin {t, m}
    BY <1>4, <1>9, <2>2 DEF BookShape, FinishedEntriesAreFilled, IsFinished
  <2> QED BY <2>1, <2>2
<1>12. QueuesMatchIndex' /\ OneLevelPerPrice' /\ LevelsAreOlder' /\ CancelledAreUnindexed'
  BY <1>1 DEF BookShape, QueuesMatchIndex, OneLevelPerPrice, LevelsAreOlder,
              CancelledAreUnindexed
<1> QED BY <1>7, <1>8, <1>10, <1>11, <1>12 DEF BookShape

\* A write of the status of an order the index does not know.
LEMMA StatusKeepsShape ==
  ASSUME BookShape, NEW o \in OrderId, index[o] = NoLevel, NEW s \in OrderStatus,
         status' = [status EXCEPT ![o] = s], cancelling' \subseteq cancelling,
         UNCHANGED <<order, filled, bookVars>>
  PROVE  BookShape'
<1>1. order' = order /\ filled' = filled /\ tree' = tree /\ queue' = queue
      /\ total' = total /\ index' = index
  BY DEF bookVars
<1>2. BookTypeOK'
  BY <1>1 DEF BookShape, BookTypeOK
<1>3. FinishedEntriesAreFilled'
  BY <1>1 DEF BookShape, BookTypeOK, FinishedEntriesAreFilled, IsFinished, Remain
<1>4. /\ QueuesMatchIndex' /\ OneLevelPerPrice' /\ LevelsAreOlder'
      /\ CancelledAreUnindexed' /\ StaleEntriesAreFilled' /\ NoOverfill'
  BY <1>1 DEF BookShape, QueuesMatchIndex, OneLevelPerPrice, LevelsAreOlder,
              CancelledAreUnindexed, StaleEntriesAreFilled, NoOverfill, Remain
<1> QED BY <1>2, <1>3, <1>4 DEF BookShape

\* Nothing but the tree changes, and the tree only loses levels.
LEMMA TreeShrinksKeepsShape ==
  ASSUME BookShape, tree' \subseteq tree,
         UNCHANGED <<orderVars, queue, total, index, cancelling>>
  PROVE  BookShape'
BY DEF BookShape, BookTypeOK, QueuesMatchIndex, OneLevelPerPrice, LevelsAreOlder,
       CancelledAreUnindexed, StaleEntriesAreFilled, NoOverfill,
       FinishedEntriesAreFilled, IsFinished, Remain, orderVars

-----------------------------------------------------------------------------
(* The invariant holds at the start and every action keeps it.             *)

\* The first state has all of it.
THEOREM InitInvariant == Init => IInv
<1> SUFFICES ASSUME Init PROVE IInv
  OBVIOUS
<1> USE DEF Init, OrdersInit, BookInit
<1>1. /\ MaxOrders \in Nat /\ OrderId \in SUBSET Int
      /\ \A l \in OrderId : queue[l] = <<>> /\ ToSet(queue[l]) = {}
  BY OrdersAssumption DEF OrderId, ToSet
<1>2. BookTypeOK
  BY <1>1 DEF BookTypeOK, OrderStatus
<1>3. NoOverfill
  <2>1. \A o \in OrderId : order[o].amount \in Nat
    BY <1>2, OrderFacts
  <2> QED BY <2>1 DEF NoOverfill
<1>4. /\ QueuesMatchIndex /\ OneLevelPerPrice /\ LevelsAreOlder
      /\ CancelledAreUnindexed /\ StaleEntriesAreFilled /\ FinishedEntriesAreFilled
  BY <1>1 DEF QueuesMatchIndex, InArrivalOrder, OneLevelPerPrice, LevelsAreOlder,
              CancelledAreUnindexed, StaleEntriesAreFilled, FinishedEntriesAreFilled
<1>5. MatcherInv
  BY <1>1 DEF MatcherInv, PC, Fresh, Processing, Matching, AtLevel
<1>6. ReachInv
  BY <1>1 DEF ReachInv, WaitingOrdersAreReachable
<1> QED BY <1>2, <1>3, <1>4, <1>5, <1>6 DEF IInv, BookShape

\* Nothing of the book or of an order changes.
LEMMA BookUnchanged ==
  ASSUME IInv, UNCHANGED <<orderVars, bookVars, cancelling>>
  PROVE  BookShape' /\ ReachInv'
<1>1. BookShape'
  BY TreeShrinksKeepsShape DEF IInv, bookVars
<1>2. ReachInv'
  BY DEF IInv, ReachInv, WaitingOrdersAreReachable, bookVars
<1> QED BY <1>1, <1>2

\* An order the book has indexed came before the one being processed.
LEMMA IndexedAreOlder ==
  ASSUME IInv, pc \in Matching
  PROVE  /\ taker \in OrderId /\ taker = next - 1 /\ Fresh(taker)
         /\ \A p \in OrderId : index[p] # NoLevel => p < taker
         /\ \A k \in tree : k < taker
         /\ \A l \in OrderId : \A x \in ToSet(queue[l]) : x < taker
<1>1. taker \in OrderId /\ taker = next - 1 /\ Fresh(taker) /\ next \in Int
  BY OrdersAssumption DEF IInv, MatcherInv, Matching, Processing
<1>2. \A p \in OrderId : ~Fresh(p) => p < taker
  <2> SUFFICES ASSUME NEW p \in OrderId, ~Fresh(p)
               PROVE  p < taker
    OBVIOUS
  <2>1. ~(p >= next) /\ p # taker /\ p \in Int
    BY <1>1 DEF IInv, MatcherInv, OrderId
  <2> QED BY <1>1, <2>1
<1>3. \A p \in OrderId : index[p] # NoLevel => p < taker
  BY <1>2 DEF Fresh
<1>4. \A k \in tree : k < taker
  BY <1>2 DEF Fresh, IInv, BookShape, BookTypeOK
<1>5. \A l \in OrderId : \A x \in ToSet(queue[l]) : x < taker
  BY <1>3, QueuedFacts DEF IInv, BookShape
<1> QED BY <1>1, <1>3, <1>4, <1>5

\* An order for the book is taken up.
LEMMA ReceiveForBookStep ==
  ASSUME IInv, ReceiveForBook
  PROVE  IInv'
<1>1. BookShape' /\ ReachInv'
  BY BookUnchanged DEF ReceiveForBook
<1>2. MatcherInv'
  BY OrdersAssumption DEF IInv, MatcherInv, ReceiveForBook, Receive, PC, Processing,
     Matching, AtLevel, Fresh, OrderId, bookVars
<1> QED BY <1>1, <1>2 DEF IInv

\* A stop order is taken up.
LEMMA ReceiveStopStep ==
  ASSUME IInv, ReceiveStop
  PROVE  IInv'
<1>1. BookShape' /\ ReachInv'
  BY BookUnchanged DEF ReceiveStop
<1>2. MatcherInv'
  BY OrdersAssumption DEF IInv, MatcherInv, ReceiveStop, Receive, PC, Processing,
     Matching, AtLevel, Fresh, OrderId, bookVars
<1> QED BY <1>1, <1>2 DEF IInv

\* An order of an unknown type is taken up.
LEMMA ReceiveUnknownStep ==
  ASSUME IInv, ReceiveUnknown
  PROVE  IInv'
<1>1. PICK o \in OrderId : ReceiveUnknown!(o)
  BY DEF ReceiveUnknown
<1>2. index[o] = NoLevel
  BY <1>1, OrdersAssumption DEF IInv, MatcherInv, Receive, Fresh, OrderId
<1>3. BookShape'
  BY <1>1, <1>2, StatusKeepsShape DEF IInv, OrderStatus
<1>4. MatcherInv'
  BY <1>1, OrdersAssumption DEF IInv, MatcherInv, Receive, PC, Processing,
     Matching, AtLevel, Fresh, OrderId, bookVars
<1>5. ReachInv'
  BY <1>1 DEF IInv, ReachInv, WaitingOrdersAreReachable, bookVars
<1> QED BY <1>3, <1>4, <1>5 DEF IInv

\* Steps of the processing goroutine that look at the book and do not change it.
LEMMA LookingStep ==
  ASSUME IInv, UNCHANGED <<orderVars, bookVars, cancelling, next, taker>>,
         pc \in Processing, pc' \in PC \ AtLevel, pc \in Matching \/ pc' = "idle"
  PROVE  IInv'
<1>1. BookShape' /\ ReachInv'
  BY BookUnchanged
<1>2. MatcherInv'
  BY DEF IInv, MatcherInv, PC, Processing, Matching, AtLevel, Fresh, bookVars, orderVars
<1> QED BY <1>1, <1>2 DEF IInv

\* The loop looks for the best level.
LEMMA FindLevelStep ==
  ASSUME IInv, FindLevel
  PROVE  IInv'
<1> DEFINE best == BestLevel(MakerSide)
<1>1. CASE pc' = "first"
  <2>1. level' = best /\ best # NoLevel /\ Crosses(best)
    BY <1>1 DEF FindLevel, AfterMatch
  <2>2. best \in BestLevels(MakerSide)
    BY <2>1 DEF BestLevel
  <2>3. /\ best \in tree /\ best \in OrderId
        /\ order[best].side = MakerSide
        /\ OnlyLevelThere(best) /\ BestThere(best)
    BY <2>2 DEF BestLevels, Levels, IInv, BookShape, BookTypeOK, OneLevelPerPrice,
                OnlyLevelThere, BestThere
  <2>4. BookShape' /\ ReachInv'
    BY BookUnchanged DEF FindLevel
  <2>5. /\ pc = "best"
        /\ order' = order /\ tree' = tree /\ index' = index /\ cancelling' = cancelling
        /\ next' = next /\ taker' = taker
    BY DEF FindLevel, orderVars, bookVars
  <2> HIDE DEF best
  <2>6. /\ OnlyLevelThere(level)' /\ BestThere(level)' /\ Crosses(level)'
        /\ order'[level'].side = MakerSide'
    BY <2>1, <2>3, <2>5 DEF OnlyLevelThere, BestThere, Crosses, MakerSide, IsType, Levels
  <2>7. MatcherInv'
    BY <1>1, <2>1, <2>3, <2>5, <2>6
       DEF IInv, MatcherInv, PC, Processing, Matching, AtLevel, Fresh
  <2> QED BY <2>4, <2>7 DEF IInv
<1>2. CASE pc' # "first"
  BY <1>2, LookingStep DEF FindLevel, AfterMatch, PC, Processing, Matching, AtLevel
<1> QED BY <1>1, <1>2

\* The loop looks for the next maker of a level.
LEMMA FindMakerStep ==
  ASSUME IInv, FindMaker
  PROVE  IInv'
<1>1. /\ pc = "first" /\ pc \in Matching
      /\ order' = order /\ tree' = tree /\ index' = index /\ queue' = queue
      /\ cancelling' = cancelling /\ next' = next /\ taker' = taker /\ level' = level
  BY DEF FindMaker, orderVars, bookVars, PC, Processing, Matching
<1>2. BookShape' /\ ReachInv'
  BY BookUnchanged DEF FindMaker
<1>3. /\ level \in OrderId /\ order[level].side = MakerSide
      /\ OnlyLevelThere(level) /\ BestThere(level) /\ Crosses(level)
  BY <1>1 DEF IInv, MatcherInv, AtLevel
<1>4. /\ OnlyLevelThere(level)' /\ BestThere(level)' /\ Crosses(level)'
      /\ order'[level'].side = MakerSide'
  BY <1>1, <1>3 DEF OnlyLevelThere, BestThere, Crosses, MakerSide, IsType, Levels
<1>5. CASE queue[level] = <<>>
  <2>1. pc' = "leave" /\ maker' = maker
    BY <1>5 DEF FindMaker
  <2>2. MatcherInv'
    BY <1>1, <1>3, <1>4, <2>1
       DEF IInv, MatcherInv, PC, Processing, Matching, AtLevel, Fresh
  <2> QED BY <1>2, <2>2 DEF IInv
<1>6. CASE queue[level] # <<>>
  <2> DEFINE q == queue[level]
  <2>2. q \in Seq(OrderId) /\ InArrivalOrder(q)
    BY <1>3, OrderFacts DEF IInv, BookShape, QueuesMatchIndex
  <2>1. pc' = "trade" /\ maker' = q[1]
    <3>1. Head(q) = q[1]
      BY <1>6, <2>2, HeadTailProperties
    <3> QED BY <1>6, <3>1 DEF FindMaker
  <2>3. 1 \in DOMAIN q /\ q[1] \in ToSet(q)
    BY <1>6, <2>2 DEF ToSet
  <2>4. \A x \in ToSet(q) : q[1] <= x
    <3> SUFFICES ASSUME NEW i \in DOMAIN q
                 PROVE  q[1] <= q[i]
      BY DEF ToSet
    <3>1. i \in Nat /\ i >= 1 /\ q[i] \in OrderId /\ q[1] \in OrderId
      <4> HIDE DEF q
      <4> QED BY <2>2, <2>3
    <3>2. q[i] \in Int /\ q[1] \in Int
      BY <3>1, OrdersAssumption DEF OrderId
    <3> HIDE DEF q
    <3> QED BY <2>2, <2>3, <3>1, <3>2 DEF InArrivalOrder
  <2>5. /\ q[1] \in OrderId /\ q[1] < taker
        /\ order[q[1]].side = order[level].side
        /\ order[q[1]].price = order[level].price
    BY <1>1, <1>3, <2>3, IndexedAreOlder, QueuedFacts
       DEF IInv, BookShape, QueuesMatchIndex
  <2> HIDE DEF q
  <2>6. \A x \in ToSet(queue'[level']) : maker' <= x
    BY <1>1, <2>1, <2>4 DEF q
  <2>7. MatcherInv'
    BY <1>1, <1>3, <1>4, <2>1, <2>5, <2>6
       DEF IInv, MatcherInv, PC, Processing, Matching, AtLevel, Fresh
  <2> QED BY <1>2, <2>7 DEF IInv
<1> QED BY <1>5, <1>6

\* What holds of the maker when a trade is made.
LEMMA TradeFacts ==
  ASSUME IInv, pc = "trade"
  PROVE  /\ taker \in OrderId /\ maker \in OrderId /\ maker < taker
         /\ MatchAmount \in Nat
         /\ MatchAmount <= Remain(taker) /\ MatchAmount <= Remain(maker)
<1>1. taker \in OrderId /\ maker \in OrderId /\ maker < taker
  BY DEF IInv, MatcherInv, Processing, PC
<1>2. \A o \in OrderId : Remain(o) \in Nat
  <2> SUFFICES ASSUME NEW o \in OrderId
               PROVE  Remain(o) \in Nat
    OBVIOUS
  <2>1. filled[o] \in Nat /\ order[o].amount \in Nat /\ filled[o] <= order[o].amount
    BY OrderFacts DEF IInv, BookShape, NoOverfill
  <2> QED BY <2>1 DEF Remain
<1>3. \A a, b \in Nat : Min({a, b}) = IF a <= b THEN a ELSE b
  BY DEF Min
<1> QED BY <1>1, <1>2, <1>3 DEF MatchAmount

\* A trade.
LEMMA TradeStep ==
  ASSUME IInv, Trade
  PROVE  IInv'
<1>1. /\ pc = "trade" /\ pc' = "settle"
      /\ order' = order /\ tree' = tree /\ index' = index /\ queue' = queue
      /\ cancelling' = cancelling /\ next' = next /\ taker' = taker
      /\ level' = level /\ maker' = maker
  BY DEF Trade, bookVars
<1>2. BookShape'
  <2>1. taker # maker
    BY <1>1, TradeFacts DEF OrderId
  <2> QED BY <1>1, <2>1, TradeFacts, UpdateFilledKeepsShape DEF Trade, IInv
<1>3. ReachInv'
  BY <1>1 DEF IInv, ReachInv, WaitingOrdersAreReachable
<1>4. MatcherInv'
  BY <1>1 DEF IInv, MatcherInv, PC, Processing, Matching, AtLevel, Fresh,
     OnlyLevelThere, BestThere, Crosses, MakerSide, IsType, Levels
<1> QED BY <1>2, <1>3, <1>4 DEF IInv

\* A filled maker leaves the book.
LEMMA SettleStep ==
  ASSUME IInv, Settle
  PROVE  IInv'
<1>1. /\ pc = "settle" /\ pc' \in {"first", "leave"}
      /\ order' = order /\ tree' = tree /\ index' = index
      /\ cancelling' = cancelling /\ next' = next /\ taker' = taker
      /\ level' = level /\ maker' = maker
      /\ UNCHANGED <<orderVars, tree, index, cancelling>>
  BY DEF Settle, orderVars
<1>2. BookShape' /\ (WaitingOrdersAreReachable => WaitingOrdersAreReachable')
  <2>1. level \in OrderId /\ maker \in OrderId
    BY <1>1 DEF IInv, MatcherInv, AtLevel
  <2>2. CASE IsFinished(maker)
    <3>1. maker \in ToSet(queue[level]) => Remain(maker) = 0
      BY <2>1, <2>2, QueuedFacts DEF IInv, BookShape, FinishedEntriesAreFilled
    <3> QED BY <1>1, <2>1, <2>2, <3>1, LevelRemoveKeepsShape DEF Settle, IInv
  <2>3. CASE ~IsFinished(maker)
    BY <1>1, <2>3, TreeShrinksKeepsShape
       DEF Settle, IInv, WaitingOrdersAreReachable
  <2> QED BY <2>2, <2>3
<1>3. ReachInv'
  BY <1>2 DEF IInv, ReachInv
<1>4. MatcherInv'
  BY <1>1 DEF IInv, MatcherInv, PC, Processing, Matching, AtLevel, Fresh,
     OnlyLevelThere, BestThere, Crosses, MakerSide, IsType, Levels
<1> QED BY <1>2, <1>3, <1>4 DEF IInv

\* The loop is through with a level.
LEMMA LeaveLevelStep ==
  ASSUME IInv, LeaveLevel
  PROVE  IInv'
<1>1. /\ pc = "leave" /\ pc' \in PC \ AtLevel /\ pc' \in Matching
      /\ tree' \subseteq tree
      /\ UNCHANGED <<orderVars, queue, total, index, cancelling>>
      /\ order' = order /\ queue' = queue /\ index' = index
      /\ cancelling' = cancelling /\ next' = next /\ taker' = taker
  BY DEF LeaveLevel, AfterMatch, WithoutPrice, PC, AtLevel, Matching, Processing, orderVars
<1>2. BookShape'
  BY <1>1, TreeShrinksKeepsShape DEF IInv
<1>3. ReachInv'
  <2> SUFFICES ASSUME WaitingOrdersAreReachable, NEW l \in OrderId, queue[l] # <<>>
               PROVE  l \in tree'
    BY <1>1 DEF IInv, ReachInv, WaitingOrdersAreReachable
  <2>1. l \in tree
    BY DEF WaitingOrdersAreReachable
  <2>2. CASE queue[level] = <<>>
    <3>1. l # level /\ OnlyLevelThere(level)
      BY <1>1, <2>2 DEF IInv, MatcherInv, AtLevel
    <3>2. l \notin LevelsAt(order[level].side, order[level].price)
      BY <2>1, <3>1 DEF OnlyLevelThere, LevelsAt, Levels
    <3> QED BY <2>1, <3>2 DEF LeaveLevel, WithoutPrice
  <2>3. CASE queue[level] # <<>>
    BY <2>1, <2>3 DEF LeaveLevel
  <2> QED BY <2>2, <2>3
<1>4. MatcherInv'
  BY <1>1 DEF IInv, MatcherInv, PC, Processing, Matching, AtLevel, Fresh
<1> QED BY <1>2, <1>3, <1>4 DEF IInv

\* What is left is dropped.
LEMMA DropRemainderStep ==
  ASSUME IInv, DropRemainder
  PROVE  IInv'
<1>1. /\ pc = "rest" /\ pc' = "announce" /\ pc \in Matching
      /\ tree' = tree /\ index' = index /\ queue' = queue /\ cancelling' = cancelling
      /\ next' = next /\ taker' = taker
      /\ UNCHANGED <<order, filled, bookVars>>
  BY DEF DropRemainder, bookVars, PC, Processing, Matching
<1>2. taker \in OrderId /\ index[taker] = NoLevel
  BY <1>1, IndexedAreOlder DEF Fresh
<1>3. BookShape'
  BY <1>1, <1>2, StatusKeepsShape DEF DropRemainder, IInv, OrderStatus
<1>4. ReachInv'
  BY <1>1 DEF IInv, ReachInv, WaitingOrdersAreReachable
<1>5. MatcherInv'
  BY <1>1 DEF IInv, MatcherInv, PC, Processing, Matching, AtLevel, Fresh
<1> QED BY <1>3, <1>4, <1>5 DEF IInv

\* What is left rests in the book.
LEMMA RestRemainderStep ==
  ASSUME IInv, RestRemainder
  PROVE  IInv'
<1>1. /\ pc = "rest" /\ pc' = "announce" /\ pc \in Matching
      /\ cancelling' = cancelling /\ next' = next /\ taker' = taker
      /\ UNCHANGED <<orderVars, cancelling>>
      /\ AddOrder(taker) /\ ~IsFinished(taker)
  BY DEF RestRemainder, Leftover, PC, Processing, Matching
<1>2. /\ taker \in OrderId /\ Fresh(taker) /\ taker = next - 1
      /\ \A p \in OrderId : index[p] # NoLevel => p < taker
      /\ \A k \in tree : k < taker
  BY <1>1, IndexedAreOlder
<1>3. /\ BookShape'
      /\ WaitingOrdersAreReachable => WaitingOrdersAreReachable'
      /\ tree' \subseteq tree \cup {taker}
      /\ \A p \in OrderId : p # taker => index'[p] = index[p]
  BY <1>1, <1>2, AddOrderKeepsShape DEF IInv
<1>4. ReachInv'
  BY <1>3 DEF IInv, ReachInv
<1>5. \A p \in OrderId : p >= next => Fresh(p)'
  <2> SUFFICES ASSUME NEW p \in OrderId, p >= next
               PROVE  Fresh(p)'
    OBVIOUS
  <2>1. Fresh(p) /\ p # taker
    BY <1>2, OrdersAssumption DEF IInv, MatcherInv, OrderId
  <2> QED BY <1>1, <1>3, <2>1 DEF Fresh
<1>6. MatcherInv'
  BY <1>1, <1>5 DEF IInv, MatcherInv, PC, Processing, Matching, AtLevel
<1> QED BY <1>3, <1>4, <1>6 DEF IInv

\* A cancel takes an order out of the book.
LEMMA CancelRemoveStep ==
  ASSUME IInv, NEW o \in OrderId, CancelRemove(o)
  PROVE  IInv'
<1>1. PICK lost \in BOOLEAN : RemoveOrder(o, lost)
  BY DEF CancelRemove, LostUpdates
<1>2. /\ index[o] # NoLevel /\ ClientCancels(o)
      /\ cancelling' = cancelling \cup {o}
      /\ order' = order /\ pc' = pc /\ next' = next /\ taker' = taker
      /\ level' = level /\ maker' = maker
      /\ UNCHANGED orderVars
  BY DEF CancelRemove, orderVars, procVars
<1>3. /\ BookShape'
      /\ tree' \subseteq tree
      /\ \A l \in OrderId : ToSet(queue'[l]) \subseteq ToSet(queue[l])
      /\ \A p \in OrderId : index'[p] = IF p = o THEN NoLevel ELSE index[p]
      /\ (WaitingOrdersAreReachable /\ o \in ToSet(queue[index[o]]))
           => WaitingOrdersAreReachable'
  BY <1>1, <1>2, RemoveOrderKeepsShape DEF IInv
<1>4. ReachInv'
  BY <1>2, <1>3, CancelAssumption DEF IInv, ReachInv, ClientCancels
<1>5. \A p \in OrderId : Fresh(p) => Fresh(p)'
  BY <1>2, <1>3 DEF Fresh
<1>6. \A l \in OrderId : /\ OnlyLevelThere(l) => OnlyLevelThere(l)'
                         /\ BestThere(l) => BestThere(l)'
                         /\ Crosses(l) => Crosses(l)'
  BY <1>2, <1>3 DEF OnlyLevelThere, BestThere, Crosses, MakerSide, IsType, Levels
<1>7. MatcherInv'
  <2>1. /\ pc \in AtLevel => OnlyLevelThere(level)'
        /\ pc \in AtLevel \ {"leave"} => Crosses(level)' /\ BestThere(level)'
    BY <1>2, <1>6 DEF IInv, MatcherInv, AtLevel, OnlyLevelThere, Crosses, BestThere,
                      MakerSide, IsType, Levels
  <2>2. pc = "trade" => \A x \in ToSet(queue'[level]) : maker <= x
    BY <1>3 DEF IInv, MatcherInv, AtLevel
  <2>3. MakerSide' = MakerSide
    BY <1>2 DEF MakerSide
  <2> QED BY <1>2, <1>5, <2>1, <2>2, <2>3 DEF IInv, MatcherInv, Matching, Processing
<1> QED BY <1>3, <1>4, <1>7 DEF IInv

\* A cancel sets the status.
LEMMA CancelFinishStep ==
  ASSUME IInv, NEW o \in OrderId, CancelFinish(o)
  PROVE  IInv'
<1>1. /\ cancelling' = cancelling \ {o}
      /\ order' = order /\ pc' = pc /\ next' = next /\ taker' = taker
      /\ level' = level /\ maker' = maker
      /\ tree' = tree /\ index' = index /\ queue' = queue
      /\ UNCHANGED <<order, filled, bookVars>>
  BY DEF CancelFinish, procVars, bookVars
<1>2. index[o] = NoLevel
  BY DEF CancelFinish, IInv, BookShape, CancelledAreUnindexed
<1>3. BookShape'
  BY <1>1, <1>2, StatusKeepsShape DEF CancelFinish, IInv, OrderStatus
<1>4. ReachInv'
  BY <1>1 DEF IInv, ReachInv, WaitingOrdersAreReachable
<1>5. MatcherInv'
  BY <1>1 DEF IInv, MatcherInv, PC, Processing, Matching, AtLevel, Fresh,
     OnlyLevelThere, BestThere, Crosses, MakerSide, IsType, Levels
<1> QED BY <1>3, <1>4, <1>5 DEF IInv

\* Every step keeps all of it.
THEOREM StepInvariant == IInv /\ [Next]_vars => IInv'
<1> SUFFICES ASSUME IInv, [Next]_vars
             PROVE  IInv'
  OBVIOUS
<1>1. CASE ReceiveForBook
  BY <1>1, ReceiveForBookStep
<1>2. CASE ReceiveStop
  BY <1>2, ReceiveStopStep
<1>3. CASE ReceiveUnknown
  BY <1>3, ReceiveUnknownStep
<1>4. CASE FokCheck
  BY <1>4, LookingStep DEF FokCheck, PC, Processing, Matching, AtLevel
<1>5. CASE FindLevel
  BY <1>5, FindLevelStep
<1>6. CASE FindMaker
  BY <1>6, FindMakerStep
<1>7. CASE Trade
  BY <1>7, TradeStep
<1>8. CASE Settle
  BY <1>8, SettleStep
<1>9. CASE LeaveLevel
  BY <1>9, LeaveLevelStep
<1>10. CASE PublishTrades
  BY <1>10, LookingStep DEF PublishTrades, PC, Processing, Matching, AtLevel
<1>11. CASE ReportOrders
  BY <1>11, LookingStep DEF ReportOrders, PC, Processing, Matching, AtLevel
<1>12. CASE CheckStops
  BY <1>12, LookingStep DEF CheckStops, PC, Processing, Matching, AtLevel
<1>13. CASE FinishOrder
  BY <1>13, LookingStep DEF FinishOrder, PC, Processing, Matching, AtLevel
<1>14. CASE DropRemainder
  BY <1>14, DropRemainderStep
<1>15. CASE RestRemainder
  BY <1>15, RestRemainderStep
<1>16. CASE AnnounceOrder
  BY <1>16, LookingStep DEF AnnounceOrder, PC, Processing, Matching, AtLevel
<1>17. CASE Cancel
  BY <1>17, CancelRemoveStep, CancelFinishStep DEF Cancel
<1>18. CASE UNCHANGED vars
  <2>1. BookShape' /\ ReachInv'
    BY <1>18, BookUnchanged DEF vars
  <2>2. MatcherInv'
    BY <1>18 DEF vars, procVars, orderVars, bookVars, IInv, MatcherInv, Fresh,
       OnlyLevelThere, BestThere, Crosses, MakerSide, IsType, Levels
  <2> QED BY <2>1, <2>2 DEF IInv
<1> QED BY <1>1, <1>2, <1>3, <1>4, <1>5, <1>6, <1>7, <1>8, <1>9, <1>10, <1>11,
           <1>12, <1>13, <1>14, <1>15, <1>16, <1>17, <1>18
        DEF Next, Process, Match

-----------------------------------------------------------------------------
(* The theorems.                                                           *)

\* The inductive invariant holds of every behaviour.
THEOREM Invariance == Spec => []IInv
BY InitInvariant, StepInvariant, PTL DEF Spec

\* At any moment every list of the book is consistent with the index, in order
\* of arrival, however cancels interleave with matching.
THEOREM QueuesAlwaysMatchIndex == Spec => []QueuesMatchIndex
<1>1. IInv => QueuesMatchIndex
  BY DEF IInv, BookShape
<1> QED BY <1>1, Invariance, PTL

\* Whatever the index keeps of an order that has left its level is harmless to
\* fills: the order is filled.
THEOREM StaleEntriesAlwaysFilled == Spec => []StaleEntriesAreFilled
<1>1. IInv => StaleEntriesAreFilled
  BY DEF IInv, BookShape
<1> QED BY <1>1, Invariance, PTL

\* A tree never holds two levels of one price.
THEOREM AlwaysOneLevelPerPrice == Spec => []OneLevelPerPrice
<1>1. IInv => OneLevelPerPrice
  BY DEF IInv, BookShape
<1> QED BY <1>1, Invariance, PTL

\* Unless clients cancel orders that are filled, everybody who waits can be
\* found by the matcher.
THEOREM WaitingAlwaysReachable ==
  CancelScope # AnyIndexed => (Spec => []WaitingOrdersAreReachable)
<1> SUFFICES ASSUME CancelScope # AnyIndexed
             PROVE  Spec => []WaitingOrdersAreReachable
  OBVIOUS
<1>1. IInv => WaitingOrdersAreReachable
  BY DEF IInv, ReachInv
<1> QED BY <1>1, Invariance, PTL


\* Whoever waits on the maker's side waits behind the maker, or at a worse price.
LEMMA TradeRespectsPriority ==
  ASSUME IInv, WaitingOrdersAreReachable, Trade
  PROVE  MakerComesFirst
<1>1. /\ pc = "trade" /\ BookTypeOK
      /\ taker \in OrderId /\ maker \in OrderId /\ level \in OrderId
      /\ order[level].side = MakerSide
      /\ order[maker].side = order[level].side
      /\ order[maker].price = order[level].price
      /\ Crosses(level) /\ BestThere(level) /\ OnlyLevelThere(level)
      /\ \A o \in ToSet(queue[level]) : maker <= o
  BY DEF IInv, BookShape, MatcherInv, Trade, PC, Processing, Matching, AtLevel
<1>2. \/ order[taker].type = "market"
      \/ Accepts(order[taker].side, order[taker].price, order[maker].price)
  BY <1>1 DEF Crosses, IsType
<1>3. ASSUME NEW o \in OrderId \ {maker}, Queued(o),
             order[o].side = order[maker].side
      PROVE  /\ AtLeastAsGood(order[o].side, order[maker].price, order[o].price)
             /\ order[o].price = order[maker].price => maker < o
  <2>1. PICK l \in OrderId : o \in ToSet(queue[l])
    BY <1>3 DEF Queued
  <2>2. queue[l] # <<>>
    BY <2>1 DEF ToSet
  <2>3. /\ l \in tree
        /\ order[o].side = order[l].side /\ order[o].price = order[l].price
    BY <2>1, <2>2 DEF IInv, BookShape, QueuesMatchIndex, WaitingOrdersAreReachable
  <2>4. AtLeastAsGood(order[o].side, order[maker].price, order[o].price)
    BY <1>1, <1>3, <2>3 DEF BestThere, Levels
  <2>5. ASSUME order[o].price = order[maker].price
        PROVE  maker < o
    <3>1. l = level
      BY <1>1, <1>3, <2>3, <2>5 DEF OnlyLevelThere
    <3>2. maker <= o /\ o # maker
      BY <1>1, <2>1, <3>1
    <3> QED BY <1>1, <1>3, <3>2, OrderFacts
  <2> QED BY <2>4, <2>5
<1> QED BY <1>2, <1>3 DEF MakerComesFirst

\* Unless clients cancel orders that are filled, every trade respects price-time
\* priority.
THEOREM TradesRespectPriority ==
  CancelScope # AnyIndexed => (Spec => PriceTimePriority)
<1> SUFFICES ASSUME CancelScope # AnyIndexed
             PROVE  Spec => PriceTimePriority
  OBVIOUS
<1>1. IInv => WaitingOrdersAreReachable
  BY DEF IInv, ReachInv
<1>2. IInv /\ [Next]_vars => [Trade => MakerComesFirst]_vars
  BY <1>1, TradeRespectsPriority
<1> QED BY <1>2, Invariance, PTL DEF Spec, PriceTimePriority

\* Nobody is filled beyond the amount ordered: the first part of what
\* FillsArePublished says of the fills.
THEOREM NeverOverfilled == Spec => []NoOverfill
<1>1. IInv => NoOverfill
  BY DEF IInv, BookShape
<1> QED BY <1>1, Invariance, PTL
=============================================================================
