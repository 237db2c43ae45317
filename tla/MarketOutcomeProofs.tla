------------------------ MODULE MarketOutcomeProofs ------------------------
(***************************************************************************)
(* What the matching of one market comes to, proved on top of the          *)
(* invariant of MarketProofs: the depth a level shows covers who waits     *)
(* there, trades and fills add up, nothing is lost, the book is not        *)
(* crossed between orders, and the market as a whole is an Exchange.       *)
(***************************************************************************)
EXTENDS MarketProofs, FoldLemmas

-----------------------------------------------------------------------------
(* What is left of some orders.                                            *)

LeftSum(ord, fil, S) == MapThenSumSet(LAMBDA o : ord[o].amount - fil[o], S)

Left(ord, fil) == [o \in OrderId |-> ord[o].amount - fil[o]]

\* The amounts left of some orders, as a sum of a function.
LEMMA LeftSumIsSum ==
  ASSUME NEW ord, NEW fil, NEW S \in SUBSET OrderId,
         \A o \in OrderId : ord[o].amount - fil[o] \in Int
  PROVE  /\ IsFiniteSet(S)
         /\ LeftSum(ord, fil, S) = SumOf(Left(ord, fil), S)
<1>0. IsFiniteSet(S)
  <2>1. IsFiniteSet(OrderId)
    BY OrdersAssumption, FS_Interval DEF OrderId
  <2> QED BY <2>1, FS_Subset
<1> DEFINE f == Left(ord, fil)
           P(it) == it = [s \in SUBSET S |->
                            IF s = {} THEN 0
                            ELSE (ord[CHOOSE x \in s : TRUE].amount - fil[CHOOSE x \in s : TRUE])
                                   + it[s \ {CHOOSE x \in s : TRUE}]]
           I == CHOOSE it : P(it)
<1>1. LeftSum(ord, fil, S) = I[S]
  BY DEF LeftSum, MapThenSumSet, MapThenFoldSet
<1>2. \A x \in S : f[x] = ord[x].amount - fil[x] /\ f[x] \in Int
  BY DEF Left
<1> HIDE DEF f
<1>3. PICK g : IsSum(g, f, S)
  BY <1>0, <1>2, SumsExist
<1>4. \A s \in SUBSET S : s # {} => AnyOf(s) \in S /\ AnyOf(s) = CHOOSE x \in s : TRUE
  BY DEF AnyOf
<1>5. \A s \in SUBSET S :
        g[s] = IF s = {} THEN 0
               ELSE (ord[CHOOSE x \in s : TRUE].amount - fil[CHOOSE x \in s : TRUE])
                      + g[s \ {CHOOSE x \in s : TRUE}]
  <2> TAKE s \in SUBSET S
  <2>1. g[s] = IF s = {} THEN 0 ELSE f[AnyOf(s)] + g[s \ {AnyOf(s)}]
    BY <1>3 DEF IsSum
  <2>2. s # {} => f[AnyOf(s)] = ord[AnyOf(s)].amount - fil[AnyOf(s)]
    BY <1>2, <1>4
  <2> QED BY <1>4, <2>1, <2>2
<1>6. P(g)
  <2>1. g = [s \in SUBSET S |-> g[s]]
    BY <1>3 DEF IsSum
  <2> QED BY <1>5, <2>1
<1>7. P(I)
  BY <1>6
<1> HIDE DEF I
<1>8. \A s \in SUBSET S :
        I[s] = IF s = {} THEN 0
               ELSE (ord[CHOOSE x \in s : TRUE].amount - fil[CHOOSE x \in s : TRUE])
                      + I[s \ {CHOOSE x \in s : TRUE}]
  BY <1>7
<1> HIDE DEF P
<1>9. \A s \in SUBSET S : I[s] = g[s]
  <2> DEFINE T == {s \in SUBSET S : I[s] = g[s]}
  <2>1. {} \in T
    BY <1>5, <1>8
  <2>2. ASSUME NEW s \in SUBSET S, s # {}, \A x \in s : s \ {x} \in T
        PROVE  s \in T
    <3> DEFINE c == CHOOSE x \in s : TRUE
    <3>1. c \in s
      BY <2>2
    <3>2. I[s \ {c}] = g[s \ {c}]
      BY <2>2, <3>1
    <3>3. /\ I[s] = (ord[c].amount - fil[c]) + I[s \ {c}]
          /\ g[s] = (ord[c].amount - fil[c]) + g[s \ {c}]
      BY <1>5, <1>8, <2>2
    <3> QED BY <3>2, <3>3
  <2> HIDE DEF T
  <2>3. SUBSET S \subseteq T
    BY <1>0, <2>1, <2>2, SubsetInduction
  <2> QED BY <2>3 DEF T
<1>10. SumOf(f, S) = g[S]
  BY <1>0, <1>3, SumIsSum
<1> QED BY <1>0, <1>1, <1>9, <1>10 DEF f

\* The laws of that sum.
LEMMA LeftSumLaws ==
  ASSUME NEW ord, NEW fil, NEW S \in SUBSET OrderId,
         \A o \in OrderId : ord[o].amount - fil[o] \in Int
  PROVE  /\ LeftSum(ord, fil, S) \in Int
         /\ S = {} => LeftSum(ord, fil, S) = 0
         /\ \A o \in S : LeftSum(ord, fil, S)
                           = (ord[o].amount - fil[o]) + LeftSum(ord, fil, S \ {o})
<1> DEFINE f == Left(ord, fil)
<1>1. \A x \in OrderId : f[x] = ord[x].amount - fil[x] /\ f[x] \in Int
  BY DEF Left
<1>2. \A s \in SUBSET OrderId : LeftSum(ord, fil, s) = SumOf(f, s) /\ IsFiniteSet(s)
  BY LeftSumIsSum
<1> HIDE DEF f
<1>3. IsFiniteSet(S) /\ \A x \in S : f[x] \in Int
  BY <1>1, <1>2
<1>4. SumOf(f, S) \in Int /\ (S = {} => SumOf(f, S) = 0)
  BY <1>3, SumType
<1>5. \A o \in S : SumOf(f, S) = f[o] + SumOf(f, S \ {o})
  BY <1>3, SumRemove
<1>6. \A o \in S : LeftSum(ord, fil, S \ {o}) = SumOf(f, S \ {o})
  BY <1>2
<1> QED BY <1>1, <1>2, <1>4, <1>5, <1>6

\* What is left of some orders only becomes less when they are filled.
LEMMA LeftSumShrinks ==
  ASSUME NEW ord, NEW fil, NEW fil2, NEW S \in SUBSET OrderId,
         \A o \in OrderId : /\ ord[o].amount - fil[o] \in Int
                            /\ ord[o].amount - fil2[o] \in Int
                            /\ ord[o].amount - fil2[o] <= ord[o].amount - fil[o]
  PROVE  LeftSum(ord, fil2, S) <= LeftSum(ord, fil, S)
<1> DEFINE f == Left(ord, fil)
           h == Left(ord, fil2)
<1>1. \A x \in S : f[x] \in Int /\ h[x] \in Int /\ h[x] <= f[x]
  BY DEF Left
<1>2. LeftSum(ord, fil, S) = SumOf(f, S) /\ IsFiniteSet(S)
  BY LeftSumIsSum
<1>3. LeftSum(ord, fil2, S) = SumOf(h, S)
  BY LeftSumIsSum
<1> HIDE DEF f, h
<1> QED BY <1>1, <1>2, <1>3, SumMonotone

-----------------------------------------------------------------------------
(* What the actions do to the lists of the book.                           *)

\* What is left of an order is a natural number, before and after every step.
LEMMA RemainIsNat ==
  ASSUME IInv
  PROVE  \A o \in OrderId : /\ Remain(o) \in Nat
                            /\ Remain(o) = order[o].amount - filled[o]
                            /\ order[o].amount \in Nat /\ filled[o] \in Nat
<1>1. \A o \in OrderId : filled[o] \in Nat /\ order[o].amount \in Nat /\ filled[o] <= order[o].amount
  BY OrderFacts DEF IInv, BookShape, NoOverfill
<1> QED BY <1>1 DEF Remain

\* The orders a level's list holds are orders.
LEMMA HeldType ==
  ASSUME IInv
  PROVE  \A l \in OrderId : ToSet(queue[l]) \in SUBSET OrderId
BY QueuedFacts DEF IInv, BookShape

\* RestRemainder puts the taker into one list and adds what it has left to the
\* total there.
LEMMA RestAdds ==
  ASSUME IInv, RestRemainder
  PROVE  /\ order' = order /\ filled' = filled /\ status' = status
         /\ \E l \in OrderId :
              /\ total' = [total EXCEPT ![l] = @ + Remain(taker)]
              /\ taker \notin ToSet(queue[l])
              /\ \A k \in OrderId : ToSet(queue'[k]) = IF k = l THEN ToSet(queue[k]) \cup {taker}
                                                             ELSE ToSet(queue[k])
<1>1. /\ pc = "rest" /\ pc \in Matching
      /\ UNCHANGED <<orderVars, cancelling>>
      /\ AddOrder(taker) /\ ~IsFinished(taker)
  BY DEF RestRemainder, Leftover, PC, Processing, Matching
<1>2. /\ taker \in OrderId /\ Fresh(taker)
      /\ \A p \in OrderId : index[p] # NoLevel => p < taker
      /\ \A k \in tree : k < taker
  BY <1>1, IndexedAreOlder
<1>3. BookShape
  BY DEF IInv
<1> QED BY <1>1, <1>2, <1>3, AddOrderKeepsShape DEF orderVars

\* Settle takes a maker that is finished out of its list, and what it has left,
\* if it waits there, out of the total.
LEMMA SettleRemoves ==
  ASSUME IInv, Settle
  PROVE  /\ order' = order /\ filled' = filled /\ status' = status
         /\ level \in OrderId /\ maker \in OrderId
         /\ \/ queue' = queue /\ total' = total
            \/ /\ IsFinished(maker)
               /\ total' = IF maker \in ToSet(queue[level])
                             THEN [total EXCEPT ![level] = @ - Remain(maker)] ELSE total
               /\ \A k \in OrderId : ToSet(queue'[k]) = IF k = level THEN ToSet(queue[k]) \ {maker}
                                                                 ELSE ToSet(queue[k])
<1>1. /\ order' = order /\ filled' = filled /\ status' = status
      /\ level \in OrderId /\ maker \in OrderId
  BY DEF Settle, orderVars, IInv, MatcherInv, AtLevel
<1>2. CASE IsFinished(maker)
  <2>1. /\ queue' = [queue EXCEPT ![level] = RemoveFirst(@, maker)]
        /\ total' = IF maker \in ToSet(queue[level])
                      THEN [total EXCEPT ![level] = @ - Remain(maker)] ELSE total
    BY <1>2 DEF Settle, LevelRemoveOrder
  <2>2. \A k \in OrderId : ToSet(queue'[k]) = IF k = level THEN ToSet(queue[k]) \ {maker}
                                                         ELSE ToSet(queue[k])
    BY <1>1, <2>1, RemovalFromQueue DEF IInv, BookShape
  <2> QED BY <1>1, <1>2, <2>1, <2>2
<1>3. CASE ~IsFinished(maker)
  BY <1>1, <1>3 DEF Settle
<1> QED BY <1>2, <1>3

\* CancelRemove takes an order out of the list its entry points to and, unless
\* the matcher overwrites it, what it has left out of the total.
LEMMA CancelTakes ==
  ASSUME IInv, NEW o \in OrderId, CancelRemove(o)
  PROVE  /\ order' = order /\ filled' = filled /\ status' = status
         /\ index[o] \in OrderId
         /\ o \notin ToSet(queue[index[o]]) => Remain(o) = 0
         /\ \/ total' = total
            \/ total' = [total EXCEPT ![index[o]] = @ - Remain(o)]
         /\ \A k \in OrderId : ToSet(queue'[k]) = IF k = index[o] THEN ToSet(queue[k]) \ {o}
                                                        ELSE ToSet(queue[k])
<1>1. PICK lost \in BOOLEAN : RemoveOrder(o, lost)
  BY DEF CancelRemove, LostUpdates
<1>2. index[o] \in OrderId /\ index[o] # NoLevel
  BY DEF CancelRemove, IInv, BookShape, BookTypeOK
<1>3. queue' = [queue EXCEPT ![index[o]] = RemoveFirst(@, o)]
  BY <1>1 DEF RemoveOrder
<1>4. \A k \in OrderId : ToSet(queue'[k]) = IF k = index[o] THEN ToSet(queue[k]) \ {o}
                                                       ELSE ToSet(queue[k])
  BY <1>2, <1>3, RemovalFromQueue DEF IInv, BookShape
<1>5. \/ total' = total
      \/ total' = [total EXCEPT ![index[o]] = @ - Remain(o)]
  <2>1. total' = [total EXCEPT ![index[o]] = IF lost THEN @ ELSE @ - Remain(o)]
    BY <1>1 DEF RemoveOrder
  <2>2. total \in [OrderId -> Int]
    BY DEF IInv, BookShape, BookTypeOK
  <2>3. CASE lost
    BY <1>2, <2>1, <2>2, <2>3
  <2>4. CASE ~lost
    BY <2>1, <2>4
  <2> QED BY <2>3, <2>4
<1>6. o \notin ToSet(queue[index[o]]) => Remain(o) = 0
  BY <1>2 DEF IInv, BookShape, StaleEntriesAreFilled
<1> QED BY <1>2, <1>4, <1>5, <1>6 DEF CancelRemove, orderVars

\* A trade adds the same amount to what the two orders have filled.
LEMMA TradeFills ==
  ASSUME IInv, Trade
  PROVE  /\ order' = order /\ queue' = queue /\ total' = total /\ index' = index
         /\ taker \in OrderId /\ maker \in OrderId /\ taker # maker
         /\ MatchAmount \in Nat
         /\ MatchAmount <= Remain(taker) /\ MatchAmount <= Remain(maker)
         /\ \A o \in OrderId : /\ filled'[o] = IF o \in {taker, maker} THEN filled[o] + MatchAmount
                                                                  ELSE filled[o]
                               /\ status'[o] = IF o \in {taker, maker}
                                                 THEN StatusAfterFill(o, MatchAmount)
                                                 ELSE status[o]
<1>1. /\ pc = "trade" /\ order' = order /\ queue' = queue /\ total' = total /\ index' = index
      /\ UpdateFilled(taker, maker, MatchAmount)
  BY DEF Trade, bookVars
<1>2. /\ taker \in OrderId /\ maker \in OrderId /\ maker < taker
      /\ MatchAmount \in Nat
      /\ MatchAmount <= Remain(taker) /\ MatchAmount <= Remain(maker)
  BY <1>1, TradeFacts
<1>3. taker # maker
  BY <1>2 DEF OrderId
<1>4. filled \in [OrderId -> Nat] /\ status \in [OrderId -> OrderStatus]
  BY DEF IInv, BookShape, BookTypeOK
<1>5. /\ filled' = [filled EXCEPT ![taker] = @ + MatchAmount, ![maker] = @ + MatchAmount]
      /\ status' = [status EXCEPT ![taker] = StatusAfterFill(taker, MatchAmount),
                                  ![maker] = StatusAfterFill(maker, MatchAmount)]
  BY <1>1 DEF UpdateFilled
<1> HIDE DEF MatchAmount
<1>6. \A o \in OrderId : filled'[o] = IF o \in {taker, maker} THEN filled[o] + MatchAmount
                                                          ELSE filled[o]
  BY <1>2, <1>3, <1>4, <1>5
<1>7. \A o \in OrderId : status'[o] = IF o \in {taker, maker} THEN StatusAfterFill(o, MatchAmount)
                                                          ELSE status[o]
  BY <1>2, <1>3, <1>4, <1>5
<1> QED BY <1>1, <1>2, <1>3, <1>6, <1>7

-----------------------------------------------------------------------------
(* Depth.                                                                  *)

\* The depth of the levels, with what is left of an order written out.
DepthIs(tot, ord, fil, held) ==
  \A l \in OrderId : tot[l] >= LeftSum(ord, fil, held[l])

Held == [l \in OrderId |-> ToSet(queue[l])]

\* The depth of a side, written out.
LEMMA DepthUnfolded ==
  ASSUME TRUE
  PROVE  /\ DepthCovers <=> DepthIs(total, order, filled, Held)
         /\ DepthCovers' <=> DepthIs(total', order', filled', Held')
<1>1. \A S : RemainIn(S) = LeftSum(order, filled, S)
  BY DEF RemainIn, Remain, LeftSum, MapThenSumSet, MapThenFoldSet
<1>2. DepthCovers' <=> \A l \in OrderId : total'[l] >= LeftSum(order', filled', ToSet(queue'[l]))
  BY DEF DepthCovers, RemainIn, Remain, LeftSum, MapThenSumSet, MapThenFoldSet
<1> QED BY <1>1, <1>2 DEF DepthCovers, DepthIs, Held

\* One order and what it has left leave a level.
LEMMA DepthAfterRemoval ==
  ASSUME NEW tot, NEW ord, NEW fil, NEW S \in SUBSET OrderId, NEW o \in OrderId,
         \A p \in OrderId : ord[p].amount - fil[p] \in Nat,
         tot \in Int, tot >= LeftSum(ord, fil, S)
  PROVE  /\ tot >= LeftSum(ord, fil, S \ {o})
         /\ o \in S => tot - (ord[o].amount - fil[o]) >= LeftSum(ord, fil, S \ {o})
<1>1. LeftSum(ord, fil, S) \in Int /\ LeftSum(ord, fil, S \ {o}) \in Int
  BY LeftSumLaws
<1>2. o \in S => LeftSum(ord, fil, S) = (ord[o].amount - fil[o]) + LeftSum(ord, fil, S \ {o})
  BY LeftSumLaws
<1>3. o \notin S => S \ {o} = S
  OBVIOUS
<1> DEFINE left == ord[o].amount - fil[o]
           before == LeftSum(ord, fil, S)
           after == LeftSum(ord, fil, S \ {o})
<1>4. left \in Nat
  OBVIOUS
<1>5. before \in Int /\ after \in Int /\ tot >= before
  BY <1>1
<1>6. IF o \in S THEN before = left + after ELSE before = after
  BY <1>2, <1>3
<1> HIDE DEF left, before, after
<1>7. tot >= after /\ (o \in S => tot - left >= after)
  BY <1>4, <1>5, <1>6
<1> QED BY <1>7 DEF left, after

\* No step lets the depth of a level understate what waits there.
LEMMA DepthStep ==
  ASSUME IInv, DepthCovers, [Next]_vars
  PROVE  DepthCovers'
<1>1. DepthIs(total, order, filled, Held)
  BY DepthUnfolded
<1>2. /\ \A o \in OrderId : order[o].amount - filled[o] \in Nat
      /\ \A l \in OrderId : total[l] \in Int /\ ToSet(queue[l]) \in SUBSET OrderId
      /\ total \in [OrderId -> Int]
  BY RemainIsNat, HeldType DEF IInv, BookShape, BookTypeOK
<1>3. \A l \in OrderId : total[l] >= LeftSum(order, filled, ToSet(queue[l]))
  BY <1>1 DEF DepthIs, Held
<1> SUFFICES ASSUME NEW l \in OrderId
             PROVE  total'[l] >= LeftSum(order', filled', ToSet(queue'[l]))
  BY DepthUnfolded DEF DepthIs, Held
<1>4. CASE UNCHANGED <<total, queue, order, filled>>
  BY <1>3, <1>4
<1>5. CASE Trade
  <2>1. /\ order' = order /\ queue' = queue /\ total' = total
        /\ \A o \in OrderId : /\ order[o].amount - filled'[o] \in Int
                              /\ order[o].amount - filled'[o] <= order[o].amount - filled[o]
    <3>1. /\ \A o \in OrderId : filled'[o] = IF o \in {taker, maker} THEN filled[o] + MatchAmount
                                                                   ELSE filled[o]
          /\ MatchAmount \in Nat
      BY <1>5, TradeFills
    <3> QED BY <1>5, <3>1, TradeFills, RemainIsNat
  <2>2. LeftSum(order, filled', ToSet(queue[l])) <= LeftSum(order, filled, ToSet(queue[l]))
    BY <1>2, <2>1, LeftSumShrinks
  <2>3. LeftSum(order, filled', ToSet(queue[l])) \in Int /\ LeftSum(order, filled, ToSet(queue[l])) \in Int
    BY <1>2, <2>1, LeftSumLaws
  <2> QED BY <1>2, <1>3, <2>1, <2>2, <2>3
<1>6. CASE Settle
  <2>1. CASE queue' = queue /\ total' = total
    BY <1>3, <1>6, <2>1, SettleRemoves
  <2>2. CASE ~(queue' = queue /\ total' = total)
    <3>1. /\ order' = order /\ filled' = filled
          /\ level \in OrderId /\ maker \in OrderId
          /\ total' = IF maker \in ToSet(queue[level])
                        THEN [total EXCEPT ![level] = @ - Remain(maker)] ELSE total
          /\ \A k \in OrderId : ToSet(queue'[k]) = IF k = level THEN ToSet(queue[k]) \ {maker}
                                                           ELSE ToSet(queue[k])
      BY <1>6, <2>2, SettleRemoves
    <3>2. CASE l = level
      <4>1. total'[l] = IF maker \in ToSet(queue[l]) THEN total[l] - Remain(maker) ELSE total[l]
        BY <1>2, <3>1, <3>2
      <4>2. /\ total[l] >= LeftSum(order, filled, ToSet(queue[l]) \ {maker})
            /\ maker \in ToSet(queue[l]) =>
                 total[l] - Remain(maker) >= LeftSum(order, filled, ToSet(queue[l]) \ {maker})
        BY <1>2, <1>3, <3>1, DepthAfterRemoval DEF Remain
      <4> QED BY <3>1, <3>2, <4>1, <4>2
    <3>3. CASE l # level
      BY <1>2, <1>3, <3>1, <3>3
    <3> QED BY <3>2, <3>3
  <2> QED BY <2>1, <2>2
<1>7. CASE RestRemainder
  <2>1. PICK k \in OrderId :
          /\ total' = [total EXCEPT ![k] = @ + Remain(taker)]
          /\ taker \notin ToSet(queue[k])
          /\ \A j \in OrderId : ToSet(queue'[j]) = IF j = k THEN ToSet(queue[j]) \cup {taker}
                                                         ELSE ToSet(queue[j])
    BY <1>7, RestAdds
  <2>2. order' = order /\ filled' = filled /\ taker \in OrderId
    BY <1>7, RestAdds DEF RestRemainder, IInv, MatcherInv, PC, Processing
  <2>3. CASE l = k
    <3> DEFINE S == ToSet(queue[l])
    <3>1. total'[l] = total[l] + Remain(taker) /\ ToSet(queue'[l]) = S \cup {taker}
      BY <1>2, <2>1, <2>3
    <3>2. /\ S \cup {taker} \in SUBSET OrderId /\ taker \in S \cup {taker}
          /\ (S \cup {taker}) \ {taker} = S
      BY <1>2, <2>1, <2>2, <2>3
    <3>3. LeftSum(order, filled, S \cup {taker}) = Remain(taker) + LeftSum(order, filled, S)
      <4>1. \A o \in OrderId : order[o].amount - filled[o] \in Int
        BY <1>2
      <4> DEFINE R == S \cup {taker}
      <4>2. R \in SUBSET OrderId /\ taker \in R /\ R \ {taker} = S
        BY <3>2
      <4> HIDE DEF R
      <4>3. LeftSum(order, filled, R)
              = (order[taker].amount - filled[taker]) + LeftSum(order, filled, R \ {taker})
        BY <4>1, <4>2, LeftSumLaws
      <4> QED BY <4>2, <4>3 DEF R, Remain
    <3>4. LeftSum(order, filled, S) \in Int /\ Remain(taker) \in Int
      BY <1>2, <2>2, LeftSumLaws DEF Remain
    <3> HIDE DEF S
    <3>5. total[l] >= LeftSum(order, filled, S) /\ total[l] \in Int
      BY <1>2, <1>3 DEF S
    <3> QED BY <2>2, <3>1, <3>3, <3>4, <3>5
  <2>4. CASE l # k
    BY <1>2, <1>3, <2>1, <2>2, <2>4
  <2> QED BY <2>3, <2>4
<1>8. ASSUME NEW o \in OrderId, CancelRemove(o)
      PROVE  total'[l] >= LeftSum(order', filled', ToSet(queue'[l]))
  <2>1. /\ order' = order /\ filled' = filled
        /\ index[o] \in OrderId
        /\ o \notin ToSet(queue[index[o]]) => Remain(o) = 0
        /\ \/ total' = total
           \/ total' = [total EXCEPT ![index[o]] = @ - Remain(o)]
        /\ \A k \in OrderId : ToSet(queue'[k]) = IF k = index[o] THEN ToSet(queue[k]) \ {o}
                                                        ELSE ToSet(queue[k])
    BY <1>8, CancelTakes
  <2>2. CASE l = index[o]
    <3>1. total'[l] \in {total[l], total[l] - Remain(o)}
      BY <1>2, <2>1, <2>2
    <3>2. o \notin ToSet(queue[l]) => total'[l] = total[l]
      BY <1>2, <2>1, <2>2, <3>1
    <3>3. /\ total[l] >= LeftSum(order, filled, ToSet(queue[l]) \ {o})
          /\ o \in ToSet(queue[l]) =>
               total[l] - Remain(o) >= LeftSum(order, filled, ToSet(queue[l]) \ {o})
      BY <1>2, <1>3, DepthAfterRemoval DEF Remain
    <3> QED BY <2>1, <2>2, <3>1, <3>2, <3>3
  <2>3. CASE l # index[o]
    BY <1>2, <1>3, <2>1, <2>3
  <2> QED BY <2>2, <2>3
<1>9. \/ UNCHANGED <<total, queue, order, filled>>
      \/ Trade \/ Settle \/ RestRemainder
      \/ \E o \in OrderId : CancelRemove(o)
  BY DEF Next, Process, Match, Cancel, vars, ReceiveForBook, ReceiveStop, ReceiveUnknown,
         FokCheck, FindLevel, FindMaker, LeaveLevel, PublishTrades, ReportOrders,
         CheckStops, FinishOrder, DropRemainder, AnnounceOrder, CancelFinish,
         bookVars, orderVars
<1> QED BY <1>4, <1>5, <1>6, <1>7, <1>8, <1>9

\* The depth of a level never understates what waits there, although cancels
\* race with the matcher for it.
THEOREM DepthAlwaysCovers == Spec => []DepthCovers
<1>1. Init => DepthCovers
  <2> SUFFICES ASSUME Init, NEW l \in OrderId
               PROVE  total[l] >= LeftSum(order, filled, ToSet(queue[l]))
    BY DepthUnfolded DEF DepthIs, Held
  <2>1. ToSet(queue[l]) = {} /\ total[l] = 0
    BY DEF Init, BookInit, ToSet
  <2>2. \A o \in OrderId : order[o].amount - filled[o] \in Int
    BY InitInvariant, RemainIsNat
  <2>3. LeftSum(order, filled, {}) = 0
    BY <2>2, LeftSumLaws
  <2> QED BY <2>1, <2>3
<1> QED BY <1>1, DepthStep, Invariance, PTL DEF Spec

\* The levels the FOK check adds up hold every order that waits within the
\* price of the taker.
LEMMA FokCountsEverybody ==
  ASSUME IInv, DepthCovers, WaitingOrdersAreReachable
  PROVE  RemainIn({o \in OrderId : /\ Queued(o)
                                   /\ order[o].side = MakerSide
                                   /\ Crosses(o)}) <= Available
<1> DEFINE S == {o \in OrderId : /\ Queued(o)
                                 /\ order[o].side = MakerSide
                                 /\ Crosses(o)}
           L == {l \in Levels(MakerSide) : Crosses(l)}
           f == Left(order, filled)
<1>1. /\ \A o \in OrderId : order[o].amount - filled[o] \in Int
      /\ \A l \in OrderId : total[l] \in Int /\ ToSet(queue[l]) \in SUBSET OrderId
  BY RemainIsNat, HeldType DEF IInv, BookShape, BookTypeOK
<1>2. S \in SUBSET OrderId /\ L \in SUBSET OrderId
  BY DEF Levels, IInv, BookShape, BookTypeOK
<1>3. IsFiniteSet(S) /\ IsFiniteSet(L)
  <2>1. IsFiniteSet(OrderId)
    BY OrdersAssumption, FS_Interval DEF OrderId
  <2> QED BY <1>2, <2>1, FS_Subset
<1>4. \A o \in OrderId : f[o] \in Int
  BY <1>1 DEF Left
<1>5. \A l \in OrderId : \A o \in ToSet(queue[l]) :
        /\ o \in OrderId /\ index[o] = l /\ l \in tree
        /\ order[o].side = order[l].side /\ order[o].price = order[l].price
  <2> TAKE l \in OrderId
  <2> TAKE o \in ToSet(queue[l])
  <2>1. o \in OrderId /\ index[o] = l
    BY QueuedFacts DEF IInv, BookShape
  <2>2. queue[l] # <<>>
    BY DEF ToSet
  <2> QED BY <2>1, <2>2 DEF IInv, BookShape, QueuesMatchIndex, WaitingOrdersAreReachable
<1>6. \A o \in S : index[o] \in L /\ o \in ToSet(queue[index[o]])
  BY <1>5 DEF Queued, Levels, Crosses
<1>7. \A l \in L : {o \in S : index[o] = l} = ToSet(queue[l])
  <2> TAKE l \in L
  <2>1. ASSUME NEW o \in ToSet(queue[l])
        PROVE  o \in S /\ index[o] = l
    BY <1>2, <1>5 DEF Queued, Levels, Crosses
  <2> QED BY <1>6, <2>1
<1>8. \A l \in L : SumOf(f, {o \in S : index[o] = l}) <= total[l] /\ total[l] \in Int
  <2> TAKE l \in L
  <2>1. total[l] >= LeftSum(order, filled, ToSet(queue[l]))
    BY <1>2, DepthUnfolded DEF DepthIs, Held
  <2>2. LeftSum(order, filled, ToSet(queue[l])) = SumOf(f, ToSet(queue[l]))
    BY <1>1, <1>2, LeftSumIsSum
  <2>3. SumOf(f, ToSet(queue[l])) \in Int
    <3>1. ToSet(queue[l]) \in SUBSET OrderId /\ IsFiniteSet(ToSet(queue[l]))
      BY <1>1, <1>2, LeftSumIsSum
    <3> HIDE DEF f
    <3> QED BY <1>4, <3>1, SumType
  <2> HIDE DEF f, L, S
  <2> QED BY <1>1, <1>2, <1>7, <2>1, <2>2, <2>3
<1>9. RemainIn(S) = SumOf(f, S)
  <2>1. RemainIn(S) = LeftSum(order, filled, S)
    BY DEF RemainIn, Remain, LeftSum, MapThenSumSet, MapThenFoldSet
  <2> HIDE DEF S
  <2> QED BY <1>1, <1>2, <2>1, LeftSumIsSum
<1>10. Available = SumOf(total, L)
  BY DEF Available, SumOf
<1> HIDE DEF S, L, f
<1>11. \A x \in S : f[x] \in Int /\ index[x] \in L
  BY <1>2, <1>4, <1>6
<1>12. SumOf(f, S) <= SumOf(total, L)
  BY <1>3, <1>8, <1>11, SumByParts
<1> QED BY <1>9, <1>10, <1>12 DEF S

\* Unless clients cancel orders that are filled already, a FOK order is turned
\* away only when the orders within its price are not enough for it.
THEOREM FokRefusedRightly ==
  CancelScope # AnyIndexed => (Spec => FokRefusalIsRight)
<1> SUFFICES ASSUME CancelScope # AnyIndexed
             PROVE  Spec => FokRefusalIsRight
  OBVIOUS
<1>1. ASSUME IInv, DepthCovers, FokCheck /\ pc' = "rest"
      PROVE  RemainIn({o \in OrderId : /\ Queued(o)
                                       /\ order[o].side = MakerSide
                                       /\ Crosses(o)}) < Remain(taker)
  <2> DEFINE S == {o \in OrderId : /\ Queued(o)
                                   /\ order[o].side = MakerSide
                                   /\ Crosses(o)}
  <2>1. RemainIn(S) <= Available
    BY <1>1, FokCountsEverybody DEF IInv, ReachInv
  <2>2. Available < Remain(taker)
    BY <1>1 DEF FokCheck
  <2>3. RemainIn(S) \in Int /\ Remain(taker) \in Int
    <3>1. /\ S \in SUBSET OrderId
          /\ \A o \in OrderId : order[o].amount - filled[o] \in Int /\ Remain(o) \in Int
      BY <1>1, RemainIsNat
    <3>2. RemainIn(S) = LeftSum(order, filled, S)
      BY DEF RemainIn, Remain, LeftSum, MapThenSumSet, MapThenFoldSet
    <3>3. taker \in OrderId
      BY <1>1 DEF FokCheck, IInv, MatcherInv, PC, Processing
    <3> HIDE DEF S
    <3> QED BY <3>1, <3>2, <3>3, LeftSumLaws
  <2>4. Available \in Int
    <3> DEFINE L == {l \in Levels(MakerSide) : Crosses(l)}
    <3>1. Available = SumOf(total, L)
      BY DEF Available, SumOf
    <3>2. L \in SUBSET OrderId /\ \A l \in L : total[l] \in Int
      BY <1>1 DEF Levels, IInv, BookShape, BookTypeOK
    <3>3. IsFiniteSet(L)
      <4>1. IsFiniteSet(OrderId)
        BY OrdersAssumption, FS_Interval DEF OrderId
      <4> QED BY <3>2, <4>1, FS_Subset
    <3> HIDE DEF L
    <3> QED BY <3>1, <3>2, <3>3, SumType
  <2> HIDE DEF S
  <2>5. RemainIn(S) < Remain(taker)
    BY <2>1, <2>2, <2>3, <2>4
  <2> QED BY <2>5 DEF S
<1> QED BY <1>1, Invariance, DepthAlwaysCovers, PTL DEF FokRefusalIsRight
-----------------------------------------------------------------------------
(* Trades and fills.                                                       *)

\* What the trades of a result add up to for an order.
TradedSum(o, list) ==
  FoldLeft(LAMBDA sum, t : IF o \in {t.taker, t.maker} THEN sum + t.amount ELSE sum,
           0, list)

Adds(o) == [p \in Int \X TradeRecord |->
              IF o \in {p[2].taker, p[2].maker} THEN p[1] + p[2].amount ELSE p[1]]

\* That sum starts at 0 and grows by every trade that names the order.
LEMMA TradedSumLaws ==
  ASSUME NEW o, NEW list \in Seq(TradeRecord)
  PROVE  /\ TradedSum(o, list) \in Int
         /\ list = <<>> => TradedSum(o, list) = 0
         /\ \A t \in TradeRecord :
              TradedSum(o, Append(list, t))
                = IF o \in {t.taker, t.maker} THEN TradedSum(o, list) + t.amount
                                              ELSE TradedSum(o, list)
<1> DEFINE op == Adds(o)
<1>1. \A v \in Int, t \in TradeRecord :
        op[<<v, t>>] = IF o \in {t.taker, t.maker} THEN v + t.amount ELSE v
  BY DEF Adds
<1>2. \A t \in TradeRecord : t.amount \in Int
  BY DEF TradeRecord
<1> HIDE DEF op
<1>3. \A v \in Int, t \in TradeRecord : op[<<v, t>>] \in Int
  <2> TAKE v \in Int, t \in TradeRecord
  <2>1. op[<<v, t>>] \in {v + t.amount, v}
    BY <1>1
  <2> QED BY <1>2, <2>1
<1>4. \A q \in Seq(TradeRecord) : Folds(op, 0, q, Int, TradeRecord)
  BY <1>3 DEF Folds
<1>5. ASSUME NEW q \in Seq(TradeRecord)
      PROVE  TradedSum(o, q) = FoldOver(op, 0, q)
  <2> DEFINE n == Len(q)
             P(it) == it = [s \in SUBSET DOMAIN q |->
                              IF s = {} THEN 0
                              ELSE IF o \in {q[Max(s)].taker, q[Max(s)].maker}
                                     THEN it[s \ {Max(s)}] + q[Max(s)].amount
                                     ELSE it[s \ {Max(s)}]]
             I == CHOOSE it : P(it)
  <2>1. TradedSum(o, q) = I[DOMAIN q]
    BY DEF TradedSum, FoldLeft, MapThenFoldSet
  <2>2. PICK g : IsSeqFold(g, Int, op, 0, q)
    <3>1. \E g : IsSeqFold(g, Int, op, 0, q)
      BY <1>4, SeqFoldExists
    <3> QED BY <3>1
  <2>3. \A s \in SUBSET DOMAIN q : s # {} => q[Max(s)] \in TradeRecord /\ s \ {Max(s)} \in SUBSET DOMAIN q
    <3>1. DOMAIN q = 1..n /\ n \in Nat /\ \A i \in 1..n : q[i] \in TradeRecord
      OBVIOUS
    <3> HIDE DEF n
    <3>2. \A s \in SUBSET (1..n) : s # {} => Max(s) \in s
      BY <3>1, MaxPosition
    <3> QED BY <3>1, <3>2
  <2>4. P(g)
    <3>1. g = [s \in SUBSET DOMAIN q |-> g[s]]
      BY <2>2 DEF IsSeqFold
    <3>2. ASSUME NEW s \in SUBSET DOMAIN q
          PROVE  g[s] = IF s = {} THEN 0
                        ELSE IF o \in {q[Max(s)].taker, q[Max(s)].maker}
                               THEN g[s \ {Max(s)}] + q[Max(s)].amount
                               ELSE g[s \ {Max(s)}]
      <4>1. g[s] = IF s = {} THEN 0 ELSE op[<<g[s \ {Max(s)}], q[Max(s)]>>]
        BY <2>2 DEF IsSeqFold
      <4>2. s # {} => g[s \ {Max(s)}] \in Int
        BY <2>2, <2>3 DEF IsSeqFold
      <4> QED BY <1>1, <2>3, <4>1, <4>2
    <3> QED BY <3>1, <3>2
  <2>5. P(I)
    BY <2>4
  <2> HIDE DEF I
  <2>6. /\ I[{}] = 0
        /\ \A s \in SUBSET DOMAIN q : s # {} =>
             I[s] = IF o \in {q[Max(s)].taker, q[Max(s)].maker}
                      THEN I[s \ {Max(s)}] + q[Max(s)].amount
                      ELSE I[s \ {Max(s)}]
    BY <2>5
  <2> HIDE DEF P
  <2>7. \A s \in SUBSET DOMAIN q :
          s # {} /\ I[s \ {Max(s)}] \in Int
            => I[s] = op[<<I[s \ {Max(s)}], q[Max(s)]>>]
    BY <1>1, <2>3, <2>6
  <2>8. FoldsAs(I, Int, op, 0, q)
    BY <2>6, <2>7 DEF FoldsAs
  <2> DEFINE S == DOMAIN q
  <2>9. S = DOMAIN q
    OBVIOUS
  <2> HIDE DEF S
  <2>10. I[S] = FoldOver(op, 0, q)
    BY <1>4, <2>8, <2>9, FoldMatches
  <2> QED BY <2>1, <2>9, <2>10
<1>6. FoldOver(op, 0, list) \in Int /\ (list = <<>> => FoldOver(op, 0, list) = 0)
  BY <1>4, FoldOverType
<1>7. ASSUME NEW t \in TradeRecord
      PROVE  FoldOver(op, 0, Append(list, t)) = op[<<FoldOver(op, 0, list), t>>]
  <2> DEFINE r == Append(list, t)
  <2>1. IsAppend(r, list, t)
    BY DEF IsAppend
  <2> HIDE DEF r
  <2>2. FoldOver(op, 0, r) = op[<<FoldOver(op, 0, list), t>>]
    BY <1>4, <2>1, FoldOverAppend
  <2> QED BY <2>2 DEF r
<1>8. \A t \in TradeRecord : TradedSum(o, Append(list, t)) = FoldOver(op, 0, Append(list, t))
  <2>1. \A t \in TradeRecord : Append(list, t) \in Seq(TradeRecord)
    OBVIOUS
  <2> QED BY <1>5, <2>1
<1>9. TradedSum(o, list) = FoldOver(op, 0, list)
  BY <1>5
<1>10. ASSUME NEW t \in TradeRecord
       PROVE  TradedSum(o, Append(list, t))
                = IF o \in {t.taker, t.maker} THEN TradedSum(o, list) + t.amount
                                              ELSE TradedSum(o, list)
  <2>1. TradedSum(o, Append(list, t)) = op[<<TradedSum(o, list), t>>]
    BY <1>7, <1>8, <1>9
  <2>2. TradedSum(o, list) \in Int
    BY <1>6, <1>9
  <2> QED BY <1>1, <2>1, <2>2
<1> QED BY <1>6, <1>9, <1>10

\* The trades of the order in hand that no event has told of yet.
Unpublished == {"check", "best", "first", "trade", "settle", "leave", "publish"}

TradesInv ==
  /\ trades \in Seq(TradeRecord)
  /\ published \in [OrderId -> Int]
  /\ pc = "check" => trades = <<>>
  /\ \A o \in OrderId :
       filled[o] = published[o] + (IF pc \in Unpublished THEN TradedSum(o, trades) ELSE 0)

\* The events and the trades in hand add up to what is filled, at every step.
LEMMA TradesStep ==
  ASSUME IInv, TradesInv, [Next]_vars
  PROVE  TradesInv'
<1>1. filled \in [OrderId -> Nat] /\ published \in [OrderId -> Int] /\ trades \in Seq(TradeRecord)
  BY DEF IInv, BookShape, BookTypeOK, TradesInv
<1>2. \A o \in OrderId : /\ TradedSum(o, trades) \in Int
                         /\ trades = <<>> => TradedSum(o, trades) = 0
                         /\ TradedSum(o, <<>>) = 0
  <2>1. <<>> \in Seq(TradeRecord)
    OBVIOUS
  <2> QED BY <1>1, <2>1, TradedSumLaws
<1>3. ASSUME UNCHANGED <<filled, published, trades>>,
             \/ pc \in Unpublished <=> pc' \in Unpublished
             \/ trades = <<>>,
             pc' = "check" => pc = "check"
      PROVE  TradesInv'
  BY <1>2, <1>3 DEF TradesInv
<1>4. ASSUME Receive(next), UNCHANGED <<filled, published>>
      PROVE  TradesInv'
  <2>1. /\ pc = "idle" /\ trades' = <<>> /\ filled' = filled /\ published' = published
    BY <1>4 DEF Receive
  <2>2. \A o \in OrderId : filled[o] = published[o]
    BY <1>1, <2>1 DEF TradesInv, Unpublished
  <2>3. trades' \in Seq(TradeRecord)
    BY <2>1
  <2> QED BY <1>1, <1>2, <2>1, <2>2, <2>3 DEF TradesInv
<1>5. CASE ReceiveForBook \/ ReceiveStop \/ ReceiveUnknown
  <2>1. Receive(next) /\ UNCHANGED <<filled, published>>
    BY <1>5 DEF ReceiveForBook, ReceiveStop, ReceiveUnknown, Receive, orderVars, eventVars
  <2> QED BY <1>4, <2>1
<1>6. CASE Trade
  <2> DEFINE t == [taker |-> taker, maker |-> maker, price |-> order[level].price,
                   amount |-> MatchAmount]
  <2>1. /\ taker \in OrderId /\ maker \in OrderId /\ MatchAmount \in Nat
        /\ \A o \in OrderId : filled'[o] = IF o \in {taker, maker} THEN filled[o] + MatchAmount
                                                                ELSE filled[o]
    BY <1>6, TradeFills
  <2>2. /\ pc = "trade" /\ pc' = "settle" /\ published' = published
        /\ trades' = Append(trades, t)
    BY <1>6 DEF Trade, eventVars
  <2>3. order[level].price \in Nat
    BY <2>2, OrderFacts DEF IInv, BookShape, MatcherInv, AtLevel
  <2>4. t \in TradeRecord /\ t.taker = taker /\ t.maker = maker /\ t.amount = MatchAmount
    BY <2>1, <2>3 DEF TradeRecord
  <2> HIDE DEF t, MatchAmount
  <2>5. trades' \in Seq(TradeRecord)
    BY <1>1, <2>2, <2>4
  <2>6. \A o \in OrderId :
          TradedSum(o, trades') = IF o \in {taker, maker} THEN TradedSum(o, trades) + MatchAmount
                                                          ELSE TradedSum(o, trades)
    BY <1>1, <2>2, <2>4, TradedSumLaws
  <2>7. \A o \in OrderId : filled[o] = published[o] + TradedSum(o, trades)
    BY <2>2 DEF TradesInv, Unpublished
  <2>8. \A o \in OrderId : filled'[o] = published[o] + TradedSum(o, trades')
    <3> TAKE o \in OrderId
    <3> DEFINE before == TradedSum(o, trades)
               after == TradedSum(o, trades')
    <3>1. published[o] \in Int /\ before \in Int /\ MatchAmount \in Nat
          /\ filled[o] = published[o] + before
      BY <1>1, <1>2, <2>1, <2>7
    <3>2. \/ filled'[o] = filled[o] + MatchAmount /\ after = before + MatchAmount
          \/ filled'[o] = filled[o] /\ after = before
      BY <2>1, <2>6
    <3> HIDE DEF before, after
    <3>3. filled'[o] = published[o] + after
      BY <3>1, <3>2
    <3> QED BY <3>3 DEF after
  <2> QED BY <1>1, <2>2, <2>5, <2>8 DEF TradesInv, Unpublished
<1>7. CASE PublishTrades
  <2>1. /\ pc = "publish" /\ pc' = "report" /\ UNCHANGED <<filled, trades>>
        /\ published' = [o \in OrderId |-> published[o] + TradedAmount(o)]
    BY <1>7 DEF PublishTrades, orderVars
  <2>2. \A o \in OrderId : TradedAmount(o) = TradedSum(o, trades)
    BY DEF TradedAmount, TradedSum
  <2>3. published' \in [OrderId -> Int]
    BY <1>1, <1>2, <2>1, <2>2
  <2>4. \A o \in OrderId : filled[o] = published'[o] /\ published'[o] \in Int
    BY <1>1, <1>2, <2>1, <2>2 DEF TradesInv, Unpublished
  <2> QED BY <1>1, <2>1, <2>3, <2>4 DEF TradesInv, Unpublished
<1>8. CASE FokCheck \/ FindLevel \/ FindMaker \/ Settle \/ LeaveLevel
  <2>1. UNCHANGED <<filled, published, trades>>
    BY <1>8 DEF FokCheck, FindLevel, FindMaker, Settle, LeaveLevel, orderVars, eventVars
  <2>2. pc \in Unpublished /\ pc' # "check" /\ (pc' \in Unpublished \/ trades = <<>>)
    BY <1>8 DEF FokCheck, FindLevel, FindMaker, Settle, LeaveLevel, AfterMatch, Unpublished,
                TradesInv
  <2> QED BY <1>3, <2>1, <2>2
<1>9. CASE \/ ReportOrders \/ CheckStops \/ FinishOrder \/ DropRemainder \/ RestRemainder
           \/ AnnounceOrder
  <2>1. UNCHANGED <<filled, published, trades>>
    BY <1>9 DEF ReportOrders, CheckStops, FinishOrder, DropRemainder, RestRemainder,
                AnnounceOrder, orderVars, eventVars
  <2>2. pc \notin Unpublished /\ pc' \notin Unpublished
    BY <1>9 DEF ReportOrders, CheckStops, FinishOrder, DropRemainder, RestRemainder,
                AnnounceOrder, Unpublished
  <2> QED BY <1>3, <2>1, <2>2 DEF Unpublished
<1>10. CASE Cancel \/ UNCHANGED vars
  <2>1. UNCHANGED <<filled, published, trades, pc>>
    BY <1>10 DEF Cancel, CancelRemove, CancelFinish, vars, orderVars, procVars, eventVars
  <2> QED BY <1>3, <2>1
<1> QED BY <1>5, <1>6, <1>7, <1>8, <1>9, <1>10 DEF Next, Process, Match

\* Nobody is filled beyond the amount ordered, and between two orders the trade
\* events published add up to what each order has filled.
THEOREM FillsAlwaysPublished == Spec => []FillsArePublished
<1>1. Init => TradesInv
  BY DEF Init, OrdersInit, TradesInv, Unpublished
<1>2. IInv /\ TradesInv => FillsArePublished
  <2> SUFFICES ASSUME IInv, TradesInv
               PROVE  FillsArePublished
    OBVIOUS
  <2>1. ASSUME pc = "idle"
        PROVE  published = filled
    <3>1. filled \in [OrderId -> Nat] /\ published \in [OrderId -> Int]
      BY DEF IInv, BookShape, BookTypeOK, TradesInv
    <3>2. \A o \in OrderId : filled[o] = published[o]
      BY <2>1, <3>1 DEF TradesInv, Unpublished
    <3> QED BY <3>1, <3>2
  <2> QED BY <2>1 DEF FillsArePublished, IInv, BookShape, NoOverfill
<1> QED BY <1>1, <1>2, TradesStep, Invariance, PTL DEF Spec

-----------------------------------------------------------------------------
(* What becomes of the quantity of an order.                               *)

\* The orders whose leftover is kept.
Kept(o) == order[o].type \in {"limit", "iceberg"}

\* A kept order that has something left and that nobody has taken out is not
\* finished, and it waits in the book unless it is the one in hand.
NothingLostYet ==
  /\ cancelling \subseteq withdrawn
  /\ \A o \in OrderId : Kept(o) /\ Remain(o) > 0 /\ o \notin withdrawn => ~IsFinished(o)
  /\ pc # "panicked" =>
       \A o \in OrderId :
         (o < next /\ Kept(o) /\ Remain(o) > 0 /\ o \notin withdrawn)
           => Queued(o) \/ (o = taker /\ pc \in Matching)

\* That is kept by every step.
LEMMA NothingLostStep ==
  ASSUME IInv, NothingLostYet, [Next]_vars
  PROVE  NothingLostYet'
<1>1. /\ cancelling \subseteq withdrawn
      /\ \A o \in OrderId : Kept(o) /\ Remain(o) > 0 /\ o \notin withdrawn => ~IsFinished(o)
      /\ pc # "panicked" =>
           \A o \in OrderId :
             (o < next /\ Kept(o) /\ Remain(o) > 0 /\ o \notin withdrawn)
               => Queued(o) \/ (o = taker /\ pc \in Matching)
  BY DEF NothingLostYet
<1>2. pc \in Processing => taker \in OrderId /\ taker = next - 1
  BY DEF IInv, MatcherInv
<1>3. next \in Int /\ \A o \in OrderId : o \in Int /\ Remain(o) \in Nat
  BY RemainIsNat, OrdersAssumption DEF IInv, MatcherInv, OrderId
<1>4. ASSUME UNCHANGED <<order, filled, status, queue, next, taker, cancelling, withdrawn>>,
             pc # "panicked", pc' \in {"idle", "panicked"} \cup Processing,
             pc \in Matching => \/ pc' \in Matching \cup {"panicked"}
                                \/ Remain(taker) = 0 \/ ~Kept(taker) \/ taker \in withdrawn
      PROVE  NothingLostYet'
  BY <1>1, <1>2, <1>4 DEF NothingLostYet, Kept, Remain, IsFinished, Queued
<1>5. CASE ReceiveForBook \/ ReceiveStop
  <2>1. PICK o \in OrderId :
          /\ pc = "idle" /\ o = next /\ next' = next + 1 /\ taker' = o
          /\ UNCHANGED <<order, filled, status, queue, cancelling, withdrawn>>
          /\ \/ pc' \in {"check", "best"}
             \/ pc' = "idle" /\ IsStop(o)
    BY <1>5 DEF ReceiveForBook, ReceiveStop, Receive, orderVars, bookVars
  <2>2. pc \notin Matching /\ {"check", "best"} \subseteq Matching /\ pc # "panicked"
    BY <2>1 DEF PC, Processing, Matching
  <2>3. \A p \in OrderId : p < next' => p < next \/ p = o
    BY <1>3, <2>1
  <2> QED BY <1>1, <2>1, <2>2, <2>3 DEF NothingLostYet, Kept, Remain, IsFinished, Queued, IsStop
<1>6. CASE ReceiveUnknown
  <2>1. PICK o \in OrderId :
          /\ pc = "idle" /\ o = next /\ next' = next + 1 /\ taker' = o
          /\ UNCHANGED <<order, filled, queue, cancelling, withdrawn, pc>>
          /\ order[o].type = "unknown"
          /\ status' = [status EXCEPT ![o] = "rejected"]
    BY <1>6 DEF ReceiveUnknown, Receive, bookVars
  <2>2. pc \notin Matching /\ pc # "panicked" /\ ~Kept(o)
    BY <2>1 DEF PC, Processing, Matching, Kept
  <2>3. \A p \in OrderId : p # o => (p < next' => p < next) /\ status'[p] = status[p]
    BY <1>3, <2>1 DEF IInv, BookShape, BookTypeOK
  <2> QED BY <1>1, <2>1, <2>2, <2>3 DEF NothingLostYet, Kept, Remain, IsFinished, Queued
<1>7. CASE FokCheck \/ FindLevel \/ FindMaker \/ LeaveLevel
  <2>1. UNCHANGED <<order, filled, status, queue, next, taker, cancelling, withdrawn>>
    BY <1>7 DEF FokCheck, FindLevel, FindMaker, LeaveLevel, orderVars, bookVars
  <2>2. pc \in Matching /\ pc' \in Matching
    BY <1>7 DEF FokCheck, FindLevel, FindMaker, LeaveLevel, AfterMatch, PC, Processing, Matching
  <2> QED BY <1>4, <2>1, <2>2 DEF PC, Processing, Matching
<1>8. CASE Trade
  <2>1. /\ order' = order /\ queue' = queue
        /\ MatchAmount \in Nat
        /\ \A o \in OrderId : /\ filled'[o] = IF o \in {taker, maker} THEN filled[o] + MatchAmount
                                                                     ELSE filled[o]
                              /\ status'[o] = IF o \in {taker, maker}
                                                THEN StatusAfterFill(o, MatchAmount)
                                                ELSE status[o]
    BY <1>8, TradeFills
  <2>2. /\ UNCHANGED <<next, taker, cancelling, withdrawn>> /\ pc \in Matching /\ pc' \in Matching
        /\ pc # "panicked"
    BY <1>8 DEF Trade, PC, Processing, Matching
  <2>3. \A o \in OrderId : filled[o] \in Nat /\ order[o].amount \in Nat
    BY RemainIsNat
  <2> HIDE DEF MatchAmount
  <2>4. \A o \in OrderId : Remain(o)' > 0 => Remain(o) > 0
    BY <2>1, <2>3 DEF Remain
  <2>5. \A o \in OrderId : Kept(o)' /\ Remain(o)' > 0 /\ o \notin withdrawn' => ~IsFinished(o)'
    <3> SUFFICES ASSUME NEW o \in OrderId, Kept(o), Remain(o)' > 0, o \notin withdrawn
                 PROVE  ~IsFinished(o)'
      BY <2>1, <2>2 DEF Kept
    <3>1. CASE o \in {taker, maker}
      <4>1. Remain(o) # MatchAmount
        BY <2>1, <2>3, <3>1 DEF Remain
      <4>2. status'[o] = "partially_filled"
        BY <2>1, <3>1, <4>1 DEF StatusAfterFill
      <4> QED BY <4>2 DEF IsFinished
    <3>2. CASE o \notin {taker, maker}
      BY <1>1, <2>1, <2>4, <3>2 DEF IsFinished
    <3> QED BY <3>1, <3>2
  <2> QED BY <1>1, <2>1, <2>2, <2>4, <2>5 DEF NothingLostYet, Kept, Queued
<1>9. CASE Settle
  <2>1. /\ order' = order /\ filled' = filled /\ status' = status /\ maker \in OrderId
        /\ \A k \in OrderId : \A o \in ToSet(queue[k]) :
             o \in ToSet(queue'[k]) \/ (o = maker /\ IsFinished(maker))
    BY <1>9, SettleRemoves
  <2>2. /\ UNCHANGED <<next, taker, cancelling, withdrawn>> /\ pc \in Matching /\ pc' \in Matching
        /\ pc # "panicked"
    BY <1>9 DEF Settle, PC, Processing, Matching
  <2>3. \A o \in OrderId : Queued(o) => Queued(o)' \/ (o = maker /\ IsFinished(maker))
    BY <2>1 DEF Queued
  <2> QED BY <1>1, <2>1, <2>2, <2>3 DEF NothingLostYet, Kept, Remain, IsFinished
<1>10. CASE PublishTrades \/ ReportOrders \/ CheckStops
  <2>1. UNCHANGED <<order, filled, status, queue, next, taker, cancelling, withdrawn>>
    BY <1>10 DEF PublishTrades, ReportOrders, CheckStops, orderVars, bookVars
  <2>2. pc \in Matching /\ pc' \in Matching \cup {"panicked"} /\ pc # "panicked"
    BY <1>10 DEF PublishTrades, ReportOrders, CheckStops, PC, Processing, Matching
  <2> QED BY <1>4, <2>1, <2>2 DEF PC, Processing, Matching
<1>11. CASE FinishOrder
  <2>1. /\ UNCHANGED <<order, filled, status, queue, next, taker, cancelling, withdrawn>>
        /\ pc \in Processing /\ pc # "panicked" /\ pc' = "idle"
        /\ ~(Remain(taker) > 0) \/ IsFinished(taker)
    BY <1>11 DEF FinishOrder, Leftover, orderVars, bookVars, PC, Processing
  <2>2. Remain(taker) = 0 \/ ~Kept(taker) \/ taker \in withdrawn
    BY <1>1, <1>2, <1>3, <2>1
  <2> QED BY <1>4, <2>1, <2>2
<1>12. CASE DropRemainder
  <2>1. /\ pc = "rest" /\ pc' = "announce" /\ order[taker].type = "market"
        /\ UNCHANGED <<order, filled, queue, next, taker, cancelling, withdrawn>>
        /\ status' = [status EXCEPT ![taker] = "cancelled"]
    BY <1>12 DEF DropRemainder, IsType, bookVars
  <2>2. /\ taker \in OrderId /\ ~Kept(taker) /\ pc # "panicked"
        /\ \A o \in OrderId : o # taker => status'[o] = status[o]
    BY <1>2, <2>1 DEF IInv, BookShape, BookTypeOK, PC, Processing, Kept
  <2> QED BY <1>1, <2>1, <2>2 DEF NothingLostYet, Kept, Remain, IsFinished, Queued
<1>13. CASE RestRemainder
  <2>1. /\ order' = order /\ filled' = filled /\ status' = status
        /\ pc = "rest" /\ UNCHANGED <<next, taker, cancelling, withdrawn>>
        /\ \E l \in OrderId : taker \in ToSet(queue'[l])
        /\ \A k \in OrderId : ToSet(queue[k]) \subseteq ToSet(queue'[k])
    BY <1>13, RestAdds DEF RestRemainder
  <2>2. \A o \in OrderId : Queued(o) \/ o = taker => Queued(o)'
    BY <2>1 DEF Queued
  <2> QED BY <1>1, <2>1, <2>2 DEF NothingLostYet, Kept, Remain, IsFinished
<1>14. CASE AnnounceOrder
  <2>1. UNCHANGED <<order, filled, status, queue, next, taker, cancelling, withdrawn>>
    BY <1>14 DEF AnnounceOrder, orderVars, bookVars
  <2>2. pc = "announce" /\ pc' = "idle"
    BY <1>14 DEF AnnounceOrder
  <2> QED BY <1>4, <2>1, <2>2 DEF PC, Processing, Matching
<1>15. CASE UNCHANGED vars
  BY <1>1, <1>15 DEF NothingLostYet, vars, orderVars, bookVars, procVars, Kept, Remain,
                     IsFinished, Queued
<1>16. ASSUME NEW o \in OrderId, CancelRemove(o)
       PROVE  NothingLostYet'
  <2>1. /\ UNCHANGED <<order, filled, status, next, taker, pc>>
        /\ cancelling' = cancelling \cup {o} /\ withdrawn' = withdrawn \cup {o}
    BY <1>16 DEF CancelRemove, orderVars, procVars
  <2>2. \A k \in OrderId : \A q \in ToSet(queue[k]) : q = o \/ q \in ToSet(queue'[k])
    BY <1>16, CancelTakes
  <2>3. \A q \in OrderId : Queued(q) => q = o \/ Queued(q)'
    BY <2>2 DEF Queued
  <2> QED BY <1>1, <2>1, <2>3 DEF NothingLostYet, Kept, Remain, IsFinished
<1>17. ASSUME NEW o \in OrderId, CancelFinish(o)
       PROVE  NothingLostYet'
  <2>1. /\ UNCHANGED <<order, filled, queue, next, taker, pc, withdrawn>>
        /\ cancelling' = cancelling \ {o} /\ o \in cancelling
        /\ status' = [status EXCEPT ![o] = "cancelled"]
    BY <1>17 DEF CancelFinish, bookVars, procVars
  <2>2. o \in withdrawn /\ \A q \in OrderId : q # o => status'[q] = status[q]
    BY <1>1, <2>1 DEF IInv, BookShape, BookTypeOK
  <2> QED BY <1>1, <2>1, <2>2 DEF NothingLostYet, Kept, Remain, IsFinished, Queued
<1> QED BY <1>5, <1>6, <1>7, <1>8, <1>9, <1>10, <1>11, <1>12, <1>13, <1>14, <1>15, <1>16,
          <1>17
        DEF Next, Process, Match, Cancel

\* A quantity never disappears: between two orders, what is left of a limit or
\* iceberg order that was processed waits in the book and can trade, whatever is
\* cancelled beside it, unless a client has taken that order out.
THEOREM NothingIsEverLost == Spec => []NothingIsLost
<1>1. Init => NothingLostYet
  <2> SUFFICES ASSUME Init
               PROVE  /\ cancelling \subseteq withdrawn
                      /\ \A o \in OrderId : ~IsFinished(o) /\ ~(o < next)
    BY DEF NothingLostYet
  <2> QED BY OrdersAssumption DEF Init, OrdersInit, IsFinished, OrderId
<1>2. IInv /\ NothingLostYet => NothingIsLost
  <2> SUFFICES ASSUME IInv, NothingLostYet, pc = "idle", NEW o \in 1..(next - 1),
                      Kept(o), Remain(o) > 0, o \notin withdrawn
               PROVE  Queued(o) /\ ~IsFinished(o)
    BY DEF NothingIsLost, Kept
  <2>1. o \in OrderId /\ o < next
    BY OrdersAssumption DEF IInv, MatcherInv, OrderId
  <2>2. pc \notin Matching /\ pc # "panicked"
    BY DEF Matching, Processing
  <2> QED BY <2>1, <2>2 DEF NothingLostYet
<1> QED BY <1>1, <1>2, NothingLostStep, Invariance, PTL DEF Spec

-----------------------------------------------------------------------------
(* The two sides of the book.                                              *)

\* Some level of a side that has any is the best one.
LEMMA BestExists ==
  ASSUME IInv, NEW side \in OrderSide, Levels(side) # {}
  PROVE  BestLevels(side) # {}
<1> DEFINE A == Levels(side)
           Best(m) == {l \in m : \A k \in m : AtLeastAsGood(side, order[l].price, order[k].price)}
           T == {m \in SUBSET A : m # {} => Best(m) # {}}
<1>1. A \in SUBSET OrderId /\ \A l \in A : order[l].price \in Nat
  BY OrderFacts DEF Levels, IInv, BookShape, BookTypeOK
<1>2. IsFiniteSet(A)
  <2>1. IsFiniteSet(OrderId)
    BY OrdersAssumption, FS_Interval DEF OrderId
  <2> QED BY <1>1, <2>1, FS_Subset
<1>3. {} \in T
  OBVIOUS
<1> HIDE DEF A
<1>4. ASSUME NEW m \in SUBSET A, m # {}, \A x \in m : m \ {x} \in T
      PROVE  m \in T
  <2>1. PICK x \in m : TRUE
    BY <1>4
  <2>2. CASE m \ {x} = {}
    <3>1. x \in Best(m)
      BY <1>1, <2>1, <2>2 DEF AtLeastAsGood
    <3> QED BY <3>1
  <2>3. CASE m \ {x} # {}
    <3>1. PICK l \in m \ {x} :
            \A k \in m \ {x} : AtLeastAsGood(side, order[l].price, order[k].price)
      BY <1>4, <2>1, <2>3
    <3>2. CASE AtLeastAsGood(side, order[l].price, order[x].price)
      <4>1. l \in Best(m)
        BY <3>1, <3>2
      <4> QED BY <4>1
    <3>3. CASE ~AtLeastAsGood(side, order[l].price, order[x].price)
      <4>1. \A k \in m : AtLeastAsGood(side, order[x].price, order[k].price)
        BY <1>1, <3>1, <3>3 DEF AtLeastAsGood
      <4>2. x \in Best(m)
        BY <2>1, <4>1
      <4> QED BY <4>2
    <3> QED BY <3>2, <3>3
  <2> QED BY <2>2, <2>3
<1> HIDE DEF T
<1>5. SUBSET A \subseteq T
  BY <1>2, <1>3, <1>4, SubsetInduction
<1>6. A # {} /\ A \in T
  BY <1>5 DEF A
<1> QED BY <1>6 DEF T, A, BestLevels

\* No limit order asks for less than to be matched as far as it goes.
OnlyGTC == \A a \in OrderSpace : a.type = "limit" => a.tif = "GTC"

\* Matching has come to its end, and what the taker has left is not market.
MatchedOut ==
  pc \in {"publish", "report", "stops", "rest"} /\ Remain(taker) > 0 /\ ~IsType("market")

\* At no step does the book cross itself, nor the taker that will rest cross it.
UncrossedInv ==
  /\ pc # "check"
  /\ \A b, s \in {o \in OrderId : Queued(o)} :
       order[b].side = "buy" /\ order[s].side = "sell"
         => order[b].price < order[s].price
  /\ MatchedOut =>
       \A o \in OrderId :
         Queued(o) /\ order[o].side = MakerSide
           => ~Accepts(order[taker].side, order[taker].price, order[o].price)

\* When the matching loop ends with something left, nobody who waits is within
\* the taker's price.
LEMMA LoopEndsClear ==
  ASSUME IInv, WaitingOrdersAreReachable, FindLevel, pc' # "first",
         Remain(taker) > 0, ~IsType("market")
  PROVE  \A o \in OrderId :
           Queued(o) /\ order[o].side = MakerSide
             => ~Accepts(order[taker].side, order[taker].price, order[o].price)
<1>1. pc = "best" /\ taker \in OrderId
  BY DEF FindLevel, IInv, MatcherInv, PC, Processing
<1>2. \A o \in OrderId : order[o].side \in OrderSide /\ order[o].price \in Nat
  BY OrderFacts DEF IInv, BookShape
<1> DEFINE best == BestLevel(MakerSide)
<1>3. best = NoLevel \/ ~Crosses(best)
  BY DEF FindLevel
<1> SUFFICES ASSUME NEW o \in OrderId, Queued(o), order[o].side = MakerSide
             PROVE  ~Accepts(order[taker].side, order[taker].price, order[o].price)
  OBVIOUS
<1>4. PICK l \in OrderId : o \in ToSet(queue[l])
  BY DEF Queued
<1>5. l \in Levels(MakerSide) /\ order[o].price = order[l].price
  <2>1. queue[l] # <<>>
    BY <1>4 DEF ToSet
  <2>2. order[o].side = order[l].side /\ order[o].price = order[l].price
    BY <1>4 DEF IInv, BookShape, QueuesMatchIndex
  <2> QED BY <2>1, <2>2 DEF Levels, WaitingOrdersAreReachable
<1>6. MakerSide \in OrderSide
  BY DEF MakerSide, Opposite, OrderSide
<1>7. best \in BestLevels(MakerSide)
  BY <1>5, <1>6, BestExists DEF BestLevel
<1>8. /\ best \in OrderId
      /\ AtLeastAsGood(MakerSide, order[best].price, order[l].price)
  BY <1>5, <1>7 DEF BestLevels, Levels, IInv, BookShape, BookTypeOK
<1>9. best # NoLevel
  BY <1>8, OrderFacts DEF IInv, BookShape
<1> HIDE DEF best
<1>10. ~Accepts(order[taker].side, order[taker].price, order[best].price)
  BY <1>3, <1>9 DEF Crosses
<1>11. order[best].price \in Nat /\ order[l].price \in Nat /\ order[taker].price \in Nat
  BY <1>1, <1>2, <1>8
<1> QED BY <1>1, <1>2, <1>5, <1>8, <1>10, <1>11
        DEF Accepts, AtLeastAsGood, MakerSide, Opposite, OrderSide

\* Every step but the resting of the taker keeps the set of those who wait or
\* makes it smaller.
LEMMA WaitingShrinks ==
  ASSUME IInv, [Next]_vars, ~RestRemainder
  PROVE  order' = order /\ \A o \in OrderId : Queued(o)' => Queued(o)
<1>1. CASE Settle
  <2>1. order' = order /\ \A k \in OrderId : ToSet(queue'[k]) \subseteq ToSet(queue[k])
    BY <1>1, SettleRemoves
  <2> QED BY <2>1 DEF Queued
<1>2. ASSUME NEW o \in OrderId, CancelRemove(o)
      PROVE  order' = order /\ \A p \in OrderId : Queued(p)' => Queued(p)
  <2>1. order' = order /\ \A k \in OrderId : ToSet(queue'[k]) \subseteq ToSet(queue[k])
    BY <1>2, CancelTakes
  <2> QED BY <2>1 DEF Queued
<1>3. CASE UNCHANGED <<order, queue>>
  BY <1>3 DEF Queued
<1>4. \/ UNCHANGED <<order, queue>> \/ Settle \/ \E o \in OrderId : CancelRemove(o)
  BY DEF Next, Process, Match, Cancel, vars, ReceiveForBook, ReceiveStop, ReceiveUnknown,
         FokCheck, FindLevel, FindMaker, Trade, LeaveLevel, PublishTrades, ReportOrders,
         CheckStops, FinishOrder, DropRemainder, AnnounceOrder, CancelFinish,
         bookVars, orderVars
<1> QED BY <1>1, <1>2, <1>3, <1>4

\* No step crosses the book.
LEMMA UncrossedStep ==
  ASSUME IInv, WaitingOrdersAreReachable, OnlyGTC, UncrossedInv, [Next]_vars
  PROVE  UncrossedInv'
<1>1. \A o \in OrderId : order[o] \in OrderSpace
  BY DEF IInv, BookShape, BookTypeOK
<1>2. (~IsTif("IOC") /\ ~IsTif("GTX")) \/ taker \notin OrderId
  BY <1>1 DEF IsTif, IsType, OnlyGTC
<1>3. pc' # "check"
  <2>1. ~FokCheck /\ pc # "check"
    BY DEF UncrossedInv, FokCheck
  <2>2. ReceiveForBook => pc' # "check"
    BY <1>1 DEF ReceiveForBook, OnlyGTC
  <2> QED BY <2>1, <2>2
          DEF Next, Process, Match, Cancel, vars, procVars, ReceiveStop, ReceiveUnknown,
              FindLevel, FindMaker, Trade, Settle, LeaveLevel, AfterMatch, PublishTrades,
              ReportOrders, CheckStops, FinishOrder, DropRemainder, RestRemainder,
              AnnounceOrder, CancelRemove, CancelFinish
<1>4. CASE RestRemainder
  <2>1. /\ pc = "rest" /\ pc' = "announce" /\ Remain(taker) > 0 /\ ~IsType("market")
        /\ order' = order
    BY <1>4 DEF RestRemainder, Leftover, orderVars
  <2>2. taker \in OrderId
    BY <2>1 DEF IInv, MatcherInv, PC, Processing
  <2>3. \A o \in OrderId : Queued(o)' => Queued(o) \/ o = taker
    <3>1. \A k \in OrderId : ToSet(queue'[k]) \subseteq ToSet(queue[k]) \cup {taker}
      BY <1>4, RestAdds
    <3> QED BY <3>1 DEF Queued
  <2>4. \A o \in OrderId :
          Queued(o) /\ order[o].side = MakerSide
            => ~Accepts(order[taker].side, order[taker].price, order[o].price)
    BY <2>1 DEF UncrossedInv, MatchedOut
  <2>5. \A o \in OrderId : order[o].price \in Nat
    BY OrderFacts DEF IInv, BookShape
  <2>6. ASSUME NEW b \in OrderId, NEW s \in OrderId, Queued(b)', Queued(s)',
               order[b].side = "buy", order[s].side = "sell"
        PROVE  order[b].price < order[s].price
    <3>1. CASE b = taker
      <4>1. Queued(s) /\ order[s].side = MakerSide
        BY <2>3, <2>6, <3>1 DEF MakerSide, Opposite
      <4>2. ~Accepts("buy", order[b].price, order[s].price)
        BY <2>4, <2>6, <3>1, <4>1
      <4> QED BY <2>5, <4>2 DEF Accepts
    <3>2. CASE s = taker
      <4>1. Queued(b) /\ order[b].side = MakerSide
        BY <2>3, <2>6, <3>2 DEF MakerSide, Opposite
      <4>2. ~Accepts("sell", order[s].price, order[b].price)
        BY <2>4, <2>6, <3>2, <4>1
      <4> QED BY <2>5, <4>2 DEF Accepts
    <3>3. CASE b # taker /\ s # taker
      <4>1. Queued(b) /\ Queued(s)
        BY <2>3, <2>6, <3>3
      <4> QED BY <2>6, <4>1 DEF UncrossedInv
    <3> QED BY <3>1, <3>2, <3>3
  <2> QED BY <1>3, <2>1, <2>6 DEF UncrossedInv, MatchedOut
<1>5. CASE ~RestRemainder
  <2>1. order' = order /\ \A o \in OrderId : Queued(o)' => Queued(o)
    BY <1>5, WaitingShrinks
  <2>2. \A b, s \in {o \in OrderId : Queued(o)'} :
          order'[b].side = "buy" /\ order'[s].side = "sell"
            => order'[b].price < order'[s].price
    BY <2>1 DEF UncrossedInv
  <2>3. ASSUME MatchedOut'
        PROVE  \A o \in OrderId :
                 Queued(o)' /\ order'[o].side = MakerSide'
                   => ~Accepts(order'[taker'].side, order'[taker'].price, order'[o].price)
    <3>1. CASE FindLevel
      <4>1. /\ pc' # "first" /\ Remain(taker) > 0 /\ ~IsType("market")
            /\ taker' = taker
        BY <2>3, <3>1 DEF MatchedOut, FindLevel, Remain, IsType, orderVars
      <4>2. \A o \in OrderId :
              Queued(o) /\ order[o].side = MakerSide
                => ~Accepts(order[taker].side, order[taker].price, order[o].price)
        BY <3>1, <4>1, LoopEndsClear
      <4> QED BY <2>1, <4>1, <4>2 DEF MakerSide
    <3>2. CASE ~FindLevel
      <4>1. UNCHANGED <<order, filled, taker>> /\ pc \in {"publish", "report", "stops", "rest"}
        <5>1. pc' \in {"publish", "report", "stops", "rest"} /\ pc # "check"
          BY <2>3 DEF MatchedOut, UncrossedInv
        <5>2. LeaveLevel => FALSE
          <6>1. LeaveLevel => taker \in OrderId
            BY DEF LeaveLevel, IInv, MatcherInv, PC, Processing
          <6>2. LeaveLevel => pc' = "best"
            BY <1>2, <6>1 DEF LeaveLevel
          <6> QED BY <5>1, <6>2
        <5> QED BY <1>5, <3>2, <5>1, <5>2
                DEF Next, Process, Match, Cancel, vars, procVars, orderVars, ReceiveForBook,
                    ReceiveStop, ReceiveUnknown, Receive, FokCheck, FindMaker, Trade, Settle,
                    PublishTrades, ReportOrders, CheckStops, FinishOrder, DropRemainder,
                    AnnounceOrder, CancelRemove, CancelFinish
      <4>2. MatchedOut
        BY <2>3, <4>1 DEF MatchedOut, Remain, IsType
      <4> QED BY <2>1, <4>1, <4>2 DEF UncrossedInv, MakerSide
    <3> QED BY <3>1, <3>2
  <2> QED BY <1>3, <2>2, <2>3 DEF UncrossedInv
<1> QED BY <1>4, <1>5

\* When limit orders are good till cancelled and nobody cancels an order that is
\* filled already, the book is never crossed between two orders.
THEOREM BookNeverCrossed ==
  CancelScope # AnyIndexed /\ OnlyGTC => (Spec => []Uncrossed)
<1> SUFFICES ASSUME CancelScope # AnyIndexed, OnlyGTC
             PROVE  Spec => []Uncrossed
  OBVIOUS
<1>1. Init => UncrossedInv
  BY DEF Init, BookInit, UncrossedInv, MatchedOut, Queued, ToSet
<1>2. IInv /\ UncrossedInv /\ [Next]_vars => UncrossedInv'
  BY UncrossedStep DEF IInv, ReachInv
<1>3. UncrossedInv => Uncrossed
  BY DEF UncrossedInv, Uncrossed
<1> QED BY <1>1, <1>2, <1>3, Invariance, PTL DEF Spec

-----------------------------------------------------------------------------
(* Iceberg orders.                                                         *)

\* How much of every order is shown and hidden.
Shown == [visible : [OrderId -> Nat], hidden : [OrderId -> Nat]]

\* The smaller of two numbers.
LEMMA MinOfTwo ==
  ASSUME NEW a \in Int, NEW b \in Int
  PROVE  Min({a, b}) = IF a <= b THEN a ELSE b
<1>1. CASE a <= b
  BY <1>1 DEF Min
<1>2. CASE ~(a <= b)
  BY <1>2 DEF Min
<1> QED BY <1>1, <1>2

\* A trade keeps the amounts natural: no refill takes more than is hidden.
LEMMA OnTradeShape ==
  ASSUME IInv, registered \subseteq OrderId, NEW s \in Shown, NEW o, NEW amount \in Nat
  PROVE  OnTrade(s, o, amount) \in Shown
<1>1. CASE o \notin registered
  BY <1>1 DEF OnTrade
<1>2. CASE o \in registered
  <2> DEFINE refill == Min({order[o].visible, s.hidden[o]})
             shown == IF s.visible[o] > amount THEN s.visible[o] - amount ELSE refill
             kept == IF s.visible[o] > amount THEN s.hidden[o] ELSE s.hidden[o] - refill
             least == Min({shown, Remain(o)})
  <2>1. o \in OrderId /\ Remain(o) \in Nat
    BY <1>2, RemainIsNat
  <2>2. order[o].visible \in Nat
    <3>1. order[o] \in OrderAttr
      BY <2>1, OrdersAssumption DEF IInv, BookShape, BookTypeOK
    <3> QED BY <3>1 DEF OrderAttr
  <2>3. s.visible \in [OrderId -> Nat] /\ s.hidden \in [OrderId -> Nat]
    BY DEF Shown
  <2>4. s.visible[o] \in Nat /\ s.hidden[o] \in Nat
    BY <2>1, <2>3
  <2>5. refill \in Nat /\ refill <= s.hidden[o]
    BY <2>2, <2>4, MinOfTwo
  <2> HIDE DEF refill
  <2>6. shown \in Nat /\ kept \in Nat
    BY <2>4, <2>5
  <2>7. OnTrade(s, o, amount) = [visible |-> [s.visible EXCEPT ![o] = least],
                                 hidden |-> [s.hidden EXCEPT ![o] = kept]]
    BY <1>2 DEF OnTrade, refill
  <2> HIDE DEF shown, kept
  <2>8. least \in Nat
    BY <2>1, <2>6, MinOfTwo
  <2> HIDE DEF least
  <2> QED BY <2>1, <2>3, <2>6, <2>7, <2>8 DEF Shown
<1> QED BY <1>1, <1>2

\* The loop of processTrades over a list of trades.
IcebergLoop(list) ==
  FoldLeft(LAMBDA s, trade :
             OnTrade(OnTrade(s, taker, trade.amount), maker, trade.amount),
           [visible |-> visible, hidden |-> hidden], list)

\* The loop keeps the amounts natural.
LEMMA IcebergLoopShape ==
  ASSUME IInv, registered \subseteq OrderId,
         visible \in [OrderId -> Nat], hidden \in [OrderId -> Nat],
         NEW q \in Seq(TradeRecord)
  PROVE  IcebergLoop(q) \in Shown
<1> DEFINE base == [visible |-> visible, hidden |-> hidden]
           step(s, trade) == OnTrade(OnTrade(s, taker, trade.amount), maker, trade.amount)
           op == [p \in Shown \X TradeRecord |-> step(p[1], p[2])]
           n == Len(q)
           S == DOMAIN q
           P(it) == it = [s \in SUBSET DOMAIN q |->
                            IF s = {} THEN base ELSE step(it[s \ {Max(s)}], q[Max(s)])]
           I == CHOOSE it : P(it)
<1>1. IcebergLoop(q) = I[DOMAIN q]
  BY DEF IcebergLoop, FoldLeft, MapThenFoldSet
<1>2. base \in Shown
  BY DEF Shown
<1>3. \A s \in Shown, trade \in TradeRecord : step(s, trade) \in Shown
  <2> TAKE s \in Shown, trade \in TradeRecord
  <2> DEFINE first == OnTrade(s, taker, trade.amount)
  <2>1. trade.amount \in Nat
    BY DEF TradeRecord
  <2>2. first \in Shown
    BY <2>1, OnTradeShape
  <2> HIDE DEF first
  <2>3. OnTrade(first, maker, trade.amount) \in Shown
    BY <2>1, <2>2, OnTradeShape
  <2> QED BY <2>3 DEF first
<1>4. \A s \in Shown, trade \in TradeRecord : op[<<s, trade>>] = step(s, trade)
  OBVIOUS
<1> HIDE DEF step, op, base
<1>5. Folds(op, base, q, Shown, TradeRecord)
  BY <1>2, <1>3, <1>4 DEF Folds
<1>6. PICK g : IsSeqFold(g, Shown, op, base, q)
  BY <1>5, SeqFoldExists
<1>7. \A s \in SUBSET DOMAIN q :
        s # {} => q[Max(s)] \in TradeRecord /\ s \ {Max(s)} \in SUBSET DOMAIN q
  <2>1. DOMAIN q = 1..n /\ n \in Nat /\ \A i \in 1..n : q[i] \in TradeRecord
    OBVIOUS
  <2> HIDE DEF n
  <2>2. \A s \in SUBSET (1..n) : s # {} => Max(s) \in s
    BY <2>1, MaxPosition
  <2> QED BY <2>1, <2>2
<1>8. P(g)
  <2>1. g = [s \in SUBSET DOMAIN q |-> g[s]]
    BY <1>6 DEF IsSeqFold
  <2>2. ASSUME NEW s \in SUBSET DOMAIN q
        PROVE  g[s] = IF s = {} THEN base ELSE step(g[s \ {Max(s)}], q[Max(s)])
    <3>1. g[s] = IF s = {} THEN base ELSE op[<<g[s \ {Max(s)}], q[Max(s)]>>]
      BY <1>6 DEF IsSeqFold
    <3>2. s # {} => g[s \ {Max(s)}] \in Shown
      BY <1>6, <1>7 DEF IsSeqFold
    <3> QED BY <1>4, <1>7, <3>1, <3>2
  <2> QED BY <2>1, <2>2
<1>9. P(I)
  BY <1>8
<1> HIDE DEF I
<1>10. /\ I[{}] = base
       /\ \A s \in SUBSET DOMAIN q : s # {} => I[s] = step(I[s \ {Max(s)}], q[Max(s)])
  BY <1>9
<1> HIDE DEF P
<1>11. FoldsAs(I, Shown, op, base, q)
  BY <1>4, <1>7, <1>10 DEF FoldsAs
<1>12. S = DOMAIN q
  OBVIOUS
<1> HIDE DEF S
<1>13. I[S] = FoldOver(op, base, q)
  BY <1>5, <1>11, <1>12, FoldMatches
<1> DEFINE R == (SUBSET S) \X Shown
<1>14. <<{}, base>> \in R
  BY <1>2
<1>15. \A s \in SUBSET DOMAIN q : \A v \in Shown :
         s # {} /\ Max(s) \in s /\ <<s \ {Max(s)}, v>> \in R
           => <<s, op[<<v, q[Max(s)]>>]>> \in R
  BY <1>3, <1>4, <1>7, <1>12
<1>16. <<DOMAIN q, FoldOver(op, base, q)>> \in R
  <2> HIDE DEF R
  <2> QED BY <1>5, <1>14, <1>15, FoldOverInduction
<1> QED BY <1>1, <1>12, <1>13, <1>16

\* The iceberg manager between the steps.
IcebergInv ==
  /\ registered \subseteq OrderId
  /\ visible \in [OrderId -> Nat]
  /\ hidden \in [OrderId -> Nat]
  /\ pc = "publish" => trades # <<>>

\* Every step keeps it.
LEMMA IcebergStep ==
  ASSUME IInv, TradesInv, IcebergInv, [Next]_vars
  PROVE  IcebergInv'
<1>1. /\ registered \subseteq OrderId
      /\ visible \in [OrderId -> Nat] /\ hidden \in [OrderId -> Nat]
      /\ pc = "publish" => trades # <<>>
  BY DEF IcebergInv
<1>2. CASE PublishTrades
  <2>1. /\ registered' = registered
        /\ visible' = IcebergLoop(trades).visible /\ hidden' = IcebergLoop(trades).hidden
    BY <1>2 DEF PublishTrades, IcebergTrades, IcebergLoop
  <2>2. /\ pc = "publish" /\ pc' = "report" /\ UNCHANGED <<order, filled, taker>>
    BY <1>2 DEF PublishTrades, orderVars
  <2>3. IcebergLoop(trades) \in Shown
    BY <1>1, <2>2, IcebergLoopShape DEF TradesInv
  <2>4. visible' \in [OrderId -> Nat] /\ hidden' \in [OrderId -> Nat]
    BY <2>1, <2>3 DEF Shown
  <2> QED BY <1>1, <2>1, <2>2, <2>4 DEF IcebergInv
<1>3. CASE ReceiveForBook
  <2>1. PICK o \in OrderId : /\ Register(o) \/ UNCHANGED icebergVars
                             /\ pc' \in {"check", "best"}
    BY <1>3 DEF ReceiveForBook
  <2>2. order[o].visible \in Nat /\ order[o].hidden \in Nat
    <3>1. order[o] \in OrderAttr
      BY OrdersAssumption DEF IInv, BookShape, BookTypeOK
    <3> QED BY <3>1 DEF OrderAttr
  <2>3. /\ registered' \subseteq OrderId
        /\ visible' \in [OrderId -> Nat] /\ hidden' \in [OrderId -> Nat]
    BY <1>1, <2>1, <2>2 DEF Register, icebergVars
  <2> QED BY <2>1, <2>3 DEF IcebergInv
<1>4. CASE ~PublishTrades /\ ~ReceiveForBook
  <2>1. UNCHANGED icebergVars
    BY <1>4 DEF Next, Process, Match, Cancel, vars, ReceiveStop, ReceiveUnknown,
                FokCheck, FindLevel, FindMaker, Trade, Settle, LeaveLevel, ReportOrders,
                CheckStops, FinishOrder, DropRemainder, RestRemainder, AnnounceOrder,
                CancelRemove, CancelFinish
  <2>2. pc' = "publish" => trades' # <<>>
    BY <1>1, <1>4
       DEF Next, Process, Match, Cancel, vars, procVars, ReceiveStop,
           ReceiveUnknown, Receive, FokCheck, FindLevel, FindMaker, Trade, Settle,
           LeaveLevel, AfterMatch, ReportOrders, CheckStops, FinishOrder,
           DropRemainder, RestRemainder, AnnounceOrder, CancelRemove, CancelFinish
  <2> QED BY <1>1, <2>1, <2>2 DEF IcebergInv, icebergVars
<1> QED BY <1>2, <1>3, <1>4

\* The invariant of the iceberg manager, for every behaviour.
LEMMA IcebergInvariance == Spec => []IcebergInv
<1>1. Init => IcebergInv
  BY DEF Init, IcebergInit, IcebergInv
<1>2. Spec => []TradesInv
  <2>1. Init => TradesInv
    BY DEF Init, OrdersInit, TradesInv, Unpublished
  <2> QED BY <2>1, TradesStep, Invariance, PTL DEF Spec
<1> QED BY <1>1, <1>2, IcebergStep, Invariance, PTL DEF Spec

-----------------------------------------------------------------------------
(* The slices of stop prices.                                              *)

\* A slice of one side in its order, with every key once.
Sorted(side, p) ==
  \A i, j \in DOMAIN p : i < j => /\ p[i] # p[j]
                                  /\ AtLeastAsGood(Opposite(side), p[i][1], p[j][1])

\* The keys of the map of one side.
Keys(side) == {Key(o) : o \in {q \in parked : order[q].side = side}}

\* Two orders of one side have different keys, as far as their keys are in K.
KeysDiffer(side, K) ==
  \A o, q \in parked : (/\ order[o].side = side /\ order[q].side = side
                        /\ Key(o) = Key(q) /\ Key(o) \in K) => o = q

\* The elements of a sequence with one more put in after the first m.
LEMMA InsertAtShape ==
  ASSUME NEW S, NEW p \in Seq(S), NEW m \in 0..Len(p), NEW e \in S
  PROVE  LET r == InsertAt(p, m + 1, e)
         IN  /\ r \in Seq(S)
             /\ Len(r) = Len(p) + 1
             /\ \A i \in 1..(Len(p) + 1) :
                  r[i] = IF i <= m THEN p[i] ELSE IF i = m + 1 THEN e ELSE p[i - 1]
<1> DEFINE n == Len(p)
           a == SubSeq(p, 1, m)
           b == <<e>>
           c == SubSeq(p, m + 1, n)
<1>1. n \in Nat /\ m \in Nat /\ m <= n /\ \A i \in 1..n : p[i] \in S
  OBVIOUS
<1>2. InsertAt(p, m + 1, e) = (a \o b) \o c
  <2>1. (m + 1) - 1 = m
    BY <1>1
  <2> QED BY <2>1 DEF InsertAt
<1>3. b \in Seq(S) /\ Len(b) = 1 /\ b[1] = e
  OBVIOUS
<1> HIDE DEF n
<1>4. a \in Seq(S) /\ Len(a) = m /\ \A i \in 1..m : a[i] = p[i]
  <2>1. 1 \in Int /\ m \in Int /\ \A i \in 1..m : p[i] \in S
    BY <1>1
  <2>2. /\ a \in Seq(S) /\ Len(a) = (IF 1 <= m THEN m - 1 + 1 ELSE 0)
        /\ \A i \in 1..(m - 1 + 1) : a[i] = p[1 + i - 1]
    BY <2>1, SubSeqProperties
  <2> HIDE DEF a
  <2> QED BY <1>1, <2>2
<1>5. c \in Seq(S) /\ Len(c) = n - m /\ \A i \in 1..(n - m) : c[i] = p[m + i]
  <2>1. m + 1 \in Int /\ n \in Int /\ \A i \in (m + 1)..n : p[i] \in S
    BY <1>1
  <2>2. /\ c \in Seq(S) /\ Len(c) = (IF m + 1 <= n THEN n - (m + 1) + 1 ELSE 0)
        /\ \A i \in 1..(n - (m + 1) + 1) : c[i] = p[(m + 1) + i - 1]
    BY <2>1, SubSeqProperties
  <2> HIDE DEF c
  <2> QED BY <1>1, <2>2
<1> HIDE DEF a, b, c
<1> DEFINE d == a \o b
<1>6. /\ d \in Seq(S) /\ Len(d) = m + 1
      /\ \A i \in 1..(m + 1) : d[i] = IF i <= m THEN p[i] ELSE e
  <2>1. /\ d \in Seq(S) /\ Len(d) = Len(a) + Len(b)
        /\ \A i \in 1..(Len(a) + Len(b)) : d[i] = IF i <= Len(a) THEN a[i] ELSE b[i - Len(a)]
    BY <1>3, <1>4, ConcatProperties
  <2> HIDE DEF d
  <2> QED BY <1>1, <1>3, <1>4, <2>1
<1> HIDE DEF d
<1> DEFINE r == d \o c
<1>7. /\ r \in Seq(S) /\ Len(r) = Len(d) + Len(c)
      /\ \A i \in 1..(Len(d) + Len(c)) : r[i] = IF i <= Len(d) THEN d[i] ELSE c[i - Len(d)]
  BY <1>5, <1>6, ConcatProperties
<1> HIDE DEF r
<1>8. Len(r) = n + 1
  BY <1>1, <1>5, <1>6, <1>7
<1>9. \A i \in 1..(n + 1) :
        r[i] = IF i <= m THEN p[i] ELSE IF i = m + 1 THEN e ELSE p[i - 1]
  <2> TAKE i \in 1..(n + 1)
  <2>1. CASE i <= m + 1
    BY <1>1, <1>5, <1>6, <1>7, <2>1
  <2>2. CASE i > m + 1
    <3>1. i - (m + 1) \in 1..(n - m) /\ m + (i - (m + 1)) = i - 1
      BY <1>1, <2>2
    <3>2. r[i] = c[i - (m + 1)]
      BY <1>1, <1>5, <1>6, <1>7, <2>2
    <3>3. c[i - (m + 1)] = p[m + (i - (m + 1))]
      BY <1>5, <3>1
    <3>4. r[i] = p[i - 1]
      BY <3>1, <3>2, <3>3
    <3> QED BY <1>1, <2>2, <3>4
  <2> QED BY <1>1, <2>1, <2>2
<1> QED BY <1>2, <1>7, <1>8, <1>9 DEF r, d, n

\* A key is inserted after those that come before it.
LEMMA InsertPriceShape ==
  ASSUME NEW side \in OrderSide, NEW p \in Seq(PriceKey), NEW key \in PriceKey
  PROVE  /\ InsertPrice(side, p, key) \in Seq(PriceKey)
         /\ Sorted(side, p) /\ key \notin ToSet(p) =>
              /\ Sorted(side, InsertPrice(side, p, key))
              /\ ToSet(InsertPrice(side, p, key)) = ToSet(p) \cup {key}
<1> DEFINE n == Len(p)
           r == InsertPrice(side, p, key)
           before == {i \in DOMAIN p : IF side = "buy" THEN p[i][1] <= key[1]
                                                       ELSE p[i][1] >= key[1]}
           m == Cardinality(before)
<1>1. n \in Nat /\ DOMAIN p = 1..n
  OBVIOUS
<1>2. key[1] \in Nat /\ \A i \in 1..n : p[i] \in PriceKey /\ p[i][1] \in Nat
  BY DEF PriceKey
<1>3. r = InsertAt(p, m + 1, key)
  BY DEF InsertPrice
<1> HIDE DEF r, n
<1>4. before \in SUBSET (1..n)
  BY <1>1
<1>5. m \in 0..n
  <2>1. IsFiniteSet(1..n) /\ Cardinality(1..n) = n
    BY <1>1, FS_Interval
  <2> HIDE DEF before
  <2>2. IsFiniteSet(before) /\ m <= n
    BY <1>4, <2>1, FS_Subset
  <2>3. m \in Nat
    BY <2>2, FS_CardinalityType
  <2> QED BY <1>1, <2>2, <2>3
<1> HIDE DEF m
<1>6. /\ r \in Seq(PriceKey)
      /\ Len(r) = n + 1
      /\ \A i \in 1..(n + 1) :
           r[i] = IF i <= m THEN p[i] ELSE IF i = m + 1 THEN key ELSE p[i - 1]
  <2>1. m \in 0..Len(p)
    BY <1>5 DEF n
  <2>2. LET t == InsertAt(p, m + 1, key)
        IN  /\ t \in Seq(PriceKey)
            /\ Len(t) = Len(p) + 1
            /\ \A i \in 1..(Len(p) + 1) :
                 t[i] = IF i <= m THEN p[i] ELSE IF i = m + 1 THEN key ELSE p[i - 1]
    BY <2>1, InsertAtShape
  <2> QED BY <1>3, <2>2 DEF n
<1>7. ASSUME Sorted(side, p), key \notin ToSet(p)
      PROVE  Sorted(side, r) /\ ToSet(r) = ToSet(p) \cup {key}
  <2>1. DOMAIN r = 1..(n + 1) /\ m \in Nat /\ m <= n
    BY <1>1, <1>5, <1>6
  <2>2. \A i, j \in 1..n : i < j => /\ p[i] # p[j]
                                    /\ AtLeastAsGood(Opposite(side), p[i][1], p[j][1])
    BY <1>1, <1>7 DEF Sorted
  <2>3. before = 1..m
    <3>1. \A i \in before : \A j \in 1..i : j \in before
      <4> TAKE i \in before
      <4> TAKE j \in 1..i
      <4>1. j \in 1..n /\ i \in 1..n /\ (j = i \/ j < i)
        BY <1>1, <1>4
      <4>2. j < i => AtLeastAsGood(Opposite(side), p[j][1], p[i][1])
        BY <2>2, <4>1
      <4> QED BY <1>1, <1>2, <4>1, <4>2 DEF AtLeastAsGood, Opposite, OrderSide
    <3> HIDE DEF before
    <3>2. \E k \in 0..n : before = 1..k /\ Cardinality(before) = k
      BY <1>1, <1>4, <3>1, FrontOfPositions
    <3> QED BY <3>2 DEF m
  <2>4. \A i \in 1..n : IF i <= m THEN AtLeastAsGood(Opposite(side), p[i][1], key[1])
                                  ELSE AtLeastAsGood(Opposite(side), key[1], p[i][1])
    <3> TAKE i \in 1..n
    <3>1. i \in before <=> i <= m
      BY <2>1, <2>3
    <3> QED BY <1>1, <1>2, <3>1 DEF AtLeastAsGood, Opposite, OrderSide
  <2> HIDE DEF before
  <2>5. \A i \in 1..n : p[i] # key
    BY <1>1, <1>7 DEF ToSet
  <2>6. ASSUME NEW i \in 1..(n + 1), NEW j \in 1..(n + 1), i < j
        PROVE  r[i] # r[j] /\ AtLeastAsGood(Opposite(side), r[i][1], r[j][1])
    <3>1. CASE j <= m
      <4>1. i \in 1..n /\ j \in 1..n /\ r[i] = p[i] /\ r[j] = p[j]
        BY <1>1, <1>6, <2>1, <2>6, <3>1
      <4> QED BY <2>2, <2>6, <4>1
    <3>2. CASE j = m + 1
      <4>1. i \in 1..n /\ i <= m /\ r[i] = p[i] /\ r[j] = key
        BY <1>1, <1>6, <2>1, <2>6, <3>2
      <4> QED BY <2>4, <2>5, <4>1
    <3>3. CASE j > m + 1
      <4>1. j - 1 \in 1..n /\ ~(j - 1 <= m) /\ r[j] = p[j - 1]
        BY <1>1, <1>6, <2>1, <2>6, <3>3
      <4>2. CASE i <= m
        <5>1. i \in 1..n /\ i < j - 1 /\ r[i] = p[i]
          BY <1>1, <1>6, <2>1, <2>6, <3>3, <4>2
        <5> QED BY <2>2, <4>1, <5>1
      <4>3. CASE i = m + 1
        <5>1. r[i] = key
          BY <1>6, <2>1, <4>3
        <5> QED BY <2>4, <2>5, <4>1, <5>1
      <4>4. CASE i > m + 1
        <5>1. i - 1 \in 1..n /\ i - 1 < j - 1 /\ r[i] = p[i - 1]
          BY <1>1, <1>6, <2>1, <2>6, <4>4
        <5> QED BY <2>2, <4>1, <5>1
      <4> QED BY <2>1, <2>6, <4>2, <4>3, <4>4
    <3> QED BY <2>1, <2>6, <3>1, <3>2, <3>3
  <2>7. Sorted(side, r)
    BY <2>1, <2>6 DEF Sorted
  <2>8. ToSet(r) \subseteq ToSet(p) \cup {key}
    <3> SUFFICES ASSUME NEW i \in 1..(n + 1)
                 PROVE  r[i] \in ToSet(p) \cup {key}
      BY <2>1 DEF ToSet
    <3>1. \/ r[i] = key
          \/ i \in 1..n /\ r[i] = p[i]
          \/ i - 1 \in 1..n /\ r[i] = p[i - 1]
      BY <1>1, <1>6, <2>1
    <3> QED BY <1>1, <3>1 DEF ToSet
  <2>9. ToSet(p) \cup {key} \subseteq ToSet(r)
    <3>1. key \in ToSet(r)
      <4>1. m + 1 \in 1..(n + 1) /\ r[m + 1] = key
        BY <1>1, <1>6, <2>1
      <4> QED BY <2>1, <4>1 DEF ToSet
    <3>2. ASSUME NEW i \in 1..n
          PROVE  p[i] \in ToSet(r)
      <4>1. CASE i <= m
        <5>1. i \in 1..(n + 1) /\ r[i] = p[i]
          BY <1>1, <1>6, <4>1
        <5> QED BY <2>1, <5>1 DEF ToSet
      <4>2. CASE i > m
        <5>1. i + 1 \in 1..(n + 1) /\ ~(i + 1 <= m) /\ i + 1 # m + 1 /\ (i + 1) - 1 = i
          BY <1>1, <2>1, <4>2
        <5>2. r[i + 1] = p[i]
          BY <1>6, <5>1
        <5> QED BY <2>1, <5>1, <5>2 DEF ToSet
      <4> QED BY <2>1, <4>1, <4>2
    <3> QED BY <1>1, <3>1, <3>2 DEF ToSet
  <2> QED BY <2>7, <2>8, <2>9
<1> QED BY <1>6, <1>7 DEF r

\* A stop price that the last price triggers.
Hit(side, k, last) == IF side = "buy" THEN k[1] <= last ELSE k[1] >= last

\* The keys scanned are n keys from one end of the slice, all of them hit, and
\* the next one is not.
ScanIs(side, last, n) ==
  LET p == prices[side]
      q == Scanned(side, last)
  IN  /\ n \in 0..Len(p)
      /\ q \in Seq(PriceKey)
      /\ Len(q) = n
      /\ \A i \in 1..n : /\ q[i] = p[IF side = "buy" THEN i ELSE Len(p) - i + 1]
                         /\ Hit(side, q[i], last)
      /\ n < Len(p) => ~Hit(side, p[IF side = "buy" THEN n + 1 ELSE Len(p) - n], last)

\* Buy stops are scanned from the front of the slice.
LEMMA BuyScan ==
  ASSUME NEW last, prices["buy"] \in Seq(PriceKey)
  PROVE  \E n \in Nat : ScanIs("buy", last, n)
<1> DEFINE p == prices["buy"]
           N == Len(p)
           q == Scanned("buy", last)
           reached == {i \in DOMAIN p : \A j \in 1..i : Hit("buy", p[j], last)}
<1>1. N \in Nat /\ DOMAIN p = 1..N /\ \A i \in 1..N : p[i] \in PriceKey
  OBVIOUS
<1>2. q = SubSeq(p, 1, Cardinality(reached))
  BY DEF Scanned, Hit
<1> HIDE DEF N, q
<1>3. reached \in SUBSET (1..N) /\ \A i \in reached : \A j \in 1..i : j \in reached
  <2>1. ASSUME NEW i \in reached, NEW j \in 1..i
        PROVE  j \in reached
    <3>1. i \in 1..N /\ \A k \in 1..i : Hit("buy", p[k], last)
      BY <1>1
    <3>2. j \in 1..N /\ \A k \in 1..j : k \in 1..i
      BY <1>1, <3>1
    <3> QED BY <1>1, <3>1, <3>2
  <2> QED BY <1>1, <2>1
<1>4. PICK n \in 0..N : reached = 1..n /\ Cardinality(reached) = n
  <2> HIDE DEF reached
  <2> QED BY <1>1, <1>3, FrontOfPositions
<1>8. \A i \in 1..n : Hit("buy", p[i], last)
  <2> TAKE i \in 1..n
  <2>1. i \in reached /\ i \in 1..i
    BY <1>4
  <2> QED BY <2>1
<1>5. n < N => ~Hit("buy", p[n + 1], last)
  <2> SUFFICES ASSUME n < N, Hit("buy", p[n + 1], last)
               PROVE  FALSE
    OBVIOUS
  <2>1. \A j \in 1..n : Hit("buy", p[j], last)
    <3> TAKE j \in 1..n
    <3>1. j \in reached /\ j \in 1..j
      BY <1>4
    <3> QED BY <3>1
  <2>2. n + 1 \in 1..N /\ \A j \in 1..(n + 1) : j \in 1..n \/ j = n + 1
    BY <1>1
  <2>3. n + 1 \in reached
    BY <1>1, <2>1, <2>2
  <2> HIDE DEF reached
  <2>4. n + 1 \in 1..n
    BY <1>4, <2>3
  <2> QED BY <1>1, <2>4
<1> HIDE DEF reached
<1>6. q \in Seq(PriceKey) /\ Len(q) = n /\ \A i \in 1..n : q[i] = p[i]
  <2>1. 1 \in Int /\ n \in Int /\ \A i \in 1..n : p[i] \in PriceKey
    BY <1>1
  <2>2. /\ SubSeq(p, 1, n) \in Seq(PriceKey)
        /\ Len(SubSeq(p, 1, n)) = (IF 1 <= n THEN n - 1 + 1 ELSE 0)
        /\ \A i \in 1..(n - 1 + 1) : SubSeq(p, 1, n)[i] = p[1 + i - 1]
    BY <2>1, SubSeqProperties
  <2>3. q = SubSeq(p, 1, n)
    BY <1>2, <1>4
  <2> QED BY <1>1, <2>2, <2>3
<1>7. n \in Nat
  BY <1>1
<1> QED BY <1>4, <1>5, <1>6, <1>7, <1>8 DEF ScanIs, q, N

\* Sell stops are scanned from the back.
LEMMA SellScan ==
  ASSUME NEW last, prices["sell"] \in Seq(PriceKey)
  PROVE  \E n \in Nat : ScanIs("sell", last, n)
<1> DEFINE p == prices["sell"]
           N == Len(p)
           q == Scanned("sell", last)
           reached == {i \in DOMAIN p : \A j \in i..Len(p) : Hit("sell", p[j], last)}
           rest == (1..N) \ reached
<1>1. N \in Nat /\ DOMAIN p = 1..N /\ \A i \in 1..N : p[i] \in PriceKey
  OBVIOUS
<1>2. q = Reverse(SubSeq(p, Len(p) - Cardinality(reached) + 1, Len(p)))
  BY DEF Scanned, Hit
<1>3. N = Len(p)
  OBVIOUS
<1> HIDE DEF N, q
<1>4. rest \in SUBSET (1..N) /\ \A i \in rest : \A j \in 1..i : j \in rest
  <2>1. ASSUME NEW i \in rest, NEW j \in 1..i
        PROVE  j \in rest
    <3>1. i \in 1..N /\ \E k \in i..N : ~Hit("sell", p[k], last)
      BY <1>1, <1>3
    <3>2. j \in 1..N /\ i..N \subseteq j..N
      BY <1>1, <3>1
    <3> QED BY <1>1, <1>3, <3>1, <3>2
  <2> QED BY <1>1, <2>1
<1>5. PICK m \in 0..N : rest = 1..m
  <2> HIDE DEF rest
  <2> QED BY <1>1, <1>4, FrontOfPositions
<1> DEFINE n == N - m
<1>6. n \in 0..N /\ n \in Nat /\ reached = (m + 1)..N /\ N - n = m
  <2>1. reached = (1..N) \ (1..m)
    BY <1>1, <1>5
  <2>2. (1..N) \ (1..m) = (m + 1)..N
    BY <1>1
  <2> HIDE DEF rest, reached
  <2> QED BY <1>1, <2>1, <2>2
<1>7. Cardinality(reached) = n
  <2>1. Cardinality((m + 1)..N) = IF m + 1 > N THEN 0 ELSE N - (m + 1) + 1
    BY <1>1, FS_Interval
  <2>2. (IF m + 1 > N THEN 0 ELSE N - (m + 1) + 1) = n
    BY <1>1
  <2> HIDE DEF reached, rest
  <2> QED BY <1>6, <2>1, <2>2
<1>8. n < N => ~Hit("sell", p[N - n], last)
  <2> SUFFICES ASSUME n < N, Hit("sell", p[N - n], last)
               PROVE  FALSE
    OBVIOUS
  <2>1. \A j \in (m + 1)..N : Hit("sell", p[j], last)
    <3> TAKE j \in (m + 1)..N
    <3>1. j \in reached /\ j \in j..N
      BY <1>1, <1>6
    <3> QED BY <1>3, <3>1
  <2>2. m \in 1..N /\ \A j \in m..N : j \in (m + 1)..N \/ j = m
    BY <1>1, <1>6
  <2>3. m \in reached
    BY <1>1, <1>3, <1>6, <2>1, <2>2
  <2>4. m \in rest
    BY <1>5, <2>2
  <2> QED BY <2>3, <2>4
<1>10. \A i \in 1..n : Hit("sell", p[N - i + 1], last)
  <2> TAKE i \in 1..n
  <2>1. N - i + 1 \in (m + 1)..N
    BY <1>1, <1>6
  <2>2. N - i + 1 \in reached /\ N - i + 1 \in (N - i + 1)..N
    BY <1>1, <1>6, <2>1
  <2> QED BY <1>3, <2>2
<1> HIDE DEF reached, rest
<1>9. q \in Seq(PriceKey) /\ Len(q) = n /\ \A i \in 1..n : q[i] = p[N - i + 1]
  <2> DEFINE t == SubSeq(p, N - n + 1, N)
  <2>1. N - n + 1 \in Int /\ N \in Int /\ \A i \in (N - n + 1)..N : p[i] \in PriceKey
    BY <1>1, <1>6
  <2>2. /\ t \in Seq(PriceKey)
        /\ Len(t) = (IF N - n + 1 <= N THEN N - (N - n + 1) + 1 ELSE 0)
        /\ \A i \in 1..(N - (N - n + 1) + 1) : t[i] = p[(N - n + 1) + i - 1]
    BY <2>1, SubSeqProperties
  <2>3. q = Reverse(t)
    BY <1>2, <1>3, <1>7
  <2> HIDE DEF t
  <2>4. Len(t) = n /\ \A i \in 1..n : t[i] = p[N - n + i]
    <3>1. \A i \in 1..n : (N - n + 1) + i - 1 = N - n + i
      BY <1>1, <1>6
    <3>2. N - (N - n + 1) + 1 = n
      BY <1>1, <1>6
    <3> QED BY <1>1, <1>6, <2>2, <3>1, <3>2
  <2>5. q = [i \in 1..n |-> t[(n - i) + 1]]
    BY <2>3, <2>4 DEF Reverse
  <2>6. \A i \in 1..n : (n - i) + 1 \in 1..n /\ N - n + ((n - i) + 1) = N - i + 1
                        /\ N - i + 1 \in 1..N
    BY <1>1, <1>6
  <2>7. \A i \in 1..n : q[i] = p[N - i + 1] /\ q[i] \in PriceKey
    BY <1>1, <2>4, <2>5, <2>6
  <2> HIDE DEF n
  <2>8. q \in Seq(PriceKey) /\ Len(q) = n
    BY <1>6, <2>5, <2>7
  <2> QED BY <2>7, <2>8
<1> HIDE DEF n
<1> QED BY <1>3, <1>6, <1>8, <1>9, <1>10 DEF ScanIs, q

\* One key was scanned for every order triggered.
LEMMA TriggeredCount ==
  ASSUME NEW side \in OrderSide, NEW last, NEW n \in Nat, ScanIs(side, last, n),
         prices[side] \in Seq(PriceKey), Sorted(side, prices[side]),
         ToSet(prices[side]) = Keys(side),
         KeysDiffer(side, ToSet(Scanned(side, last)))
  PROVE  Cardinality(Triggered(side, last)) = n
<1> DEFINE p == prices[side]
           N == Len(p)
           q == Scanned(side, last)
           at(i) == IF side = "buy" THEN i ELSE N - i + 1
           T == Triggered(side, last)
           f == [i \in 1..n |-> CHOOSE t \in T : Key(t) = q[i]]
<1>1. N \in Nat /\ DOMAIN p = 1..N
  OBVIOUS
<1>2. n \in 0..N /\ DOMAIN q = 1..n /\ \A i \in 1..n : q[i] = p[at(i)]
  BY DEF ScanIs
<1>3. \A i, j \in 1..N : i # j => p[i] # p[j]
  <2>1. \A i, j \in 1..N : i < j => p[i] # p[j]
    BY <1>1 DEF Sorted
  <2> HIDE DEF N
  <2>2. \A i, j \in 1..N : i # j => i < j \/ j < i
    BY <1>1
  <2> QED BY <2>1, <2>2
<1>4. T = {o \in parked : order[o].side = side /\ Key(o) \in ToSet(q)}
  BY DEF Triggered, ParkedAt
<1> HIDE DEF q, T, N
<1>5. \A i \in 1..n : at(i) \in 1..N /\ \A j \in 1..n : i # j => at(i) # at(j)
  BY <1>1, <1>2
<1>6. \A i \in 1..n : q[i] \in Keys(side)
  <2> TAKE i \in 1..n
  <2>1. at(i) \in DOMAIN p /\ q[i] = p[at(i)]
    BY <1>1, <1>2, <1>5
  <2> QED BY <2>1 DEF ToSet
<1> HIDE DEF at
<1>7. \A i \in 1..n : \E t \in T : Key(t) = q[i]
  <2> TAKE i \in 1..n
  <2>1. PICK o \in parked : order[o].side = side /\ q[i] = Key(o)
    BY <1>6 DEF Keys
  <2>2. Key(o) \in ToSet(q)
    BY <1>2, <2>1 DEF ToSet
  <2> QED BY <1>4, <2>1, <2>2
<1>8. f \in [1..n -> T] /\ \A i \in 1..n : Key(f[i]) = q[i]
  BY <1>7
<1> HIDE DEF f
<1>9. \A i, j \in 1..n : f[i] = f[j] => i = j
  <2> SUFFICES ASSUME NEW i \in 1..n, NEW j \in 1..n, f[i] = f[j], i # j
               PROVE  FALSE
    OBVIOUS
  <2>1. q[i] = q[j]
    BY <1>8
  <2>2. p[at(i)] = p[at(j)] /\ at(i) # at(j) /\ at(i) \in 1..N /\ at(j) \in 1..N
    BY <1>2, <1>5, <2>1
  <2> QED BY <1>3, <2>2
<1>10. \A t \in T : \E i \in 1..n : f[i] = t
  <2> TAKE t \in T
  <2>1. t \in parked /\ order[t].side = side /\ Key(t) \in ToSet(q)
    BY <1>4
  <2>2. PICK i \in 1..n : q[i] = Key(t)
    BY <1>2, <2>1 DEF ToSet
  <2>3. f[i] \in T /\ Key(f[i]) = Key(t)
    BY <1>8, <2>2
  <2>4. f[i] \in parked /\ order[f[i]].side = side
    BY <1>4, <2>3
  <2>5. f[i] = t
    BY <2>1, <2>3, <2>4 DEF KeysDiffer, q
  <2> QED BY <2>5
<1>11. ExistsBijection(1..n, T)
  BY <1>8, <1>9, <1>10 DEF ExistsBijection, Bijection, Injection, Surjection, IsInjective
<1>12. IsFiniteSet(1..n) /\ Cardinality(1..n) = n
  BY FS_Interval
<1>13. Cardinality(T) = Cardinality(1..n)
  BY <1>11, <1>12, FS_Bijection
<1> QED BY <1>12, <1>13 DEF T

\* The cut leaves the keys that were not scanned.
LEMMA CutShape ==
  ASSUME NEW side \in OrderSide, NEW last, NEW n \in Nat, ScanIs(side, last, n),
         prices[side] \in Seq(PriceKey), Cardinality(Triggered(side, last)) \in 0..Len(prices[side])
  PROVE  /\ Cut(side, last) \in Seq(PriceKey)
         /\ Cardinality(Triggered(side, last)) = n /\ Sorted(side, prices[side]) =>
              /\ Sorted(side, Cut(side, last))
              /\ \A i \in 1..n : Scanned(side, last)[i] \notin ToSet(Cut(side, last))
              /\ ToSet(prices[side]) = ToSet(Cut(side, last)) \cup ToSet(Scanned(side, last))
<1> DEFINE p == prices[side]
           N == Len(p)
           q == Scanned(side, last)
           c == Cut(side, last)
           k == Cardinality(Triggered(side, last))
           off == IF side = "buy" THEN k ELSE 0
           at(i) == IF side = "buy" THEN i ELSE N - i + 1
<1>1. N \in Nat /\ DOMAIN p = 1..N /\ \A i \in 1..N : p[i] \in PriceKey
  OBVIOUS
<1>2. n \in 0..N /\ DOMAIN q = 1..n /\ \A i \in 1..n : q[i] = p[at(i)]
  BY DEF ScanIs
<1>3. c = IF side = "buy" THEN SubSeq(p, k + 1, N) ELSE SubSeq(p, 1, N - k)
  BY DEF Cut
<1>4. k \in 0..N
  OBVIOUS
<1> HIDE DEF N, q, c, k
<1>5. c \in Seq(PriceKey) /\ Len(c) = N - k /\ \A i \in 1..(N - k) : c[i] = p[off + i]
  <2>1. CASE side = "buy"
    <3>1. k + 1 \in Int /\ N \in Int /\ \A i \in (k + 1)..N : p[i] \in PriceKey
      BY <1>1, <1>4
    <3>2. /\ SubSeq(p, k + 1, N) \in Seq(PriceKey)
          /\ Len(SubSeq(p, k + 1, N)) = (IF k + 1 <= N THEN N - (k + 1) + 1 ELSE 0)
          /\ \A i \in 1..(N - (k + 1) + 1) : SubSeq(p, k + 1, N)[i] = p[(k + 1) + i - 1]
      BY <3>1, SubSeqProperties
    <3>3. c \in Seq(PriceKey) /\ Len(c) = (IF k + 1 <= N THEN N - (k + 1) + 1 ELSE 0)
          /\ \A i \in 1..(N - (k + 1) + 1) : c[i] = p[(k + 1) + i - 1]
      BY <1>3, <2>1, <3>2
    <3>4. N - (k + 1) + 1 = N - k /\ \A i \in 1..(N - k) : (k + 1) + i - 1 = off + i
      BY <1>1, <1>4, <2>1
    <3> HIDE DEF off
    <3>5. Len(c) = N - k
      BY <1>1, <1>4, <3>3
    <3>6. \A i \in 1..(N - k) : c[i] = p[(k + 1) + i - 1]
      BY <3>3, <3>4
    <3>7. \A i \in 1..(N - k) : c[i] = p[off + i]
      BY <3>4, <3>6
    <3> QED BY <3>3, <3>5, <3>7
  <2>2. CASE side # "buy"
    <3>1. 1 \in Int /\ N - k \in Int /\ \A i \in 1..(N - k) : p[i] \in PriceKey
      BY <1>1, <1>4
    <3>2. /\ SubSeq(p, 1, N - k) \in Seq(PriceKey)
          /\ Len(SubSeq(p, 1, N - k)) = (IF 1 <= N - k THEN (N - k) - 1 + 1 ELSE 0)
          /\ \A i \in 1..((N - k) - 1 + 1) : SubSeq(p, 1, N - k)[i] = p[1 + i - 1]
      BY <3>1, SubSeqProperties
    <3>3. c \in Seq(PriceKey) /\ Len(c) = (IF 1 <= N - k THEN (N - k) - 1 + 1 ELSE 0)
          /\ \A i \in 1..((N - k) - 1 + 1) : c[i] = p[1 + i - 1]
      BY <1>3, <2>2, <3>2
    <3>4. (N - k) - 1 + 1 = N - k /\ \A i \in 1..(N - k) : 1 + i - 1 = off + i
      BY <1>1, <1>4, <2>2
    <3> QED BY <1>1, <1>4, <3>3, <3>4
  <2> QED BY <2>1, <2>2
<1>6. ASSUME k = n, Sorted(side, p)
      PROVE  /\ Sorted(side, c)
             /\ \A i \in 1..n : q[i] \notin ToSet(c)
             /\ ToSet(p) = ToSet(c) \cup ToSet(q)
  <2>1. DOMAIN c = 1..(N - n) /\ \A i \in 1..(N - n) : c[i] = p[off + i] /\ off + i \in 1..N
    <3>1. k = n /\ c \in Seq(PriceKey) /\ Len(c) = N - n
          /\ \A i \in 1..(N - n) : c[i] = p[off + i]
      BY <1>5, <1>6
    <3>2. DOMAIN c = 1..(N - n)
      BY <3>1
    <3>3. \A i \in 1..(N - n) : off + i \in 1..N
      BY <1>1, <1>2, <3>1
    <3> QED BY <3>1, <3>2, <3>3
  <2>2. off \in Int
    BY <1>1, <1>4
  <2>3. \A i \in 1..n : at(i) \in 1..N /\ \A j \in 1..(N - n) : at(i) # off + j
    BY <1>1, <1>2, <1>6
  <2>4. \A i \in 1..N : \/ \E j \in 1..n : at(j) = i
                        \/ \E j \in 1..(N - n) : off + j = i
    <3> TAKE i \in 1..N
    <3>1. CASE side = "buy"
      <4>1. (i \in 1..n /\ at(i) = i) \/ (i - n \in 1..(N - n) /\ off + (i - n) = i)
        BY <1>1, <1>2, <1>6, <3>1
      <4> QED BY <4>1
    <3>2. CASE side # "buy"
      <4>1. (N - i + 1 \in 1..n /\ at(N - i + 1) = i) \/ (i \in 1..(N - n) /\ off + i = i)
        BY <1>1, <1>2, <3>2
      <4> QED BY <4>1
    <3> QED BY <3>1, <3>2
  <2>5. \A i, j \in 1..N : i < j => /\ p[i] # p[j]
                                    /\ AtLeastAsGood(Opposite(side), p[i][1], p[j][1])
    BY <1>1, <1>6 DEF Sorted
  <2> HIDE DEF off, at
  <2>6. Sorted(side, c)
    <3> SUFFICES ASSUME NEW i \in 1..(N - n), NEW j \in 1..(N - n), i < j
                 PROVE  /\ c[i] # c[j]
                        /\ AtLeastAsGood(Opposite(side), c[i][1], c[j][1])
      BY <2>1 DEF Sorted
    <3>1. off + i < off + j
      BY <1>1, <1>2, <2>2
    <3>2. /\ c[i] = p[off + i] /\ c[j] = p[off + j]
          /\ off + i \in 1..N /\ off + j \in 1..N
      BY <2>1
    <3> QED BY <2>5, <3>1, <3>2
  <2>7. \A i, j \in 1..N : i # j => p[i] # p[j]
    <3>1. \A i, j \in 1..N : i # j => i < j \/ j < i
      BY <1>1
    <3> QED BY <2>5, <3>1
  <2>8. \A i \in 1..n : q[i] \notin ToSet(c)
    <3> SUFFICES ASSUME NEW i \in 1..n, NEW j \in 1..(N - n), q[i] = c[j]
                 PROVE  FALSE
      BY <2>1 DEF ToSet
    <3>1. p[at(i)] = p[off + j] /\ at(i) # off + j /\ at(i) \in 1..N /\ off + j \in 1..N
      BY <1>2, <2>1, <2>3
    <3> QED BY <2>7, <3>1
  <2>9. ToSet(p) \subseteq ToSet(c) \cup ToSet(q)
    <3> SUFFICES ASSUME NEW i \in 1..N
                 PROVE  p[i] \in ToSet(c) \cup ToSet(q)
      BY <1>1 DEF ToSet
    <3>1. \/ \E j \in 1..n : p[i] = q[j]
          \/ \E j \in 1..(N - n) : p[i] = c[j]
      BY <1>2, <2>1, <2>4
    <3> QED BY <1>2, <2>1, <3>1 DEF ToSet
  <2>10. ToSet(c) \cup ToSet(q) \subseteq ToSet(p)
    <3>1. ASSUME NEW j \in 1..(N - n)
          PROVE  c[j] \in ToSet(p)
      BY <1>1, <2>1 DEF ToSet
    <3>2. ASSUME NEW j \in 1..n
          PROVE  q[j] \in ToSet(p)
      <4>1. at(j) \in 1..N /\ q[j] = p[at(j)]
        BY <1>2, <2>3
      <4> QED BY <1>1, <4>1 DEF ToSet
    <3> QED BY <1>2, <2>1, <3>1, <3>2 DEF ToSet
  <2> QED BY <2>6, <2>8, <2>9, <2>10
<1> QED BY <1>5, <1>6 DEF c, q, k

\* What CheckStopOrders makes of the keys q that were scanned: those with
\* orders are put in again.
AgainLoop(side, base, q) ==
  FoldLeft(LAMBDA keys, k : IF ParkedAt(side, {k}) = {} THEN keys
                            ELSE InsertPrice(side, keys, k), base, q)

\* The keys of q are new to base and to each other, and have orders.
FitsInto(side, base, q) ==
  /\ Sorted(side, base)
  /\ \A i \in DOMAIN q : /\ q[i] \notin ToSet(base)
                         /\ ParkedAt(side, {q[i]}) # {}
                         /\ \A j \in DOMAIN q : i # j => q[i] # q[j]

\* Putting keys in again gives a slice, and the right one if they fit.
LEMMA AgainLoopShape ==
  ASSUME NEW side \in OrderSide, NEW base \in Seq(PriceKey), NEW q \in Seq(PriceKey)
  PROVE  /\ AgainLoop(side, base, q) \in Seq(PriceKey)
         /\ FitsInto(side, base, q) =>
              /\ Sorted(side, AgainLoop(side, base, q))
              /\ ToSet(AgainLoop(side, base, q)) = ToSet(base) \cup ToSet(q)
<1> DEFINE X == Seq(PriceKey)
           step(v, k) == IF ParkedAt(side, {k}) = {} THEN v ELSE InsertPrice(side, v, k)
           op == [p \in X \X PriceKey |-> step(p[1], p[2])]
           n == Len(q)
           S == DOMAIN q
           P(it) == it = [s \in SUBSET DOMAIN q |->
                            IF s = {} THEN base ELSE step(it[s \ {Max(s)}], q[Max(s)])]
           I == CHOOSE it : P(it)
<1>1. AgainLoop(side, base, q) = I[DOMAIN q]
  BY DEF AgainLoop, FoldLeft, MapThenFoldSet
<1>2. \A v \in X, k \in PriceKey : step(v, k) \in X
  BY InsertPriceShape
<1>3. \A v \in X, k \in PriceKey : op[<<v, k>>] = step(v, k)
  OBVIOUS
<1>4. /\ base \in X /\ q \in Seq(PriceKey)
      /\ S = DOMAIN q /\ S = 1..n /\ n \in Nat /\ \A i \in S : q[i] \in PriceKey
  OBVIOUS
<1> HIDE DEF step, op, X, S, n
<1>5. Folds(op, base, q, X, PriceKey)
  BY <1>2, <1>3, <1>4 DEF Folds
<1>6. PICK g : IsSeqFold(g, X, op, base, q)
  BY <1>5, SeqFoldExists
<1>7. \A s \in SUBSET DOMAIN q :
        s # {} => /\ Max(s) \in s
                  /\ Max(s) \in S
                  /\ q[Max(s)] \in PriceKey
                  /\ s \ {Max(s)} \in SUBSET DOMAIN q
  <2>1. \A s \in SUBSET (1..n) : s # {} => Max(s) \in s
    BY <1>4, MaxPosition
  <2> QED BY <1>4, <2>1
<1>8. P(g)
  <2>1. g = [s \in SUBSET DOMAIN q |-> g[s]]
    BY <1>6 DEF IsSeqFold
  <2>2. ASSUME NEW s \in SUBSET DOMAIN q
        PROVE  g[s] = IF s = {} THEN base ELSE step(g[s \ {Max(s)}], q[Max(s)])
    <3>1. g[s] = IF s = {} THEN base ELSE op[<<g[s \ {Max(s)}], q[Max(s)]>>]
      BY <1>6 DEF IsSeqFold
    <3>2. s # {} => g[s \ {Max(s)}] \in X
      BY <1>6, <1>7 DEF IsSeqFold
    <3> QED BY <1>3, <1>7, <3>1, <3>2
  <2> QED BY <2>1, <2>2
<1>9. P(I)
  BY <1>8
<1> HIDE DEF I
<1>10. /\ I[{}] = base
       /\ \A s \in SUBSET DOMAIN q : s # {} => I[s] = step(I[s \ {Max(s)}], q[Max(s)])
  BY <1>9
<1> HIDE DEF P
<1>11. FoldsAs(I, X, op, base, q)
  BY <1>3, <1>7, <1>10 DEF FoldsAs
<1>12. I[S] = FoldOver(op, base, q)
  <2>1. S = DOMAIN q
    BY <1>4
  <2> QED BY <1>5, <1>11, <2>1, FoldMatches
<1>13. FoldOver(op, base, q) \in X
  BY <1>5, FoldOverType
<1>14. ASSUME FitsInto(side, base, q)
       PROVE  /\ Sorted(side, FoldOver(op, base, q))
              /\ ToSet(FoldOver(op, base, q)) = ToSet(base) \cup ToSet(q)
  <2> DEFINE at(s) == {q[i] : i \in s}
             R == {p \in (SUBSET S) \X X :
                     Sorted(side, p[2]) /\ ToSet(p[2]) = ToSet(base) \cup at(p[1])}
  <2>1. <<{}, base>> \in R
    BY <1>4, <1>14 DEF FitsInto
  <2>2. \A s \in SUBSET DOMAIN q : \A v \in X :
          s # {} /\ Max(s) \in s /\ <<s \ {Max(s)}, v>> \in R
            => <<s, op[<<v, q[Max(s)]>>]>> \in R
    <3> TAKE s \in SUBSET DOMAIN q
    <3> TAKE v \in X
    <3> HAVE s # {} /\ Max(s) \in s /\ <<s \ {Max(s)}, v>> \in R
    <3> DEFINE m == Max(s)
               k == q[Max(s)]
               w == op[<<v, q[Max(s)]>>]
    <3>1. m \in s /\ m \in S /\ k = q[m] /\ k \in PriceKey /\ s \in SUBSET S
      BY <1>4, <1>7
    <3>2. Sorted(side, v) /\ ToSet(v) = ToSet(base) \cup at(s \ {m})
      OBVIOUS
    <3>3. w = step(v, k)
      BY <1>3, <3>1
    <3> HIDE DEF m, k, w
    <3>4. k \notin ToSet(v) /\ ParkedAt(side, {k}) # {}
      BY <1>4, <1>14, <3>1, <3>2 DEF FitsInto
    <3>5. w = InsertPrice(side, v, k)
      BY <3>3, <3>4 DEF step
    <3>6. w \in X /\ Sorted(side, w) /\ ToSet(w) = ToSet(v) \cup {k}
      BY <3>1, <3>2, <3>4, <3>5, InsertPriceShape DEF X
    <3>7. at(s) = at(s \ {m}) \cup {k}
      BY <3>1
    <3> HIDE DEF at
    <3>8. <<s, w>> \in R
      BY <3>1, <3>2, <3>6, <3>7
    <3> QED BY <3>8 DEF w, k
  <2> HIDE DEF R
  <2>3. <<DOMAIN q, FoldOver(op, base, q)>> \in R
    BY <1>5, <2>1, <2>2, FoldOverInduction
  <2>4. at(DOMAIN q) = ToSet(q)
    BY DEF ToSet
  <2> HIDE DEF at
  <2> QED BY <2>3, <2>4 DEF R
<1>15. AgainLoop(side, base, q) = FoldOver(op, base, q)
  BY <1>1, <1>4, <1>12
<1> QED BY <1>13, <1>14, <1>15 DEF X

\* The scan of a side finds some number of keys.
LEMMA ScanFound ==
  ASSUME NEW side \in OrderSide, NEW last, prices \in [OrderSide -> Seq(PriceKey)]
  PROVE  \E n \in Nat : ScanIs(side, last, n)
<1>1. prices["buy"] \in Seq(PriceKey) /\ prices["sell"] \in Seq(PriceKey)
  BY DEF OrderSide
<1> QED BY <1>1, BuyScan, SellScan DEF OrderSide

\* What CheckStopOrders does to the slice of one side.
LEMMA AgainShape ==
  ASSUME NEW side \in OrderSide, NEW last, prices \in [OrderSide -> Seq(PriceKey)],
         parked \subseteq OrderId, ~CutOutOfRange(last)
  PROVE  LET again == AgainLoop(side, Cut(side, last), Scanned(side, last))
         IN  /\ again \in Seq(PriceKey)
             /\ /\ Sorted(side, prices[side])
                /\ ToSet(prices[side]) = Keys(side)
                /\ KeysDiffer(side, ToSet(Scanned(side, last)))
                => Sorted(side, again) /\ ToSet(again) = Keys(side)
<1> DEFINE p == prices[side]
           q == Scanned(side, last)
           c == Cut(side, last)
           again == AgainLoop(side, c, q)
           k == Cardinality(Triggered(side, last))
<1>1. p \in Seq(PriceKey)
  OBVIOUS
<1>2. PICK n \in Nat : ScanIs(side, last, n)
  BY ScanFound
<1>3. k \in 0..Len(p)
  <2>1. Triggered(side, last) \in SUBSET OrderId
    BY DEF Triggered, ParkedAt
  <2>2. IsFiniteSet(OrderId)
    BY OrdersAssumption, FS_Interval DEF OrderId
  <2>3. IsFiniteSet(Triggered(side, last))
    BY <2>1, <2>2, FS_Subset
  <2>4. k \in Nat
    BY <2>3, FS_CardinalityType
  <2>5. ~(k > Len(p))
    BY DEF CutOutOfRange
  <2> HIDE DEF k
  <2>6. Len(p) \in Nat
    BY <1>1
  <2> QED BY <2>4, <2>5, <2>6
<1>4. /\ c \in Seq(PriceKey)
      /\ k = n /\ Sorted(side, p) =>
           /\ Sorted(side, c)
           /\ \A i \in 1..n : q[i] \notin ToSet(c)
           /\ ToSet(p) = ToSet(c) \cup ToSet(q)
  BY <1>1, <1>2, <1>3, CutShape
<1>5. q \in Seq(PriceKey) /\ DOMAIN q = 1..n
  BY <1>2 DEF ScanIs
<1>6. again \in Seq(PriceKey)
  BY <1>4, <1>5, AgainLoopShape
<1>7. ASSUME Sorted(side, p), ToSet(p) = Keys(side),
             KeysDiffer(side, ToSet(q))
      PROVE  Sorted(side, again) /\ ToSet(again) = Keys(side)
  <2>1. k = n
    BY <1>1, <1>2, <1>7, TriggeredCount
  <2>2. /\ Sorted(side, c)
        /\ \A i \in 1..n : q[i] \notin ToSet(c)
        /\ ToSet(p) = ToSet(c) \cup ToSet(q)
    BY <1>4, <1>7, <2>1
  <2> HIDE DEF c, q, again
  <2>3. ASSUME NEW i \in 1..n
        PROVE  ParkedAt(side, {q[i]}) # {}
    <3>1. q[i] \in Keys(side)
      BY <1>5, <1>7, <2>2 DEF ToSet
    <3> QED BY <3>1 DEF Keys, ParkedAt
  <2>4. ASSUME NEW i \in 1..n, NEW j \in 1..n, i # j
        PROVE  q[i] # q[j]
    <3> DEFINE N == Len(p)
               at(x) == IF side = "buy" THEN x ELSE N - x + 1
    <3>1. n \in 0..N /\ N \in Nat /\ DOMAIN p = 1..N
      BY <1>1, <1>2 DEF ScanIs
    <3>2. \A x \in 1..n : q[x] = p[at(x)]
      BY <1>2 DEF ScanIs, q
    <3> HIDE DEF N
    <3>3. at(i) \in 1..N /\ at(j) \in 1..N /\ (at(i) < at(j) \/ at(j) < at(i))
      BY <2>4, <3>1
    <3>4. p[at(i)] # p[at(j)]
      BY <1>7, <3>1, <3>3 DEF Sorted
    <3> QED BY <3>2, <3>4
  <2>5. FitsInto(side, c, q)
    BY <1>5, <2>2, <2>3, <2>4 DEF FitsInto
  <2>6. Sorted(side, again) /\ ToSet(again) = ToSet(c) \cup ToSet(q)
    BY <1>4, <1>5, <2>5, AgainLoopShape DEF again
  <2> QED BY <1>7, <2>2, <2>6
<1> QED BY <1>6, <1>7

\* The new slices are those, side by side.
LEMMA CheckStopOrdersShape ==
  ASSUME NEW last, CheckStopOrders(last)
  PROVE  /\ prices' = [side \in OrderSide |->
                         AgainLoop(side, Cut(side, last), Scanned(side, last))]
         /\ triggered' = triggered \cup UNION {Triggered(s, last) : s \in OrderSide}
         /\ parked' = parked
BY DEF CheckStopOrders, AgainLoop

\* The types of the stop manager.
StopTypes ==
  /\ parked \subseteq OrderId
  /\ triggered \subseteq OrderId
  /\ prices \in [OrderSide -> Seq(PriceKey)]

\* The stop manager between the steps: as long as no two buy orders have come
\* without a stop price, each slice is in order and lists the keys of its map,
\* and no cut of a slice has ended the process.
StopsInv ==
  BuyKeysDiffer =>
    /\ \A side \in OrderSide : /\ Sorted(side, prices[side])
                               /\ ToSet(prices[side]) = Keys(side)
    /\ pc # "panicked"

\* The key of any order is a key.
LEMMA KeyType ==
  ASSUME IInv, NEW o \in OrderId
  PROVE  Key(o) \in PriceKey /\ order[o].side \in OrderSide
<1>1. order[o] \in OrderAttr
  BY OrdersAssumption DEF IInv, BookShape, BookTypeOK
<1>2. order[o].stop \in Nat /\ order[o].side \in OrderSide
  BY <1>1 DEF OrderAttr
<1> QED BY <1>2 DEF Key, PriceKey, NoOrder

\* AddStop, written out.
LEMMA AddStopShape ==
  ASSUME IInv, StopTypes, NEW o \in OrderId, AddStop(o)
  PROVE  LET side == order[o].side
             new == IF ParkedAt(side, {Key(o)}) = {}
                      THEN InsertPrice(side, prices[side], Key(o)) ELSE prices[side]
         IN  /\ parked' = parked \cup {o} /\ triggered' = triggered
             /\ prices' = [s \in OrderSide |-> IF s = side THEN new ELSE prices[s]]
             /\ new \in Seq(PriceKey)
<1> DEFINE side == order[o].side
<1>1. side \in OrderSide /\ Key(o) \in PriceKey
  BY KeyType
<1>2. prices \in [OrderSide -> Seq(PriceKey)] /\ prices[side] \in Seq(PriceKey)
  BY <1>1 DEF StopTypes
<1>3. /\ parked' = parked \cup {o} /\ triggered' = triggered
      /\ prices' = IF ParkedAt(side, {Key(o)}) = {}
                     THEN [prices EXCEPT ![side] = InsertPrice(side, prices[side], Key(o))]
                     ELSE prices
  BY DEF AddStop
<1> HIDE DEF side
<1>4. InsertPrice(side, prices[side], Key(o)) \in Seq(PriceKey)
  BY <1>1, <1>2, InsertPriceShape
<1> DEFINE new == IF ParkedAt(side, {Key(o)}) = {}
                    THEN InsertPrice(side, prices[side], Key(o)) ELSE prices[side]
<1>5. prices' = [prices EXCEPT ![side] = new]
  <2>1. prices = [prices EXCEPT ![side] = prices[side]]
    BY <1>2
  <2> QED BY <1>3, <2>1
<1>6. new \in Seq(PriceKey)
  BY <1>2, <1>4
<1>7. prices' = [s \in OrderSide |-> IF s = side THEN new ELSE prices[s]]
  <2> HIDE DEF new
  <2> QED BY <1>2, <1>5
<1> QED BY <1>3, <1>6, <1>7 DEF side

\* Who changes the stop manager.
LEMMA StopsChange ==
  ASSUME [Next]_vars
  PROVE  \/ ReceiveStop
         \/ CheckStops /\ lastPrice # 0 /\ ~CutOutOfRange(lastPrice)
         \/ UNCHANGED stopVars
BY DEF Next, Process, Match, Cancel, vars, ReceiveForBook, ReceiveUnknown,
       FokCheck, FindLevel, FindMaker, Trade, Settle, LeaveLevel, PublishTrades, ReportOrders,
       CheckStops, FinishOrder, DropRemainder, RestRemainder, AnnounceOrder,
       CancelRemove, CancelFinish

\* The types of the stop manager are kept.
LEMMA StopTypesStep ==
  ASSUME IInv, StopTypes, [Next]_vars
  PROVE  StopTypes'
<1>1. CASE ReceiveStop
  <2>1. PICK o \in OrderId : AddStop(o)
    BY <1>1 DEF ReceiveStop
  <2>2. LET side == order[o].side
            new == IF ParkedAt(side, {Key(o)}) = {}
                     THEN InsertPrice(side, prices[side], Key(o)) ELSE prices[side]
        IN  /\ parked' = parked \cup {o} /\ triggered' = triggered
            /\ prices' = [s \in OrderSide |-> IF s = side THEN new ELSE prices[s]]
            /\ new \in Seq(PriceKey)
    BY <2>1, AddStopShape
  <2> QED BY <2>2 DEF StopTypes
<1>2. CASE CheckStops /\ lastPrice # 0 /\ ~CutOutOfRange(lastPrice)
  <2>1. CheckStopOrders(lastPrice)
    BY <1>2 DEF CheckStops
  <2>2. /\ prices' = [side \in OrderSide |->
                        AgainLoop(side, Cut(side, lastPrice), Scanned(side, lastPrice))]
        /\ triggered' = triggered \cup UNION {Triggered(s, lastPrice) : s \in OrderSide}
        /\ parked' = parked
    BY <2>1, CheckStopOrdersShape
  <2>3. \A side \in OrderSide :
          AgainLoop(side, Cut(side, lastPrice), Scanned(side, lastPrice)) \in Seq(PriceKey)
    BY <1>2, AgainShape DEF StopTypes
  <2>4. \A s \in OrderSide : Triggered(s, lastPrice) \subseteq parked
    BY DEF Triggered, ParkedAt
  <2> QED BY <2>2, <2>3, <2>4 DEF StopTypes
<1>3. CASE UNCHANGED stopVars
  BY <1>3 DEF StopTypes, stopVars
<1> QED BY <1>1, <1>2, <1>3, StopsChange

\* A new stop order puts its key in the slice of its side.
LEMMA AddStopKeepsSlices ==
  ASSUME IInv, StopTypes, StopsInv, ReceiveStop
  PROVE  StopsInv'
<1>1. PICK o \in OrderId : Receive(o) /\ AddStop(o)
  BY DEF ReceiveStop
<1>2. pc = "idle" /\ pc' = pc /\ order' = order
  BY <1>1 DEF ReceiveStop, Receive, orderVars
<1> DEFINE side == order[o].side
           new == IF ParkedAt(side, {Key(o)}) = {}
                    THEN InsertPrice(side, prices[side], Key(o)) ELSE prices[side]
<1>3. /\ parked' = parked \cup {o}
      /\ prices' = [s \in OrderSide |-> IF s = side THEN new ELSE prices[s]]
  BY <1>1, AddStopShape
<1>4. /\ \A p : Key(p)' = Key(p)
      /\ Key(o) \in PriceKey /\ side \in OrderSide
  BY <1>2, KeyType DEF Key
<1> SUFFICES ASSUME BuyKeysDiffer'
             PROVE  /\ \A s \in OrderSide : /\ Sorted(s, prices[s])'
                                             /\ ToSet(prices[s])' = Keys(s)'
                    /\ pc' # "panicked"
  BY DEF StopsInv
<1>5. BuyKeysDiffer
  BY <1>2, <1>3, <1>4 DEF BuyKeysDiffer
<1>6. (ParkedAt(side, {Key(o)}) = {}) <=> Key(o) \notin Keys(side)
  BY DEF ParkedAt, Keys
<1>7. Sorted(side, prices[side]) /\ ToSet(prices[side]) = Keys(side)
      /\ prices[side] \in Seq(PriceKey)
  BY <1>4, <1>5 DEF StopsInv, StopTypes
<1>8. Sorted(side, new) /\ ToSet(new) = Keys(side) \cup {Key(o)}
  <2>1. CASE Key(o) \in Keys(side)
    BY <1>6, <1>7, <2>1
  <2>2. CASE Key(o) \notin Keys(side)
    <3>1. new = InsertPrice(side, prices[side], Key(o))
      BY <1>6, <2>2
    <3>2. side \in OrderSide /\ Key(o) \in PriceKey
      BY <1>4
    <3> HIDE DEF new, side
    <3> DEFINE p == prices[side]
               k == Key(o)
    <3>3. /\ p \in Seq(PriceKey) /\ Sorted(side, p) /\ k \notin ToSet(p)
          /\ ToSet(p) = Keys(side) /\ k \in PriceKey
      BY <1>7, <2>2, <3>2
    <3> HIDE DEF p, k
    <3>4. Sorted(side, InsertPrice(side, p, k)) /\ ToSet(InsertPrice(side, p, k)) = ToSet(p) \cup {k}
      BY <3>2, <3>3, InsertPriceShape
    <3> QED BY <3>1, <3>3, <3>4 DEF p, k
  <2> QED BY <2>1, <2>2
<1>9. \A s \in OrderSide : Keys(s)' = IF s = side THEN Keys(s) \cup {Key(o)} ELSE Keys(s)
  BY <1>2, <1>3, <1>4 DEF Keys
<1> HIDE DEF new, side
<1>10. ASSUME NEW s \in OrderSide
       PROVE  Sorted(s, prices[s])' /\ ToSet(prices[s])' = Keys(s)'
  <2>1. prices'[s] = IF s = side THEN new ELSE prices[s]
    BY <1>3
  <2>2. Sorted(s, prices'[s]) /\ ToSet(prices'[s]) = Keys(s)'
    BY <1>5, <1>8, <1>9, <2>1 DEF StopsInv
  <2> QED BY <2>2 DEF Sorted, ToSet
<1> QED BY <1>2, <1>10

\* The keys a check scans tell the orders apart: buy keys by assumption, and a
\* sell key that is as high as a last price there is names its order.
LEMMA ScannedDiffer ==
  ASSUME IInv, StopTypes, BuyKeysDiffer, NEW side \in OrderSide,
         NEW last \in Nat \ {0}, NEW n \in Nat, ScanIs(side, last, n)
  PROVE  KeysDiffer(side, ToSet(Scanned(side, last)))
<1> SUFFICES ASSUME NEW o \in parked, NEW q \in parked,
                    order[o].side = side, order[q].side = side,
                    Key(o) = Key(q), Key(o) \in ToSet(Scanned(side, last))
             PROVE  o = q
  BY DEF KeysDiffer
<1>1. CASE side = "buy"
  BY <1>1 DEF BuyKeysDiffer
<1>2. CASE side = "sell"
  <2>1. Key(o)[1] >= last
    BY <1>2 DEF ScanIs, Hit, ToSet
  <2>2. o \in OrderId /\ q \in OrderId /\ order[o] \in OrderAttr /\ order[q] \in OrderAttr
    BY OrdersAssumption DEF IInv, BookShape, BookTypeOK, StopTypes
  <2>3. order[o].stop \in Nat /\ order[q].stop \in Nat
    BY <2>2 DEF OrderAttr
  <2>4. order[o].stop # 0
    BY <2>1, <2>3 DEF Key
  <2>5. Key(o) = <<order[o].stop, o>>
    BY <2>4 DEF Key
  <2>6. order[q].stop # 0
    BY <2>3, <2>4, <2>5 DEF Key
  <2>7. Key(q) = <<order[q].stop, q>>
    BY <2>6 DEF Key
  <2>8. <<order[o].stop, o>> = <<order[q].stop, q>>
    BY <2>5, <2>7, Zenon
  <2> QED BY <2>8
<1> QED BY <1>1, <1>2 DEF OrderSide

\* A check of the stop orders cuts no key too many and puts every one back.
LEMMA CheckStopsKeepsSlices ==
  ASSUME IInv, StopTypes, StopsInv, lastPrice \in Nat, CheckStops
  PROVE  StopsInv'
<1>1. /\ UNCHANGED <<order, lastPrice>> /\ pc = "stops" /\ pc' \in {"rest", "panicked"}
      /\ pc' = "panicked" => lastPrice # 0 /\ CutOutOfRange(lastPrice)
      /\ lastPrice # 0 /\ ~CutOutOfRange(lastPrice) => CheckStopOrders(lastPrice)
      /\ lastPrice = 0 \/ CutOutOfRange(lastPrice) => UNCHANGED stopVars
  BY DEF CheckStops, orderVars, eventVars
<1>2. parked' = parked
  BY <1>1, CheckStopOrdersShape DEF stopVars
<1>3. BuyKeysDiffer' => BuyKeysDiffer
  BY <1>1, <1>2 DEF BuyKeysDiffer, Key
<1>4. CASE ~BuyKeysDiffer'
  BY <1>4 DEF StopsInv
<1>5. CASE BuyKeysDiffer /\ lastPrice = 0
  <2>1. prices' = prices /\ pc' # "panicked"
    BY <1>1, <1>5 DEF stopVars
  <2>2. ASSUME NEW side \in OrderSide
        PROVE  Sorted(side, prices[side])' /\ ToSet(prices[side])' = Keys(side)'
    <3>1. Keys(side)' = Keys(side) /\ prices'[side] = prices[side]
      BY <1>1, <1>2, <2>1 DEF Keys, Key
    <3>2. Sorted(side, prices'[side]) /\ ToSet(prices'[side]) = Keys(side)'
      BY <1>5, <3>1 DEF StopsInv
    <3> QED BY <3>2 DEF Sorted, ToSet
  <2> QED BY <2>1, <2>2 DEF StopsInv
<1>6. CASE BuyKeysDiffer /\ lastPrice # 0
  <2>1. \A side \in OrderSide : /\ prices[side] \in Seq(PriceKey)
                                /\ Sorted(side, prices[side])
                                /\ ToSet(prices[side]) = Keys(side)
    BY <1>6 DEF StopTypes, StopsInv
  <2>2. ASSUME NEW side \in OrderSide
        PROVE  \E n \in Nat : ScanIs(side, lastPrice, n)
    BY ScanFound DEF StopTypes
  <2>3. \A side \in OrderSide : KeysDiffer(side, ToSet(Scanned(side, lastPrice)))
    BY <1>6, <2>2, ScannedDiffer
  <2>4. ~CutOutOfRange(lastPrice)
    <3>1. ASSUME NEW side \in OrderSide
          PROVE  ~(Cardinality(Triggered(side, lastPrice)) > Len(prices[side]))
      <4>1. PICK n \in Nat : ScanIs(side, lastPrice, n)
        BY <2>2
      <4>2. Cardinality(Triggered(side, lastPrice)) = n
        BY <2>1, <2>3, <4>1, TriggeredCount
      <4>3. n \in 0..Len(prices[side]) /\ Len(prices[side]) \in Nat
        BY <2>1, <4>1 DEF ScanIs
      <4> QED BY <4>2, <4>3
    <3> QED BY <3>1 DEF CutOutOfRange
  <2>5. prices' = [side \in OrderSide |->
                     AgainLoop(side, Cut(side, lastPrice), Scanned(side, lastPrice))]
    BY <1>1, <1>6, <2>4, CheckStopOrdersShape
  <2>6. ASSUME NEW side \in OrderSide
        PROVE  Sorted(side, prices[side])' /\ ToSet(prices[side])' = Keys(side)'
    <3> DEFINE again == AgainLoop(side, Cut(side, lastPrice), Scanned(side, lastPrice))
    <3>1. Sorted(side, again) /\ ToSet(again) = Keys(side)
      BY <2>1, <2>3, <2>4, AgainShape DEF StopTypes
    <3>2. prices'[side] = again
      BY <2>5
    <3>3. Keys(side)' = Keys(side)
      BY <1>1, <1>2 DEF Keys, Key
    <3> HIDE DEF again
    <3>4. Sorted(side, prices'[side]) /\ ToSet(prices'[side]) = Keys(side)'
      BY <3>1, <3>2, <3>3
    <3> QED BY <3>4 DEF Sorted, ToSet
  <2>7. pc' # "panicked"
    BY <1>1, <2>4
  <2> QED BY <2>6, <2>7 DEF StopsInv
<1> QED BY <1>3, <1>4, <1>5, <1>6

\* Every step keeps the slices.
LEMMA StopsStep ==
  ASSUME IInv, StopTypes, StopsInv, lastPrice \in Nat, [Next]_vars
  PROVE  StopsInv'
<1>1. CASE ReceiveStop
  BY <1>1, AddStopKeepsSlices
<1>2. CASE CheckStops
  BY <1>2, CheckStopsKeepsSlices
<1>3. CASE ~ReceiveStop /\ ~CheckStops
  <2>1. UNCHANGED <<parked, prices, order>>
    BY <1>3, StopsChange
       DEF stopVars, orderVars, Next, Process, Match, Cancel, vars, ReceiveForBook,
           ReceiveUnknown, FokCheck, FindLevel, FindMaker, Trade, UpdateFilled, Settle,
           LeaveLevel, PublishTrades, ReportOrders, FinishOrder, DropRemainder,
           RestRemainder, AnnounceOrder, CancelRemove, CancelFinish
  <2>2. pc' = "panicked" => pc = "panicked"
    BY <1>3 DEF AfterMatch,
           Next, Process, Match, Cancel, vars, procVars, ReceiveForBook, Receive,
           ReceiveUnknown, FokCheck, FindLevel, FindMaker, Trade, Settle,
           LeaveLevel, PublishTrades, ReportOrders, FinishOrder, DropRemainder,
           RestRemainder, AnnounceOrder, CancelRemove, CancelFinish
  <2>3. BuyKeysDiffer' => BuyKeysDiffer
    BY <2>1 DEF BuyKeysDiffer, Key
  <2>4. ASSUME BuyKeysDiffer, NEW side \in OrderSide
        PROVE  Sorted(side, prices[side])' /\ ToSet(prices[side])' = Keys(side)'
    <3>1. Keys(side)' = Keys(side) /\ prices'[side] = prices[side]
      BY <2>1 DEF Keys, Key
    <3>2. Sorted(side, prices'[side]) /\ ToSet(prices'[side]) = Keys(side)'
      BY <2>4, <3>1 DEF StopsInv
    <3> QED BY <3>2 DEF Sorted, ToSet
  <2> QED BY <2>2, <2>3, <2>4 DEF StopsInv
<1> QED BY <1>1, <1>2, <1>3

-----------------------------------------------------------------------------
(* The types of the market, and the theorems about stop orders.            *)

\* What the processing goroutine holds.
ProcTypes ==
  /\ taker \in OrderId \cup {NoOrder}
  /\ level \in OrderId \cup {NoLevel}
  /\ maker \in OrderId \cup {NoOrder}
  /\ lastPrice \in Nat
  /\ withdrawn \subseteq OrderId

\* Every step keeps its types.
LEMMA ProcTypesStep ==
  ASSUME IInv, TradesInv, IcebergInv, ProcTypes, [Next]_vars
  PROVE  ProcTypes'
<1>1. taker' \in OrderId \cup {NoOrder}
  BY DEF ProcTypes, Next, Process, Match, Cancel, vars, procVars, ReceiveForBook, Receive,
         ReceiveStop, ReceiveUnknown, FokCheck, FindLevel, FindMaker, Trade, Settle,
         LeaveLevel, PublishTrades, ReportOrders, CheckStops, FinishOrder, DropRemainder,
         RestRemainder, AnnounceOrder, CancelRemove, CancelFinish
<1>2. level' \in OrderId \cup {NoLevel}
  <2>1. CASE FindLevel
    <3>1. BestLevel(MakerSide) = NoLevel \/ BestLevel(MakerSide) \in tree
      BY DEF BestLevel, BestLevels, Levels
    <3>2. tree \subseteq OrderId
      BY DEF IInv, BookShape, BookTypeOK
    <3>3. level' = BestLevel(MakerSide) \/ level' = level
      BY <2>1 DEF FindLevel
    <3> QED BY <3>1, <3>2, <3>3 DEF ProcTypes
  <2>2. CASE ~FindLevel
    BY <2>2
       DEF ProcTypes, Next, Process, Match, Cancel, vars, procVars, ReceiveForBook, Receive,
           ReceiveStop, ReceiveUnknown, FokCheck, FindMaker, Trade, Settle,
           LeaveLevel, PublishTrades, ReportOrders, CheckStops, FinishOrder, DropRemainder,
           RestRemainder, AnnounceOrder, CancelRemove, CancelFinish
  <2> QED BY <2>1, <2>2
<1>3. maker' \in OrderId \cup {NoOrder}
  <2>1. CASE FindMaker
    <3>1. level \in OrderId
      BY <2>1 DEF FindMaker, IInv, MatcherInv, AtLevel
    <3>2. queue[level] \in Seq(OrderId)
      BY <3>1 DEF IInv, BookShape, BookTypeOK
    <3>3. queue[level] # <<>> => Head(queue[level]) \in OrderId
      BY <3>2
    <3>4. maker' = IF queue[level] = <<>> THEN maker ELSE Head(queue[level])
      BY <2>1 DEF FindMaker
    <3> QED BY <3>3, <3>4 DEF ProcTypes
  <2>2. CASE ~FindMaker
    BY <2>2
       DEF ProcTypes, Next, Process, Match, Cancel, vars, procVars, ReceiveForBook, Receive,
           ReceiveStop, ReceiveUnknown, FokCheck, FindLevel, Trade, Settle,
           LeaveLevel, PublishTrades, ReportOrders, CheckStops, FinishOrder, DropRemainder,
           RestRemainder, AnnounceOrder, CancelRemove, CancelFinish
  <2> QED BY <2>1, <2>2
<1>4. lastPrice' \in Nat
  <2>1. CASE PublishTrades
    <3> DEFINE n == Len(trades)
    <3>1. trades \in Seq(TradeRecord) /\ trades # <<>>
      BY <2>1 DEF PublishTrades, TradesInv, IcebergInv
    <3>2. n \in Nat /\ n # 0 /\ \A i \in 1..n : trades[i] \in TradeRecord
      BY <3>1, EmptySeq
    <3>3. lastPrice' = trades[n].price
      BY <2>1 DEF PublishTrades, Last
    <3> HIDE DEF n
    <3>4. trades[n] \in TradeRecord
      BY <3>2
    <3> QED BY <3>3, <3>4 DEF TradeRecord
  <2>2. CASE ~PublishTrades
    BY <2>2
       DEF ProcTypes, Next, Process, Match, Cancel, vars, eventVars, ReceiveForBook,
           ReceiveStop, ReceiveUnknown, FokCheck, FindLevel, FindMaker, Trade, Settle,
           LeaveLevel, ReportOrders, CheckStops, FinishOrder, DropRemainder,
           RestRemainder, AnnounceOrder, CancelRemove, CancelFinish
  <2> QED BY <2>1, <2>2
<1>5. withdrawn' \subseteq OrderId
  BY DEF ProcTypes, Next, Process, Match, Cancel, vars, ReceiveForBook,
         ReceiveStop, ReceiveUnknown, FokCheck, FindLevel, FindMaker, Trade, Settle,
         LeaveLevel, PublishTrades, ReportOrders, CheckStops, FinishOrder, DropRemainder,
         RestRemainder, AnnounceOrder, CancelRemove, CancelFinish
<1> QED BY <1>1, <1>2, <1>3, <1>4, <1>5 DEF ProcTypes

\* All that holds of the market whatever the instance.
MarketInv == IInv /\ TradesInv /\ IcebergInv /\ StopTypes /\ ProcTypes

\* It holds of every behaviour.
LEMMA MarketInvariance == Spec => []MarketInv
<1>1. Init => MarketInv
  <2> SUFFICES ASSUME Init
               PROVE  MarketInv
    OBVIOUS
  <2>1. IInv
    BY InitInvariant
  <2>2. TradesInv
    BY DEF Init, OrdersInit, TradesInv, Unpublished
  <2>3. IcebergInv
    BY DEF Init, IcebergInit, IcebergInv
  <2>4. StopTypes /\ ProcTypes
    BY DEF Init, StopsInit, StopTypes, ProcTypes
  <2> QED BY <2>1, <2>2, <2>3, <2>4 DEF MarketInv
<1>2. MarketInv /\ [Next]_vars => MarketInv'
  BY StepInvariant, TradesStep, IcebergStep, StopTypesStep, ProcTypesStep DEF MarketInv
<1> QED BY <1>1, <1>2, PTL DEF Spec

\* Every variable of the market keeps its type: in particular no total and no
\* amount shown or hidden leaves the numbers, and every slice and list holds
\* only keys, orders and trades there are.
THEOREM TypesAreKept == Spec => []TypeOK
<1>1. MarketInv => TypeOK
  BY DEF MarketInv, TypeOK, IInv, BookShape, MatcherInv, ProcessorTypeOK, ProcTypes,
         TradesInv, ManagersTypeOK, IcebergInv, StopTypes
<1> QED BY <1>1, MarketInvariance, PTL

\* The stop manager keeps its slices.
LEMMA StopsInvariance == Spec => []StopsInv
<1>1. Init => StopsInv
  <2> SUFFICES ASSUME Init
               PROVE  StopsInv
    OBVIOUS
  <2>1. \A side \in OrderSide : prices[side] = <<>> /\ Keys(side) = {}
    BY DEF Init, StopsInit, Keys
  <2>2. DOMAIN (<<>>) = {} /\ ToSet(<<>>) = {}
    BY DEF ToSet
  <2>3. \A side \in OrderSide : Sorted(side, prices[side]) /\ ToSet(prices[side]) = Keys(side)
    BY <2>1, <2>2 DEF Sorted
  <2>4. pc = "idle"
    BY DEF Init
  <2> QED BY <2>3, <2>4 DEF StopsInv
<1>2. MarketInv /\ StopsInv /\ [Next]_vars => StopsInv'
  BY StopsStep DEF MarketInv, ProcTypes
<1> QED BY <1>1, <1>2, MarketInvariance, PTL DEF Spec

\* Each slice of stop prices lists the keys of its map, every one once and in
\* order, and the cut by a count of orders never ends the process, until two buy
\* orders without a stop price are parked.
THEOREM StopPricesAlwaysMatch == Spec => []StopPricesMatchMap
<1>1. StopsInv => StopPricesMatchMap
  BY DEF StopsInv, StopPricesMatchMap, SlicesListTheMaps, Sorted, Keys
<1> QED BY <1>1, StopsInvariance, PTL

-----------------------------------------------------------------------------
(* The market as an exchange.                                              *)

\* Who the taker can trade with,
Matches == {o \in Open : order[o].side = MakerSide /\ Crosses(o)}

\* when it need not go on,
Through ==
  \/ Remain(taker) = 0
  \/ Matches = {}
  \/ IsTif("IOC") \/ IsTif("GTX")
  \/ IsTif("FOK") /\ filled[taker] = 0 /\ LeftSum(order, filled, Matches) < Remain(taker)

\* and where the loop is behind it.
Past == {"publish", "report", "stops", "rest"}

\* Only a maker that has just been filled waits with nothing left; the loop looks
\* for makers while there is something to trade; who has not been matched, or is
\* being matched, is not finished before it is filled; and matching does not end
\* too early.
ExchangeInv ==
  /\ \A o \in OrderId : Queued(o) /\ Remain(o) = 0 => pc = "settle" /\ o = maker
  /\ pc \in {"first", "trade"} => Remain(taker) > 0
  /\ pc = "trade" => Remain(maker) > 0
  /\ pc = "settle" /\ Remain(maker) = 0 => IsFinished(maker)
  /\ \A o \in OrderId : o >= next \/ (o = taker /\ pc \in Matching)
                          => (Remain(o) > 0 => ~IsFinished(o))
  /\ \A o \in OrderId : o >= next \/ (o = taker /\ pc = "check") => filled[o] = 0
  /\ pc = "check" => IsTif("FOK")
  /\ pc \in Past => Through

\* The loop ends because nobody suits the taker, whatever kind it is.
LEMMA LoopEndsAlone ==
  ASSUME IInv, WaitingOrdersAreReachable, FindLevel, pc' # "first", Remain(taker) > 0
  PROVE  Matches = {}
<1> SUFFICES ASSUME NEW o \in Matches PROVE FALSE
  OBVIOUS
<1>1. o \in OrderId /\ Queued(o) /\ order[o].side = MakerSide /\ Crosses(o)
  BY DEF Matches, Open
<1>2. CASE ~IsType("market")
  <2>1. ~Accepts(order[taker].side, order[taker].price, order[o].price)
    BY <1>1, <1>2, LoopEndsClear
  <2> QED BY <1>1, <1>2, <2>1 DEF Crosses
<1>3. CASE IsType("market")
  <2>1. PICK l \in OrderId : o \in ToSet(queue[l])
    BY <1>1 DEF Queued
  <2>2. l \in Levels(MakerSide)
    <3>1. queue[l] # <<>>
      BY <2>1 DEF ToSet
    <3>2. order[o].side = order[l].side
      BY <2>1 DEF IInv, BookShape, QueuesMatchIndex
    <3> QED BY <1>1, <3>1, <3>2 DEF Levels, WaitingOrdersAreReachable
  <2>3. MakerSide \in OrderSide
    BY DEF MakerSide, Opposite, OrderSide
  <2>4. BestLevel(MakerSide) \in BestLevels(MakerSide)
    BY <2>2, <2>3, BestExists DEF BestLevel
  <2>5. BestLevel(MakerSide) \in OrderId
    BY <2>4 DEF BestLevels, Levels, IInv, BookShape, BookTypeOK
  <2>6. BestLevel(MakerSide) # NoLevel
    BY <2>5, OrderFacts DEF IInv, BookShape
  <2> QED BY <1>3, <2>6 DEF FindLevel, Crosses
<1> QED BY <1>2, <1>3

\* A cancel takes one order away from those who wait.
LEMMA CancelCloses ==
  ASSUME IInv, NEW o \in OrderId, CancelRemove(o)
  PROVE  /\ \A p \in OrderId : Queued(p)' <=> Queued(p) /\ p # o
         /\ Open' = Open \ {o}
         /\ UNCHANGED <<order, filled, status, procVars>>
<1>1. /\ order' = order /\ filled' = filled /\ status' = status
      /\ \A k \in OrderId : ToSet(queue'[k]) = IF k = index[o] THEN ToSet(queue[k]) \ {o}
                                                             ELSE ToSet(queue[k])
  BY CancelTakes
<1>2. \A k \in OrderId : o \in ToSet(queue[k]) => k = index[o]
  BY QueuedFacts DEF IInv, BookShape
<1>3. \A p \in OrderId : Queued(p)' <=> Queued(p) /\ p # o
  BY <1>1, <1>2 DEF Queued
<1>4. Open' = Open \ {o}
  BY <1>1, <1>3 DEF Open, Remain
<1> QED BY <1>1, <1>3, <1>4 DEF CancelRemove

\* What ends the matching of an order still does when somebody leaves.
LEMMA StaysThrough ==
  ASSUME IInv, taker \in OrderId, Through, UNCHANGED <<order, filled, taker>>,
         NEW o, Open' = Open \ {o}
  PROVE  Through'
<1>1. /\ Matches \in SUBSET OrderId /\ Matches' = Matches \ {o}
      /\ Remain(taker)' = Remain(taker)
      /\ \A tif : IsTif(tif)' = IsTif(tif)
  BY DEF Matches, Open, MakerSide, Crosses, IsType, IsTif, Remain
<1>2. \A p \in OrderId : order[p].amount - filled[p] \in Nat
  BY RemainIsNat
<1>3. LeftSum(order, filled, Matches \ {o}) <= LeftSum(order, filled, Matches)
      /\ LeftSum(order, filled, Matches) \in Int
      /\ LeftSum(order, filled, Matches \ {o}) \in Int
  <2> HIDE DEF Matches
  <2>1. LeftSum(order, filled, Matches) \in Int /\ LeftSum(order, filled, Matches \ {o}) \in Int
    BY <1>1, <1>2, LeftSumLaws
  <2>2. CASE o \in Matches
    <3>1. \A p \in Matches : LeftSum(order, filled, Matches)
            = (order[p].amount - filled[p]) + LeftSum(order, filled, Matches \ {p})
      <4>1. Matches \in SUBSET OrderId /\ \A p \in OrderId : order[p].amount - filled[p] \in Int
        BY <1>1, <1>2
      <4> QED BY <4>1, LeftSumLaws, Zenon
    <3>2. order[o].amount - filled[o] \in Nat
      BY <1>1, <1>2, <2>2
    <3> QED BY <2>1, <2>2, <3>1, <3>2
  <2>3. CASE o \notin Matches
    <3>1. Matches \ {o} = Matches
      BY <2>3
    <3> QED BY <2>1, <3>1
  <2> QED BY <2>2, <2>3
<1>4. Remain(taker) \in Nat
  BY RemainIsNat
<1>5. Matches = {} => Matches' = {}
  BY <1>1
<1>6. LeftSum(order, filled, Matches)' = LeftSum(order, filled, Matches \ {o})
  <2> HIDE DEF Matches
  <2> QED BY <1>1
<1> HIDE DEF Matches, LeftSum
<1>7. LeftSum(order, filled, Matches) < Remain(taker)
        => LeftSum(order, filled, Matches)' < Remain(taker)'
  BY <1>1, <1>3, <1>4, <1>6
<1> QED BY <1>1, <1>5, <1>7 DEF Through

\* A FOK order that is turned away is through.
LEMMA RefusedIsThrough ==
  ASSUME IInv, WaitingOrdersAreReachable, DepthCovers, ExchangeInv, FokCheck,
         pc' = "rest"
  PROVE  Through
<1> DEFINE S == {o \in OrderId : Queued(o) /\ order[o].side = MakerSide /\ Crosses(o)}
<1>1. /\ pc = "check" /\ taker \in OrderId /\ filled[taker] = 0 /\ IsTif("FOK")
      /\ Available < Remain(taker)
  BY DEF FokCheck, ExchangeInv, IInv, MatcherInv, PC, Processing
<1>2. Matches = S
  <2>1. \A o \in OrderId : Queued(o) => Remain(o) > 0
    BY <1>1, RemainIsNat DEF ExchangeInv
  <2> QED BY <2>1 DEF Matches, Open
<1>3. RemainIn(S) <= Available
  BY FokCountsEverybody
<1>4. RemainIn(S) = LeftSum(order, filled, S)
  BY DEF RemainIn, Remain, LeftSum, MapThenSumSet, MapThenFoldSet
<1>5. LeftSum(order, filled, S) \in Int /\ Remain(taker) \in Int
  <2>1. S \in SUBSET OrderId /\ \A o \in OrderId : order[o].amount - filled[o] \in Int
    BY RemainIsNat
  <2> HIDE DEF S
  <2> QED BY <1>1, <2>1, LeftSumLaws, RemainIsNat
<1>6. Available \in Int
  <2> DEFINE L == {l \in Levels(MakerSide) : Crosses(l)}
  <2>1. Available = SumOf(total, L)
    BY DEF Available, SumOf
  <2>2. L \in SUBSET OrderId /\ \A l \in L : total[l] \in Int
    BY DEF Levels, IInv, BookShape, BookTypeOK
  <2>3. IsFiniteSet(L)
    <3>1. IsFiniteSet(OrderId)
      BY OrdersAssumption, FS_Interval DEF OrderId
    <3> QED BY <2>2, <3>1, FS_Subset
  <2> HIDE DEF L
  <2> QED BY <2>1, <2>2, <2>3, SumType
<1> HIDE DEF S, Matches
<1>7. LeftSum(order, filled, Matches) < Remain(taker)
  BY <1>1, <1>2, <1>3, <1>4, <1>5, <1>6
<1> QED BY <1>1, <1>7 DEF Through

\* It does as long as nobody who is open leaves and nobody is filled.
LEMMA ThroughUnchanged ==
  ASSUME UNCHANGED <<order, filled, taker>>, Open' = Open, Through
  PROVE  Through'
<1>1. Matches' = Matches
  BY DEF Matches, MakerSide, Crosses, IsType
<1>2. LeftSum(order, filled, Matches)' = LeftSum(order, filled, Matches)
  <2> HIDE DEF Matches
  <2> QED BY <1>1
<1>3. \A tif : IsTif(tif)' = IsTif(tif)
  BY DEF IsTif, IsType
<1>4. Remain(taker)' = Remain(taker)
  BY DEF Remain
<1> HIDE DEF Matches, LeftSum
<1> QED BY <1>1, <1>2, <1>3, <1>4 DEF Through

\* A step that only looks at the book.
LEMMA LookingKeeps ==
  ASSUME IInv, ExchangeInv, UNCHANGED <<order, filled, status, queue, next, taker>>,
         pc # "settle", pc' # "settle", pc' # "check",
         pc' \in Matching => pc \in Matching,
         pc' \in {"first", "trade"} => Remain(taker) > 0,
         pc' = "trade" => maker' \in OrderId /\ Queued(maker'),
         pc' \in Past => Through
  PROVE  ExchangeInv' /\ Open' = Open
<1>1. /\ \A o \in OrderId : Remain(o)' = Remain(o) /\ (Queued(o)' <=> Queued(o))
      /\ \A o \in OrderId : IsFinished(o)' <=> IsFinished(o)
      /\ \A o \in OrderId : Remain(o) \in Nat
      /\ Remain(taker)' = Remain(taker)
  BY RemainIsNat DEF Remain, Queued, IsFinished
<1>2. Open' = Open
  BY <1>1 DEF Open
<1>3. \A o \in OrderId : Queued(o) => Remain(o) > 0
  BY <1>1 DEF ExchangeInv
<1>4. pc' = "trade" => Remain(maker)' > 0
  <2> SUFFICES ASSUME pc' = "trade" PROVE Remain(maker)' > 0
    OBVIOUS
  <2>1. Remain(maker') > 0
    BY <1>3
  <2> QED BY <2>1 DEF Remain
<1>5. Through => Through'
  BY <1>2, ThroughUnchanged
<1>6. \A o \in OrderId : o >= next' \/ (o = taker' /\ pc' \in Matching)
                           => (Remain(o)' > 0 => ~IsFinished(o)')
  BY <1>1 DEF ExchangeInv
<1> HIDE DEF Through
<1>7. ExchangeInv'
  BY <1>1, <1>3, <1>4, <1>5, <1>6 DEF ExchangeInv
<1> QED BY <1>2, <1>7

\* The next order is taken up.
LEMMA ReceiveKeeps ==
  ASSUME IInv, ExchangeInv, ReceiveForBook \/ ReceiveStop \/ ReceiveUnknown
  PROVE  ExchangeInv' /\ Open' = Open
<1>1. PICK o \in OrderId :
        /\ pc = "idle" /\ o = next /\ next' = next + 1 /\ taker' = o
        /\ UNCHANGED <<order, filled, queue>>
        /\ \/ pc' \in {"check", "best"} /\ status' = status
           \/ pc' = "idle"
        /\ pc' = "check" => order[o].type = "limit" /\ order[o].tif = "FOK"
        /\ status' # status => pc' = "idle" /\ status' = [status EXCEPT ![o] = "rejected"]
  BY DEF ReceiveForBook, ReceiveStop, ReceiveUnknown, Receive, orderVars, bookVars
<1>2. /\ \A p \in OrderId : Remain(p)' = Remain(p) /\ (Queued(p)' <=> Queued(p))
      /\ \A p \in OrderId : Remain(p) \in Nat /\ p \in Int
      /\ status \in [OrderId -> OrderStatus]
      /\ next \in Int
  <2>1. \A p \in OrderId : Remain(p)' = Remain(p) /\ (Queued(p)' <=> Queued(p))
    BY <1>1 DEF Remain, Queued
  <2>2. \A p \in OrderId : Remain(p) \in Nat /\ p \in Int
    BY RemainIsNat DEF OrderId
  <2>3. status \in [OrderId -> OrderStatus]
    BY DEF IInv, BookShape, BookTypeOK
  <2>4. next \in Int
    BY OrdersAssumption DEF IInv, MatcherInv
  <2> QED BY <2>1, <2>2, <2>3, <2>4
<1>3. Open' = Open
  BY <1>2 DEF Open
<1>4. \A p \in OrderId : Queued(p)' /\ Remain(p)' = 0 => pc' = "settle" /\ p = maker'
  BY <1>1, <1>2 DEF ExchangeInv
<1>5. pc' \notin {"first", "trade", "settle"} \cup Past
  BY <1>1 DEF Past
<1>6. "idle" \notin Matching
  BY DEF Matching, Processing
<1>7. ASSUME NEW p \in OrderId, p >= next' \/ (p = taker' /\ pc' \in Matching), Remain(p)' > 0
      PROVE  ~IsFinished(p)'
  <2>1. p >= next /\ ~IsFinished(p)
    BY <1>1, <1>2, <1>7 DEF ExchangeInv
  <2>2. status'[p] = status[p]
    BY <1>1, <1>2, <1>6, <1>7
  <2> QED BY <2>1, <2>2 DEF IsFinished
<1>8. \A p \in OrderId : p >= next' \/ (p = taker' /\ pc' = "check") => filled'[p] = 0
  BY <1>1, <1>2 DEF ExchangeInv
<1>9. pc' = "check" => IsTif("FOK")'
  BY <1>1 DEF IsTif, IsType
<1>10. ExchangeInv'
  BY <1>4, <1>5, <1>7, <1>8, <1>9 DEF ExchangeInv
<1> QED BY <1>3, <1>10

\* A trade fills one of the two.
LEMMA TradeKeeps ==
  ASSUME IInv, ExchangeInv, Trade
  PROVE  ExchangeInv'
<1>1. /\ order' = order /\ queue' = queue
      /\ taker \in OrderId /\ maker \in OrderId /\ taker # maker
      /\ MatchAmount \in Nat
      /\ MatchAmount <= Remain(taker) /\ MatchAmount <= Remain(maker)
      /\ \A o \in OrderId : /\ filled'[o] = IF o \in {taker, maker} THEN filled[o] + MatchAmount
                                                                   ELSE filled[o]
                            /\ status'[o] = IF o \in {taker, maker}
                                              THEN StatusAfterFill(o, MatchAmount)
                                              ELSE status[o]
  BY TradeFills
<1>2. /\ pc = "trade" /\ pc' = "settle" /\ pc \in Matching
      /\ next' = next /\ taker' = taker /\ maker' = maker
  BY DEF Trade, PC, Processing, Matching
<1>3. /\ taker = next - 1 /\ maker < taker /\ next \in Int /\ \A o \in OrderId : o \in Int
      /\ \A l \in OrderId : \A x \in ToSet(queue[l]) : x < taker
  BY <1>2, TradeFacts, IndexedAreOlder, OrdersAssumption DEF IInv, MatcherInv, OrderId
<1>4. \A o \in OrderId : /\ Remain(o) \in Nat /\ order[o].amount \in Nat /\ filled[o] \in Nat
                         /\ Remain(o) = order[o].amount - filled[o]
  BY RemainIsNat
<1> HIDE DEF MatchAmount
<1>5. \A o \in OrderId : /\ Remain(o)' = IF o \in {taker, maker} THEN Remain(o) - MatchAmount
                                                                ELSE Remain(o)
                         /\ Queued(o)' <=> Queued(o)
  BY <1>1, <1>4 DEF Remain, Queued
<1>6. ~Queued(taker)
  BY <1>3 DEF Queued
<1>7. \A o \in OrderId : Queued(o)' /\ Remain(o)' = 0 => o = maker
  BY <1>1, <1>2, <1>5, <1>6 DEF ExchangeInv
<1>8. ASSUME NEW o \in {taker, maker}
      PROVE  IsFinished(o)' <=> Remain(o)' = 0
  <2>1. status'[o] = IF Remain(o) = MatchAmount THEN "filled" ELSE "partially_filled"
    BY <1>1 DEF StatusAfterFill
  <2>2. Remain(o)' = 0 <=> Remain(o) = MatchAmount
    BY <1>1, <1>4, <1>5
  <2> QED BY <2>1, <2>2 DEF IsFinished
<1>9. ASSUME NEW o \in OrderId, o >= next \/ o = taker, Remain(o)' > 0
      PROVE  ~IsFinished(o)'
  <2>1. CASE o = taker
    BY <1>8, <1>9, <2>1
  <2>2. CASE o # taker
    <3>1. o >= next /\ o # maker
      BY <1>1, <1>3, <1>9, <2>2
    <3>2. Remain(o) > 0 /\ status'[o] = status[o]
      BY <1>1, <1>5, <1>9, <2>2, <3>1
    <3> QED BY <3>1, <3>2 DEF ExchangeInv, IsFinished
  <2> QED BY <2>1, <2>2
<1>10. \A o \in OrderId : o >= next => filled'[o] = 0
  BY <1>1, <1>3 DEF ExchangeInv
<1>11. Remain(maker)' = 0 => IsFinished(maker)'
  <2>1. IsFinished(maker)' <=> status'[maker'] \in {"filled", "cancelled", "rejected"}
    BY DEF IsFinished
  <2>2. Remain(maker)' = order'[maker'].amount - filled'[maker']
    BY DEF Remain
  <2>3. (status'[maker] \in {"filled", "cancelled", "rejected"})
          <=> order'[maker].amount - filled'[maker] = 0
    BY <1>8 DEF IsFinished, Remain
  <2> QED BY <1>2, <2>1, <2>2, <2>3
<1> QED BY <1>2, <1>7, <1>9, <1>10, <1>11 DEF ExchangeInv, Past

\* A filled maker leaves its list.
LEMMA SettleKeeps ==
  ASSUME IInv, WaitingOrdersAreReachable, ExchangeInv, Settle
  PROVE  ExchangeInv' /\ Open' = Open
<1>1. /\ order' = order /\ filled' = filled /\ status' = status
      /\ level \in OrderId /\ maker \in OrderId
      /\ \/ queue' = queue /\ ~IsFinished(maker)
         \/ /\ IsFinished(maker)
            /\ \A k \in OrderId : ToSet(queue'[k]) = IF k = level THEN ToSet(queue[k]) \ {maker}
                                                              ELSE ToSet(queue[k])
  <2>1. IsFinished(maker)
          => \A k \in OrderId : ToSet(queue'[k]) = IF k = level THEN ToSet(queue[k]) \ {maker}
                                                             ELSE ToSet(queue[k])
    <3> SUFFICES ASSUME IsFinished(maker)
                 PROVE  \A k \in OrderId :
                          ToSet(queue'[k]) = IF k = level THEN ToSet(queue[k]) \ {maker}
                                                       ELSE ToSet(queue[k])
      OBVIOUS
    <3>1. queue' = [queue EXCEPT ![level] = RemoveFirst(@, maker)]
      BY DEF Settle, LevelRemoveOrder
    <3> QED BY <3>1, SettleRemoves, RemovalFromQueue DEF IInv, BookShape
  <2>2. ~IsFinished(maker) => queue' = queue
    BY DEF Settle
  <2> QED BY <2>1, <2>2, SettleRemoves
<1>2. /\ pc = "settle" /\ pc' \in {"first", "leave"}
      /\ pc' = "first" => Remain(taker) > 0
      /\ next' = next /\ taker' = taker /\ pc \in Matching /\ pc' \notin Past \cup {"check"}
  BY DEF Settle, PC, Processing, Matching, Past
<1>3. \A l \in OrderId : maker \in ToSet(queue[l]) => l = level
  <2> SUFFICES ASSUME NEW l \in OrderId, maker \in ToSet(queue[l]) PROVE l = level
    OBVIOUS
  <2>1. queue[l] # <<>>
    BY DEF ToSet
  <2>2. /\ l \in tree
        /\ order[maker].side = order[l].side /\ order[maker].price = order[l].price
    BY <2>1 DEF IInv, BookShape, QueuesMatchIndex, WaitingOrdersAreReachable
  <2>3. /\ OnlyLevelThere(level)
        /\ order[maker].side = order[level].side /\ order[maker].price = order[level].price
    BY <1>2 DEF IInv, MatcherInv, AtLevel
  <2> QED BY <2>2, <2>3 DEF OnlyLevelThere
<1>4. \A o \in OrderId : Queued(o)' <=> Queued(o) /\ ~(o = maker /\ IsFinished(maker))
  BY <1>1, <1>3 DEF Queued
<1>5. \A o \in OrderId : Remain(o)' = Remain(o) /\ Remain(o) \in Nat
                         /\ (IsFinished(o)' <=> IsFinished(o))
  BY <1>1, RemainIsNat DEF Remain, IsFinished
<1>6. Remain(maker) > 0 /\ IsFinished(maker) => ~Queued(maker)
  <2> SUFFICES ASSUME IsFinished(maker), Queued(maker) PROVE Remain(maker) = 0
    BY <1>1, <1>5
  <2>1. index[maker] # NoLevel
    BY QueuedFacts DEF Queued, IInv, BookShape
  <2> QED BY <1>1, <2>1 DEF IInv, BookShape, FinishedEntriesAreFilled
<1>7. Open' = Open
  BY <1>1, <1>4, <1>5, <1>6 DEF Open
<1>8. \A o \in OrderId : ~(Queued(o)' /\ Remain(o)' = 0)
  BY <1>2, <1>4, <1>5 DEF ExchangeInv
<1>9. pc' = "first" => Remain(taker)' > 0
  BY <1>1, <1>2 DEF Remain
<1>10. \A o \in OrderId : o >= next' \/ (o = taker' /\ pc' \in Matching)
                            => (Remain(o)' > 0 => ~IsFinished(o)')
  BY <1>2, <1>5 DEF ExchangeInv
<1>11. \A o \in OrderId : o >= next' => filled'[o] = 0
  BY <1>1, <1>2 DEF ExchangeInv
<1>12. ExchangeInv'
  BY <1>2, <1>8, <1>9, <1>10, <1>11 DEF ExchangeInv
<1> QED BY <1>7, <1>12

\* What is left of the taker is put into the book, or given up.
LEMMA RemainderKeeps ==
  ASSUME IInv, ExchangeInv, RestRemainder \/ DropRemainder
  PROVE  /\ ExchangeInv'
         /\ Open' = IF RestRemainder THEN Open \cup {taker} ELSE Open
<1>1. /\ pc = "rest" /\ pc \in Matching /\ pc' = "announce" /\ Remain(taker) > 0
      /\ order' = order /\ filled' = filled /\ next' = next /\ taker' = taker
      /\ "announce" \notin Matching \cup Past
  BY DEF RestRemainder, DropRemainder, Leftover, orderVars, PC, Processing, Matching, Past
<1>2. /\ taker \in OrderId /\ taker = next - 1 /\ next \in Int
      /\ \A o \in OrderId : o \in Int
  BY <1>1, OrdersAssumption DEF IInv, MatcherInv, OrderId, Matching
<1>3. \A o \in OrderId : Remain(o)' = Remain(o) /\ Remain(o) \in Nat
  BY <1>1, RemainIsNat DEF Remain
<1>4. \A o \in OrderId : Queued(o)' <=> Queued(o) \/ (RestRemainder /\ o = taker)
  <2>1. CASE RestRemainder
    <3>1. PICK l \in OrderId :
            \A k \in OrderId : ToSet(queue'[k]) = IF k = l THEN ToSet(queue[k]) \cup {taker}
                                                          ELSE ToSet(queue[k])
      BY <2>1, RestAdds
    <3> QED BY <2>1, <3>1 DEF Queued
  <2>2. CASE DropRemainder
    <3>1. queue' = queue /\ ~RestRemainder
      BY <2>2 DEF DropRemainder, RestRemainder, bookVars
    <3> QED BY <3>1 DEF Queued
  <2> QED BY <2>1, <2>2
<1>5. \A o \in OrderId : o # taker => status'[o] = status[o]
  <2>1. status \in [OrderId -> OrderStatus]
    BY DEF IInv, BookShape, BookTypeOK
  <2> QED BY <1>2, <2>1 DEF RestRemainder, DropRemainder, orderVars
<1>6. \A o \in OrderId : ~(Queued(o)' /\ Remain(o)' = 0)
  BY <1>1, <1>3, <1>4 DEF ExchangeInv
<1>7. \A o \in OrderId : o >= next => (Remain(o)' > 0 => ~IsFinished(o)')
  <2> SUFFICES ASSUME NEW o \in OrderId, o >= next, Remain(o)' > 0 PROVE ~IsFinished(o)'
    OBVIOUS
  <2>1. o # taker /\ status'[o] = status[o] /\ Remain(o) > 0
    BY <1>2, <1>3, <1>5
  <2> QED BY <2>1 DEF ExchangeInv, IsFinished
<1>8. \A o \in OrderId : o >= next => filled'[o] = 0
  BY <1>1 DEF ExchangeInv
<1>9. ExchangeInv'
  BY <1>1, <1>6, <1>7, <1>8 DEF ExchangeInv
<1>10. Open' = IF RestRemainder THEN Open \cup {taker} ELSE Open
  BY <1>1, <1>2, <1>3, <1>4 DEF Open
<1> QED BY <1>9, <1>10

\* Clients take orders out of the book and write their status later.
LEMMA CancelKeeps ==
  ASSUME IInv, ExchangeInv, NEW o \in OrderId, CancelRemove(o) \/ CancelFinish(o)
  PROVE  /\ ExchangeInv'
         /\ Open' = IF CancelRemove(o) THEN Open \ {o} ELSE Open
<1>1. /\ UNCHANGED <<order, filled, procVars>>
      /\ \A p \in OrderId : Queued(p)' => Queued(p)
      /\ Open' = IF CancelRemove(o) THEN Open \ {o} ELSE Open
      /\ \A p \in OrderId : IsFinished(p) => IsFinished(p)'
      /\ \A p \in OrderId : p \notin cancelling => status'[p] = status[p]
  <2>1. CASE CancelRemove(o)
    BY <2>1, CancelCloses DEF IsFinished
  <2>2. CASE CancelFinish(o)
    <3>1. /\ UNCHANGED <<order, filled, queue, procVars>>
          /\ o \in cancelling /\ cancelling' = cancelling \ {o}
          /\ status' = [status EXCEPT ![o] = "cancelled"]
          /\ status \in [OrderId -> OrderStatus]
      BY <2>2 DEF CancelFinish, bookVars, IInv, BookShape, BookTypeOK
    <3>2. ~CancelRemove(o)
      <4>1. CancelRemove(o) => o \in cancelling'
        BY DEF CancelRemove
      <4> QED BY <3>1, <4>1
    <3>3. \A p \in OrderId : (Queued(p)' <=> Queued(p)) /\ Remain(p)' = Remain(p)
      BY <3>1 DEF Queued, Remain
    <3>4. Open' = Open
      BY <3>3 DEF Open
    <3>5. \A p \in OrderId : IsFinished(p) => IsFinished(p)'
      BY <3>1 DEF IsFinished
    <3>6. \A p \in OrderId : p \notin cancelling => status'[p] = status[p]
      BY <3>1
    <3> QED BY <3>1, <3>2, <3>3, <3>4, <3>5, <3>6
  <2> QED BY <2>1, <2>2
<1>2. /\ pc' = pc /\ next' = next /\ taker' = taker /\ maker' = maker
      /\ \A p \in OrderId : Remain(p)' = Remain(p)
      /\ Remain(taker)' = Remain(taker) /\ Remain(maker)' = Remain(maker)
      /\ \A tif : IsTif(tif)' <=> IsTif(tif)
  BY <1>1 DEF procVars, Remain, IsTif, IsType
<1>3. \A p \in OrderId : p >= next \/ (p = taker /\ pc \in Matching)
                           => (Remain(p)' > 0 => ~IsFinished(p)')
  <2> SUFFICES ASSUME NEW p \in OrderId, p >= next \/ (p = taker /\ pc \in Matching),
                      Remain(p)' > 0
               PROVE  ~IsFinished(p)'
    OBVIOUS
  <2>1. p \notin cancelling
    BY DEF IInv, MatcherInv, Fresh
  <2>2. ~IsFinished(p)
    BY <1>2 DEF ExchangeInv
  <2> QED BY <1>1, <2>1, <2>2 DEF IsFinished
<1>4. Through /\ pc \in Past => Through'
  <2> SUFFICES ASSUME Through, pc \in Past PROVE Through'
    OBVIOUS
  <2>1. taker \in OrderId
    BY DEF Past, IInv, MatcherInv, PC, Processing
  <2>2. CASE CancelRemove(o)
    BY <1>1, <1>2, <2>1, <2>2, StaysThrough
  <2>3. CASE ~CancelRemove(o)
    BY <1>1, <1>2, <2>3, ThroughUnchanged
  <2> QED BY <2>2, <2>3
<1>5. pc = "settle" /\ Remain(maker)' = 0 => IsFinished(maker)'
  <2> SUFFICES ASSUME pc = "settle", Remain(maker)' = 0 PROVE IsFinished(maker)'
    OBVIOUS
  <2>1. maker \in OrderId /\ IsFinished(maker)
    BY <1>2 DEF ExchangeInv, IInv, MatcherInv
  <2>2. status'[maker] \in {"filled", "cancelled", "rejected"}
    BY <1>1, <2>1 DEF IsFinished
  <2> QED BY <1>2, <2>2 DEF IsFinished
<1> HIDE DEF Through
<1>6. ExchangeInv'
  BY <1>1, <1>2, <1>3, <1>4, <1>5 DEF ExchangeInv
<1> QED BY <1>1, <1>6

\* The steps that only look at the book.
Looking ==
  FokCheck \/ FindLevel \/ FindMaker \/ LeaveLevel \/ PublishTrades \/ ReportOrders
    \/ CheckStops \/ FinishOrder \/ AnnounceOrder

LEMMA LookingStepKeeps ==
  ASSUME IInv, WaitingOrdersAreReachable, DepthCovers, ExchangeInv, Looking
  PROVE  /\ ExchangeInv' /\ Open' = Open
         /\ UNCHANGED <<order, filled, next, taker>>
<1>1. /\ UNCHANGED <<order, filled, status, queue, next, taker>>
      /\ pc # "settle" /\ pc' # "settle" /\ pc' # "check"
      /\ pc' \in Matching => pc \in Matching
  BY DEF Looking, FokCheck, FindLevel, FindMaker, LeaveLevel, AfterMatch, PublishTrades,
         ReportOrders, CheckStops, FinishOrder, AnnounceOrder, bookVars, orderVars,
         PC, Processing, Matching
<1>2. pc' \in {"first", "trade"} => Remain(taker) > 0
  <2>1. pc' = "first" => FindLevel /\ Remain(taker) > 0
    BY DEF Looking, FokCheck, FindLevel, FindMaker, LeaveLevel, AfterMatch, PublishTrades,
           ReportOrders, CheckStops, FinishOrder, AnnounceOrder
  <2>2. pc' = "trade" => pc = "first"
    BY DEF Looking, FokCheck, FindLevel, FindMaker, LeaveLevel, AfterMatch, PublishTrades,
           ReportOrders, CheckStops, FinishOrder, AnnounceOrder
  <2> QED BY <2>1, <2>2 DEF ExchangeInv
<1>3. ASSUME pc' = "trade"
      PROVE  maker' \in OrderId /\ Queued(maker')
  <2>1. pc = "first" /\ queue[level] # <<>> /\ maker' = Head(queue[level])
    BY <1>3 DEF Looking, FokCheck, FindLevel, FindMaker, LeaveLevel, AfterMatch,
                PublishTrades, ReportOrders, CheckStops, FinishOrder, AnnounceOrder
  <2>2. level \in OrderId /\ queue[level] \in Seq(OrderId)
    BY <2>1 DEF IInv, BookShape, BookTypeOK, MatcherInv, AtLevel
  <2>3. maker' = queue[level][1] /\ 1 \in DOMAIN queue[level] /\ maker' \in OrderId
    BY <2>1, <2>2
  <2> QED BY <2>2, <2>3 DEF Queued, ToSet
<1>4. ASSUME pc' \in Past
      PROVE  Through
  <2>1. \/ pc \in Past
        \/ FokCheck /\ pc' = "rest"
        \/ FindLevel /\ pc' # "first"
        \/ LeaveLevel /\ (IsTif("IOC") \/ IsTif("GTX"))
    BY <1>4 DEF Past, Looking, FokCheck, FindLevel, FindMaker, LeaveLevel, AfterMatch,
                PublishTrades, ReportOrders, CheckStops, FinishOrder, AnnounceOrder
  <2>2. CASE pc \in Past
    BY <2>2 DEF ExchangeInv
  <2>3. CASE FokCheck /\ pc' = "rest"
    BY <2>3, RefusedIsThrough
  <2>4. CASE FindLevel /\ pc' # "first"
    <3>1. taker \in OrderId
      BY <2>4 DEF FindLevel, IInv, MatcherInv, PC, Processing
    <3>2. Remain(taker) = 0 \/ Remain(taker) > 0
      BY <3>1, RemainIsNat
    <3>3. Remain(taker) > 0 => Matches = {}
      BY <2>4, LoopEndsAlone
    <3> QED BY <3>2, <3>3 DEF Through
  <2>5. CASE LeaveLevel /\ (IsTif("IOC") \/ IsTif("GTX"))
    BY <2>5 DEF Through
  <2> QED BY <2>1, <2>2, <2>3, <2>4, <2>5
<1> QED BY <1>1, <1>2, <1>3, <1>4, LookingKeeps

\* So the facts hold at every step.
LEMMA ExchangeStep ==
  ASSUME IInv, WaitingOrdersAreReachable, DepthCovers, ExchangeInv, [Next]_vars
  PROVE  ExchangeInv'
<1>1. CASE ReceiveForBook \/ ReceiveStop \/ ReceiveUnknown
  BY <1>1, ReceiveKeeps
<1>2. CASE Looking
  BY <1>2, LookingStepKeeps
<1>3. CASE Trade
  BY <1>3, TradeKeeps
<1>4. CASE Settle
  BY <1>4, SettleKeeps
<1>5. CASE RestRemainder \/ DropRemainder
  BY <1>5, RemainderKeeps
<1>6. CASE Cancel
  <2>1. PICK o \in OrderId : CancelRemove(o) \/ CancelFinish(o)
    BY <1>6 DEF Cancel
  <2> QED BY <2>1, CancelKeeps
<1>7. CASE UNCHANGED vars
  <2>1. UNCHANGED <<order, filled, status, queue, procVars>>
    BY <1>7 DEF vars, orderVars, bookVars
  <2>2. /\ \A o \in OrderId : /\ Remain(o)' = Remain(o) /\ (Queued(o)' <=> Queued(o))
                            /\ (IsFinished(o)' <=> IsFinished(o))
        /\ pc' = pc /\ next' = next /\ taker' = taker /\ maker' = maker
        /\ Remain(taker)' = Remain(taker) /\ Remain(maker)' = Remain(maker)
        /\ (IsFinished(maker)' <=> IsFinished(maker))
        /\ \A tif : IsTif(tif)' <=> IsTif(tif)
    BY <2>1 DEF Remain, Queued, IsFinished, procVars, IsTif, IsType
  <2>3. Open' = Open
    BY <2>2 DEF Open
  <2>4. Through => Through'
    BY <2>1, <2>3, ThroughUnchanged DEF procVars
  <2> HIDE DEF Through
  <2> QED BY <2>1, <2>2, <2>4 DEF ExchangeInv
<1> QED BY <1>1, <1>2, <1>3, <1>4, <1>5, <1>6, <1>7 DEF Next, Process, Match, Looking

-----------------------------------------------------------------------------
(* Every step of the market is a step of the exchange.                     *)

\* Who the taker can trade with, in the words of the exchange.
LEMMA PartnersAre ==
  ASSUME IInv, InHand = taker, taker \in OrderId
  PROVE  /\ Promise!Partners(InHand) = Matches
         /\ Promise!Remain(InHand) = Remain(taker)
         /\ Through => Promise!IsThrough(InHand)
<1>1. Promise!Partners(InHand) = Matches
  <2>1. \A m \in OrderId : Promise!Suits(taker, m) <=> Crosses(m)
    BY OrderFacts DEF Promise!Suits, Crosses, Accepts, IsType, IInv, BookShape
  <2>2. Promise!Opposite(order[taker].side) = MakerSide
    BY DEF Promise!Opposite, MakerSide, Opposite
  <2>3. Open \in SUBSET OrderId
    BY DEF Open
  <2> QED BY <2>1, <2>2, <2>3 DEF Promise!Partners, Matches
<1>2. \A o : Promise!Remain(o) = Remain(o)
  BY DEF Promise!Remain, Remain
<1>3. Through => Promise!IsThrough(InHand)
  <2> HIDE DEF Matches
  <2>1. Promise!MapThenSumSet(Promise!Remain, Promise!Partners(InHand))
          = LeftSum(order, filled, Matches)
    BY <1>1 DEF LeftSum, Promise!Remain, MapThenSumSet, MapThenFoldSet,
                Promise!MapThenSumSet, Promise!MapThenFoldSet
  <2> HIDE DEF LeftSum
  <2>2. \A tifs : Promise!HasValidity(InHand, tifs)
                  <=> order[taker].type = "limit" /\ order[taker].tif \in tifs
    BY DEF Promise!HasValidity
  <2> SUFFICES ASSUME Through PROVE Promise!IsThrough(InHand)
    OBVIOUS
  <2>3. CASE Remain(taker) = 0 \/ Matches = {}
    BY <1>1, <1>2, <2>3 DEF Promise!IsThrough
  <2>4. CASE IsTif("IOC") \/ IsTif("GTX")
    <3>1. Promise!HasValidity(InHand, {"IOC", "GTX"})
      BY <2>2, <2>4 DEF IsTif, IsType
    <3> QED BY <3>1 DEF Promise!IsThrough
  <2>5. CASE IsTif("FOK") /\ filled[taker] = 0
             /\ LeftSum(order, filled, Matches) < Remain(taker)
    <3>1. Promise!HasValidity(InHand, {"FOK"}) /\ filled[InHand] = 0
      BY <2>2, <2>5 DEF IsTif, IsType
    <3>2. Promise!MapThenSumSet(Promise!Remain, Promise!Partners(InHand)) < Promise!Remain(InHand)
      BY <1>2, <2>1, <2>5
    <3> QED BY <3>1, <3>2 DEF Promise!IsThrough
  <2> QED BY <2>3, <2>4, <2>5 DEF Through
<1> QED BY <1>1, <1>2, <1>3

\* The order that comes next is taken up.
LEMMA ReceivingEnters ==
  ASSUME IInv, ExchangeInv, ReceiveForBook \/ ReceiveStop \/ ReceiveUnknown
  PROVE  Promise!Enter
<1>1. Open' = Open
  BY ReceiveKeeps
<1>2. PICK o \in OrderId :
        /\ pc = "idle" /\ o = next /\ next' = next + 1 /\ taker' = o
        /\ order' = order /\ filled' = filled
        /\ pc' \in IF order[o].type \in {"limit", "market", "iceberg"}
                     THEN {"check", "best"} ELSE {"idle"}
  BY DEF ReceiveForBook, ReceiveStop, ReceiveUnknown, Receive, IsStop, orderVars
<1>3. /\ InHand = NoOrder /\ LookedUp = NoOrder /\ LookedUp' = NoOrder
      /\ InHand' = IF order[next].type \in {"limit", "market", "iceberg"} THEN next ELSE NoOrder
  BY <1>2 DEF InHand, LookedUp
<1> QED BY <1>1, <1>2, <1>3 DEF Promise!Enter, Promise!IsMatched, Promise!NoOrder, NoOrder,
                                Promise!OrderId, OrderId

\* The maker the loop finds is the one whose turn it is.
LEMMA FindingClaims ==
  ASSUME IInv, WaitingOrdersAreReachable, DepthCovers, ExchangeInv, FindMaker,
         pc' = "trade"
  PROVE  Promise!Claim
<1>1. /\ pc = "first" /\ queue[level] # <<>> /\ maker' = Head(queue[level])
      /\ UNCHANGED <<order, filled, queue, next, taker, level>>
  BY DEF FindMaker, orderVars, bookVars
<1>2. Open' = Open
  BY LookingStepKeeps DEF Looking
<1>3. /\ taker \in OrderId /\ level \in OrderId /\ Remain(taker) > 0
      /\ order[level].side = MakerSide
      /\ OnlyLevelThere(level) /\ BestThere(level) /\ Crosses(level)
  BY <1>1 DEF IInv, MatcherInv, AtLevel, PC, Processing, ExchangeInv
<1>4. /\ InHand = taker /\ InHand' = taker /\ LookedUp = NoOrder /\ LookedUp' = maker'
  BY <1>1 DEF InHand, LookedUp
<1>5. maker' \in ToSet(queue[level])
  <2>1. queue[level] \in Seq(OrderId)
    BY <1>3 DEF IInv, BookShape, BookTypeOK
  <2>2. maker' = queue[level][1] /\ 1 \in DOMAIN queue[level]
    BY <1>1, <2>1
  <2> QED BY <2>2 DEF ToSet
<1>6. /\ maker' \in OrderId
      /\ order[maker'].side = MakerSide /\ order[maker'].price = order[level].price
  BY <1>3, <1>5, QueuedFacts DEF IInv, BookShape, QueuesMatchIndex
<1>7. \A x \in ToSet(queue[level]) : maker' <= x
  <2>1. MatcherInv'
    BY FindMakerStep DEF IInv
  <2> QED BY <1>1, <2>1 DEF MatcherInv
<1>8. maker' \in Matches
  <2>1. Queued(maker')
    BY <1>3, <1>5 DEF Queued
  <2>2. Remain(maker') > 0
    BY <1>1, <1>6, <2>1, RemainIsNat DEF ExchangeInv
  <2>3. Crosses(maker')
    BY <1>3, <1>6 DEF Crosses
  <2> QED BY <1>6, <2>1, <2>2, <2>3 DEF Matches, Open
<1>9. ASSUME NEW n \in Matches \ {maker'}
      PROVE  Promise!ServedBefore(maker', n)
  <2>1. n \in OrderId /\ Queued(n) /\ order[n].side = MakerSide
    BY <1>9 DEF Matches, Open
  <2>2. PICK l \in OrderId : n \in ToSet(queue[l])
    BY <2>1 DEF Queued
  <2>3. queue[l] # <<>>
    BY <2>2 DEF ToSet
  <2>4. /\ l \in tree
        /\ order[n].side = order[l].side /\ order[n].price = order[l].price
    BY <2>2, <2>3 DEF IInv, BookShape, QueuesMatchIndex, WaitingOrdersAreReachable
  <2>5. AtLeastAsGood(MakerSide, order[maker'].price, order[n].price)
    BY <1>3, <1>6, <2>1, <2>4 DEF BestThere, Levels
  <2>6. order[n].price = order[maker'].price => maker' < n
    <3>1. order[n].price = order[maker'].price => l = level
      BY <1>3, <1>6, <2>1, <2>4 DEF OnlyLevelThere
    <3>2. order[n].price = order[maker'].price => maker' <= n
      BY <1>7, <2>2, <3>1
    <3>3. maker' \in Int /\ n \in Int
      BY <1>6, <2>1 DEF OrderId
    <3> QED BY <1>9, <3>2, <3>3
  <2>7. order[maker'].price \in Nat /\ order[n].price \in Nat
    BY <1>6, <2>1, OrderFacts DEF IInv, BookShape
  <2> QED BY <1>6, <2>5, <2>6, <2>7 DEF Promise!ServedBefore, AtLeastAsGood
<1>10. /\ Promise!Partners(InHand) = Matches /\ Promise!Remain(InHand) = Remain(taker)
  BY <1>3, <1>4, PartnersAre
<1>11. taker # NoOrder
  BY <1>3 DEF OrderId, NoOrder
<1> HIDE DEF Matches
<1> QED BY <1>1, <1>2, <1>3, <1>4, <1>8, <1>9, <1>10, <1>11
        DEF Promise!Claim, Promise!NoOrder, NoOrder

\* A trade of the loop is a trade of the exchange.
LEMMA TradingFills ==
  ASSUME IInv, ExchangeInv, Trade
  PROVE  Promise!Fill
<1>1. /\ order' = order /\ queue' = queue
      /\ taker \in OrderId /\ maker \in OrderId /\ taker # maker
      /\ MatchAmount \in Nat
      /\ MatchAmount <= Remain(taker) /\ MatchAmount <= Remain(maker)
      /\ \A o \in OrderId : filled'[o] = IF o \in {taker, maker} THEN filled[o] + MatchAmount
                                                                 ELSE filled[o]
  BY TradeFills
<1>2. /\ pc = "trade" /\ pc' = "settle" /\ pc \in Matching
      /\ next' = next /\ taker' = taker /\ maker' = maker
      /\ filled' = [filled EXCEPT ![taker] = @ + MatchAmount, ![maker] = @ + MatchAmount]
  BY DEF Trade, UpdateFilled, PC, Processing, Matching
<1>3. /\ InHand = taker /\ InHand' = taker /\ LookedUp = maker /\ LookedUp' = NoOrder
      /\ maker # NoOrder
  BY <1>1, <1>2 DEF InHand, LookedUp, OrderId, NoOrder
<1>4. MatchAmount = Promise!Min({Promise!Remain(InHand), Promise!Remain(LookedUp)})
  BY <1>3 DEF MatchAmount, Min, Promise!Min, Promise!Remain, Remain
<1> HIDE DEF MatchAmount
<1>5. ~Queued(taker)
  <2>1. \A l \in OrderId : \A x \in ToSet(queue[l]) : x < taker
    BY <1>2, IndexedAreOlder
  <2>2. taker \in Int
    BY <1>1 DEF OrderId
  <2> QED BY <2>1, <2>2 DEF Queued
<1>6. \A o \in OrderId : /\ Remain(o) \in Nat
                         /\ Remain(o)' = IF o \in {taker, maker} THEN Remain(o) - MatchAmount
                                                                 ELSE Remain(o)
                         /\ Queued(o)' <=> Queued(o)
  <2>1. \A o \in OrderId : /\ Remain(o) \in Nat /\ order[o].amount \in Nat
                           /\ filled[o] \in Nat /\ Remain(o) = order[o].amount - filled[o]
    BY RemainIsNat
  <2> QED BY <1>1, <2>1 DEF Remain, Queued
<1>7. Open' = IF MatchAmount = Remain(maker) THEN Open \ {maker} ELSE Open
  BY <1>1, <1>5, <1>6 DEF Open
<1>8. Promise!Remain(LookedUp) = Remain(maker)
  BY <1>3 DEF Promise!Remain, Remain
<1> QED BY <1>1, <1>2, <1>3, <1>4, <1>7, <1>8
        DEF Promise!Fill, Promise!NoOrder, NoOrder

\* The order that is done with leaves the hands of the market, and waits if it
\* has something left and is no market order.
LEMMA EndingFinishes ==
  ASSUME IInv, WaitingOrdersAreReachable, DepthCovers, ExchangeInv,
         FinishOrder \/ DropRemainder \/ RestRemainder
  PROVE  Promise!Finish
<1>1. /\ pc = "rest" /\ pc \in Past /\ pc \in Matching /\ pc' \in {"idle", "announce"}
      /\ order' = order /\ filled' = filled /\ next' = next
      /\ FinishOrder => ~Leftover /\ ~RestRemainder /\ ~DropRemainder
      /\ RestRemainder => Remain(taker) > 0 /\ ~IsType("market")
      /\ DropRemainder => IsType("market") /\ ~RestRemainder
  BY DEF FinishOrder, DropRemainder, RestRemainder, Leftover, orderVars, PC, Processing,
         Matching, Past
<1>2. taker \in OrderId /\ taker # NoOrder
  BY <1>1 DEF IInv, MatcherInv, Matching, OrderId, NoOrder
<1>3. InHand = taker /\ InHand' = NoOrder /\ LookedUp = NoOrder /\ LookedUp' = NoOrder
  BY <1>1 DEF InHand, LookedUp
<1>4. /\ Promise!Remain(InHand) = Remain(taker)
      /\ Promise!IsThrough(InHand)
  BY <1>1, <1>2, <1>3, PartnersAre DEF ExchangeInv
<1>5. Open' = IF Remain(taker) > 0 /\ order[taker].type # "market"
                THEN Open \cup {taker} ELSE Open
  <2>1. CASE FinishOrder
    <3>1. Open' = Open
      BY <2>1, LookingStepKeeps DEF Looking
    <3>2. ~(Remain(taker) > 0)
      BY <1>1, <2>1 DEF Leftover, ExchangeInv, IInv, MatcherInv, Matching
    <3> QED BY <3>1, <3>2
  <2>2. CASE DropRemainder \/ RestRemainder
    <3>1. Open' = IF RestRemainder THEN Open \cup {taker} ELSE Open
      BY <2>2, RemainderKeeps
    <3> QED BY <1>1, <2>2, <3>1 DEF IsType
  <2> QED BY <2>1, <2>2
<1> QED BY <1>1, <1>2, <1>3, <1>4, <1>5 DEF Promise!Finish, Promise!NoOrder, NoOrder

\* Every step of the market is one of the exchange, or one the exchange does not
\* notice.
LEMMA MarketDeals ==
  ASSUME IInv, WaitingOrdersAreReachable, DepthCovers, ExchangeInv, [Next]_vars
  PROVE  [Promise!Dealing]_(Promise!market)
<1>0. ASSUME UNCHANGED <<order, filled, next, taker, Open>>,
             pc' \in {"idle", "announce"} <=> pc \in {"idle", "announce"},
             IF pc' = "trade" THEN pc = "trade" /\ maker' = maker ELSE pc # "trade"
      PROVE  UNCHANGED Promise!market
  BY <1>0 DEF Promise!market, InHand, LookedUp
<1>1. CASE ReceiveForBook \/ ReceiveStop \/ ReceiveUnknown
  BY <1>1, ReceivingEnters DEF Promise!Dealing
<1>2. CASE FindMaker /\ pc' = "trade"
  BY <1>2, FindingClaims DEF Promise!Dealing
<1>3. CASE Trade
  BY <1>3, TradingFills DEF Promise!Dealing
<1>4. CASE FinishOrder \/ DropRemainder \/ RestRemainder
  BY <1>4, EndingFinishes DEF Promise!Dealing
<1>5. CASE \/ FokCheck \/ FindLevel \/ LeaveLevel \/ PublishTrades \/ ReportOrders
           \/ CheckStops \/ AnnounceOrder \/ (FindMaker /\ pc' # "trade")
  <2>1. UNCHANGED <<order, filled, next, taker, Open>>
    BY <1>5, LookingStepKeeps DEF Looking
  <2>2. /\ pc' \in {"idle", "announce"} <=> pc \in {"idle", "announce"}
        /\ pc' # "trade" /\ pc # "trade"
    BY <1>5 DEF FokCheck, FindLevel, FindMaker, LeaveLevel, AfterMatch, PublishTrades,
                ReportOrders, CheckStops, AnnounceOrder
  <2> QED BY <1>0, <2>1, <2>2
<1>6. CASE Settle
  <2>1. Open' = Open
    BY <1>6, SettleKeeps
  <2>2. /\ UNCHANGED <<order, filled, next, taker>>
        /\ pc = "settle" /\ pc' \in {"first", "leave"}
    BY <1>6 DEF Settle, orderVars
  <2> QED BY <1>0, <2>1, <2>2
<1>7. CASE Cancel
  <2>1. PICK o \in OrderId : CancelRemove(o) \/ CancelFinish(o)
    BY <1>7 DEF Cancel
  <2>2. /\ UNCHANGED <<order, filled, procVars>>
        /\ Open' \in {Open, Open \ {o}}
    <3>1. UNCHANGED <<order, filled, procVars>>
      BY <2>1 DEF CancelRemove, CancelFinish, orderVars
    <3> QED BY <2>1, <3>1, CancelKeeps
  <2>3. /\ pc' = pc /\ next' = next /\ taker' = taker /\ maker' = maker
        /\ InHand' = InHand /\ LookedUp' = LookedUp
    BY <2>2 DEF procVars, InHand, LookedUp
  <2>4. CASE Open' = Open
    BY <1>0, <2>2, <2>3, <2>4
  <2>5. CASE Open' # Open
    <3>1. o \in Open /\ Open' = Open \ {o}
      BY <2>2, <2>5
    <3> QED BY <2>2, <2>3, <3>1 DEF Promise!Dealing, Promise!Withdraw
  <2> QED BY <2>4, <2>5
<1>8. CASE UNCHANGED vars
  <2>1. UNCHANGED <<order, filled, queue, procVars>>
    BY <1>8 DEF vars, orderVars, bookVars
  <2>2. Open' = Open
    BY <2>1 DEF Open, Queued, Remain
  <2>3. pc' = pc /\ next' = next /\ taker' = taker /\ maker' = maker
    BY <2>1 DEF procVars
  <2> QED BY <1>0, <2>1, <2>2, <2>3
<1> QED BY <1>1, <1>2, <1>3, <1>4, <1>5, <1>6, <1>7, <1>8 DEF Next, Process, Match

\* The market opens as the exchange does.
LEMMA MarketOpens ==
  ASSUME Init
  PROVE  Promise!Opening /\ ExchangeInv
<1>1. /\ OrdersInit /\ pc = "idle" /\ next = 1 /\ taker = NoOrder
      /\ \A o \in OrderId : ~Queued(o)
  BY DEF Init, BookInit, Queued, ToSet
<1>2. InHand = NoOrder /\ LookedUp = NoOrder /\ Open = {}
  BY <1>1 DEF InHand, LookedUp, Open
<1>3. Promise!OrdersInit
  BY <1>1 DEF OrdersInit, Promise!OrdersInit, Promise!OrderId, OrderId
<1>4. Promise!Opening
  BY <1>1, <1>2, <1>3 DEF Promise!Opening, Promise!NoOrder, NoOrder
<1>5. \A o \in OrderId : filled[o] = 0 /\ ~IsFinished(o)
  BY <1>1 DEF OrdersInit, IsFinished
<1>6. ExchangeInv
  BY <1>1, <1>5 DEF ExchangeInv, Past
<1> QED BY <1>4, <1>6

\* Unless clients cancel orders that are filled already, the market, whatever it
\* does to its trees, lists, totals and index and whoever cancels in between, is
\* an Exchange: it trades by price and time, goes on until nobody suits the taker,
\* and keeps whoever has something left and has not withdrawn.
THEOREM MarketIsAnExchange ==
  CancelScope # AnyIndexed => (Spec => ImplementsExchange)
<1> SUFFICES ASSUME CancelScope # AnyIndexed
             PROVE  Spec => ImplementsExchange
  OBVIOUS
<1>1. Init => Promise!Opening /\ ExchangeInv
  BY MarketOpens
<1>2. IInv /\ DepthCovers /\ ExchangeInv /\ [Next]_vars => ExchangeInv'
  BY ExchangeStep DEF IInv, ReachInv
<1>3. IInv /\ DepthCovers /\ ExchangeInv /\ [Next]_vars => [Promise!Dealing]_(Promise!market)
  BY MarketDeals DEF IInv, ReachInv
<1> QED BY <1>1, <1>2, <1>3, Invariance, DepthAlwaysCovers, PTL
        DEF Spec, ImplementsExchange, Promise!ExchangeSpec
=============================================================================
