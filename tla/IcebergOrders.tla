---------------------------- MODULE IcebergOrders ----------------------------
(***************************************************************************)
(* IcebergOrderManager of internal/matching/iceberg.go: how much of each   *)
(* registered iceberg order shows and how much is still hidden.            *)
(***************************************************************************)
EXTENDS Orders, Sequences, SequencesExt

VARIABLES registered,   \* the keys of IcebergOrderManager.orders
          visible,      \* VisibleAmount
          hidden        \* HiddenAmount

icebergVars == <<registered, visible, hidden>>

IcebergInit == /\ registered = {}
               /\ visible = [o \in OrderId |-> 0]
               /\ hidden = [o \in OrderId |-> 0]

Register(o) == /\ registered' = registered \cup {o}
               /\ visible' = [visible EXCEPT ![o] = order[o].visible]
               /\ hidden' = [hidden EXCEPT ![o] = order[o].hidden]

\* Mutant of OnTrade: the refill is not limited to what is hidden.
OnTradeOverdraw(s, o, amount) ==
  IF o \notin registered \/ s.visible[o] > amount THEN s
  ELSE [s EXCEPT !.visible[o] = Min({order[o].visible, Remain(o)}),
                 !.hidden[o] = @ - order[o].visible]

\* OnTrade as a function of the amounts shown and hidden.  The display size is
\* the visible amount the order came with.
OnTrade(s, o, amount) ==
  LET refill == Min({order[o].visible, s.hidden[o]})
      shown  == IF s.visible[o] > amount THEN s.visible[o] - amount ELSE refill
      kept   == IF s.visible[o] > amount THEN s.hidden[o]
                                         ELSE s.hidden[o] - refill
  IN  IF o \notin registered THEN s
      ELSE [visible |-> [s.visible EXCEPT ![o] = Min({shown, Remain(o)})],
            hidden  |-> [s.hidden EXCEPT ![o] = kept]]

\* The loop of processTrades: every trade's amount goes to the taker and to
\* the one maker the result remembers.
IcebergTrades(trades, taker, maker) ==
  LET Step(s, trade) ==
        OnTrade(OnTrade(s, taker, trade.amount), maker, trade.amount)
      end == FoldLeft(Step, [visible |-> visible, hidden |-> hidden], trades)
  IN  /\ visible' = end.visible
      /\ hidden' = end.hidden
      /\ UNCHANGED registered
=============================================================================
