----------------------------- MODULE MarketRules -----------------------------
(***************************************************************************)
(* What Market.ValidateOrder of internal/models/market.go lets through.    *)
(* Decimals are integers in units finer than every tick.  A tick of zero   *)
(* (engine.Start ignores an unreadable one) makes Mod panic: the model     *)
(* assumes ticks that can be read.  Nothing in the program suspends or     *)
(* closes a market, so its status is always active.                        *)
(***************************************************************************)
EXTENDS Integers

CONSTANT Markets   \* the configured markets, by symbol

Rules == [minAmount: Nat, minTotal: Nat, priceTick: Nat \ {0},
          amountTick: Nat \ {0}]

ASSUME MarketsAssumption == Markets \in [DOMAIN Markets -> Rules]

ValidatePrice(m, price)   == price > 0 /\ price % m.priceTick = 0
ValidateAmount(m, amount) == amount >= m.minAmount /\ amount % m.amountTick = 0
ValidateTotal(m, total)   == total >= m.minTotal

\* Only the price, the amount and their product are looked at: not the side,
\* the stop price, the visible amount, nor what is already filled.
ValidateOrder(m, o) ==
  /\ o.type \notin {"market", "stop_market"} => ValidatePrice(m, o.price)
  /\ ValidateAmount(m, o.amount)
  /\ o.type \in {"limit", "stop_limit"} => ValidateTotal(m, o.price * o.amount)

\* The checks of SubmitOrder after the one on running.
Acceptable(o) == /\ o.symbol \in DOMAIN Markets
                 /\ ValidateOrder(Markets[o.symbol], o)
==============================================================================
