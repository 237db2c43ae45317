\* Two stop orders without a stop price are triggered.
CONSTANTS
  MaxOrders = 4
  OrderSpace <- UnsetStopOrders
  CancelScope = "none"
SPECIFICATION Spec
INVARIANTS
  PricesAreUpdated
\* The market waits when the channel has no more orders.
CHECK_DEADLOCK FALSE
