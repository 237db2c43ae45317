\* A cancel returns while its order trades.
CONSTANTS
  MaxOrders = 2
  OrderSpace <- LimitOrders
  CancelScope = "open"
SPECIFICATION Spec
PROPERTIES
  CancelledIsFinal
\* The market waits when the channel has no more orders.
CHECK_DEADLOCK FALSE
