\* Clients also cancel orders that are filled already.
CONSTANTS
  MaxOrders = 3
  OrderSpace <- LimitOrders
  CancelScope = "any"
SPECIFICATION Spec
INVARIANTS
  WaitingOrdersAreReachable
\* The market waits when the channel has no more orders.
CHECK_DEADLOCK FALSE
