\* A stop order is triggered by a trade.
CONSTANTS
  MaxOrders = 3
  OrderSpace <- StopOrdersOnly
  CancelScope = "none"
SPECIFICATION Spec
INVARIANTS
  TriggeredStopsLeave
\* The market waits when the channel has no more orders.
CHECK_DEADLOCK FALSE
