\* Cancels of open orders race with the matching of limit orders, beside stop
\* orders.
CONSTANTS
  MaxOrders = 4
  OrderSpace <- BookOrders
  CancelScope = "open"
SPECIFICATION Spec
INVARIANTS
  QueuesMatchIndex
  StaleEntriesAreFilled
  OneLevelPerPrice
  WaitingOrdersAreReachable
  DepthCovers
  Uncrossed
  FillsArePublished
  OverlookedMakersAreDone
  StopPricesMatchMap
PROPERTIES
  PriceTimePriority
\* The market waits when the channel has no more orders.
CHECK_DEADLOCK FALSE
