\* Market, iceberg and limit orders of every validity, with cancels.
CONSTANTS
  MaxOrders = 3
  OrderSpace <- AllOrders
  CancelScope = "open"
SPECIFICATION FairSpec
INVARIANTS
  TypeOK
  NothingIsLost
PROPERTIES
  ImplementsExchange
  MatchingEnds
\* The market waits when the channel has no more orders.
CHECK_DEADLOCK FALSE
