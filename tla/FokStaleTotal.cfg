\* A FOK order trusts the total of a level that has traded.
CONSTANTS
  MaxOrders = 3
  OrderSpace <- FokOrders
  CancelScope = "none"
SPECIFICATION Spec
INVARIANTS
  FokIsAllOrNothing
\* The market waits when the channel has no more orders.
CHECK_DEADLOCK FALSE
