\* An iceberg order empties a level and wants more.
CONSTANTS
  MaxOrders = 2
  OrderSpace <- IcebergOrdersOnly
  CancelScope = "none"
SPECIFICATION FairSpec
PROPERTIES
  OrdersAreProcessed
\* The market waits when the channel has no more orders.
CHECK_DEADLOCK FALSE
