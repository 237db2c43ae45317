SPECIFICATION Spec
CONSTANTS
  Client <- MCClient
  Caller <- MCCaller
  Emitter <- MCEmitter
  Order = {1, 2, 3}
  Capacity = 1
  OutboxCapacity = 3
  RowKey = {1, 2, 3, 4}
  Tries = 2
  Markets <- MCMarkets
  Deployments <- MCDeployments
  MaxObjects = 3
  MaxTrades = 3
INVARIANTS
  TypeOK
  ClosedIsQuiet
  CommittedWasHandled
  RowsAreCurrent
  TopicIsCurrent
  UpdatesNeverGoBack
PROPERTIES
  OncePerProcess
  CallsReturn
  AcceptedIsProcessed
CHECK_DEADLOCK FALSE
