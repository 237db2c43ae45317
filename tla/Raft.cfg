SPECIFICATION Spec
CONSTANTS
  Node <- MCNode
  Voters <- MCVoters
  OrderName = {"m", "t", "s"}
  KindOf <- MCKind
  MaxTries = 2
  Bounds <- MCBounds
INVARIANTS
  TypeOK
  BooksFollowTheLog
  AnswersAreTrue
PROPERTIES
  SubmitsReturn
CHECK_DEADLOCK FALSE
