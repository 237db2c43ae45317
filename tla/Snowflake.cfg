\* Two nodes, two ids a millisecond, and a clock that is set back.
CONSTANTS
  Nodes = {0, 1}
  NodeCount = 2
  SeqCount = 2
  ClockLimit = 3
  MaxIds = 4
SPECIFICATION Spec
INVARIANTS
  IdsIncrease
  NodesDisagree
