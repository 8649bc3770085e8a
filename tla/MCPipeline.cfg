CONSTANTS
  Items <- MCItems
  Cap <- MCCap
  TArgs <- MCTArgs
  PArgs <- MCPArgs
  FileCounts <- MCFileCounts
SPECIFICATION Spec
INVARIANT WriteEndsOwned
INVARIANT AllDelivered
INVARIANT ChildArgsAccepted
PROPERTY Terminates
CHECK_DEADLOCK FALSE
