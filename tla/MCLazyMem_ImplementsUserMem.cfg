CONSTANTS
  PGSIZE <- MCPGSIZE
  KERNBASE <- MCKERNBASE
  Ns <- MCNs
  Addrs <- MCAddrs
  Vals <- MCVals
  Codes <- MCCodes
  Trapnos <- MCTrapnos
SPECIFICATION Spec
PROPERTY ImplementsUserMem
CHECK_DEADLOCK FALSE
