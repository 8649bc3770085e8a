CONSTANTS
  PGSIZE <- MCPGSIZE
  KERNBASE <- MCKERNBASE
  Ns <- MCNs
  Addrs <- MCAddrs
  Vals <- MCVals
  Codes <- MCCodes
  Trapnos <- MCTrapnos
SPECIFICATION FairSpec
INVARIANT TypeOK
INVARIANT MappedBelowSz
INVARIANT StatusDecodesToCause
PROPERTY KilledExits
CHECK_DEADLOCK FALSE
