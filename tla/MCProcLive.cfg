CONSTANTS
  NPROC  <- MCNPROC
  NCPU   <- MCNCPU
  MaxPid <- MCMaxPid
SPECIFICATION FairSpec
PROPERTY HiPrioDispatched
CHECK_DEADLOCK FALSE
