CONSTANTS
  NPROC  <- MCNPROC
  NCPU   <- MCNCPU
  MaxPid <- MCMaxPid
SPECIFICATION Spec
INVARIANT FreeSlotsClean
CHECK_DEADLOCK FALSE
