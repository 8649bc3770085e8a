CONSTANTS
  NPROC  <- MCNPROC
  NCPU   <- MCNCPU
  MaxPid <- MCMaxPid
SPECIFICATION Spec
PROPERTY FreshProcNotKilled
CHECK_DEADLOCK FALSE
