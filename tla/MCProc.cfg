CONSTANTS
  NPROC  <- MCNPROC
  NCPU   <- MCNCPU
  MaxPid <- MCMaxPid
SPECIFICATION Spec
INVARIANT TypeOK
INVARIANT ReadyQueuesConsistent
INVARIANT SleepersHaveCause
INVARIANT ParentsAlive
INVARIANT StopsOnlyOnPanic
PROPERTY ImplementsPrioQueues
CHECK_DEADLOCK FALSE
