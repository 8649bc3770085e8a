CONSTANTS
  NPROC  <- MCNPROC
  NCPU   <- MCNCPU
  MaxPid <- MCMaxPid
  N      <- MCN
SPECIFICATION FairSpec
INVARIANT ForkTestVerdict
PROPERTY ForkTestCompletes
