CONSTANTS
  p1 = p1
  p2 = p2
  p3 = p3
  Procs <- MCProcs
  MaxN <- MCMaxN
  MaxTicks <- MCMaxTicks
  TIMER = TIMER
  NONE = NONE
SYMMETRY Symmetry
SPECIFICATION Spec
INVARIANT NoLostTick
INVARIANT SleepLongEnough
INVARIANT TicksLockDiscipline
CHECK_DEADLOCK FALSE
