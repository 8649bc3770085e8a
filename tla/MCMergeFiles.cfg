CONSTANTS
  N <- MCN
  ArgCounts <- MCArgCounts
  MaxLen <- MCMaxLen
  BufSizes <- MCBufSizes
SPECIFICATION Spec
INVARIANT TypeOK
INVARIANT ValidationExact
INVARIANT OutputFollowsInterleaving
INVARIANT MergedOutputComplete
PROPERTY Terminates
CHECK_DEADLOCK FALSE
