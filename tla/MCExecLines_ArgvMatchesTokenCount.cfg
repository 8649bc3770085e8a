CONSTANTS
  NUMPROC <- MCNUMPROC
  LINE_SIZE <- MCLINE_SIZE
  MaxInput <- MCMaxInput
  Bytes <- MCBytes
  CharSigned <- MCCharSigned
SPECIFICATION Spec
INVARIANT ArgvMatchesTokenCount
CHECK_DEADLOCK FALSE
