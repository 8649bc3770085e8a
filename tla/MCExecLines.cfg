CONSTANTS
  NUMPROC <- MCNUMPROC
  LINE_SIZE <- MCLINE_SIZE
  MaxInput <- MCMaxInput
  Bytes <- MCBytes
  CharSigned <- MCCharSigned
SPECIFICATION Spec
INVARIANT TypeOK
INVARIANT AtMostNumprocUnreaped
INVARIANT LinesRunInOrder
INVARIANT SuccessMeansAllRun
INVARIANT FittingInputAccepted
PROPERTY Terminates
CHECK_DEADLOCK FALSE
