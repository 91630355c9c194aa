SPECIFICATION FairSpec
CONSTANTS
  ReadWindow = 2
  AckDivisor = 1
  MaxBytes = 3
  MaxChunk = 2
  MaxQueue = 1
  MaxRepeats = 1
INVARIANTS
  InOrder
  FlowControl
  EofMeansComplete
PROPERTIES
  EdgeNeverRetreats
  WriteReturns
  StreamForgotten
CHECK_DEADLOCK FALSE
