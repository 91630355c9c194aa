SPECIFICATION Spec
CONSTANTS
  MaxSize = 3
  MaxWrite = 1
  MaxTotal = 3
  CwndSize = 3
  ReadWindow = 3
  AckDivisor = 5
  MaxStreams = 2
  MaxCrashes = 0
  RestartsFinish = TRUE
  OldLoop = "pauses"
INVARIANTS
  PositionIsExact
CHECK_DEADLOCK FALSE
