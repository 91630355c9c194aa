SPECIFICATION Spec
CONSTANTS
  MaxSize = 3
  MaxWrite = 2
  MaxTotal = 3
  CwndSize = 2
  ReadWindow = 2
  AckDivisor = 5
  MaxStreams = 3
  MaxCrashes = 0
  RestartsFinish = FALSE
  OldLoop = "settles"
INVARIANTS
  ReleasedOnlyWhenHeld
CHECK_DEADLOCK FALSE
