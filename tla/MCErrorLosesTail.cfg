SPECIFICATION Spec
CONSTANTS
  MaxSize = 3
  MaxWrite = 2
  MaxTotal = 3
  CwndSize = 2
  ReadWindow = 2
  AckDivisor = 5
  MaxStreams = 2
  MaxCrashes = 0
  RestartsFinish = TRUE
  OldLoop = "settles"
INVARIANTS
  EndHasWholeOutput
CHECK_DEADLOCK FALSE
