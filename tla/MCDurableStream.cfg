SPECIFICATION ReconnectingSpec
CONSTANTS
  MaxSize = 3
  MaxWrite = 2
  MaxTotal = 2
  CwndSize = 2
  ReadWindow = 2
  AckDivisor = 5
  MaxStreams = 2
  MaxCrashes = 0
  RestartsFinish = TRUE
  OldLoop = "settles"
INVARIANTS
  ReleasedOnlyWhenHeld
PROPERTIES
  OutputArrives
  EndIsRecorded
CHECK_DEADLOCK FALSE
