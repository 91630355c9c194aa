SPECIFICATION ReconnectingSpec
CONSTANTS
  MaxSize = 2
  MaxWrite = 2
  MaxTotal = 3
  CwndSize = 2
  ReadWindow = 2
  AckDivisor = 5
  MaxStreams = 2
  MaxCrashes = 0
  RestartsFinish = TRUE
  OldLoop = "settles"
PROPERTIES
  OutputArrives
CHECK_DEADLOCK FALSE
