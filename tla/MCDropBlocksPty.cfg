SPECIFICATION FairSpec
CONSTANTS
  MaxSize = 3
  MaxWrite = 1
  MaxTotal = 3
  CwndSize = 2
  ReadWindow = 2
  AckDivisor = 5
  MaxStreams = 2
  MaxCrashes = 0
  RestartsFinish = TRUE
  OldLoop = "settles"
PROPERTIES
  BuffersWhileDisconnected
CHECK_DEADLOCK FALSE
