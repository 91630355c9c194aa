SPECIFICATION Spec
CONSTANTS
  MaxSize = 2
  MaxWrite = 2
  MaxTotal = 3
  CwndSize = 1
  ReadWindow = 1
  AckDivisor = 5
  MaxStreams = 2
  MaxCrashes = 1
  RestartsFinish = TRUE
  OldLoop = "pauses"
INVARIANTS
  FileInOrder
  PositionIsExact
  EofMeansComplete
  CorkHolds
CHECK_DEADLOCK FALSE
