SPECIFICATION FairSpec
CONSTANTS
  Calls = {c1, c2}
  c1 = c1
  c2 = c2
  KindsOf <- MCKindsOf
  NoId = noid
  None = none
  ResCap = 1
  DoneCap = 1
  OutCap = 1
  InCap = 1
  MaxData = 1
INVARIANTS
  LoopSurvives
  ResponsesInOrder
  FailsForAReason
CHECK_DEADLOCK FALSE
PROPERTIES
  CallsReturn
