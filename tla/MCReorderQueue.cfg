SPECIFICATION FairSpec
CONSTANTS
  Capacity = 3
  Sessions = {s1, s2}
  NoSession = none
  MaxSeq = 3
  MaxItems = 4
INVARIANTS
  SendsNeverBlock
  NoInversion
PROPERTIES
  Delivered
CHECK_DEADLOCK FALSE
