SPECIFICATION FairSpec
CONSTANTS
  MaxFaults = 1
INVARIANTS
  DoneMeansEnded
  OutputBeforeEnd
PROPERTIES
  JobEnds
  Reattached
  ClosedIsCleanedUp
CHECK_DEADLOCK FALSE
