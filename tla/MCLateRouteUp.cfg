SPECIFICATION Spec
CONSTANTS
  MaxFaults = 1
INVARIANTS
  StatusIsTrue
CHECK_DEADLOCK FALSE
