SPECIFICATION Spec
CONSTANTS
  MaxSize = 4
  MaxWrite = 2
  MaxTotal = 5
  CwndSize = 2
  MaxRwnd = 2
  MaxStreams = 2
INVARIANTS
  InFlightIsBuffered
  SleepsOnlyIdle
  TerminalIsLast
PROPERTIES
  SendsEveryByteOnce
CHECK_DEADLOCK FALSE
