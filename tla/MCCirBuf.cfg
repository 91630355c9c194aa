SPECIFICATION RingSpec
CONSTANTS
  MaxSize = 4
  MaxWrite = 3
  MaxTotal = 9
INVARIANTS
  RingHoldsWindow
PROPERTIES
  ImplementsWindow
