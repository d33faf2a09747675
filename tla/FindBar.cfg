SPECIFICATION Spec
CONSTANTS
  L = 3
  Size = 1
  MaxLoads = 1
  Pages <- MCPages
  NextPages <- MCNext
INVARIANTS FindsNearest HighlightsExact
PROPERTY PreviousEnds
CHECK_DEADLOCK FALSE
