SPECIFICATION HookSpec
CONSTANTS
  MaxInput = 5
  MaxUpsets = 1
INVARIANTS EachToOne WholeAndInOrder LetsGo
CHECK_DEADLOCK FALSE
