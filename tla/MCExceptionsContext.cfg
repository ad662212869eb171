SPECIFICATION Spec
CONSTANTS
  MaxExc = 3
  MaxInst = 2
  MaxDepth = 3
INVARIANTS NotOwnContext
CHECK_DEADLOCK FALSE
