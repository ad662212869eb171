SPECIFICATION Spec
CONSTANTS
  SortInputs <- MCInputs
  MinRuns = {2, 4}
INVARIANT ElementsRooted
CHECK_DEADLOCK FALSE
