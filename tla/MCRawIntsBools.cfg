SPECIFICATION FairSpec
CONSTANTS
  Bound = 4
  NegInf <- MCNegInf
  PosInf = 50
  WidenLimit = 2
  StepCap = 9
  MaxValue = 6
  Programs <- MCPrograms
  Updates <- MCUpdates
INVARIANT BoolsKept
CHECK_DEADLOCK FALSE
