CONSTANTS
  MaxClasses = 4
  MaxBare = 0
SPECIFICATION Spec
INVARIANT DispatchFollowsReceiver
CHECK_DEADLOCK FALSE
