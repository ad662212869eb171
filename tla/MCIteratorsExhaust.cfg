SPECIFICATION Spec
CONSTANTS
  Programs <- Iterations
  Lists = {1}
  MaxLen = 3
  MaxCount = 6
  Sentinel = Sentinel
  None = None
  Null = Null
  Stop = Stop
INVARIANT StopsWithSource
CHECK_DEADLOCK FALSE
