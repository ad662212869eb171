SPECIFICATION CompilerSpec
CONSTANTS
  Bound = 4
  NegInf <- MCNegInf
  PosInf = 50
  WidenLimit = 2
  StepCap = 9
  MaxValue = 6
  Programs <- MCPrograms
  Updates <- MCUpdates
  FixnumMax = 15
  MaxInsts = 6
  Fuel = 400
  Sentinel = Sentinel
  PyNone = PyNone
  Null = Null
  Stop = Stop
INVARIANTS CompilerTypeOK CacheCurrent EnvSound RawInBound BehaviourKept IteratorsArePython
PROPERTY IntervalsEnd
CHECK_DEADLOCK FALSE
