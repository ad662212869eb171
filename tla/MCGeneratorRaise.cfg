SPECIFICATION Spec
CONSTANTS
  Gens = {g1, g2}
  Yields = 2
  Values = {None, v}
  None = None
INVARIANTS FinishedNeverResumed
