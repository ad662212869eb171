SPECIFICATION Spec
CONSTANTS
  k1 = k1
  k2 = k2
  k3 = k3
  v1 = v1
  v2 = v2
  Keys = {k1, k2, k3}
  Values = {v1, v2}
  Hash <- MCHash
  NoKey = NoKey
  MinCap = 4
  Requests = {0, 4}
  MaxEntries = 5
SYMMETRY Symmetry
INVARIANTS IterationComplete
