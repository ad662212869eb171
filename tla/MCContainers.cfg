SPECIFICATION ContainersSpec
CONSTANTS
  Objs = {o1, o2, o3}
  Texts = {t1}
  RootSlots = {s1}
  Statics = {g1}
  Null = Null
  MaxDepth = 1
  Sizes = {1, 3}
  SlabMax = 2
  MinThreshold = 2
  Stress = FALSE
  k1 = k1
  k2 = k2
  k3 = k3
  k4 = k4
  v1 = v1
  v2 = v2
  Keys = {k1, k2, k3}
  Values = {v1, v2}
  Hash <- MCHash
  NoKey = NoKey
  MinCap = 4
  Requests = {0, 4}
  MaxEntries = 4
  Elems = {k1, k2, k3, k4}
  SetHash <- MCSetHash
  Empty = Empty
  Tombstone = Tombstone
  SetRequests = {0, 5}
  Others <- MCOthers
  MaxCap = 8
SYMMETRY Symmetry
INVARIANTS ContainersTypeOK ContainersLookupExact ContainersIterationSound ContainersCallsExact FillExact NoDangling PoolSound HeapAccounted
PROPERTIES DictIsPython CollectsExactly
CHECK_DEADLOCK FALSE
