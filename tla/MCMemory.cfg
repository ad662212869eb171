SPECIFICATION MemorySpec
CONSTANTS
  SlotsPerPage = 3
  MaxPages = 2
  Reentrant = TRUE
  Objs = {o1, o2}
  Texts = {t1, t2}
  RootSlots = {s1}
  Statics = {g1}
  Null = Null
  MaxDepth = 2
  Sizes = {1, 3}
  SlabMax = 2
  MinThreshold = 2
  Stress = TRUE
  Objects = {1, 2, 3}
INVARIANTS TypeOK FreeListSound KeptSurvive UsesLive RootsExact
PROPERTIES ImplementsAbs GarbageReclaimed CollectionEnds
CHECK_DEADLOCK FALSE
