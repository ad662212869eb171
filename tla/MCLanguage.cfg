SPECIFICATION LanguageSpec
CONSTANTS
  MaxClasses = 4
  MaxBare = 5
  MaxExc = 3
  MaxInst = 2
  MaxDepth = 3
  Gens = {w1, w2, w3}
  Yields = 1
  Values = {None, v}
  None = None
  Stored = {w1, w2, w3}
  MaxLens <- MCMaxLens
  MinCapacity = 2
  Turns <- MCTurns
  MaxDeque = 4
  Others <- MCOthers
  ListIndices <- MCListIndices
  Bounds <- MCBounds
  Steps <- MCSteps
  Counts <- MCCounts
  MaxList = 3
  Omitted = Omitted
  Self = Self
  Zero = Zero
  Junk = Junk
  IndexError = IndexError
  ValErr = ValueError
  SortInputs <- MCInputs
  MinRuns = {2, 4}
  Null = Null
SYMMETRY Symmetry
INVARIANTS LanguageTypeOK MroLinear FieldSlotsStable DispatchExact VirtualCallAbi SuperVisitsAll InheritsSound HandlingMatches ShadowMatches CauseOwnedToBoundary GeneratorFlagsSound ThrowDelivered SequencesArePython SortIsStable
PROPERTIES ImplementsPython
CHECK_DEADLOCK FALSE
