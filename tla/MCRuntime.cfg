\* All sequences of calls up to a length; the program may stop calling.
CONSTANTS
  DefaultCap = 4096
  Amounts <- MCAmounts
  Caps <- MCCaps
  Texts <- MCTexts
  ChunkSizes <- MCSizes
  IntRange = 64
  MaxCalls = 4
  MaxCut = 1
  MaxTraces = 2
SPECIFICATION Spec
CHECK_DEADLOCK FALSE
INVARIANTS
  BudgetIsAccount
  OverflowTold
  ReportsExact
  ChunksAreText
  AbortsUncountable
PROPERTIES
  ChunkReturns
