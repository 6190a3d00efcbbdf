\* Whole compilations of all short bodies.
CONSTANTS
  Vars <- MCVars
  FnNames <- MCFnNames
  Programs <- MCPrograms
  BudgetRange = 64
  BodyLength = 4
SPECIFICATION ASpec
INVARIANTS
  CompiledFaithfully
  WrittenBeforeRead
  CapabilitiesEmitted
