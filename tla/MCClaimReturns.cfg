\* The claim ReturnsAreLifted of the documents, on short programs.
CONSTANTS
  Vars <- MCVars
  FnNames <- MCFnNames
  Programs <- MCPrograms
  BudgetRange = 64
  BodyLength = 3
SPECIFICATION ASpec
INVARIANT ReturnsAreLifted
