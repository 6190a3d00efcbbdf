\* Names, trust and annotations over all short bodies.
CONSTANTS
  Vars <- MCVars
  FnNames <- MCFnNames
  Programs <- MCPrograms
  BudgetRange = 64
  NameLength = 5
  RuleLength = 3
SPECIFICATION Spec
INVARIANTS
  TypeOK
  ScopesBalanced
  LexicalScoping
  TypesInferred
  NoUseAfterMove
  MoveErrorsJustified
  AssignmentsMutable
  TrustedStores
  CapErrorsExact
