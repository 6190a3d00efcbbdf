\* The control flow graphs of all short bodies.
CONSTANTS
  Vars <- MCVars
  FnNames <- MCFnNames
  Programs <- MCPrograms
  BodyLength = 3
  ControlLength = 6
SPECIFICATION GenSpec
INVARIANTS
  GenTypeOK
  BlocksPending
  EmittedClosed
  OwnSlots
