\* Written programs and programs with one slip; one compilation beside a user who
\* gets the same package.
CONSTANTS
  Names <- MCNames
  Packages = {"p"}
  Compilations = {"agentc"}
  Getters = {"get"}
  Compiler = "agentc"
  Sources <- MCSources
SPECIFICATION Spec
INVARIANTS
  FrontTypeOK
  AcceptedAsWritten
  NothingLost
  ReadToTheEnd
  CachedWhole
PROPERTIES
  ParseEnds
