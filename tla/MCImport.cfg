\* A compilation that imports a package.
CONSTANTS
  Names <- MCNames
  Packages = {"p"}
  Compilations = {"agentc"}
  Getters = {"get"}
  Compiler = "agentc"
  Sources <- Importing
SPECIFICATION Spec
INVARIANTS
  FetchedIsReturned
