\* Two sessions and a user of the compiler, three entries between them.
CONSTANTS
  s1 = s1
  s2 = s2
  c1 = c1
  Shadow = Shadow
  Sessions <- MCSessions
  Clients <- MCClients
  MaxEntries = 3
SYMMETRY Symmetry
SPECIFICATION Spec
INVARIANTS
  DriverTypeOK
  RejectedNeverRun
  IntactRunsOwn
