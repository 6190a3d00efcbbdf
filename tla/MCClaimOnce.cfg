\* The claim ExecutedOnce of a comment, for a session that is alone.
CONSTANTS
  s1 = s1
  s2 = s2
  c1 = c1
  Shadow = Shadow
  Sessions <- MCAlone
  Clients <- MCNobody
  MaxEntries = 2
SPECIFICATION Spec
INVARIANT ExecutedOnce
