SPECIFICATION Spec
CONSTANTS
  t1 = t1
  t2 = t2
  c1 = c1
  c2 = c2
  Tab = {t1, t2}
  Call = {c1, c2}
  N = 3
  MaxEnded = 1
INVARIANTS
  StoredTokenUsable
PROPERTIES
  RefusedForCause
SYMMETRY TabsAndCalls
