CONSTANTS
  g1 = g1
  g2 = g2
  a = a
  b = b
  Refs = {g1, g2, a, b}
  Groups = {g1, g2}
  MaxLevel = 2
  OverflowChecks = TRUE
SPECIFICATION Spec
INVARIANTS LevelsOK UniqueRefs
CHECK_DEADLOCK FALSE
