CONSTANTS
  c1 = c1
  c2 = c2
  Client = {c1, c2}
  NoHandler = NoHandler
  Redis = TRUE
  Overlap = FALSE
  MaxEdits = 2
  MaxJoins = 2
  MaxLeaves = 0
SPECIFICATION Spec
CHECK_DEADLOCK FALSE
INVARIANTS
  SeededOnce
PROPERTIES
  EchoDiesDown
