CONSTANTS
  c1 = c1
  c2 = c2
  Client = {c1, c2}
  NoHandler = NoHandler
  Redis = FALSE
  Overlap = FALSE
  MaxEdits = 2
  MaxJoins = 3
  MaxLeaves = 2
SYMMETRY Symmetry
SPECIFICATION Spec
CHECK_DEADLOCK FALSE
INVARIANTS
  Converged
PROPERTIES
  ClearedOnlyWhenUnused
