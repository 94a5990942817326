CONSTANTS
  p1 = p1
  p2 = p2
  Process = {p1, p2}
  Shared = Shared
  Limit = 1
  Window = 4
  BucketSize = 2
  MaxTime = 8
  MaxEvents = 4
SYMMETRY Symmetry
SPECIFICATION Spec
CHECK_DEADLOCK FALSE
INVARIANTS
  AtMostLimitPerStore
  RefusedOverLimit
