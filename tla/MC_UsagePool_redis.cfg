CONSTANTS
  i1 = i1
  i2 = i2
  i3 = i3
  s1 = s1
  m1 = m1
  Instance = {i1, i2, i3}
  Session = {s1}
  Model = {m1}
  None = None
  Redis = TRUE
  Timeout = 1
  LockTimeout = 2
  MaxLag = 1
  MaxCrashes = 1
SYMMETRY Symmetry
SPECIFICATION Spec
INVARIANTS
  OneCleaner
