CONSTANTS
  i1 = i1
  s1 = s1
  s2 = s2
  m1 = m1
  m2 = m2
  Instance = {i1}
  Session = {s1, s2}
  Model = {m1, m2}
  None = None
  Redis = FALSE
  Timeout = 2
  LockTimeout = 4
  MaxLag = 1
  MaxCrashes = 0
SPECIFICATION Spec
INVARIANTS
  PoolIsCurrent
PROPERTIES
  StaleLeaves
