CONSTANTS
  i1 = i1
  i2 = i2
  k1 = k1
  k2 = k2
  v1 = v1
  v2 = v2
  w1 = w1
  w2 = w2
  w3 = w3
  Instance = {i1, i2}
  Worker = {w1, w2, w3}
  Host <- TwoInOne
  Key = {k1, k2}
  Value = {v1, v2}
  None = None
  Env = Env
  Redis = TRUE
  ResetOnStart = FALSE
  MaxImports = 1
  MaxErrors = 1
  MaxCrashes = 1
CONSTRAINT Calm
SYMMETRY Symmetry
SPECIFICATION ConfigSpec
INVARIANTS
  InstancesAgree
