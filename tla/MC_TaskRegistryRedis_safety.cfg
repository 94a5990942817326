CONSTANTS
  t1 = t1
  t2 = t2
  x1 = x1
  x2 = x2
  i1 = i1
  i2 = i2
  s1 = s1
  Task = {t1, t2}
  Item = {x1, x2}
  Instance = {i1, i2}
  Stopper = {s1}
  NoItem = NoItem
  NoInstance = NoInstance
  MaxInbox = 2
  MaxFaults = 1
SYMMETRY Symmetry
SPECIFICATION Spec
INVARIANTS
  LiveIsKnownAtHome
  NoUnaskedCancel
  ItemSetsInHash
  LiveIsListed
PROPERTIES
  ImplementsLifecycle
