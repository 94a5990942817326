CONSTANTS
  t1 = t1
  t2 = t2
  x1 = x1
  i1 = i1
  i2 = i2
  Task = {t1, t2}
  Item = {x1}
  Instance = {i1, i2}
  Stopper = {}
  NoItem = NoItem
  NoInstance = NoInstance
  MaxInbox = 2
  MaxFaults = 0
SPECIFICATION Spec
PROPERTIES
  CommandEndsTask
  CancelledIsDelisted
