CONSTANTS
  t1 = t1
  t2 = t2
  i1 = i1
  s1 = s1
  s2 = s2
  Task = {t1, t2}
  Item = {i1}
  Stopper = {s1, s2}
  NoTask = NoTask
  NoItem = NoItem
  NoOne = NoOne
SPECIFICATION Spec
INVARIANTS
  ItemListsExact
  StoppedMeansEnded
PROPERTIES
  EndedIsForgotten
  StopIsAnswered
  ImplementsLifecycle
