CONSTANTS
  c1 = c1
  c2 = c2
  f1 = f1
  f2 = f2
  n1 = n1
  n2 = n2
  t1 = t1
  k1 = k1
  Chat = {c1, c2}
  Folder = {f1, f2}
  Name = {n1, n2}
  Matched <- MatchedNames
  Tag = {t1}
  Thread = {k1}
  NoFolder = NoFolder
  MaxShares = 1
  MaxEvents = 1
SYMMETRY Symmetry
SPECIFICATION Spec
INVARIANTS
  ChatsFound
  TagsHaveRows
  LinksWork
  SiblingsDiffer
CONSTRAINT FewEvents
VIEW Visible
