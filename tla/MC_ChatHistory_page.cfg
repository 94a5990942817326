CONSTANTS
  MaxId = 7
  MaxAnswers = 2
  MaxSaves = 2
  MaxActions = 2
  MaxText = 1
SPECIFICATION Spec
CHECK_DEADLOCK FALSE
INVARIANTS
  PageTree
  StoredTree
  AnswersKept
  CurrentIsLeaf
  SavedAtRest
  
CONSTRAINT InOrder
