CONSTANTS
  Kinds <- TagKinds
  Deltas <- MixedDeltas
  ChunkSize = 2
  MaxToolRounds = 2
  MaxCodeRounds = 1
  CallIndex = {1, 2}
  MaxDeltas = 4
SPECIFICATION Spec
INVARIANTS
  TypeOK
  ShownIsSaved
  SavedAsReceived
  ParsedRight
  NothingDropped
  RequestComplete
  CallsAreRun
PROPERTIES
  AnswerEnds
