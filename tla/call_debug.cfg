SPECIFICATION FairSpec
CONSTANTS
  NoFit = NoFit
  NWriters = 4
  MaxLines = 1
  BufferUnits = 2
  RecvUnits = 2
  IterLines = {1}
  ThrowAt = {}
  WorkerMayDie = FALSE
  SiblingMayDie = FALSE
  MayCancel = TRUE
  DebugMode = TRUE
PROPERTIES
  CallEnds
