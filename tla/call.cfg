SPECIFICATION FairSpec
CONSTANTS
  NoFit = NoFit
  NWriters = 2
  MaxLines = 2
  BufferUnits = 3
  RecvUnits = 3
  IterLines = {1,2}
  ThrowAt = {1}
  WorkerMayDie = TRUE
  SiblingMayDie = TRUE
  MayCancel = TRUE
  DebugMode = FALSE
INVARIANTS
  TypeOK
  NoLostMessages
  LinesWhole
  EndSeenLast
  CallInv
PROPERTIES
  RefinesPromise
  CallEnds
  WorkerFreed
