SPECIFICATION Spec
CONSTANTS
  NoFit = NoFit
  NWriters = 2
  MaxLines = 2
  BufferUnits = 3
  RecvUnits = 3
  IterLines = {2}
  ThrowAt = {1}
  WorkerMayDie = FALSE
  SiblingMayDie = FALSE
  MayCancel = FALSE
  DebugMode = FALSE
INVARIANTS
  CallbackFindsIteration
