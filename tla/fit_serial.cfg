SPECIFICATION Spec
CONSTANTS
  m1 = m1
  m2 = m2
  f1 = f1
  f2 = f2
  g1 = g1
  NoCall = NoCall
  Models = {m1, m2}
  FitNames = {f1, f2, g1}
  ModelOf <- ModelOfFit
  Unseeded = {f2}
  MaxCalls = 3
  Serial = TRUE
  CrashAnytime = FALSE
INVARIANTS
  TypeOK
  OperationTellsTruth
  FitsHaveModel
  CancelledWarned
  ClientsInv
PROPERTIES
  StoredFitsStay
  ImplementsOperations
