SPECIFICATION Spec
CONSTANTS
  MaxRequests = 2
  IntMax = 3
  LongMax = 7
  Datas <- SomeDatas
  Seconds <- SomeSeconds
INVARIANTS
  TypeOK
  LeftOnlyByEarlyErrors
  OnlyFirstRaises
  ContextReadsBack
