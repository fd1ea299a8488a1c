SPECIFICATION Spec
CONSTANTS
  NoSeed = NoSeed
  Help <- SampleHelp
  IntMax = 127
  MaxClock = 1
  Requests <- SamplingRequests
  MaxCalls = 2
  LateErrors = FALSE
INVARIANTS
  TypeOK
  WritersFollowStan
  LinesRecoverMessages
  ErrorsReported
  DefaultsNeverRefused
