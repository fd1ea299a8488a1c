SPECIFICATION Spec
CONSTANTS
  Programs = {p1, p2, bad}
  Invalid = {bad}
  MaxCreates = 4
  Serial = TRUE
  StancMayTimeout = FALSE
  CrashAnytime = FALSE
INVARIANTS
  TypeOK
  NoServerError
  IdleCacheLoadable
  CacheInv
PROPERTIES
  AnnouncedModelsComplete
  ModelsStay
