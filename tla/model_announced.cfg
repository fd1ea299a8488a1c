SPECIFICATION FairSpec
CONSTANTS
  Programs = {p1, p2, bad}
  Invalid = {bad}
  MaxCreates = 2
  Serial = FALSE
  StancMayTimeout = FALSE
  CrashAnytime = FALSE
PROPERTIES
  AnnouncedModelsComplete
