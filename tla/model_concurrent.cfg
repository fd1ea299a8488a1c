SPECIFICATION FairSpec
CONSTANTS
  Programs = {p1, p2, bad}
  Invalid = {bad}
  MaxCreates = 3
  Serial = FALSE
  StancMayTimeout = TRUE
  CrashAnytime = TRUE
INVARIANTS
  TornModulesOwned
PROPERTIES
  CreatesAnswered
