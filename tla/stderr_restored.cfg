SPECIFICATION Spec
CONSTANTS
  Builds = {b1,b2}
  MaxTools = 2
  Overlap = TRUE
  BadConfig = FALSE
  Stderr = Stderr
INVARIANTS
  StderrRestored
