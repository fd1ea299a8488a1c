SPECIFICATION Spec
CONSTANTS
  Builds = {b1,b2,b3}
  MaxTools = 2
  Overlap = FALSE
  BadConfig = FALSE
  Stderr = Stderr
INVARIANTS
  TypeOK
  StderrRestored
  OutputIsOwn
