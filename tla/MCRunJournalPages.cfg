SPECIFICATION Spec
CHECK_DEADLOCK FALSE
CONSTANTS
  r1 = r1
  r2 = r2
  Runs <- MCRuns
  Backends <- MCBackends
  None = None
  FlushThreshold = 2
  PageLimit = 1
  MaxEvents <- MCMaxEvents
INVARIANT BackwardComplete
