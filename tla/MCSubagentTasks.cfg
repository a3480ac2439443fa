SPECIFICATION TasksSpec
CONSTANTS
  Task = {t1, t2}
  Workers = 1
  MaxPolls = 1
CHECK_DEADLOCK FALSE
INVARIANT TasksInv
PROPERTIES CancelledIsFinal CallerReturns CancelledWorkStops
