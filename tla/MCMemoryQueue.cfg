SPECIFICATION FairSpec
CONSTANTS
  Thread = {t1, t2}
  Worker = {w1, w2}
  MaxTurns = 2
  MaxEntering = 2
CHECK_DEADLOCK FALSE
INVARIANT IndInv
PROPERTIES CorrectionKept QueueDrains
