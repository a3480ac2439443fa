SPECIFICATION FairSpec
CONSTANTS
  Run = {r1, r2}
  History = {h}
CHECK_DEADLOCK FALSE
INVARIANTS IndInv SerialUnlessAborted HistoryKept
PROPERTY CancelReachesEnd
