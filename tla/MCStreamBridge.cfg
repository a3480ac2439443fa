SPECIFICATION FairSpec
CONSTANTS
  Client = {c1, c2}
  MaxSize = 2
  MaxEvents = 4
  MaxStreams = 2
CHECK_DEADLOCK FALSE
INVARIANT IndInv
PROPERTIES EndReachesReaders ImplementsEventLog
