SPECIFICATION FairSpec
CONSTANTS
  t1 = t1
  t2 = t2
  r1 = r1
  r2 = r2
  Threads <- MCThreads
  Runs <- MCRuns
  ThreadOf <- MCThreadOf
  Sweeper = Sweeper
  None = None
  Replicas = 1
  MaxContainers = 2
INVARIANTS IndInv NothingForgotten ServedUnlessCondemned
PROPERTY IdleStopped
