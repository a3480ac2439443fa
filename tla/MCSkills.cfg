SPECIFICATION FairSpec
CONSTANTS
  c1 = c1
  c2 = c2
  w1 = w1
  w2 = w2
  None = None
  Callers <- MCCallers
  Loaders <- MCLoaders
  MaxOps = 3
INVARIANTS IndInv HistoryTrue CacheCurrent
PROPERTIES ReturnsFresh RefreshReturns
CHECK_DEADLOCK FALSE
