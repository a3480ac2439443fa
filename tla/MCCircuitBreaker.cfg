SPECIFICATION BreakerFairSpec
CONSTANTS
  Caller = {c1, c2, c3}
  FailureThreshold = 2
  RetryMaxAttempts = 3
INVARIANT BreakerInv
PROPERTY ProbeResolved
