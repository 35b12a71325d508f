CONSTANTS
  Callers = {c1, c2}
  Threshold = 2
  Window = 1
  OpenFor = 2
  ReopenFor = 2
  CallTime = 1
  MaxCrashes = 1
SPECIFICATION BreakerSpec
INVARIANT ProbesAreExclusive
PROPERTY NeverShutForGood
