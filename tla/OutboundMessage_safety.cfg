CONSTANTS
  None = None
  Clients = {c1}
  Jobs = {j1, j2, j3}
  Workers = {w1, w2}
  Hooks = {h1}
  Wamids = {x1, x2}
  MaxAttempts = 2
  MaxSaveAttempts = 2
  MaxStalledCount = 1
  MaxFaults = 1
  MaxThrows = 1
  MaxLost = 1
  Reports = {"delivered", "failed"}
CHECK_DEADLOCK FALSE
SYMMETRY Symmetry
SPECIFICATION Spec
INVARIANTS OwnersWithinReplays CopiesAccountedFor FailedMeansUndelivered
PROPERTY ImplementsLifecycle
