CONSTANTS
  None = None
  Clients = {c1, c2}
  Jobs = {j1, j2}
  Workers = {w1, w2}
  Hooks = {h1}
  Wamids = {x1, x2}
  MaxAttempts = 2
  MaxSaveAttempts = 2
  MaxStalledCount = 1
  MaxFaults = 1
  MaxThrows = 0
  MaxLost = 0
  Reports = {"failed"}
CHECK_DEADLOCK FALSE
SPECIFICATION FairSpec
INVARIANT StrandedWithinDeaths
PROPERTIES PendingSettlesUntilADeath QueuedSendIsSaved
