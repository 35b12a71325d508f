CONSTANTS
  None = None
  Clients = {c1}
  Jobs = {j1, j2}
  Workers = {w1, w2}
  Hooks = {h1}
  Wamids = {x1, x2}
  MaxAttempts = 2
  MaxSaveAttempts = 2
  MaxStalledCount = 1
  MaxFaults = 0
  MaxThrows = 0
  MaxLost = 1
  Reports = {}
CHECK_DEADLOCK FALSE
SPECIFICATION Spec
INVARIANT ExactlyOncePerSend
