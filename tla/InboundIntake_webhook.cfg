CONSTANTS
  w1 = w1
  w2 = w2
  ana = ana
  luis = luis
  Replayer = replayer
  Wamids = {w1, w2}
  Senders = {ana, luis}
  SenderOf <- FromBoth
  Known <- KnowsAna
  Bodies <- Together
  Hooks = {h1}
  Jobs = {j1, j2}
  Limit = 1
  MaxStalled = 1
  Budget <- Anything
  MaxKinds = 2
CHECK_DEADLOCK FALSE
SPECIFICATION FairSpec
INVARIANTS StoredNotLost OneRowEach
PROPERTY PendingSettles
