CONSTANTS
  w1 = w1
  w2 = w2
  ana = ana
  luis = luis
  Replayer = replayer
  Wamids = {w1, w2}
  Senders = {ana}
  SenderOf <- FromAna
  Known <- KnowsNobody
  Bodies <- Together
  Hooks = {h1}
  Jobs = {j1, j2}
  Limit = 1
  MaxStalled = 1
  Budget <- NoFaults
  MaxKinds = 2
CHECK_DEADLOCK FALSE
SYMMETRY Symmetry
SPECIFICATION Spec
INVARIANT OneConversation
