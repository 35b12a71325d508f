CONSTANTS
  \* ThreadAccess
  None = None
  x1 = x1
  x2 = x2
  x3 = x3
  t1 = t1
  t2 = t2
  Convs = {x1, x2, x3}
  Members = {1, 2}
  Supervisors = {2}
  Txns = {t1, t2}
  AutoAssign = TRUE
  MaxOpen = 1
  Sticky = TRUE
  Removable = {1}
  MaxRows = 3
  Watched = {x1}
  Openers = {1}
  \* Sessions
  b1 = b1
  b2 = b2
  Browsers = {b1, b2}
  MaxClaimChanges = 2
  MaxClock = 2
  MaxTokens = 2
  MaxFailures = 1
CHECK_DEADLOCK FALSE
SYMMETRY Symmetry
SPECIFICATION RoomsSpec
INVARIANTS OneActive OwnerFollowsActive OvershootBounded OnlyRemovalReleases StrangersLeave
INVARIANT OldClaimsHaveACause
PROPERTY ImplementsOwnership
