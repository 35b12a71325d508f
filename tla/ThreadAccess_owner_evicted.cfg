CONSTANTS
  None = None
  Convs = {x1}
  Members = {1, 2}
  Supervisors = {2}
  Txns = {t1, t2}
  AutoAssign = TRUE
  MaxOpen = 0
  Sticky = TRUE
  Removable = {}
  MaxRows = 2
  Watched = {x1}
  Openers = {1}
CHECK_DEADLOCK FALSE
SPECIFICATION ThreadSpec
PROPERTY OwnerKeepsTheThread
