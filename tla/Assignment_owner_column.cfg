CONSTANTS
  None = None
  Convs = {x1}
  Members = {1, 2}
  Supervisors = {2}
  Txns = {t1, t2}
  AutoAssign = TRUE
  MaxOpen = 0
  Sticky = TRUE
  Removable = {1}
  MaxRows = 3
CHECK_DEADLOCK FALSE
SPECIFICATION Spec
INVARIANT OwnerMatchesActive
