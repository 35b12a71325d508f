CONSTANTS
  cases = cases
  r1 = r1
  r2 = r2
  w1 = w1
  w2 = w2
  Scopes = {cases}
  RuleScopes = {cases}
  Kinds = {"report"}
  Requests = {r1, r2}
  Writers = {w1}
  FollowAttempts = 1
  MaxChanges = 1
  MaxFaults = 0
CHECK_DEADLOCK FALSE
SPECIFICATION Spec
INVARIANT AnnouncedRulesAreUsed
