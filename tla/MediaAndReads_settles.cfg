CONSTANTS
  Attachments = {a1, a2}
  Workers = {w1, w2}
  MaxAttempts = 3
  MaxErrors = 3
  MaxOutages = 1
  Scopes = {cases}
  RuleScopes = {cases}
  Kinds = {"report", "table"}
  Requests = {r1, r2}
  Writers = {u1}
  FollowAttempts = 1
  MaxChanges = 1
  MaxFaults = 1
CHECK_DEADLOCK FALSE
SPECIFICATION MediaAndReadsSpec
INVARIANTS OnePatchEach NothingGivenUpEarly AnnouncedChangesAreRead OneFlight
PROPERTIES FilesSettle RequestsEnd
