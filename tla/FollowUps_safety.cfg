CONSTANTS
  \* Cases
  c1 = c1
  c2 = c2
  r1 = r1
  r2 = r2
  w1 = w1
  w2 = w2
  s1 = s1
  s2 = s2
  q1 = q1
  q2 = q2
  Customers = {c1, c2}
  Members = {r1, r2}
  Closers = {agent}
  MaxClock = 2
  MaxFails = 1
  \* Sentiment
  Texts = {t1}
  Rows = {a1}
  Workers = {w1, w2}
  Scanners = {s1, s2}
  MaxRetries = 2
  MaxStalls = 1
  MaxErrors = 1
  MaxToggles = 1
  NoRow = NoRow
  \* Spend
  Requests = {q1, q2}
  Deliveries = {m1, m2}
  Budgets = {5, 10}
  Rates = {4, 8}
  DefaultRate = 4
  LastMonth = 2
  MaxSettingChanges = 2
  MaxFailures = 1
CHECK_DEADLOCK FALSE
SYMMETRY Symmetry
SPECIFICATION FollowUpsSpec
INVARIANTS BurstsAnsweredOnce FirstResponseIsAReply SerialHandlersKeepTheClock
INVARIANTS OneRunnerPerAnalysis CallsBounded AlertNotLost OnlyStaleSavesLose
