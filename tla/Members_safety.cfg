CONSTANTS
  \* TeamAdmins
  None = None
  ana = ana
  luis = luis
  eva = eva
  q1 = q1
  q2 = q2
  Members = {ana, luis, eva}
  Team <- AdminSupervisorNew
  Requests = {q1, q2}
  Changes <- Anything
  \* Presence
  s1 = s1
  s2 = s2
  Sockets = {s1, s2}
  Puts = {p1}
  MaxHandlers = 2
  MaxFaults = 1
CHECK_DEADLOCK FALSE
SYMMETRY Symmetry
SPECIFICATION MembersSpec
INVARIANTS OnlineMeansASocket OneOpenInterval
PROPERTY OnlyStaleReadsLoseTheLast
