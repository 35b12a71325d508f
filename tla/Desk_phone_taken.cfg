CONSTANTS
  \* Customers
  s1 = s1
  s2 = s2
  p1 = p1
  p2 = p2
  r1 = r1
  r2 = r2
  NoPhone = NoPhone
  Senders = {s1, s2}
  Phones = {p1, p2}
  PhoneOf <- OnePerson
  Requests = {r1, r2}
  MaxCustomers = 3
  MaxRequests = 4
  \* StagedUploads
  u1 = u1
  m1 = m1
  m2 = m2
  m3 = m3
  a1 = a1
  a2 = a2
  Nobody = Nobody
  Uploads = {u1}
  Messages = {m1, m2, m3}
  UploadOf <- Shared
  Foreign = {m3}
  Processes = {a1, a2}
  MaxRuns = 3
  MaxCrashes = 1
  MaxErrors = 1
  \* BusinessHours
  DayLength = 4
  Week = 2
  Zones <- AnyZone
  Schedules <- AnySchedule
  Starts <- FirstInstants
  Longest = 13
  MaxDays = 3
CHECK_DEADLOCK FALSE
SYMMETRY Symmetry
SPECIFICATION DeskSpec
INVARIANT ActiveHoldersKeepThePhone
