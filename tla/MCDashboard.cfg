CONSTANTS
  r1 = r1
  r2 = r2
  t1 = t1
  t2 = t2
  s1 = s1
  s2 = s2
  s3 = s3
  d1 = d1
  d2 = d2
  browser = browser
  script = script
  Runtime = {r1, r2}
  Edit = {e1, e2, e3}
  Task = {t1, t2}
  Process = {browser, script}
  Server = browser
  OtherPatch <- Elsewhere
  Session = {s1, s2, s3}
  Tampered = {s2, s3}
  Day = {d1, d2}
  SessionsOf <- DaySessions
  MaxVerifyIds = 1
  CallCount = 2
  MaxNew = 2
  Poll = {p1, p2}
  MaxVisits = 2
  AttestIn <- ListedIn
  MaxEvents = 3
  EventPage = 1
  ListLimit = 2
  Content = {c1}
  Reader = {rd1, rd2, rd3}
  WriteRetries = 2
  ReadRetries = 2
SYMMETRY Interchangeable
SPECIFICATION Spec
INVARIANTS
  DashboardTypeOK
  PolicyHolds
  StorageIsFaithful
  PagesTellTheTruth
CHECK_DEADLOCK FALSE
