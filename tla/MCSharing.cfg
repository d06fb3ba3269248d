CONSTANTS
  n1 = n1
  n2 = n2
  m1 = m1
  m2 = m2
  c1 = c1
  o1 = o1
  o2 = o2
  q1 = q1
  q2 = q2
  x1 = x1
  x2 = x2
  Address = {a1}
  Name = {x1, x2}
  NamespaceId = {n1, n2}
  CapId = {m1, m2, c1}
  KindArg = {0}
  VersionArg = {1}
  Request = {q1, q2}
  AdminOf <- Admins
  PageSize = 2
  MaxLag = 1
  AdminArg = {m1}
  ShareKind <- AnyShared
  Op = {o1, o2}
SYMMETRY Interchangeable
SPECIFICATION SharingSpec
INVARIANTS
  SharingTypeOK
  HistoryIsRight
  ReportedIsInForce
  PanelIsCurrent
CHECK_DEADLOCK FALSE
