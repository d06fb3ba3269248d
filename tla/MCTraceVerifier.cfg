CONSTANTS
  s1 = s1
  s2 = s2
  k1 = k1
  k2 = k2
  k3 = k3
  c1 = c1
  c2 = c2
  Address = {a1}
  Name = {x1}
  NamespaceId = {n1}
  CapId = {c1, c2}
  KindArg = {0}
  VersionArg = {1}
  SessionId = {s1, s2}
  CallId = {k1, k2, k3}
  Payload = {p1}
  Output = {}
  StatusArg = {}
  NONE = NONE
  PageSize = 2
  ListPageSize = 1
  MaxFaults = 2
SYMMETRY Symmetry
CONSTRAINT WritersStay
SPECIFICATION VerifierSpec
INVARIANTS
  VerifierTypeOK
  PositiveVerdictIsRight
  NegativeVerdictHasCause
  VerifiersAgree
CHECK_DEADLOCK FALSE
