CONSTANTS
  s1 = s1
  s2 = s2
  k1 = k1
  k2 = k2
  k3 = k3
  Address = {a1}
  Name = {x1}
  NamespaceId = {n1}
  CapId = {c1, c2}
  KindArg = {4}
  VersionArg = {1}
  SessionId = {s1, s2}
  CallId = {k1, k2, k3}
  Payload = {p1}
  Output = {o1}
  StatusArg = {0, 3, 4}
  NONE = NONE
SYMMETRY Symmetry
SPECIFICATION Spec
PROPERTIES
  InactiveStopsWrites
CHECK_DEADLOCK FALSE
