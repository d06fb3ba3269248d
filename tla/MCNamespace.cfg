CONSTANTS
  a1 = a1
  a2 = a2
  x1 = x1
  n1 = n1
  n2 = n2
  c1 = c1
  c2 = c2
  c3 = c3
  Address = {a1, a2}
  Name = {x1}
  NamespaceId = {n1, n2}
  CapId = {c1, c2, c3}
  KindArg = {4, 5}
  VersionArg = {1, 2}
SYMMETRY Symmetry
SPECIFICATION NsSpec
INVARIANTS
  NsTypeOK
  NamesUnique
  EventsTellAuthority
PROPERTIES
  AuthorityFrozenWithoutAdmin
CHECK_DEADLOCK FALSE
