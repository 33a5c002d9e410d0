SPECIFICATION Spec
CONSTANTS
  Ops = {o1, o2, o3}
  Calls = {k1}
  Ips = {Blank, i1}
  Ports = {p1}
  Blank = Blank
  NoValue = NoValue
  NoPayload = NoPayload
  NoSnapshot = NoSnapshot
  Default = Default
SYMMETRY SymOps
INVARIANTS
  TypeOK
  OnlyStoredUsed
PROPERTIES
  PutTakesEffect
CHECK_DEADLOCK FALSE
