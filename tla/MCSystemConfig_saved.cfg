SPECIFICATION OneWriterSpec
CONSTANTS
  Ops = {o1, o2, o3}
  Calls = {}
  Ips = {Blank, i1}
  Ports = {p1, p2}
  Blank = Blank
  NoValue = NoValue
  NoPayload = NoPayload
  NoSnapshot = NoSnapshot
  Default = Default
SYMMETRY SymOps
INVARIANTS
  SavedSettingsUsed
CHECK_DEADLOCK FALSE
