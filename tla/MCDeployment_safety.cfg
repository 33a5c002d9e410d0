SPECIFICATION Spec
CONSTANTS
  Processes = {p1, p2}
  Idle = Idle
SYMMETRY SymProcesses
INVARIANTS
  TypeOK
  RoundTrip
  HeadIsMetadata
  UniqueAtRest
  SeededWhenServing
CHECK_DEADLOCK FALSE
