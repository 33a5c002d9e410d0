SPECIFICATION Spec
CONSTANTS
  Hooks = {h1, h2}
  Workers = {w1, w2}
  Tasks = {c1}
  Robots = {a1}
  Methods = {"start", "end"}
  MaxRetries = 1
  MaxDeaths = 1
  MaxExpiries = 1
  NoHook = NoHook
  NoRobot = NoRobot
  NoTask = NoTask
  NoState = NoState
  NoMessage = NoMessage
SYMMETRY SymHooksWorkers
INVARIANTS
  TypeOK
  HeldUntilSettled
  DuplicateHasTwin
  StatusReported
  EndTimed
  ProcessedOncePerKey
PROPERTIES
  ImplementsLifecycle
CHECK_DEADLOCK FALSE
