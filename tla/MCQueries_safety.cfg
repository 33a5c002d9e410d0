SPECIFICATION Spec
CONSTANTS
  Tasks = {t1, t2, t3}
  Events = {e1, e2}
  Robots = {a1, a2}
  RobotStates = {x1, x2}
  Filters = {{"running"}}
  PageSize = 1
  Limit = 2
  Horizon = 2
  Midnight = 2
  MaxYields = 3
  NoRow = NoRow
  NoState = NoState
  NoSnapshot = NoSnapshot
SYMMETRY SymRows
INVARIANTS
  TypeOK
  WalkComplete
  PageMatchesTotal
  StatsAddUp
  AlertsNewest
  RobotsListed
CHECK_DEADLOCK FALSE
