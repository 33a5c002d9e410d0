SPECIFICATION Spec
CONSTANTS
  Hooks = {h1, h2}
  Workers = {w1, w2}
  Tasks = {c1}
  Robots = {}
  Methods = {"start", "end"}
  MaxRetries = 0
  MaxDeaths = 0
  MaxExpiries = 0
  NoHook = NoHook
  NoRobot = NoRobot
  NoTask = NoTask
  NoState = NoState
  NoMessage = NoMessage
PROPERTIES
  TerminalStable
CHECK_DEADLOCK FALSE
