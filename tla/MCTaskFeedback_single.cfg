SPECIFICATION FairSpec
CONSTANTS
  Hooks = {h1, h2}
  Workers = {w1}
  Tasks = {c1}
  Robots = {}
  Methods = {"outbin", "pause", " "}
  MaxRetries = 1
  MaxDeaths = 1
  MaxExpiries = 0
  NoHook = NoHook
  NoRobot = NoRobot
  NoTask = NoTask
  NoState = NoState
  NoMessage = NoMessage
PROPERTIES
  EndReachesTask
  EveryMessageSettled
CHECK_DEADLOCK FALSE
