CONSTANTS
  RobotType = "TrackRobot"
  Runners = {r1, r2}
  NoThread = NoThread
  NoTask = NoTask
  Tasks = {"patrol"}
  Messages = {"start", "pause"}
  CountBound = 3
  Priority <- MCPriority
  MaxCount <- MCMaxCount
  ExecutedCount <- MCExecutedCount
  ActionList <- MCActionList
SPECIFICATION Spec
CHECK_DEADLOCK FALSE
INVARIANTS PauseStopsRobot
