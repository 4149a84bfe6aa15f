CONSTANTS
  RobotType = "TrackRobot"
  Runners = {r1, r2}
  NoThread = NoThread
  NoTask = NoTask
  Tasks = {"broken", "patrol"}
  Messages = {"start", "pause"}
  CountBound = 2
  Priority <- MCPriority
  MaxCount <- MCMaxCount
  ExecutedCount <- MCExecutedCount
  ActionList <- MCActionList
SPECIFICATION FairSpec
CHECK_DEADLOCK FALSE
PROPERTIES ControlReturns
