CONSTANTS
  RobotType = "TrackRobot"
  Runners = {r1, r2}
  NoThread = NoThread
  NoTask = NoTask
  Tasks = {"again", "badPriority"}
  Messages = {"start", "pause"}
  CountBound = 3
  Priority <- MCPriority
  MaxCount <- MCMaxCount
  ExecutedCount <- MCExecutedCount
  ActionList <- MCActionList
SPECIFICATION FairSpec
CHECK_DEADLOCK FALSE
PROPERTIES SetCurrentTaskReturns
