CONSTANTS
  RobotType = "TrackRobot"
  Runners = {r1, r2}
  NoThread = NoThread
  NoTask = NoTask
  Tasks = {"patrol", "urgent", "dock"}
  Messages = {"start", "pause", "resume", "cancel", "ctrl"}
  CountBound = 3
  Priority <- MCPriority
  MaxCount <- MCMaxCount
  ExecutedCount <- MCExecutedCount
  ActionList <- MCActionList
SPECIFICATION FairSpec
INVARIANTS
  PausedMeansStopped
  StopAdmitsNone
  CallAnswered
  StopAnswered
  AssignAnswered
PROPERTIES
  HandlerReturns
  RunEnds
  PauseStands
