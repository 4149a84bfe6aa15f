CONSTANTS
  RobotType = "TrackRobot"
  Runners = {r1, r2}
  NoThread = NoThread
  NoTask = NoTask
  Ids = {a}
  Tasks <- MCTasks
  Messages = {"start"}
  CountBound = 4
  FiredBound = 1
  RanBound = 3
  Allowed = {"overlap"}
  Id <- MCId
  Version <- MCVersion
  HasCount <- MCHasCount
  Priority <- MCPriority
  MaxCount <- MCMaxCount
  ExecutedCount <- MCExecutedCount
  ActionList <- MCActionList
SPECIFICATION TimedSpec
CHECK_DEADLOCK FALSE
INVARIANTS RunsBounded
