CONSTANTS
  RobotType = "TrackRobot"
  Runners = {r1, r2}
  NoThread = NoThread
  NoTask = NoTask
  Tasks = {"patrol", "urgent", "badPriority", "dock", "drive", "broken", "noSuchCode", "empty", "again"}
  Messages = {"start", "pause", "resume", "cancel", "ctrl", "battery"}
  CountBound = 4
  Priority <- MCPriority
  MaxCount <- MCMaxCount
  ExecutedCount <- MCExecutedCount
  ActionList <- MCActionList
SPECIFICATION Spec
SYMMETRY RunnerSymmetry
CHECK_DEADLOCK FALSE
INVARIANTS
  TypeOK
  IInv
  OneScheduler
  RobotBound
  RunBudget
  ActsOnlyExecing
  NoStaleStop
PROPERTIES
  TaskDataStable
  RequestHolds
  ImplementsLifecycle
