CONSTANTS
  RobotType = "TrackRobot"
  Runners = {r1, r2}
  NoThread = NoThread
  NoTask = NoTask
  Ids = {a, b}
  Tasks <- MCTasks
  Messages = {"start", "cancel"}
  CountBound = 4
  FiredBound = 1
  RanBound = 3
  Allowed = {}
  Id <- MCId
  Version <- MCVersion
  HasCount <- MCHasCount
  Priority <- MCPriority
  MaxCount <- MCMaxCount
  ExecutedCount <- MCExecutedCount
  ActionList <- MCActionList
SPECIFICATION TimedSpec
SYMMETRY TimedSymmetry
INVARIANTS
  TimedTypeOK
  BookInv
  RunsInv
  RunsBounded
  RunsRecorded
PROPERTIES
  DeletedStays
