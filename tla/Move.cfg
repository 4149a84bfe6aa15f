CONSTANTS
  RobotType = "TrackRobot"
  Kind = "move"
  Objects = {o1, o2}
  NoObject = NoObject
  InboxBound = 2
SPECIFICATION FairSpec
INVARIANTS
  IInv
  NoUseAfterDelete
PROPERTIES
  StopReturns
  CallReturns
  ObjectsFreed
  ImplementsCall
