SPECIFICATION FairSpec
CONSTANTS
  front = front
  side = side
  Cameras = {front, side}
  DriverCamera = front
  Rollouts <- MCRollouts
  None = None
INVARIANTS
  HandlersAgree
PROPERTIES
  DriverSeesEverything
  ImplementsClosedLoop
  RolloutEnds
CHECK_DEADLOCK FALSE
