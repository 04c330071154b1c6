SPECIFICATION Spec
CONSTANTS
  front = front
  side = side
  Cameras = {front, side}
  DriverCamera = front
  Rollouts <- MisalignedRollouts
  None = None
INVARIANTS
  CamerasAtDecisionTime
CHECK_DEADLOCK FALSE
