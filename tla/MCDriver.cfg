SPECIFICATION Spec
CONSTANTS
  Uuids = {u1}
  Drives = {d1, d2}
  MaxObjects = 2
  MaxPoses = 1
  MaxBatch = 2
  StopJob = StopJob
  Cameras = {c1, c2}
  Timestamps = {1, 2, 3, 4, 5}
  ContextLength = 2
  SubsampleFactor = 2
  MessageKinds = {"good", "empty", "other_frame"}
  MaxMessages = 2
  MaxClock = 3
  TimeoutAge = 1
  MaxSpeed = 1
  MaxReverse = 1
  MaxSteer = 1
  MaxWall = 3
  FrameTimes = {0, 2}
  RealtimeFactors = {0, 1, 2}
  SimTimes = {4, 6, 10}
  Costs = {0, 1, 4}
  Oversleep = 1
  MaxEvents = 4
INVARIANTS
  CacheIsNewest
  AnswersInTime
  EventsPaced
PROPERTIES
  DrivesEnd
CHECK_DEADLOCK FALSE
