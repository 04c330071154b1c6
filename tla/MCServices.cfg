SPECIFICATION Spec
CONSTANTS
  Agents = {"car", "late", "post", "gone"}
  StaticAgents = {"post"}
  Ego = "ego"
  Logs <- MCLogs
  Dt = 2
  HistorySteps = 3
  MinValidSteps = 2
  MinFutureSteps = 1
  TokenStride = 2
  Leads = {1, 2, 6}
  Forces = {0, 1, 4}
  ControlSteps = {1, 2, 3, 4}
  LastQuery = 14
  SceneObjects <- MCSceneObjects
  Numbers <- MCNumbers
  Lines <- MCLines
  Spots <- MCSpots
  Paces = {1, 5}
  MapLayers <- MCMapLayers
  LineStride = 4
  MapReach = 3
  MapLimits <- MCMapLimits
  FilterReach = 10
  SceneLogs <- MCSceneLogs
  SceneEnd = 14
  MinDuration = 2
  ReportEvery = 2
  DtMpc = 3
  Cadences <- MCCadences
  LastTime = 9
  VideoConfigs <- MCVideoConfigs
  EndTime = 14
  Scenes = {1, 2, 3}
  MaxUpdates = 5
  QueueSize = 2
  MaxOutages = 2
  Horizon = 3
  Xs = {0, 72}
  MaxX = 72
  Dynamics <- MCDynamics
  Offsets = {72}
  Joined <- MCJoined
  Raised <- MCRaised
  Alphas <- MCAlphas
  MaxCuts = 2
  Recorded <- MCRecorded
  Ground <- MCGround
  Setups <- MCSetups
  Heights = {0, 960}
  LookAhead = 5
  Actors = {"car", "late"}
  EgoActor = "EGO"
  Courses <- MCCourses
  Under <- MCUnder
  Tracks <- MCTracks
  SimPoses <- MCSimPoses
  BackendCacheSize = 1
  MaxLift = 4
  MaxTilt = 8
  RecordedDrives <- MCRoads
  Lanes <- MCLanes
  EgoPlaces <- MCPlaces
  StartOffsets = {0, 5}
  NumWaypoints = 4
  Spacing = 4
  MinKept = 1
  OffMap = 10
  LaneReach = 3
  MinGapSq = 13
  MaxGapSq = 20
INVARIANTS
  TakesOver
  TrafficWhole
  ControllerConsistent
  VideoFramesInTime
  ExportsKept
  GroundedOnScene
PROPERTIES
  PathsSound
CHECK_DEADLOCK FALSE
