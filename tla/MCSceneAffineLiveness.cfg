SPECIFICATION SteadySpec
CONSTANTS
  r1 = r1
  r2 = r2
  r3 = r3
  r4 = r4
  j1 = j1
  j2 = j2
  j3 = j3
  j4 = j4
  j5 = j5
  j6 = j6
  A = A
  B = B
  driver = driver
  renderer = renderer
  n1 = n1
  n2 = n2
  n3 = n3
  gpu0 = gpu0
  gpu1 = gpu1
  skip = skip
  Requests = {r1, r2, r3, r4}
  Jobs = {j2, j4, j5, j6}
  RequestOf <- MCRequestOf
  JobList <- MCJobList
  Scenes = {A, B}
  SceneOf <- MCSceneOf
  AddressOf <- MCAddressOf
  Renderer = renderer
  Services = {driver, renderer}
  Driver = driver
  DriverRequests <- NoDrivers
  Shared = Shared
  Slots = {n1}
  SlotsOf <- MCSlotsOf
  SkipPools <- SkipDriver
  SkipSlot = SkipSlot
  Workers = {w1}
  NumConsumers = 1
  None = None
PROPERTIES
  OnlyOtherScenesDelay
CHECK_DEADLOCK FALSE
