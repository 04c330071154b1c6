SPECIFICATION Spec
CONSTANTS
  r1 = r1
  r2 = r2
  r3 = r3
  j1 = j1
  j2 = j2
  j3 = j3
  j4 = j4
  driver = driver
  renderer = renderer
  d1 = d1
  n1 = n1
  n2 = n2
  own = own
  w1 = w1
  w2 = w2
  Requests = {r1, r2, r3}
  Jobs = {j1, j2, j3, j4}
  RequestOf <- MCRequestOf
  Services = {driver, renderer}
  Driver = driver
  DriverRequests = {r2}
  Shared = Shared
  Slots = {d1, n1, n2, own}
  SlotsOf <- MCSlotsOf
  SkipPools <- NoSkipPools
  SkipSlot = SkipSlot
  Workers = {w1, w2}
  NumConsumers = 1
  None = None
INVARIANT ShutdownStopsWorkers
CHECK_DEADLOCK FALSE
