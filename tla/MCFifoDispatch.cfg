SPECIFICATION FifoFairSpec
CONSTANTS
  r1 = r1
  r2 = r2
  j1 = j1
  j2 = j2
  j3 = j3
  driver = driver
  renderer = renderer
  d1 = d1
  n1 = n1
  n2 = n2
  own = own
  Requests = {r1, r2}
  Jobs = {j1, j2, j3}
  RequestOf <- MCRequestOf
  Services = {driver, renderer}
  Driver = driver
  DriverRequests = {r2}
  Shared = Shared
  Slots = {d1, n1, n2, own}
  SlotsOf <- MCSlotsOf
  SkipPools <- NoSkipPools
  SkipSlot = SkipSlot
  Workers = {w1}
  NumConsumers = 1
  None = None
  JobList <- MCJobList
INVARIANTS
  SubmissionOrder
PROPERTIES
  ImplementsScheduler
  AcceptedRequestsEnd
CHECK_DEADLOCK FALSE
