SPECIFICATION Spec
CONSTANTS
  driver = driver
  renderer = renderer
  physics = physics
  own = own
  t1 = t1
  t2 = t2
  t3 = t3
  t4 = t4
  t5 = t5
  a1 = a1
  a2 = a2
  a3 = a3
  render = render
  drive = drive
  Pools = {driver, renderer, physics, own}
  SkipPools = {physics}
  Addresses = {a1, a2, a3}
  SkipSlot = SkipSlot
  Tickets = {t1, t2, t3, t4, t5}
  PoolsOf <- MCPoolsOf
  None = None
  RendererPool = renderer
  RequiredPools = {driver, physics, renderer}
  AddressList <- MCAddressList
  NConcurrent <- TwoRenderers
  NrWorkers = 2
  PerWorkerCap = 2
  Jobs = {j1, j2}
  Workers = {1, 2}
  Consumers = {c1, c2}
  Sentinel = Sentinel
  NoItem = NoItem
  Callers = {render, drive}
  MaxAttempts <- MCAttempts
  Nobody = Nobody
  Order <- ServiceOrder
  Remote = {"renderer", "controller", "driver", "traffic"}
  Skipped = {}
  EvalEnabled = TRUE
  Rollouts = {u1, u2, u3, u4, u5, u6}
  NRollouts = 2
  Resume = TRUE
  MaxRuns = 3
  Files = {"both", "mixed", "lost", "bare"}
  Contents <- MCContents
  Readers = {1, 2}
  CacheSize = 2
  MaxArtifacts = 3
  NoMap = NoMap
  Rollers = {1, 2}
  CameraNames = {"front", "side", "rear"}
  Fields = {"rig", "resolution", "shutter", "intrinsics"}
  DriverCamera = "front"
  Configured = {"front", "side"}
  Sites = {"city", "hill"}
  HasCameras <- MCHasCameras
  Renderers = {"n1", "n2"}
  RigMasks = {"front"}
  Due <- MCDue
  Strangers = {"up"}
  WorkerSetups <- MCWorkerSetups
  ServiceNames = {"driver", "physics", "trafficsim", "controller", "renderer"}
  Setups <- MCSetups
  VersionAt <- MCVersionAt
  ScenesAt <- MCScenesAt
  Introspects = {"r1", "r2"}
  SkipCap = 2
  SkipVersion = "<skip>"
INVARIANTS
  CallsCounted
  WantedRollouts
  MapsWhole
  RenderedAsTold
  StartsWhole
PROPERTIES
  LedgerKept
  WorkersLeave
  SessionsClosed
  ImplementsRecord
CHECK_DEADLOCK FALSE
