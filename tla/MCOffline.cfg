SPECIFICATION Spec
CONSTANTS
  DriverCamera = "front"
  Corrections = {0, 3}
  Reruns <- MCReruns
  Tolerance = 2
  Lookahead = 3
  Reach = 2
  Timings <- MCTimings
  Situations <- MCSituations
  Saturation = 2
  Length = 3
  ArrayJobs = {"a", "b", "c"}
  MayFail = {"a"}
  MaxKills = 2
  RolloutIds = {1, 2, 3}
  Placements <- MCPlacements
  Verdicts <- MCVerdicts
  Scale = 6
  MaxOdd = 1
  MaxLater = 2
  MaxSummaries = 2
  Plans <- MCPlans
  TelemetryPorts = 2
  BasePort = 1
  LastPort = 9
  Timeout = 1
  SceneIds = {"a", "b", "c"}
  MaxForeign = 1
  MaxCrashes = 1
  Wizards = {"w1", "w2"}
  Catalogs <- MCCatalogs
  Demands <- MCDemands
  Mislabelled = {"x", "y"}
  DownloadsAtOnce = 1
  MaxReruns = 1
  MaxFailures = 1
INVARIANTS
  ReadBackWhole
  DrivenStepsJudged
  AggregatesOnce
  DeployedWhole
  SceneSetsComplete
CHECK_DEADLOCK FALSE
