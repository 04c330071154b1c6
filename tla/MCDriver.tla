------------------------------ MODULE MCDriver ------------------------------
(* The driver's machines, checked one at a time: the service (one session id *)
(* that is started twice, so that jobs of two session objects share batches, *)
(* and two drives), the frame caches of two cameras, the buffer of an        *)
(* external planner, the controls of a person at the keyboard; and the pace  *)
(* of the runtime's loop, which like that person's keeps to the wall clock.  *)
EXTENDS DriverService, DriverModels, WallClock

VARIABLE machine   \* the one that runs

vars == <<machine, driverVars, cacheVars, trajectoryVars, manualVars, pacerVars>>

\* A is taken while its machine runs; the others stand still.
OfService(A) == machine = "service" /\ A /\ UNCHANGED <<machine, cacheVars, trajectoryVars, manualVars, pacerVars>>
OfCaches(A)  == machine = "caches" /\ A /\ UNCHANGED <<machine, driverVars, trajectoryVars, manualVars, pacerVars>>
OfPlanner(A) == machine = "planner" /\ A /\ UNCHANGED <<machine, driverVars, cacheVars, manualVars, pacerVars>>
OfPerson(A)  == machine = "person" /\ A /\ UNCHANGED <<machine, driverVars, cacheVars, trajectoryVars, pacerVars>>
OfLoop(A)    == machine = "loop" /\ A /\ UNCHANGED <<machine, driverVars, cacheVars, trajectoryVars, manualVars>>

Init ==
  /\ machine \in {"service", "caches", "planner", "person", "loop"}
  /\ DriverInit /\ CacheInit /\ TrajectoryInit /\ ManualInit /\ PacerInit
  /\ machine # "loop" => factor = 1

Next ==
  \/ OfService(DriverNext) \/ OfCaches(CacheNext) \/ OfPlanner(TrajectoryNext) \/ OfPerson(ManualNext)
  \/ OfLoop(PacerNext)

\* The fairness of DriverFairSpec.
Spec ==
  /\ Init /\ [][Next]_vars
  /\ WF_vars(OfService(InferenceStep)) /\ WF_vars(OfService(RunCallback))
  /\ WF_vars(OfService(StopServer))
  /\ \A d \in Drives : WF_vars(OfService(DriveResumes(d)))
=============================================================================
