----------------------------- MODULE MCServices -----------------------------
(* What a rollout talks to and keeps, checked one machine at a time: a       *)
(* session of the traffic service with the tracks the runtime keeps of it, one of the controller, the chunks of the  *)
(* video-model renderer, the exporters to the ROS bridge, trajectories, the  *)
(* ego's history, the physics of rollouts that share a server, and the route *)
(* a driver is shown.                                                        *)
EXTENDS ActorTracks, ControllerSession, VideoPrefetch, TcpExporter, EgoTrack, Grounding, Routes

\* Objects: one replayed and predicted, one that enters late, one parked, one
\* that leaves at a handover or before.
MCLogs ==
  [ego |-> {0, 4, 8, 12, 16}, car |-> {1, 3, 7, 12}, late |-> {7, 14}, post |-> {2, 3}, gone |-> {0, 5}]

\* What the scene records of them, of one that is too brief and of one after the end.
MCSceneLogs ==
  [car |-> {1, 3, 7, 12}, late |-> {7, 21}, post |-> {2, 3}, gone |-> {0, 5}, brief |-> {6}, after |-> {16, 20}]

\* The objects of the scene; the ids of two that are kept are no numbers, one of
\* these two moves, and what the network cannot move leaves early.
MCSceneObjects ==
  <<[id |-> "car", label |-> "automobile"], [id |-> "late", label |-> "person"], [id |-> "post", label |-> "stroller"],
    [id |-> "gone", label |-> "heavy_truck"], [id |-> "brief", label |-> "bus"], [id |-> "after", label |-> "rider"]>>
MCNumbers == [car |-> 12, post |-> 7, gone |-> 3]
MCSpots   == [car |-> 5, late |-> 30, post |-> 36, gone |-> 2]

Line(what, from, until) == [what |-> what, from |-> from, until |-> until]
\* A long lane and its side, a road's edge, two crossings and a line too short.
MCLines ==
  {Line("center", 0, 40), Line("side", 0, 14), Line("edge", 0, 9), Line("crossing", 2, 12),
   Line("crossing", 4, 12), Line("wait", 6, 8), Line("area", 0, 20)}
MCMapLayers == {"lane_lines", "lane_centers", "road_boundaries", "road_islands", "crosswalks", "wait_lines"}
MCMapLimits == [lane |-> 6, boundary |-> 1, other |-> 1]

\* Control steps below, above and at the MPC's; pose reports in two of them.
MCCadences == {[step |-> 2, report |-> 0], [step |-> 4, report |-> 1], [step |-> 3, report |-> 2]}

Chunks(first, regular, control, force, count, spacing) ==
  [anchor |-> 1, control |-> control, forceGt |-> force, first |-> first,
   regular |-> regular, count |-> count, spacing |-> spacing]

\* Aligned ones, with and without a handover or subsampling, and misaligned ones.
MCVideoConfigs ==
  {Chunks(2, 3, 3, 0, 0, 0), Chunks(1, 2, 2, 3, 0, 0), Chunks(2, 4, 4, 6, 2, 2),
   Chunks(1, 4, 4, 5, 3, 1), Chunks(3, 2, 2, 7, 2, 3), Chunks(2, 3, 2, 0, 0, 0),
   Chunks(2, 3, 3, 4, 0, 0)}

\* Dynamics that are not linear in time, and a trajectory to join that overlaps.
MCDynamics == [row \in Times \X Xs |-> row[2] + 36 * row[1] * row[1]]
Rowed(s)   == [poses |-> s, dynamics |-> [k \in DOMAIN s |-> MCDynamics[s[k].at, s[k].x]]]
MCJoined   == {Rowed(<<Pose(1, 72), Pose(3, 0)>>), Rowed(<<Pose(3, 0)>>), Rowed(<<>>)}
MCRaised   == [t \in Times |-> IF t % 2 = 0 THEN 0 ELSE 72]
MCAlphas   == {[t \in Times |-> 1], [t \in Times |-> t - 1]}

\* A recorded drive and a ground whose heights every easing here divides.
MCRecorded == <<Pose(0, 0), Pose(2, 240), Pose(3, 120), Pose(7, 0), Pose(12, 600)>>
MCGround   == [t \in 0 .. 12 |-> 7200 + 120 * t]

SetupOf(context, render, policy, force, control, report, physics) ==
  [context |-> context, render |-> render, policy |-> policy, force |-> force, steps |-> 3,
   control |-> control, report |-> report, physics |-> physics]

\* With a handover at a step and between two, without physics, seeds within the
\* easing, force to the end, and what raises: one seed, and a late first step.
MCSetups ==
  {SetupOf(0, 2, 2, 4, 2, 1, TRUE), SetupOf(0, 2, 2, 4, 2, 2, FALSE), SetupOf(0, 1, 3, 5, 3, 2, TRUE),
   SetupOf(0, 2, 2, 3, 2, 1, TRUE), SetupOf(0, 0, 0, 0, 2, 1, FALSE), SetupOf(0, 0, 0, 3, 3, 1, TRUE),
   SetupOf(0, 1, 4, 0, 2, 2, TRUE), SetupOf(0, 2, 2, 0, 2, 1, TRUE), SetupOf(0, 3, 3, 12, 4, 2, TRUE)}

\* The ground of two scenes at the spots of the objects.
Surface(hits, z, tilt) == [hits |-> hits, z |-> z, tilt |-> tilt]
MCUnder ==
  [flat |-> [o \in {"ego", EgoActor} \cup Actors |-> Surface(16, 0, 0)],
   hill |-> [o \in {"ego", EgoActor} \cup Actors |->
               IF o = "late" THEN Surface(2, 4, 0) ELSE Surface(16, 4, 4)]]

\* Near the ground, too far from it, and tilted too much.
MCSimPoses == {[z |-> 2, tilt |-> 0], [z |-> 8, tilt |-> 4], [z |-> 2, tilt |-> 16]}
MCTracks   == [car |-> [from |-> 0, until |-> 9, z |-> 2, tilt |-> -4],
               late |-> [from |-> 2, until |-> 9, z |-> 0, tilt |-> 0]]

\* Two forced steps and a free one, beside a step with replayed traffic.
MCCourses ==
  <<[scene |-> "hill", mode |-> "all_actors", force |-> 2, skip |-> FALSE, trafficSkip |-> FALSE, steps |-> 3],
    [scene |-> "flat", mode |-> "all_actors", force |-> 0, skip |-> FALSE, trafficSkip |-> TRUE, steps |-> 1]>>

Lane(points, next, headed) == [points |-> points, next |-> next, headed |-> headed]
\* A road with a turn to the left, a lane beside it and one with flawed links.
MCLanes ==
  <<Lane(<< <<0, 0>>, <<4, 0>>, <<8, 0>> >>, {2, 3, 8}, TRUE),
    Lane(<< <<8, 0>>, <<16, 0>> >>, {4}, TRUE),
    Lane(<< <<8, 0>>, <<8, 4>>, <<8, 12>> >>, {}, TRUE),
    Lane(<< <<16, 0>>, <<24, 0>>, <<24, 6>> >>, {}, TRUE),
    Lane(<< <<0, 4>>, <<6, 4>> >>, {6, 7}, FALSE),
    Lane(<< <<2, 4>>, <<0, 4>> >>, {}, TRUE),
    Lane(<< <<6, 4>>, <<9, 4>> >>, {}, TRUE),
    Lane(<< <<8, 0>>, <<12, 0>>, <<12, -6>> >>, {}, TRUE)>>

\* Drives that stand still, turn, leave the road, reverse or stay between lanes.
MCRoads ==
  {<< <<0, 0>>, <<2, 0>>, <<2, 0>>, <<5, 0>> >>, << <<0, 1>>, <<3, 1>>, <<8, 1>> >>,
   << <<4, 0>>, <<8, 0>>, <<8, 3>>, <<8, 8>> >>, << <<8, 2>>, <<8, 2>>, <<8, 6>> >>,
   << <<0, 0>>, <<4, 0>>, <<2, 0>> >>, << <<0, 20>>, <<4, 20>> >>, << <<1, 4>>, <<5, 4>> >>,
   << <<1, 1>>, <<1, 1>> >>, << <<1, 1>> >>, << <<6, 0>>, <<13, 0>>, <<15, 0>> >>}

\* On the road, beside it, and where an extension comes closer than the route.
MCPlaces == {<<0, 0>>, <<3, 1>>, <<8, 2>>, <<6, 9>>, <<12, 0>>, <<25, 3>>, <<9, 4>>}

VARIABLE machine   \* the one that runs

vars == <<machine, trafficVars, actorVars, controllerVars, videoVars, exporterVars, trajectoryVars, egoVars, groundingVars, routeVars>>

\* A is taken while its machine runs; the others stand still.
Running(m) ==
  /\ machine = m /\ UNCHANGED machine
  /\ m # "traffic" => UNCHANGED <<trafficVars, actorVars>>
  /\ m # "controller" => UNCHANGED controllerVars
  /\ m # "video" => UNCHANGED videoVars
  /\ m # "exporter" => UNCHANGED exporterVars
  /\ m # "trajectory" => UNCHANGED trajectoryVars
  /\ m # "ego" => UNCHANGED egoVars
  /\ m # "grounding" => UNCHANGED groundingVars
  /\ m # "routes" => UNCHANGED routeVars

\* Only the machine that runs starts in all its ways.
Init ==
  /\ machine \in {"traffic", "controller", "video", "exporter", "trajectory", "ego", "grounding", "routes"}
  /\ ActorsInit
  /\ machine # "traffic" => lead = 1 /\ step = 1 /\ handover = 1 /\ skipped = TRUE /\ renderStart = 0 /\ pace = 1
  /\ ControllerInit
  /\ machine # "controller" => at = 0 /\ cadence.step = 2
  /\ VideoInit
  /\ machine # "video" => video = Chunks(2, 3, 3, 0, 0, 0)
  /\ ExporterInit
  /\ machine # "exporter" => keeps = TRUE /\ bridge = TRUE
  /\ EgoTrackInit
  /\ machine # "ego" => setup = SetupOf(0, 0, 0, 0, 2, 1, FALSE)
  /\ TrajectoriesInit /\ GroundingInit /\ RoutesInit

Next ==
  \/ Running("traffic") /\ ActorsNext
  \/ Running("controller") /\ ControllerNext
  \/ Running("video") /\ VideoNext
  \/ Running("exporter") /\ ExporterNext
  \/ Running("trajectory") /\ TrajectoriesNext
  \/ Running("ego") /\ EgoTrackNext
  \/ Running("grounding") /\ GroundingNext
  \/ Running("routes") /\ RoutesNext

Spec == Init /\ [][Next]_vars
----------------------------------------------------------------------------
(* The data structures that every part of a rollout reads stay sound         *)
(* whatever is done to them in whichever order: trajectories                 *)
(* (TrajectoriesSound), routes with what is cut from them (RoutesSound), and *)
(* the ego's own history and plans (EgoKeepsTrack).                          *)
PathsSound == TrajectoriesSound /\ RoutesSound /\ []EgoKeepsTrack

(* Traffic is one story for everyone who is told: the service's network      *)
(* (TrafficConsistent), and the tracks the runtime keeps of it with its log  *)
(* and its bridge (ActorsAsLogged).                                          *)
TrafficWhole == TrafficConsistent /\ ActorsAsLogged
=============================================================================
