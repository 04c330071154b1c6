--------------------------- MODULE TrafficSession ---------------------------
(***************************************************************************)
(* A session of the traffic service (trafficsim grpc/): logged objects are *)
(* replayed up to the handover and predicted after it.  Every trajectory   *)
(* is the set of its samples, a sample its time and where it comes from.   *)
(* Predictions are made on a grid of Dt that ends with the history window; *)
(* queries advance by the runtime's control step, which may differ.        *)
(*                                                                         *)
(* The network (catk/) is shown a cut of the scene's map, the windows and  *)
(* the ego's way on.  What it draws is open, but which agents it draws for *)
(* follows from its tokens; roads are places on a line, and elevation and  *)
(* headings are left out.                                                  *)
(***************************************************************************)
EXTENDS Integers, FiniteSets, FiniteSetsExt, Sequences, SequencesExt

CONSTANTS
  Agents,          \* object ids other than EGO
  StaticAgents,    \* is_static
  Ego,             \* the object id "EGO"
  Logs,            \* of an object: the times of its logged samples
  Dt,              \* _dt_us
  HistorySteps,    \* num_history_steps
  MinValidSteps,   \* min_valid_history_steps
  MinFutureSteps,  \* minimum_future_steps
  TokenStride,     \* _token_stride: the network's steps come in these
  Leads,           \* first_policy_timestamp_us after the ego's first pose
  Forces,          \* force_gt_duration_us of the rollouts
  ControlSteps,    \* control_timestep_us of the runtimes
  LastQuery,       \* bound: the last query of a rollout
  SceneObjects,    \* traffic_objects of the scene, in order: their id and label_class
  Numbers,         \* of the ids that are numbers: the number
  Lines,           \* the lines of the vector map: what they are, from and until where
  Spots,           \* of an agent: its place when the session starts
  Paces,           \* of the ego: how far it gets in a unit of time
  MapLayers,       \* map_element_names
  LineStride,      \* map_polyline_length_k
  MapReach,        \* map_max_pts_to_ego_distance
  MapLimits,       \* map_adv_max_lane_polylines_num, map_adv_max_road_boundary_num and the rest
  FilterReach      \* filter_distance_th

\* What a line of the vector map may be, and the classes of layers that are limited.
LineKinds    == {"center", "side", "edge", "wait", "crossing", "area", "hole"}
LayerClasses == {"lane", "boundary", "other"}

ASSUME TrafficAssumption ==
  /\ StaticAgents \subseteq Agents /\ Ego \notin Agents
  /\ {Dt, HistorySteps, MinFutureSteps, TokenStride} \subseteq Nat \ {0}
  /\ Logs \in [Agents \cup {Ego} -> SUBSET Nat] /\ Logs[Ego] # {}
  /\ \A o \in Agents \cup {Ego} : IsFiniteSet(Logs[o])
  /\ Leads \subseteq Nat /\ Forces \subseteq Nat /\ ControlSteps \subseteq Nat \ {0}
  /\ Agents \subseteq {x.id : x \in Range(SceneObjects)} /\ LineStride \in Nat \ {0}
  /\ Spots \in [Agents -> Int] /\ Paces \subseteq Nat
  /\ IsFiniteSet(Lines) /\ Lines \subseteq [what : LineKinds, from : Int, until : Int]
  /\ \A line \in Lines : line.from < line.until
  /\ MapLimits \in [LayerClasses -> Nat]

\* As they are configured: 16 steps, of which 5 have to be valid, in strides of 5.
ASSUME WindowAssumption ==
  /\ HistorySteps > 1 /\ (HistorySteps - 1) % TokenStride = 0
  /\ MinValidSteps \in 1 .. HistorySteps

VARIABLES
  session,     \* whether there is one
  handover,    \* handover_time_us
  lead, step,  \* of the runtime: when its first step starts, its control step
  current,     \* current_ts_us
  closed,      \* closed_loop_trajectories
  asked,       \* the last query that was answered, 0 before
  response,    \* its object_trajectory_updates: of an agent, the samples
  failed,      \* a query failed: the rollout ends
  predicted,   \* history: the agents whose motion was predicted
  pace,        \* of the ego in this drive
  chart,       \* the map of the session's env_data, in pieces
  netInput        \* history: the map and the ego the network was last shown

trafficVars ==
  <<session, handover, lead, step, current, closed, asked, response, failed, predicted, pace, chart, netInput>>

Things == Agents \cup {Ego}

\* logged_trajectories.
Logged == [o \in Things |-> {[t |-> t, from |-> "log"] : t \in Logs[o]}]

Earliest(S) == Min({x.t : x \in S})
Latest(S)   == Max({x.t : x \in S})

\* initial_ts_us: the window of the first ego poses ends here.
InitialTime == Min(Logs[Ego]) + (HistorySteps - 1) * Dt

TrafficInit ==
  /\ session = FALSE /\ lead \in Leads /\ step \in ControlSteps
  /\ handover \in {Min(Logs[Ego]) + force + step : force \in Forces}
  /\ current = 0 /\ closed = [o \in Things |-> {}] /\ asked = 0 /\ failed = FALSE
  /\ response = [o \in Agents |-> {}] /\ predicted = {}
  /\ pace \in Paces /\ chart = {} /\ netInput = [end |-> 0, map |-> {}, ego |-> {}]
----------------------------------------------------------------------------
(* Trajectories                                                              *)

\* Mutant: the samples the new ones replace are kept.
MergeOver(old, new) == old \cup {x \in new : \A y \in old : y.t # x.t}

\* merge_trajectory: the new samples replace all from the first of them on.
Merge(old, new) == IF new = {} THEN old ELSE {x \in old : x.t < Earliest(new)} \cup new

\* interpolate_pose: the sample at a time inside the range, none outside.
At(S, t) ==
  IF S = {} \/ t < Earliest(S) \/ t > Latest(S) THEN {}
  ELSE LET next == Min({x.t : x \in {y \in S : y.t >= t}})
       IN  {[x EXCEPT !.t = t] : x \in {y \in S : y.t = next}}

\* build_resampled_env_data: the samples of an object on the window's grid; a
\* static one is where it was first seen.
Window(trajectories, end) ==
  [o \in Things |->
     UNION {LET x == At(trajectories[o], end - k * Dt)
            IN  IF x = {} /\ o \in StaticAgents /\ trajectories[o] # {}
                THEN {[t |-> end - k * Dt, from |-> "log"]} ELSE x
            : k \in 0 .. HistorySteps - 1}]

\* The times of the steps after the window that cover a query.
FutureTimes(end, query) ==
  {end + k * Dt : k \in 1 .. (IF query <= end THEN 0 ELSE (query - end + Dt - 1) \div Dt)}

\* _apply_model_predictions asks for a minimum of steps, run_inference for whole
\* strides; what comes back beyond the need is used.
ForecastTimes(end, query) ==
  LET n      == Cardinality(FutureTimes(end, query))
      wanted == IF n < MinFutureSteps THEN MinFutureSteps ELSE n
      given  == ((wanted + TokenStride - 1) \div TokenStride) * TokenStride
  IN  {end + k * Dt : k \in 1 .. IF n = 0 THEN 0 ELSE given}

\* populate_ego_future_from_trajectory, with a pose of the ego at the query:
\* between the window and the query it is interpolated, past the query the
\* trajectory's own, else the last pose is held.
EgoFuture(ego, end, query) ==
  {[t |-> t, from |-> IF t <= query THEN "ego"
                      ELSE IF At(ego, t) # {} THEN "log" ELSE "held"] : t \in FutureTimes(end, query)}

\* build_agent_updates_from_env: the pose at the query and, of what moves, the
\* grid's poses after it.
Answers(o, samples, end, query) ==
  At(samples, query) \cup
  (IF o \in StaticAgents THEN {} ELSE {x \in samples : x.t > query /\ x.t \in ForecastTimes(end, query)})
----------------------------------------------------------------------------
(* The map                                                                   *)

\* The layers of the runtime's map a line of the vector map is put in.
LayersOf(what) ==
  CASE what = "center" -> {"lane_centers"} [] what = "side" -> {"lane_boundaries", "lane_lines"}
    [] what = "edge" -> {"road_boundaries"} [] what = "wait" -> {"wait_lines"}
    [] what = "crossing" -> {"crosswalks"} [] what = "area" -> {"intersection_areas"}
    [] what = "hole" -> {"road_islands"}

\* The vertices of a line: a point each metre, of these every LineStride-th and the last.
Vertices(line) ==
  LET length == line.until - line.from
  IN  [k \in 1 .. length \div LineStride + 1 |-> line.from + (k - 1) * LineStride] \o
      (IF length % LineStride = 0 THEN <<>> ELSE <<line.until>>)

\* _overlapping_three_point_segments: none of what has less.
Triples(v) ==
  {{v[i], v[i + 1], v[i + 2]} : i \in {j \in 1 .. Len(v) - 2 : j % 2 = 1 \/ j = Len(v) - 2}}

\* The pieces of a line, in each of its layers.
PiecesOf(line) == {[layer |-> l, points |-> t] : l \in LayersOf(line.what), t \in Triples(Vertices(line))}

\* The map of the scene as it is loaded.
SceneMap == UNION {PiecesOf(line) : line \in Lines}

Within(a, b, reach) == a - b <= reach /\ b - a <= reach

\* The classes of layers that are limited.
Limited(layer) ==
  CASE layer \in {"lane_lines", "lane_centers", "lane_boundaries"} -> "lane"
    [] layer = "road_boundaries" -> "boundary" [] OTHER -> "other"

\* The ego in a window; it is at the origin where no pose covers a step.
EgoWindow(trajectories, end) ==
  UNION {LET x == At(trajectories[Ego], end - k * Dt)
         IN  IF x = {} THEN {[t |-> end - k * Dt, from |-> "origin"]} ELSE x : k \in 0 .. HistorySteps - 1}

EgoPlace(x) == IF x.from = "origin" THEN 0 ELSE pace * x.t

\* Where the ego and the agents are in the session's first window.
StartPlaces ==
  {EgoPlace(x) : x \in EgoWindow(Logged, InitialTime)} \cup
  {Spots[o] : o \in {a \in Agents : Window(Logged, InitialTime)[a] # {}}}

\* The pieces of the selected layers that come near one of these places.
NearStart ==
  {p \in SceneMap : p.layer \in MapLayers /\ \E a \in p.points, b \in StartPlaces : Within(a, b, MapReach)}

OfClass(class) == {p \in NearStart : Limited(p.layer) = class}

\* preprocess_session_map: of each class what is allowed of it, chosen at random.
CutsOf(class) == kSubset(Min({MapLimits[class], Cardinality(OfClass(class))}), OfClass(class))
CutMaps == {a \cup b \cup c : a \in CutsOf("lane"), b \in CutsOf("boundary"), c \in CutsOf("other")}

\* _polyline_inside_mask: a point of it is nearer than that.
Reaches(piece, place) == \E a \in piece.points : Within(a, place, FilterReach - 1)

\* filter_map: what the network is shown of the session's map.
Filtered(pieces, place) == {p \in pieces : Reaches(p, place)}

\* extract_map_data: three points of a piece are a token.
Triplets(pieces) == UNION {kSubset(3, p.points) : p \in pieces}
----------------------------------------------------------------------------
(* start_session: the scene loads and the request is complete.               *)
StartTraffic ==
  /\ ~session /\ asked = 0 /\ session' = TRUE
  /\ current' = InitialTime /\ closed' = Logged /\ chart' \in CutMaps
  /\ UNCHANGED <<handover, lead, step, asked, response, failed, predicted, pace, netInput>>

\* close_session.
CloseTraffic ==
  /\ session /\ session' = FALSE
  /\ UNCHANGED <<handover, lead, step, current, closed, asked, response, failed, predicted, pace, chart, netInput>>
----------------------------------------------------------------------------
(* The network                                                               *)

\* _class_id_from_label.
ClassOf(label) ==
  CASE label \in {"car", "automobile", "vehicle"} -> "car"
    [] label \in {"pedestrian", "person"} -> "pedestrian"
    [] label \in {"cyclist", "bicycle", "bike", "cycle"} -> "cyclist"
    [] label \in {"truck", "bus", "trailer", "other_vehicle"} -> "truck"
    [] OTHER -> "others"

\* track_ids of the scene: an id that is no number is counted from 0.
SceneTrack(k) ==
  IF SceneObjects[k].id \in DOMAIN Numbers THEN Numbers[SceneObjects[k].id] ELSE k - 1

\* build_session_env_data: in the session it is counted from 1, among the
\* objects of the request; the class is that of the scene's last such track.
SessionClass(o) ==
  LET place  == CHOOSE k \in DOMAIN SceneObjects : SceneObjects[k].id = o
      number == IF o \in DOMAIN Numbers THEN Numbers[o]
                ELSE Cardinality({k \in 1 .. place : SceneObjects[k].id \in Agents})
      same   == {k \in DOMAIN SceneObjects : SceneTrack(k) = number}
  IN  IF same = {} THEN "car" ELSE ClassOf(SceneObjects[Max(same)].label)

\* agent_type_from_class_ids.
TypeOf(class) == IF class \in {"car", "truck"} THEN "vehicle" ELSE class

\* The types there are tokens of motion for; to others the network gives none.
HasMotions(type) == type \in {"vehicle", "pedestrian", "cyclist"}

\* extract_agents_and_ego_data: the steps of a window that are valid.
StepsOf(window, end) == {k \in 0 .. HistorySteps - 1 : \E x \in window : x.t = end - (HistorySteps - 1 - k) * Dt}

\* backfill_static_agent_history: a static agent that is there always was.
Backfilled(o, steps) == IF o \in StaticAgents /\ HistorySteps - 1 \in steps THEN 0 .. HistorySteps - 1 ELSE steps

\* Mutant: what is first seen between two tokens stays without the first.
ExtrapolatedNever(steps) == steps

\* _extrapolate_agent_to_prev_token_step: back to the token before the first
\* valid step, and from the last step of the window to the one before.
Extrapolated(steps) ==
  IF steps = {} THEN {}
  ELSE LET first == Min(steps)
           back  == IF first = HistorySteps - 1 /\ first % TokenStride = 0 THEN TokenStride ELSE first % TokenStride
       IN  steps \cup (first - back .. first - 1)

\* _match_agent_token: a token is valid if its step is and the token's before.
Tokens(steps) ==
  {k \in 1 .. (HistorySteps - 1) \div TokenStride : {(k - 1) * TokenStride, k * TokenStride} \subseteq steps}

\* tokenize_agent.
TokensOf(o, window, end) == Tokens(Extrapolated(Backfilled(o, StepsOf(window, end))))

\* build_freeze_agent_data: a static agent that is there has its future given.
Frozen(o, window, end) == o \in StaticAgents /\ HistorySteps - 1 \in StepsOf(window, end)

\* inference_with_mask: in the first stride an agent is as valid as its last
\* token, in a later one as before or as its future is given.
StrideValid(o, stride, window, end) ==
  \/ (HistorySteps - 1) \div TokenStride \in TokensOf(o, window, end)
  \/ stride > 1 /\ Frozen(o, window, end)

\* sample_next_token_traj: one of the motions of its type, or it is put where
\* the window began.
Motion(o) == IF HasMotions(TypeOf(SessionClass(o))) THEN "model" ELSE "stuck"

\* The steps a stride adds.
DrawnIn(o, stride, end) ==
  {[t |-> end + k * Dt, from |-> Motion(o)] : k \in (stride - 1) * TokenStride + 1 .. stride * TokenStride}

\* inference: what is drawn in all strides.
NetworkSamples(o, window, end, query) ==
  UNION {DrawnIn(o, s, end) : s \in {k \in 1 .. Cardinality(ForecastTimes(end, query)) \div TokenStride :
                                       StrideValid(o, k, window, end)}}

\* What the network is shown of the ego: its window, and for each stride its
\* future, of which the last step is held as long as needed.
EgoShown(trajectories, end, query) ==
  LET future  == EgoFuture(trajectories[Ego], end, query)
      strides == {t \in ForecastTimes(end, query) : ((t - end) \div Dt) % TokenStride = 0}
  IN  EgoWindow(trajectories, end) \cup {x \in future : x.t \in strides} \cup
      {[t |-> t, from |-> "held"] : t \in strides \ FutureTimes(end, query)}

\* _carry_invalid_predictions_forward: what the network leaves out is carried
\* on, from the window or from what it drew before.
CarriedOn(there, drawn, still) ==
  drawn \cup {x \in still : (\A y \in drawn : y.t # x.t) /\ (there \/ \E y \in drawn : y.t < x.t)}

\* _postprocess_predictions: a static agent stays where it is, and so does one
\* seen too seldom that is there.
Predictions(o, window, end, query) ==
  LET there == \E x \in window : x.t = end
      still == {[t |-> t, from |-> "frozen"] : t \in ForecastTimes(end, query)}
  IN  IF o \in StaticAgents \/ (there /\ Cardinality(window) < MinValidSteps)
      THEN IF there THEN still ELSE {}
      ELSE CarriedOn(there, NetworkSamples(o, window, end, query), still)

\* _write_predictions_to_env: the window is extended by them.
Continued(o, window, end, query) == window \cup Predictions(o, window, end, query)
----------------------------------------------------------------------------
(* simulate                                                                  *)

\* The ego's pose at the query, merged before anything else.
WithEgo(trajectories, query) ==
  [trajectories EXCEPT ![Ego] = Merge(@, {[t |-> query, from |-> "ego"]})]

\* Where the window of a query ends.
HistoryEnd(now, query) == IF now < handover /\ handover < query THEN handover ELSE now

\* The samples of an agent after inference: its window and its predictions.
Simulated(o, trajectories, now, query) ==
  LET end == HistoryEnd(now, query)
  IN  Continued(o, Window(trajectories, end)[o], end, query)

\* merge_env_step_trajectories: the steps after the window are merged.
MergedSteps(trajectory, samples, end, query) ==
  Merge(trajectory, {x \in samples : x.t \in ForecastTimes(end, query)})

\* What a query past the handover makes of the trajectories: the ego's steps,
\* then the predictions, then the answer are merged.
AfterPrediction(trajectories, now, query) ==
  LET end == HistoryEnd(now, query)
  IN  [o \in Things |->
         IF o = Ego THEN Merge(trajectories[o], EgoFuture(trajectories[o], end, query))
         ELSE LET s == Simulated(o, trajectories, now, query)
              IN  Merge(MergedSteps(trajectories[o], s, end, query), Answers(o, s, end, query))]

\* build_simulation_response.
Responses(trajectories, now, query) ==
  [o \in Agents |-> Answers(o, Simulated(o, trajectories, now, query), HistoryEnd(now, query), query)]

\* The query that follows the last one answered.
NextQuery == IF asked = 0 THEN Min(Logs[Ego]) + lead + step ELSE asked + step

\* simulate, up to the handover: the logged objects, through the window.
Replay(query) ==
  /\ query <= handover
  /\ closed' = WithEgo(closed, query)
  /\ response' = [o \in Agents |-> At(Window(closed', query)[o], query)]
  /\ UNCHANGED <<predicted, chart, netInput>>

\* Whether the network is asked at all.
Asks(query) == FutureTimes(HistoryEnd(current, query), query) # {}

\* What it is shown for a query.
ShownFor(trajectories, query) ==
  LET end == HistoryEnd(current, query)
  IN  [end |-> end,
       map |-> UNION {Filtered(chart, EgoPlace(x)) : x \in {y \in EgoWindow(trajectories, end) : y.t = end}},
       ego |-> EgoShown(trajectories, end, query)]

\* Mutant: the session's own map is filtered.
FiltersOwn(query) == chart' = IF Asks(query) THEN netInput'.map ELSE chart

\* _clone_env_data_for_model: a copy of the map is filtered.
FiltersCopy(query) == chart' = chart

\* simulate, past the handover: without a map the network predicts nothing and
\* the query fails.
Predict(query) ==
  /\ query > handover
  /\ netInput' = IF Asks(query) THEN ShownFor(WithEgo(closed, query), query) ELSE netInput
  /\ Asks(query) => Triplets(netInput'.map) # {}
  /\ FiltersCopy(query)
  /\ closed' = AfterPrediction(WithEgo(closed, query), current, query)
  /\ response' = Responses(WithEgo(closed, query), current, query)
  /\ predicted' = predicted \cup
       {o \in Agents : Asks(query) /\ response'[o] # {}}

Simulate(query) ==
  /\ session /\ ~failed
  /\ Replay(query) \/ Predict(query)
  /\ current' = query /\ asked' = query
  /\ UNCHANGED <<session, handover, lead, step, failed, pace>>

SimulateNext == NextQuery <= LastQuery /\ Simulate(NextQuery)

\* There is no map, or something raises: only the ego's pose was merged, and the
\* rollout ends.
SimulateFails ==
  /\ session /\ ~failed /\ NextQuery <= LastQuery /\ NextQuery > handover
  /\ closed' = WithEgo(closed, NextQuery) /\ failed' = TRUE
  /\ UNCHANGED <<session, handover, lead, step, current, asked, response, predicted, pace, chart, netInput>>
----------------------------------------------------------------------------
\* Every piece near the ego of the map the session was cut, unless there were
\* too many of its class.
MapIsShown ==
  \A class \in LayerClasses : Cardinality(OfClass(class)) <= MapLimits[class] =>
    Filtered(OfClass(class), pace * netInput.end) \subseteq netInput.map

\* Never the logged future of the ego, and the origin only before its first pose.
EgoIsShown ==
  \A x \in netInput.ego : (x.t > asked => x.from # "log") /\ (x.from = "origin" => x.t < Min(Logs[Ego]))

\* An agent that is there and was seen often enough is drawn by the network.
DrawnIfSeen ==
  \A o \in Agents \ StaticAgents :
    response[o] # {} /\ SessionClass(o) # "others" /\ Earliest(closed[o]) + (MinValidSteps - 1) * Dt <= netInput.end
    => \A x \in response[o] : x.from = "model"

(* The network is shown what the session holds now, whatever it was shown    *)
(* before: every piece near the ego of the map the session was cut, unless   *)
(* there were too many; never the logged future of the ego, and the origin   *)
(* only before its first pose; and an agent that is there and was seen often *)
(* enough is drawn by it from the first query on, however late in the window *)
(* it came.                                                                  *)
NetworkShown == netInput.ego # {} => MapIsShown /\ EgoIsShown /\ DrawnIfSeen

(* Up to the handover every agent moves as it was logged, and no prediction  *)
(* reaches back before it; once an agent was predicted nothing of its logged *)
(* future is left to jump back to, and it is in every answer from then on,   *)
(* at the very time of the query, whatever the network draws for it and      *)
(* however the control step and the network's grid fall.                     *)
TakesOver ==
  /\ session => \A o \in Agents :
       /\ {x \in closed[o] : x.t <= handover} = {x \in Logged[o] : x.t <= handover}
       /\ o \in predicted => \A x \in closed[o] : x.t > handover /\ x.t > current => x.from # "log"
  /\ \A o \in predicted : \E x \in response[o] : x.t = asked
  /\ \A o \in Agents : \A x \in response[o] : x.t >= asked

\* The runtime's first query.
FirstQuery == Min(Logs[Ego]) + lead + step

\* From a time on to the first query after it.
ToQuery(end) == IF FirstQuery > end THEN FirstQuery - end ELSE step - ((end - FirstQuery) % step)

\* A window that ends there is followed by whole steps of the grid, or by less
\* than one.
OnGrid(end) == ToQuery(end) < Dt \/ ToQuery(end) % Dt = 0

\* The queries and the grid of the windows fall together.
QueriesOnGrid ==
  /\ step % Dt = 0
  /\ FirstQuery > InitialTime => OnGrid(InitialTime)
  /\ handover > InitialTime \/ handover > FirstQuery => OnGrid(handover)

(* Where the queries fall on the grid of the windows, the network sees the    *)
(* ego where the runtime said it was from the first query on, never a pose    *)
(* that was held to fill the grid, beside all it is to be shown               *)
(* (NetworkShown).                                                            *)
TrafficConsistent ==
  /\ NetworkShown
  /\ session /\ asked > 0 /\ QueriesOnGrid /\ ~failed =>
       \A x \in Window(closed, current)[Ego] :
         x.from # "held" /\ (x.t >= FirstQuery => x.from = "ego")
=============================================================================
