---------------------------- MODULE ActorTracks ----------------------------
(***************************************************************************)
(* The runtime's own tracks of the objects of a rollout (events/step.py,   *)
(* events/physics.py, unbound_rollout.py), fed by the traffic service's    *)
(* session: seeded with the recorded drive up to the first policy step,    *)
(* extended by what physics made of one answer when the next step begins,  *)
(* told to the log at every instant the ego was reported at and to the     *)
(* bridge at the start of every step.                                      *)
(*                                                                         *)
(* A pose is the time it is for and where it comes from; what physics does *)
(* to its height is left to Grounding.                                     *)
(***************************************************************************)
EXTENDS TrafficSession

CONSTANTS
  SceneLogs,     \* of every object of the scene: its recorded times
  SceneEnd,      \* end_timestamp_us
  MinDuration,   \* min_traffic_duration_us
  ReportEvery    \* pose_reporting_interval_us

VARIABLES
  skipped,       \* whether the traffic service is skipped
  renderStart,   \* render_start_timestamp_us, counted from the ego's first pose
  due,         \* the next of "initial", "traffic", "physics", "step"
  tracks,        \* traffic_objs of the rollout and "EGO": their poses
  accumulated,   \* ctx.traffic_trajectories
  logged,        \* the actor poses of the log, with their actor
  loggedTimes,   \* the timestamps of its messages
  snapshot,      \* the last actor_snapshot for the bridge
  outcome        \* "running", or what raised

actorVars == <<skipped, renderStart, due, tracks, accumulated, logged, loggedTimes, snapshot, outcome>>

\* time_range_us.
Covers(S, t) == S # {} /\ Earliest(S) <= t /\ t <= Latest(S)

\* clip: the poses of a half-open range of times, with interpolated ends.
ClippedTo(S, start, stop) ==
  IF start = stop \/ S = {} \/ Earliest(S) >= stop \/ Latest(S) < start THEN {}
  ELSE LET first == Max({start, Earliest(S)})
           last  == Min({stop - 1, Latest(S)})
       IN  At(S, first) \cup {x \in S : first < x.t /\ x.t < last} \cup At(S, last)

\* all_objs_in_window: what the scene records during the rollout.
InScene(o) == ClippedTo({[t |-> t, from |-> "log"] : t \in SceneLogs[o]}, Min(Logs[Ego]), SceneEnd + 1)

\* filter_short_trajectories.
LongEnough(o) == Latest(InScene(o)) + 1 - Earliest(InScene(o)) >= MinDuration

\* traffic_objs and hidden_traffic_objs of the unbound rollout.
Kept   == {o \in DOMAIN SceneLogs : InScene(o) # {} /\ LongEnough(o)}
Hidden == {o \in DOMAIN SceneLogs : InScene(o) # {} /\ ~LongEnough(o)}

\* The traffic session is given the kept objects as they are recorded, and a
\* rollout into which no step fits is not begun.
ASSUME ActorAssumption ==
  /\ MinDuration \in Nat /\ SceneEnd \in Nat /\ ReportEvery \in Nat \ {0}
  /\ DOMAIN SceneLogs = {x.id : x \in Range(SceneObjects)}
  /\ Agents = Kept /\ \A o \in Agents : Logs[o] = {x.t : x \in InScene(o)}
  /\ \A begin \in Leads : Min(Logs[Ego]) + begin < Max(Logs[Ego])

PolicyStart == Min(Logs[Ego]) + lead
StepStart   == asked - step   \* of the step whose end was asked for

\* Mutant: the pose of the first policy step itself is cut off.
SeededBefore(o) == ClippedTo(Logged[o], Min(Logs[Ego]), PolicyStart)

\* EventBasedRollout.__post_init__: what is recorded up to the first step.
Seeded(o) == ClippedTo(Logged[o], Min(Logs[Ego]), PolicyStart + 1)

ActorsInit ==
  /\ TrafficInit /\ skipped \in BOOLEAN /\ renderStart \in 0 .. lead
  /\ due = "initial" /\ tracks = [o \in Things |-> Seeded(o)]
  /\ accumulated = [o \in Agents |-> {}] /\ logged = {} /\ loggedTimes = {}
  /\ snapshot = <<>> /\ outcome = "running"
----------------------------------------------------------------------------
(* What others are told                                                      *)

\* The time a track has a pose at that is closest, the earlier one if two are.
Closest(S, t) ==
  CHOOSE x \in S : \A y \in S \ {x} :
    LET away(z) == IF z.t < t THEN t - z.t ELSE z.t - t
    IN  away(x) < away(y) \/ (away(x) = away(y) /\ x.t < y.t)

\* export_actor_states: who is there at t, and what is known of its way on.
Snapshot(seen, t) ==
  [at |-> t, actors |->
     [o \in {a \in Agents : Covers(seen[a], t)} |->
        [current |-> Closest(seen[o], t), future |-> {x \in seen[o] : x.t >= t}]]]

\* log_actor_poses: everyone who is there at one of the times.
PosesAt(seen, times) ==
  UNION {{[o |-> o, pose |-> x] : x \in UNION {At(seen[o], t) : t \in times}} : o \in Things}

\* The ego's track has to cover the first and the last of them, or it raises;
\* otherwise one message for each time is broadcast.
LogActors(seen, times) ==
  IF Covers(seen[Ego], Min(times)) /\ Covers(seen[Ego], Max(times))
  THEN /\ logged' = logged \cup PosesAt(seen, times)
       /\ loggedTimes' = loggedTimes \cup times /\ UNCHANGED outcome
  ELSE outcome' = "ended" /\ UNCHANGED <<logged, loggedTimes>>

\* InitialStepEvent.
InitialStep ==
  /\ due = "initial" /\ outcome = "running" /\ (skipped \/ session)
  /\ LogActors(tracks, {Min(Logs[Ego]), PolicyStart})
  /\ due' = "traffic"
  /\ UNCHANGED <<trafficVars, skipped, renderStart, tracks, accumulated, snapshot>>
----------------------------------------------------------------------------
(* A step                                                                    *)

\* simulate_traffic when the service is skipped: the recorded drive answers.
SkipTraffic ==
  /\ skipped /\ NextQuery <= LastQuery
  /\ response' = [o \in Agents |-> At(Logged[o], NextQuery)] /\ asked' = NextQuery
  /\ UNCHANGED <<session, handover, lead, step, current, closed, failed, predicted, pace, chart, netInput>>

\* TrafficEvent: the service's answer for the end of the step.
AskTraffic ==
  /\ due = "traffic" /\ outcome = "running"
  /\ SkipTraffic \/ (~skipped /\ SimulateNext)
  /\ due' = "physics"
  /\ UNCHANGED <<skipped, renderStart, tracks, accumulated, logged, loggedTimes, snapshot, outcome>>

\* force_gt: whether the step's end is in force_gt_period.
ForcedUntil(target) ==
  LET start == Min(Logs[Ego]) + renderStart
      force == handover - Min(Logs[Ego]) - step
  IN  start <= target /\ target <= start + force

\* PhysicsEvent for traffic: the poses at the end of the step, recorded or
\* answered, are accumulated; physics returns all that it is given.
RunPhysics ==
  /\ due = "physics" /\ outcome = "running"
  /\ accumulated' = [o \in Agents |-> At(IF ForcedUntil(asked) THEN Logged[o] ELSE response[o], asked)]
  /\ due' = "step"
  /\ UNCHANGED <<trafficVars, skipped, renderStart, tracks, logged, loggedTimes, snapshot, outcome>>

\* The instants of ctx.ego_true.
EgoInstants == {t \in StepStart + 1 .. asked : t = asked \/ (t - StepStart) % ReportEvery = 0}

\* The tracks with what the step brought, the ego's as the controller reports it.
Extended ==
  [o \in Things |-> tracks[o] \cup
     IF o = Ego THEN {[t |-> t, from |-> "ego"] : t \in EgoInstants} ELSE accumulated[o]]

\* StepEvent of the next step: everything is committed, the bridge and then the
\* log are told; a pose that is not after its track's last raises.
RunStep ==
  /\ due = "step" /\ outcome = "running"
  /\ IF \E o \in Agents : \E x \in accumulated[o] : \E y \in tracks[o] : y.t >= x.t
     THEN outcome' = "overtaken" /\ UNCHANGED <<tracks, logged, loggedTimes, snapshot>>
     ELSE /\ tracks' = Extended
          /\ snapshot' = Snapshot(tracks', StepStart)
          /\ LogActors(tracks', EgoInstants)
  /\ due' = "traffic" /\ accumulated' = [o \in Agents |-> {}]
  /\ UNCHANGED <<trafficVars, skipped, renderStart>>

\* The session of the service, which may also fail or be closed.
SessionOfService ==
  /\ StartTraffic \/ CloseTraffic \/ (due = "traffic" /\ SimulateFails)
  /\ ~skipped /\ UNCHANGED actorVars

ActorsNext == SessionOfService \/ InitialStep \/ AskTraffic \/ RunPhysics \/ RunStep

ActorsSpec == ActorsInit /\ [][ActorsNext]_<<trafficVars, actorVars>>
----------------------------------------------------------------------------
\* The service answers from its log up to the last forced step if the first
\* camera frame ends within a step of the ego's first pose: the handover is
\* counted from that pose, the forced period from that frame.  Where the first
\* policy step comes later than the handover, nothing is replayed at all; where
\* the handover comes within the first window, the answers after it are read off
\* that window's grid, which a recording that ends between its points is not on.
ReplaysForced ==
  skipped \/ (renderStart <= step /\ PolicyStart <= handover /\ InitialTime <= handover)

\* No commit raises, and the ego's track has a pose for every instant reported.
CommitsSucceed == outcome = "running"

\* Who was logged at an instant keeps the pose that was logged.
LogIsKept == logged \subseteq PosesAt(tracks, loggedTimes)

\* Who was missing at an instant that was logged has no pose for it later.
NobodyAppears(o) == {x \in PosesAt(tracks, loggedTimes) : x.o = o} \subseteq logged

(* The log never goes stale: whoever was logged keeps that pose and the ego  *)
(* was at every instant, so no track has an end that is overtaken and no     *)
(* commit raises.  If the service replays through the forced steps, this     *)
(* goes on across the handover and predictions: a moving agent that was      *)
(* missing at an instant when it was logged never has a pose for it later;   *)
(* the bridge is told for the start of a step what the log says of it; and   *)
(* an agent whose motion was predicted is still there after every step that  *)
(* followed.  A static object may be away while its recording, which has     *)
(* ended, is forced, and come back with the first answer after that, and so  *)
(* may any agent when it is predicted before the last forced step, has its   *)
(* first answer only after the handover, or is replayed within the first     *)
(* window after it.                                                          *)
ActorsAsLogged ==
  /\ CommitsSucceed /\ LogIsKept /\ NobodyAppears(Ego)
  /\ ReplaysForced =>
       LET Moving == Agents \ StaticAgents
       IN  /\ \A o \in Moving : NobodyAppears(o)
           /\ snapshot # <<>> => \A o \in Moving :
                LET then == {x \in logged : x.o = o /\ x.pose.t = snapshot.at}
                IN  IF o \in DOMAIN snapshot.actors
                    THEN then = {[o |-> o, pose |-> snapshot.actors[o].current]} ELSE then = {}
           /\ due = "traffic" /\ asked > 0 =>
                \A o \in predicted \ StaticAgents : \E x \in tracks[o] : x.t = Max(loggedTimes)
=============================================================================
