--------------------------- MODULE RolloutEventLoop ---------------------------
(***************************************************************************)
(* One rollout of the event-based simulation loop (event_loop.py, events/) *)
(* with the sensorsim renderer.  Events are popped from a heap by time and *)
(* priority; heapq gives no order to equal keys, so any minimal event may  *)
(* come next.  Camera frames and observations are sent to the driver by    *)
(* tracked tasks that run beside the loop until the policy event, or the   *)
(* end of the rollout, gathers them.                                       *)
(*                                                                         *)
(* Poses, images and plans are abstracted to their timestamps; services    *)
(* are external and may fail at any call.                                  *)
(***************************************************************************)
EXTENDS Integers, Sequences, FiniteSets

CONSTANTS
  Cameras,
  DriverCamera, \* camera_front_wide_120fov, the one whose images a driver gets
  Rollouts,   \* UnboundRollout configurations, see RolloutsAssumption
  None

(* end_timestamp_us of a configuration. *)
EndOf(u) == u.firstPolicy + u.steps * u.dt

Rollout ==
  [contextStart : Nat,              \* egomotion_context_start_us
   firstPolicy : Nat,               \* also the render start, with sensorsim
   steps : Nat \ {0},               \* n_sim_steps after clipping
   dt : Nat \ {0},                  \* control_timestep_us
   closedLoopStart : Nat,
   report : Nat,                    \* pose_reporting_interval_us
   planDelay : Nat,                 \* planner_delay_us
   firstEnd : [Cameras -> Nat],     \* shutter close of each first frame
   interval : [Cameras -> Nat \ {0}],
   renderBundling : {"none", "batch", "aggregated"},
   zeroDelay : BOOLEAN,             \* assert_zero_decision_delay
   skipDriver : BOOLEAN,            \* skip_driver_during_force_gt
   extras : SUBSET {"route", "ground truth"}]

(* _build_rollout_timing: rendering starts with the earliest first frame,  *)
(* with which zero delay aligns the others.  A recording starts before its *)
(* first frame ends (a rollout without cameras, where context and policy   *)
(* start together, is left out).                                           *)
ASSUME RolloutsAssumption ==
  /\ Rollouts \subseteq Rollout
  /\ None \notin Nat /\ None \notin Cameras
  /\ \A u \in Rollouts :
       /\ u.contextStart < u.firstPolicy
       /\ u.firstPolicy <= u.closedLoopStart
       /\ \A c \in Cameras : u.firstPolicy <= u.firstEnd[c]
       /\ \E c \in Cameras : u.firstPolicy = u.firstEnd[c]
       /\ u.zeroDelay => \A c \in Cameras : u.firstPolicy = u.firstEnd[c]

VARIABLES
  unbound,      \* the configuration of this rollout
  status,       \* of run: "running", "ending" or "terminating" (draining the
                \* last tasks), "finished", "terminated", "raised", or "broken"
                \* when a sanity check of a handler raised
  stage,        \* inside the policy event: "barrier" or "drive", else "loop"
  queue,        \* EventQueue: a set of events
  now,          \* timestamp of the event popped last
  ctx,          \* state.step_context
  ego,          \* timestamps of ego_trajectory
  estimate,     \* timestamps of ego_trajectory_estimate
  traffic,      \* timestamps committed to the traffic trajectories
  lastPose,     \* last_egopose_update_us
  lastFrame,    \* last_camera_frame_us
  triggers,     \* pending_camera_triggers: <<camera, timestamp>>
  flushes,      \* pending_camera_flush_timestamps
  rendererData, \* data_sensorsim_to_driver: the flush it came from
  delayed,      \* planner_delay_buffer: timestamps of the plans it holds
  steered,      \* timestamp of the plan the controller was last given
  inFlight,     \* tasks that are still running
  failed,       \* tasks that raised
  gathering,    \* tasks the policy event waits for
  logged,       \* frames that are exported and in the log of the rollout
  seen,         \* frames the driver has received
  seenPoses     \* timestamps of the ego poses the driver has received

driverVars == <<logged, seen, seenPoses>>
taskVars   == <<inFlight, failed, driverVars>>
egoVars    == <<ego, estimate, traffic>>
cameraVars == <<lastFrame, triggers, flushes>>
planVars   == <<delayed, steered>>
vars == <<unbound, status, stage, queue, now, ctx, egoVars, lastPose, cameraVars,
          rendererData, planVars, taskVars, gathering>>

Latest(times) == CHOOSE t \in times : \A s \in times : s <= t
First(times)  == CHOOSE t \in times : \A s \in times : t <= s

-----------------------------------------------------------------------------
(* EventPriority *)
Priority ==
  [camera |-> 10, flush |-> 11, policy |-> 20, end |-> 30, controller |-> 40,
   physicsEgo |-> 50, traffic |-> 60, physicsTraffic |-> 70, step |-> 80,
   initialStep |-> 80]

Event(kind, at, camera) == [kind |-> kind, at |-> at, camera |-> camera]

Task(kind, at, camera, poses) ==
  [kind |-> kind, at |-> at, camera |-> camera, poses |-> poses]

ImageTask(f) == Task("image", f[2], f[1], {})

(* StepContext(); a field that is None there is None or {} here. *)
FreshContext ==
  [start |-> 0, target |-> 0, forceGt |-> FALSE, plan |-> None, ego |-> {},
   corrected |-> {}, response |-> None, traffic |-> {}, tracked |-> {}]

End == EndOf(unbound)
bundled == unbound.renderBundling # "none"

(* _create_initial_events *)
InitialEvents(u) ==
  {Event("camera", u.firstEnd[c], c) : c \in {d \in Cameras : u.firstEnd[d] <= EndOf(u)}}
    \cup {Event("initialStep", u.contextStart, None)}
    \cup {Event(k, u.firstPolicy, None) :
            k \in {"policy", "controller", "physicsEgo", "traffic", "physicsTraffic", "step"}}
    \cup {Event("end", EndOf(u), None)}

(* The ego's recorded context is seeded up to the first policy event. *)
Init ==
  /\ unbound \in Rollouts
  /\ status = "running"
  /\ stage = "loop"
  /\ queue = InitialEvents(unbound)
  /\ now = unbound.contextStart
  /\ ctx = FreshContext
  /\ ego = {unbound.contextStart, unbound.firstPolicy}
  /\ estimate = ego
  /\ traffic = {}
  /\ lastPose = None
  /\ lastFrame = [c \in Cameras |-> None]
  /\ triggers = {} /\ flushes = {}
  /\ rendererData = None
  /\ delayed = <<>> /\ steered = None
  /\ inFlight = {} /\ failed = {} /\ gathering = {}
  /\ logged = {} /\ seen = {} /\ seenPoses = {}

-----------------------------------------------------------------------------
(* EventQueue.pop: a least event by (timestamp, priority). *)
Pop(e) ==
  /\ status = "running" /\ stage = "loop"
  /\ e \in queue
  /\ \A f \in queue : \/ e.at < f.at
                      \/ e.at = f.at /\ Priority[e.kind] <= Priority[f.kind]
  /\ now' = e.at
  /\ UNCHANGED unbound

(* Mutant: a recurring event is submitted again without being advanced. *)
RescheduleInPlace(e) == queue' = queue

(* RecurringEvent.handle *)
Reschedule(e) ==
  LET next == [e EXCEPT !.at = @ + unbound.dt]
  IN  queue' = (queue \ {e}) \cup (IF next.at >= End THEN {} ELSE {next})

(* StepContext.track_task *)
Track(tasks) ==
  /\ ctx' = [ctx EXCEPT !.tracked = @ \cup tasks]
  /\ inFlight' = inFlight \cup tasks
  /\ UNCHANGED <<failed, driverVars>>

(* A sanity check of a handler raised: an assertion or a ValueError. *)
CheckFails(e) ==
  /\ status' = "broken"
  /\ queue' = queue \ {e}
  /\ UNCHANGED <<stage, ctx, egoVars, lastPose, cameraVars, rendererData, planVars,
                 taskVars, gathering>>

(* InitialStepEvent *)
InitialStep(e) ==
  /\ e.kind = "initialStep" /\ Pop(e)
  /\ ctx' = FreshContext
  /\ queue' = queue \ {e}
  /\ UNCHANGED <<status, stage, egoVars, lastPose, cameraVars, rendererData, planVars,
                 taskVars, gathering>>

(* Mutant: a frame that ends with the rollout is not scheduled. *)
NextFrameBeforeEnd(e) ==
  LET next == [e EXCEPT !.at = @ + unbound.interval[e.camera]]
  IN  IF next.at >= End THEN {} ELSE {next}

(* CameraFrameEvent._schedule_next *)
NextFrame(e) ==
  LET next == [e EXCEPT !.at = @ + unbound.interval[e.camera]]
  IN  IF next.at > End THEN {} ELSE {next}

(* CameraFrameEvent *)
CameraFrame(e) ==
  /\ e.kind = "camera" /\ Pop(e)
  /\ lastFrame' = [lastFrame EXCEPT ![e.camera] = e.at]
  /\ LET flush == IF bundled /\ e.at \notin flushes
                    THEN {Event("flush", e.at, None)} ELSE {}
     IN  queue' = (queue \ {e}) \cup NextFrame(e) \cup flush
  /\ IF bundled
       THEN /\ triggers' = triggers \cup {<<e.camera, e.at>>}
            /\ flushes' = flushes \cup {e.at}
            /\ UNCHANGED <<ctx, taskVars>>
       ELSE /\ Track({ImageTask(<<e.camera, e.at>>)})
            /\ UNCHANGED <<triggers, flushes>>
  /\ UNCHANGED <<status, stage, egoVars, lastPose, rendererData, planVars, gathering>>

(* CameraRenderFlushEvent; only aggregated_render returns driver data. *)
CameraRenderFlush(e) ==
  /\ e.kind = "flush" /\ Pop(e)
  /\ LET taken == {f \in triggers : f[2] = e.at}
     IN  /\ triggers' = triggers \ taken
         /\ Track({ImageTask(f) : f \in taken})
         /\ rendererData' = IF taken = {} THEN rendererData
                            ELSE IF unbound.renderBundling = "aggregated" THEN e.at ELSE None
  /\ flushes' = flushes \ {e.at}
  /\ queue' = queue \ {e}
  /\ UNCHANGED <<status, stage, egoVars, lastPose, lastFrame, planVars, gathering>>

-----------------------------------------------------------------------------
(* assert_sensors_up_to_date *)
SensorsUpToDate(t) ==
  /\ Latest(estimate) = t
  /\ \A c \in Cameras : lastFrame[c] # None /\ lastFrame[c] <= t

(* The estimated poses the driver has not been sent yet. *)
NewPoses(t) ==
  LET due == {s \in estimate : s <= t /\ (lastPose = None \/ s > lastPose)}
  IN  IF due = {} THEN {t} ELSE due

(* Mutant: frames rendered before the policy event are not waited for. *)
ObserveOwnTasks(e) ==
  /\ e.kind = "policy" /\ Pop(e)
  /\ LET target == e.at + unbound.dt
         tasks  == {Task("poses", e.at, None, NewPoses(e.at))}
                     \cup {Task(k, e.at, None, {}) : k \in unbound.extras}
     IN  /\ ctx' = [ctx EXCEPT !.start = e.at, !.target = target,
                               !.forceGt = target \in unbound.firstPolicy..unbound.closedLoopStart,
                               !.tracked = {}]
         /\ inFlight' = inFlight \cup tasks
         /\ gathering' = tasks
  /\ stage' = "barrier"
  /\ queue' = queue \ {e}
  /\ UNCHANGED <<status, egoVars, lastPose, cameraVars, rendererData, planVars, failed,
                 driverVars>>

(* PolicyEvent.run up to the gather of all outstanding tasks. *)
Observe(e) ==
  /\ e.kind = "policy" /\ Pop(e)
  /\ IF /\ unbound.zeroDelay => SensorsUpToDate(e.at)
        /\ unbound.extras # {} => Latest(ego) = e.at
       THEN LET target == e.at + unbound.dt
                tasks  == {Task("poses", e.at, None, NewPoses(e.at))}
                            \cup {Task(k, e.at, None, {}) : k \in unbound.extras}
            IN  /\ ctx' = [ctx EXCEPT
                             !.start = e.at, !.target = target,
                             !.forceGt = target \in unbound.firstPolicy..unbound.closedLoopStart,
                             !.tracked = {}]
                /\ inFlight' = inFlight \cup tasks
                /\ gathering' = ctx.tracked \cup tasks
                /\ stage' = "barrier"
                /\ queue' = queue \ {e}
                /\ UNCHANGED <<status, egoVars, lastPose, cameraVars, rendererData, planVars,
                               failed, driverVars>>
       ELSE CheckFails(e)

(* All observations have reached the driver; it is asked, unless skipped. *)
BarrierPasses ==
  /\ stage = "barrier" /\ status = "running"
  /\ gathering \cap (inFlight \cup failed) = {}
  /\ gathering' = {}
  /\ lastPose' = now
  /\ IF ctx.forceGt /\ unbound.skipDriver
       THEN /\ rendererData' = None
            /\ ctx' = [ctx EXCEPT !.plan = now]
            /\ Reschedule(Event("policy", now, None))
            /\ stage' = "loop"
       ELSE /\ stage' = "drive"
            /\ UNCHANGED <<rendererData, ctx, queue>>
  /\ UNCHANGED <<unbound, status, now, egoVars, cameraVars, planVars, taskVars>>

(* drive returns a trajectory, or the driver's wish to end the session. *)
DriverAnswers ==
  /\ stage = "drive" /\ status = "running"
  /\ stage' = "loop"
  /\ rendererData' = None
  /\ \/ /\ ctx' = [ctx EXCEPT !.plan = now]
        /\ Reschedule(Event("policy", now, None))
        /\ UNCHANGED status
     \/ /\ status' = "terminating"
        /\ UNCHANGED <<ctx, queue>>
  /\ UNCHANGED <<unbound, now, egoVars, lastPose, cameraVars, planVars, taskVars, gathering>>


(* An observation failed: gather raises, and so does the loop. *)
BarrierFails ==
  /\ stage = "barrier" /\ status = "running"
  /\ gathering \cap failed # {}
  /\ status' = "raised"
  /\ UNCHANGED <<unbound, stage, queue, now, ctx, egoVars, lastPose, cameraVars,
                 rendererData, planVars, taskVars, gathering>>

-----------------------------------------------------------------------------
(* Mutant: an item leaves the buffer only when its successor is past the delay. *)
ReadyStrictly(q, t) ==
  LET ready == {i \in 2..Len(q) : t - q[i] > unbound.planDelay}
  IN  SubSeq(q, Latest(ready \cup {1}), Len(q))

(* DelayBuffer.item_at: what the buffer holds after the items whose         *)
(* successor has met the delay have left it; its head is returned.          *)
Ready(q, t) ==
  LET ready == {i \in 2..Len(q) : t - q[i] >= unbound.planDelay}
  IN  SubSeq(q, Latest(ready \cup {1}), Len(q))

(* Timestamps the controller service answers with. *)
ReportTimes(start, target) ==
  LET interval == IF unbound.report = 0 THEN unbound.dt ELSE unbound.report
  IN  {t \in start..target : t > start /\ (t - start) % interval = 0} \cup {target}

(* ControllerEvent *)
Controller(e) ==
  /\ e.kind = "controller" /\ Pop(e)
  /\ IF /\ ctx.start = e.at /\ ctx.plan # None
        /\ ctx.forceGt \/ Cardinality(ego) >= 2
        /\ delayed = <<>> \/ e.at > delayed[Len(delayed)]
       THEN /\ delayed' = Ready(Append(delayed, ctx.start), ctx.start)
            /\ steered' = Head(delayed')
            /\ ctx' = [ctx EXCEPT !.ego = ReportTimes(ctx.start, ctx.target)]
            /\ Reschedule(e)
            /\ UNCHANGED <<status, stage, egoVars, lastPose, cameraVars, rendererData,
                           taskVars, gathering>>
       ELSE CheckFails(e)

(* What the three events below leave alone besides the context and queue. *)
OnlyContext ==
  UNCHANGED <<status, stage, egoVars, lastPose, cameraVars, rendererData, planVars,
              taskVars, gathering>>

(* PhysicsEvent(EGO) *)
PhysicsEgo(e) ==
  /\ e.kind = "physicsEgo" /\ Pop(e)
  /\ IF ctx.start = e.at /\ ctx.ego # {}
       THEN /\ ctx' = [ctx EXCEPT !.corrected = ctx.ego]
            /\ Reschedule(e)
            /\ OnlyContext
       ELSE CheckFails(e)

(* TrafficEvent: the ego pose is interpolated at the end of the step. *)
Traffic(e) ==
  /\ e.kind = "traffic" /\ Pop(e)
  /\ LET future == e.at + unbound.dt
     IN  IF ctx.corrected # {} /\ future \in First(ctx.corrected)..Latest(ctx.corrected)
           THEN /\ ctx' = [ctx EXCEPT !.response = future]
                /\ Reschedule(e)
                /\ OnlyContext
           ELSE CheckFails(e)

(* Mutant: the poses of traffic are filed under the start of the step. *)
PhysicsTrafficAtStart(e) ==
  /\ e.kind = "physicsTraffic" /\ Pop(e)
  /\ ctx' = [ctx EXCEPT !.traffic = @ \cup {e.at}]
  /\ Reschedule(e)
  /\ OnlyContext

(* PhysicsEvent(TRAFFIC) *)
PhysicsTraffic(e) ==
  /\ e.kind = "physicsTraffic" /\ Pop(e)
  /\ LET future == e.at + unbound.dt
     IN  IF /\ ctx.response # None /\ ctx.corrected # {}
            /\ future \in First(ctx.corrected)..Latest(ctx.corrected)
           THEN /\ ctx' = [ctx EXCEPT !.traffic = @ \cup {future}]
                /\ Reschedule(e)
                /\ OnlyContext
           ELSE CheckFails(e)

(* StepEvent: commits the step, or only opens the next one if the          *)
(* controller did not run.                                                 *)
Step(e) ==
  /\ e.kind = "step" /\ Pop(e)
  /\ IF \/ ctx.ego = {}
        \/ /\ ctx.start = e.at /\ ctx.corrected # {}
           /\ First(ctx.corrected) > Latest(ego)
           /\ First(ctx.ego) > Latest(estimate)
       THEN /\ ego' = ego \cup (IF ctx.ego = {} THEN {} ELSE ctx.corrected)
            /\ estimate' = estimate \cup ctx.ego
            /\ traffic' = traffic \cup (IF ctx.ego = {} THEN {} ELSE ctx.traffic)
            /\ ctx' = FreshContext
            /\ Reschedule(e)
            /\ UNCHANGED <<status, stage, lastPose, cameraVars, rendererData, planVars,
                           taskVars, gathering>>
       ELSE CheckFails(e)

(* SimulationEndEvent raises EndSimulationException. *)
EndSimulation(e) ==
  /\ e.kind = "end" /\ Pop(e)
  /\ status' = "ending"
  /\ queue' = queue \ {e}
  /\ UNCHANGED <<stage, ctx, egoVars, lastPose, cameraVars, rendererData, planVars,
                 taskVars, gathering>>

(* A service fails in the handler of the event, or while it drives. *)
CallsService(e) ==
  CASE e.kind = "camera" -> ~bundled
    [] e.kind = "flush"  -> \E f \in triggers : f[2] = e.at
    [] e.kind = "physicsEgo" -> ~ctx.forceGt
    [] OTHER -> e.kind \in {"controller", "traffic", "physicsTraffic"}

ServiceFails ==
  /\ \/ \E e \in queue : Pop(e) /\ CallsService(e) /\ queue' = queue \ {e}
     \/ /\ stage = "drive" /\ status = "running"
        /\ UNCHANGED <<unbound, now, queue>>
  /\ status' = "raised"
  /\ UNCHANGED <<stage, ctx, egoVars, lastPose, cameraVars, rendererData, planVars,
                 taskVars, gathering>>

-----------------------------------------------------------------------------
(* After the loop: drain_outstanding_tasks once more. *)
outcomeOf == IF status = "ending" THEN "finished" ELSE "terminated"

Drained ==
  /\ status \in {"ending", "terminating"}
  /\ ctx.tracked \cap (inFlight \cup failed) = {}
  /\ status' = outcomeOf
  /\ ctx' = [ctx EXCEPT !.tracked = {}]
  /\ UNCHANGED <<unbound, stage, queue, now, egoVars, lastPose, cameraVars, rendererData,
                 planVars, taskVars, gathering>>

DrainFails ==
  /\ status \in {"ending", "terminating"}
  /\ ctx.tracked \cap failed # {}
  /\ status' = "raised"
  /\ UNCHANGED <<unbound, stage, queue, now, ctx, egoVars, lastPose, cameraVars, rendererData,
                 planVars, taskVars, gathering>>

(* The frame of a task that submits an image.                              *)
FrameOf(t) == IF t.kind = "image" THEN {<<t.camera, t.at>>} ELSE {}

(* Mutant: an image no driver gets is not logged either. *)
LogWhatIsSent(t) ==
  /\ inFlight' = inFlight \ {t}
  /\ logged' = logged \cup {f \in FrameOf(t) : f[1] = DriverCamera}
  /\ seen' = seen \cup {f \in FrameOf(t) : f[1] = DriverCamera}
  /\ seenPoses' = seenPoses \cup t.poses
  /\ UNCHANGED <<unbound, status, stage, queue, now, ctx, egoVars, lastPose, cameraVars,
                 rendererData, planVars, failed, gathering>>

(* The tasks run beside the loop, and on when the loop has raised.  Each    *)
(* image is exported and logged; submit_image sends the driver those of one *)
(* camera.                                                                  *)
TaskDone(t) ==
  /\ inFlight' = inFlight \ {t}
  /\ logged' = logged \cup FrameOf(t)
  /\ seen' = seen \cup {f \in FrameOf(t) : f[1] = DriverCamera}
  /\ seenPoses' = seenPoses \cup t.poses
  /\ UNCHANGED <<unbound, status, stage, queue, now, ctx, egoVars, lastPose, cameraVars,
                 rendererData, planVars, failed, gathering>>

(* The log of the rollout, or after it the driver, may fail.                *)
TaskFails(t) ==
  /\ inFlight' = inFlight \ {t}
  /\ failed' = failed \cup {t}
  /\ logged' \in {logged, logged \cup FrameOf(t)}
  /\ UNCHANGED <<unbound, status, stage, queue, now, ctx, egoVars, lastPose, cameraVars,
                 rendererData, planVars, seen, seenPoses, gathering>>

HandleEvent ==
  \E e \in queue :
    \/ InitialStep(e) \/ CameraFrame(e) \/ CameraRenderFlush(e) \/ Observe(e)
    \/ EndSimulation(e) \/ Controller(e) \/ PhysicsEgo(e) \/ Traffic(e)
    \/ PhysicsTraffic(e) \/ Step(e)

LoopStep ==
  \/ HandleEvent \/ BarrierPasses \/ BarrierFails \/ DriverAnswers \/ ServiceFails
  \/ Drained \/ DrainFails

TaskEnds(t) == t \in inFlight /\ (TaskDone(t) \/ TaskFails(t))

Next == LoopStep \/ \E t \in inFlight : TaskDone(t) \/ TaskFails(t)

Spec == Init /\ [][Next]_vars

(* The loop is never blocked but in its awaits; services answer or fail. *)
FairSpec == Spec /\ WF_vars(LoopStep) /\ WF_vars(\E t \in inFlight : TaskEnds(t))

-----------------------------------------------------------------------------
Times == 0..End

(* Frames whose shutter closes within the rollout. *)
DueFrames ==
  {f \in Cameras \X Times :
     /\ f[2] >= unbound.firstEnd[f[1]]
     /\ (f[2] - unbound.firstEnd[f[1]]) % unbound.interval[f[1]] = 0}

(* Times at which a plan is made. *)
PolicyTimes == {t \in unbound.firstPolicy..(End - 1) : (t - unbound.firstPolicy) % unbound.dt = 0}

Events ==
  [kind : {"camera"}, at : Times, camera : Cameras]
    \cup [kind : DOMAIN Priority \ {"camera"}, at : Times, camera : {None}]

Tasks ==
  [kind : {"image"}, at : Times, camera : Cameras, poses : {{}}]
    \cup [kind : {"poses"}, at : Times, camera : {None}, poses : SUBSET Times]
    \cup [kind : unbound.extras, at : Times, camera : {None}, poses : {{}}]

ContextType ==
  [start : Times, target : Times, forceGt : BOOLEAN, plan : Times \cup {None},
   ego : SUBSET Times, corrected : SUBSET Times, response : Times \cup {None},
   traffic : SUBSET Times, tracked : SUBSET Tasks]

(* TypeOK: every variable has its type; no event, frame or pose lies beyond *)
(* the end of the rollout, where recorded data may stop.                    *)
TypeOK ==
  /\ unbound \in Rollouts
  /\ status \in {"running", "ending", "terminating", "finished", "terminated", "raised", "broken"}
  /\ stage \in {"loop", "barrier", "drive"}
  /\ queue \subseteq Events
  /\ now \in Times
  /\ ctx \in ContextType
  /\ ego \subseteq Times /\ estimate \subseteq Times /\ traffic \subseteq Times
  /\ lastPose \in Times \cup {None}
  /\ lastFrame \in [Cameras -> Times \cup {None}]
  /\ triggers \subseteq Cameras \X Times
  /\ flushes \subseteq Times
  /\ rendererData \in Times \cup {None}
  /\ \A i \in DOMAIN delayed : delayed[i] \in Times
  /\ steered \in Times \cup {None}
  /\ inFlight \subseteq Tasks /\ failed \subseteq Tasks /\ gathering \subseteq Tasks
  /\ logged \subseteq Cameras \X Times /\ seen \subseteq logged /\ seenPoses \subseteq Times

(* HandlersAgree: no sanity check of a handler fails, as every handler      *)
(* finds what the earlier ones of its timestamp left in the step context;   *)
(* the true ego, its estimate and the traffic are always committed up to    *)
(* the same time, so that a frame is rendered of one world; and a rollout   *)
(* that returns has no observation under way, whether it reached its end or *)
(* the driver asked to stop.                                                *)
HandlersAgree ==
  /\ TypeOK
  /\ status # "broken"
  /\ Latest(ego) = Latest(estimate)
  /\ Latest(ego) = IF traffic = {} THEN unbound.firstPolicy ELSE Latest(traffic)
  /\ status \in {"finished", "terminated"} => inFlight = {} /\ failed = {}

(* HandedOnCurrent: the renderer's data handed to drive is that of the last *)
(* batch rendered since the previous policy event, whether that one asked   *)
(* the driver or not; and the controller follows the newest plan that is at *)
(* least planner_delay_us old, and the first plan while there is none.      *)
HandedOnCurrent ==
  /\ stage = "barrier" =>
       LET recent == {t \in {f[2] : f \in DueFrames} :
                        t <= now /\ (lastPose = None \/ t > lastPose)}
       IN  rendererData = IF unbound.renderBundling = "aggregated" /\ recent # {} THEN Latest(recent) ELSE None
  /\ ctx.ego # {} =>
       LET ready == {t \in PolicyTimes : t <= ctx.start /\ ctx.start - t >= unbound.planDelay}
       IN  steered = IF ready = {} THEN unbound.firstPolicy ELSE Latest(ready)

(* DriverSeesEverything: when the driver is asked, every frame whose        *)
(* shutter had closed is logged, and every one of them that is of its       *)
(* camera and every estimated pose up to now has reached it, although each  *)
(* was sent by a task of its own; and pose updates reach it once and in     *)
(* time order, also when the controller reports several per step; and what  *)
(* is handed on to driver and controller is current.                        *)
DriverSeesEverything ==
  /\ [](stage = "drive" =>
          /\ logged = {f \in DueFrames : f[2] <= now}
          /\ seen = {f \in logged : f[1] = DriverCamera}
          /\ seenPoses = {t \in estimate : t <= now})
  /\ [][\A t \in inFlight \ inFlight' : t \in failed' \/
          \A p \in t.poses, q \in seenPoses : q < p]_vars
  /\ [][HandedOnCurrent']_vars

(* ImplementsClosedLoop: the event loop is a closed loop of decisions and   *)
(* steps.                                                                   *)
Loop ==
  INSTANCE ClosedLoop WITH
    first <- unbound.firstPolicy, step <- unbound.dt, end <- End, frames <- DueFrames,
    covered <- Latest(ego), asked <- lastPose, recorded <- logged, shown <- seen,
    outcome <- CASE status \in {"running", "ending", "terminating"} -> "running"
                 [] status = "finished" -> "complete"
                 [] OTHER -> "stopped"

ImplementsClosedLoop == Loop!Spec

(* RolloutEnds: the loop comes to an end, if every service call does.       *)
RolloutEnds == <>(status \in {"finished", "terminated", "raised"})

(* CamerasAtDecisionTime: with assert_zero_decision_delay, "Camera frames   *)
(* complete exactly at decision time" (docs/OPERATIONS.md).                 *)
CamerasAtDecisionTime ==
  unbound.zeroDelay /\ stage = "drive" => \A c \in Cameras : lastFrame[c] = now

=============================================================================
