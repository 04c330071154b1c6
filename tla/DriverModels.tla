---------------------------- MODULE DriverModels ----------------------------
(***************************************************************************)
(* The two driver models that have a thread of their own beside the        *)
(* inference thread: the one an external planner steers, and the one a     *)
(* person steers.  Each is a machine by itself.                            *)
(***************************************************************************)
EXTENDS Integers, TLAPS

(***************************************************************************)
(* The driver model that an external planner steers: a ROS callback stores *)
(* the planner's trajectories in a buffer (external_trajectory_buffer.py), *)
(* the inference thread takes the latest one unless it is too old, and     *)
(* stops the vehicle otherwise.  A trajectory is named by the number of    *)
(* its message.                                                            *)
(***************************************************************************)

CONSTANTS
  MessageKinds,   \* of a message: good, empty, other_frame, non_finite, rejected
  MaxMessages,    \* bound: messages of the planner
  MaxClock,       \* bound: monotonic time
  TimeoutAge      \* trajectory_timeout_s

ASSUME TrajectoryAssumption == TimeoutAge \in Nat \ {0} /\ "good" \in MessageKinds

VARIABLES
  monotonic,     \* time.monotonic()
  onTopic,       \* the message waiting on the topic: depth 1, NoTrajectory without
  sent,          \* messages sent
  stored,        \* [message, received], NoTrajectory before the first
  callback,      \* the message a callback is about to store, with its time
  request,       \* of predict: the time it has read, NoTrajectory outside
  answer,        \* its last result: a message or "stop", NoTrajectory before
  used           \* history: what the last result rested on: [asked, stored]

trajectoryVars == <<monotonic, onTopic, sent, stored, callback, request, answer, used>>

NoTrajectory == [message |-> 0, kind |-> "none", received |-> 0]

TrajectoryInit ==
  /\ monotonic = 0 /\ onTopic = NoTrajectory /\ sent = 0 /\ stored = NoTrajectory /\ callback = NoTrajectory
  /\ request = -1 /\ answer = 0 /\ used = [asked |-> 0, stored |-> NoTrajectory]

Elapse ==
  /\ monotonic < MaxClock /\ monotonic' = monotonic + 1
  /\ UNCHANGED <<onTopic, sent, stored, callback, request, answer, used>>

\* The planner publishes; a message that was not taken yet is replaced.
Publish ==
  /\ sent < MaxMessages /\ sent' = sent + 1
  /\ \E k \in MessageKinds :
       onTopic' = [message |-> sent', kind |-> k, received |-> 0]
  /\ UNCHANGED <<monotonic, stored, callback, request, answer, used>>

\* Mutant: the callback stores what it should ignore.
ReceiveAny ==
  /\ callback = NoTrajectory /\ onTopic # NoTrajectory /\ onTopic' = NoTrajectory
  /\ callback' = [onTopic EXCEPT !.received = monotonic]
  /\ UNCHANGED <<monotonic, sent, stored, request, answer, used>>

\* _trajectory_callback and update, up to the lock: an empty trajectory, one in
\* another frame or not finite, and one update rejects, is dropped.
Receive ==
  /\ callback = NoTrajectory /\ onTopic # NoTrajectory /\ onTopic' = NoTrajectory
  /\ callback' = IF onTopic.kind = "good" THEN [onTopic EXCEPT !.received = monotonic] ELSE NoTrajectory
  /\ UNCHANGED <<monotonic, sent, stored, request, answer, used>>

\* update, with the lock.
Store ==
  /\ callback # NoTrajectory /\ stored' = callback /\ callback' = NoTrajectory
  /\ UNCHANGED <<monotonic, onTopic, sent, request, answer, used>>

\* predict and snapshot, up to the lock.
AskSnapshot ==
  /\ request = -1 /\ request' = monotonic
  /\ UNCHANGED <<monotonic, onTopic, sent, stored, callback, answer, used>>

\* snapshot, with the lock, and the rest of predict: the age is that at the
\* time of the question.
Predict ==
  /\ request # -1 /\ request' = -1
  /\ answer' = IF stored # NoTrajectory /\ request - stored.received <= TimeoutAge
               THEN stored.message ELSE -1
  /\ used' = [asked |-> request, stored |-> stored]
  /\ UNCHANGED <<monotonic, onTopic, sent, stored, callback>>

TrajectoryNext == Elapse \/ Publish \/ Receive \/ Store \/ AskSnapshot \/ Predict

TrajectorySpec == TrajectoryInit /\ [][TrajectoryNext]_trajectoryVars
----------------------------------------------------------------------------
(* The vehicle follows only a good trajectory that was received at most      *)
(* TimeoutAge before the request, the newest stored at the answer, even if   *)
(* one arrives between the request's look at the clock and its lock; a bad   *)
(* message neither replaces nor refreshes the good one before it, and        *)
(* without a fresh one the vehicle is stopped.                               *)
FollowsFreshPlan ==
  /\ stored # NoTrajectory => stored.kind = "good"
  /\ answer > 0 => answer = used.stored.message /\ used.stored.kind = "good"
  /\ answer > 0 => used.asked <= used.stored.received + TimeoutAge
  /\ answer = -1 => used.stored = NoTrajectory \/ used.asked > used.stored.received + TimeoutAge

-----------------------------------------------------------------------------
(***************************************************************************)
(* The driver model a person steers (models/manual_model.py): the GUI      *)
(* thread turns keys into a target speed and a steering angle, and the     *)
(* inference thread waits until the wall clock has caught up with the      *)
(* simulation before it shows the frame, reads the controls and answers.   *)
(* Speed and steering move in whole steps of a tick.                       *)
(***************************************************************************)

CONSTANTS
  MaxSpeed, MaxReverse, MaxSteer,   \* the physical limits, in steps
  MaxWall,                          \* bound: the wall clock
  FrameTimes                        \* bound: simulation times of the frames

ASSUME ManualAssumption ==
  /\ {MaxSpeed, MaxReverse, MaxSteer, MaxWall} \subseteq Nat /\ FrameTimes \subseteq Nat

VARIABLES
  held,         \* _keys_pressed: of gas, brake, left and right
  speed, steer, \* target_speed, steering_angle
  guiRunning,   \* _running
  quit,         \* quit_requested
  wall,         \* time.time()
  waiting,      \* of predict: the frame it waits with, and until when
  lastFrame,    \* _last_sim_time_us and _last_wall_clock
  shown,        \* _latest_frame
  plan,         \* the speed and steering of the last reply
  replies       \* history: the last two replies: [sim, wall]

manualVars == <<held, speed, steer, guiRunning, quit, wall, waiting, lastFrame, shown, plan, replies>>

Keys == {"gas", "brake", "left", "right"}

\* Not there yet.
NoFrame == [sim |-> -1, wall |-> 0]
NoReply == [sim |-> -1, wall |-> 0]

ManualInit ==
  /\ held = {} /\ speed = 0 /\ steer = 0 /\ guiRunning = TRUE /\ quit = FALSE /\ wall = 0
  /\ waiting = NoFrame /\ lastFrame = NoFrame /\ shown = -1 /\ plan = <<0, 0>> /\ replies = <<NoReply, NoReply>>

Clamp(x, low, high) == IF x < low THEN low ELSE IF x > high THEN high ELSE x

\* One step of a value whose keys say up, down or neither: back to zero.
Moved(x, up, down) ==
  CASE up            -> x + 1
    [] ~up /\ down   -> x - 1
    [] ~up /\ ~down  -> IF x > 0 THEN x - 1 ELSE IF x < 0 THEN x + 1 ELSE 0

\* _process_events: a key goes down or up.
Key(k) ==
  /\ guiRunning
  /\ held' = IF k \in held THEN held \ {k} ELSE held \cup {k}
  /\ UNCHANGED <<speed, steer, guiRunning, quit, wall, waiting, lastFrame, shown, plan, replies>>

\* The space key.
Halt ==
  /\ guiRunning /\ speed' = 0
  /\ UNCHANGED <<held, steer, guiRunning, quit, wall, waiting, lastFrame, shown, plan, replies>>

\* Escape, or the window is closed.
Quit ==
  /\ guiRunning /\ guiRunning' = FALSE /\ quit' = TRUE
  /\ UNCHANGED <<held, speed, steer, wall, waiting, lastFrame, shown, plan, replies>>

\* _update_controls; the clock goes on.
Tick ==
  /\ guiRunning /\ wall < MaxWall /\ wall' = wall + 1
  /\ speed' = Clamp(Moved(speed, "gas" \in held, "brake" \in held), -MaxReverse, MaxSpeed)
  /\ steer' = Clamp(Moved(steer, "left" \in held, "right" \in held), -MaxSteer, MaxSteer)
  /\ UNCHANGED <<held, guiRunning, quit, waiting, lastFrame, shown, plan, replies>>

\* The clock goes on without the GUI.
Pass ==
  /\ ~guiRunning /\ wall < MaxWall /\ wall' = wall + 1
  /\ UNCHANGED <<held, speed, steer, guiRunning, quit, waiting, lastFrame, shown, plan, replies>>

\* wait_until_sim_time, up to its sleep; the first frame does not wait.
BeginPredict(t) ==
  /\ waiting = NoFrame /\ t # replies[2].sim
  /\ waiting' = [sim |-> t,
                 wall |-> IF lastFrame = NoFrame THEN wall ELSE lastFrame.wall + t - lastFrame.sim]
  /\ lastFrame' = IF lastFrame = NoFrame THEN [sim |-> t, wall |-> wall] ELSE lastFrame
  /\ UNCHANGED <<held, speed, steer, guiRunning, quit, wall, shown, plan, replies>>

\* What the plan of a reply follows: the controls, or after quit a stop.
Plan == IF quit THEN <<0, 0>> ELSE <<speed, steer>>

\* Mutant: only the first frame sets the clock.
PredictUnpaced ==
  /\ waiting # NoFrame /\ wall >= waiting.wall
  /\ lastFrame' = [sim |-> waiting.sim, wall |-> lastFrame.wall]
  /\ shown' = waiting.sim /\ plan' = Plan /\ waiting' = NoFrame
  /\ replies' = <<replies[2], [sim |-> waiting.sim, wall |-> wall]>>
  /\ UNCHANGED <<held, speed, steer, guiRunning, quit, wall>>

\* The sleep is over: the clocks, the frame, the controls and the reply.
FinishPredict ==
  /\ waiting # NoFrame /\ wall >= waiting.wall
  /\ lastFrame' = [sim |-> waiting.sim, wall |-> wall]
  /\ shown' = waiting.sim /\ plan' = Plan /\ waiting' = NoFrame
  /\ replies' = <<replies[2], [sim |-> waiting.sim, wall |-> wall]>>
  /\ UNCHANGED <<held, speed, steer, guiRunning, quit, wall>>

ManualNext ==
  \/ \E k \in Keys : Key(k)
  \/ Halt \/ Quit \/ Tick \/ Pass \/ FinishPredict
  \/ \E t \in FrameTimes : BeginPredict(t)

ManualSpec == ManualInit /\ [][ManualNext]_manualVars
----------------------------------------------------------------------------
(* Replies are never faster than real time: between two of them at least as  *)
(* much wall time passes as simulation time, whatever the GUI thread does    *)
(* meanwhile and although a later rollout starts its time again; the frame   *)
(* shown is the one last answered; and the controls stay within the          *)
(* vehicle's limits.                                                         *)
RepliesPaced ==
  /\ replies[1].sim >= 0 =>
       replies[2].wall - replies[1].wall >= replies[2].sim - replies[1].sim
  /\ shown = replies[2].sim
  /\ speed \in -MaxReverse .. MaxSpeed /\ steer \in -MaxSteer .. MaxSteer

\* A model that waits for the world outside answers neither with what is out of
\* date (FollowsFreshPlan) nor before its time (RepliesPaced).
AnswersInTime == FollowsFreshPlan /\ RepliesPaced

-----------------------------------------------------------------------------
(* Proofs: the planner's buffer.                                             *)

\* A message of the planner, on its way or stored.
PlanMessages == [message : Nat \ {0}, kind : MessageKinds, received : Nat]

\* What a callback stores was checked before, and an answer rests on what was
\* stored when it was given.
TrajectoryInv ==
  /\ monotonic \in Nat /\ sent \in Nat /\ request \in Int /\ answer \in Int
  /\ onTopic = NoTrajectory \/ onTopic \in PlanMessages
  /\ callback = NoTrajectory \/ (callback \in PlanMessages /\ callback.kind = "good")
  /\ stored = NoTrajectory \/ (stored \in PlanMessages /\ stored.kind = "good")
  /\ FollowsFreshPlan

LEMMA TrajectoryStart == TrajectoryInit => TrajectoryInv
BY TrajectoryAssumption DEF TrajectoryInit, TrajectoryInv, FollowsFreshPlan, NoTrajectory

LEMMA PredictStep ==
  ASSUME TrajectoryInv, Predict PROVE TrajectoryInv'
<1>1. /\ monotonic' \in Nat /\ sent' \in Nat /\ request' \in Int
      /\ onTopic' = NoTrajectory \/ onTopic' \in PlanMessages
      /\ callback' = NoTrajectory \/ (callback' \in PlanMessages /\ callback'.kind = "good")
      /\ stored' = NoTrajectory \/ (stored' \in PlanMessages /\ stored'.kind = "good")
  BY DEF TrajectoryInv, Predict
<1>2. used'.asked = request /\ used'.stored = stored /\ stored' = stored
  BY DEF Predict
<1>3. CASE stored # NoTrajectory /\ request - stored.received <= TimeoutAge
  <2>1. answer' = stored.message
    BY <1>3 DEF Predict
  <2>2. /\ stored.message \in Nat \ {0} /\ stored.received \in Nat /\ stored.kind = "good"
        /\ request \in Int /\ TimeoutAge \in Nat
    BY <1>3, TrajectoryAssumption DEF TrajectoryInv, PlanMessages
  <2>3. FollowsFreshPlan'
    BY <1>2, <1>3, <2>1, <2>2 DEF FollowsFreshPlan
  <2> QED BY <1>1, <2>1, <2>2, <2>3 DEF TrajectoryInv
<1>4. CASE ~(stored # NoTrajectory /\ request - stored.received <= TimeoutAge)
  <2>1. answer' = -1
    BY <1>4 DEF Predict
  <2>2. request \in Int /\ TimeoutAge \in Nat /\ (stored # NoTrajectory => stored.kind = "good")
    BY TrajectoryAssumption DEF TrajectoryInv
  <2>3. stored # NoTrajectory => request > stored.received + TimeoutAge
    <3>1. stored # NoTrajectory => stored.received \in Nat
      BY DEF TrajectoryInv, PlanMessages
    <3> QED BY <1>4, <2>2, <3>1
  <2>4. FollowsFreshPlan'
    BY <1>2, <2>1, <2>2, <2>3 DEF FollowsFreshPlan
  <2> QED BY <1>1, <2>1, <2>4 DEF TrajectoryInv
<1> QED BY <1>3, <1>4

LEMMA TrajectoryStep ==
  TrajectoryInv /\ [TrajectoryNext]_trajectoryVars => TrajectoryInv'
<1> SUFFICES ASSUME TrajectoryInv, [TrajectoryNext]_trajectoryVars PROVE TrajectoryInv'
  OBVIOUS
<1>1. CASE Elapse
  BY <1>1 DEF TrajectoryInv, FollowsFreshPlan, Elapse
<1>2. CASE Publish
  <2>1. PICK k \in MessageKinds : onTopic' = [message |-> sent + 1, kind |-> k, received |-> 0]
    BY <1>2 DEF Publish
  <2>2. onTopic' \in PlanMessages
    BY <2>1 DEF TrajectoryInv, PlanMessages
  <2> QED BY <1>2, <2>2 DEF TrajectoryInv, FollowsFreshPlan, Publish
<1>3. CASE Receive
  <2>1. callback' = NoTrajectory \/ (callback' \in PlanMessages /\ callback'.kind = "good")
    <3>1. CASE onTopic.kind = "good"
      <4>1. onTopic \in PlanMessages /\ monotonic \in Nat
        BY <1>3 DEF Receive, TrajectoryInv
      <4>2. callback' = [onTopic EXCEPT !.received = monotonic]
        BY <1>3, <3>1 DEF Receive
      <4> QED BY <3>1, <4>1, <4>2 DEF PlanMessages
    <3>2. CASE onTopic.kind # "good"
      BY <1>3, <3>2 DEF Receive
    <3> QED BY <3>1, <3>2
  <2> QED BY <1>3, <2>1 DEF TrajectoryInv, FollowsFreshPlan, Receive
<1>4. CASE Store
  BY <1>4 DEF TrajectoryInv, FollowsFreshPlan, Store
<1>5. CASE AskSnapshot
  BY <1>5 DEF TrajectoryInv, FollowsFreshPlan, AskSnapshot
<1>6. CASE Predict
  BY <1>6, PredictStep
<1>7. CASE UNCHANGED trajectoryVars
  BY <1>7 DEF TrajectoryInv, FollowsFreshPlan, trajectoryVars
<1> QED BY <1>1, <1>2, <1>3, <1>4, <1>5, <1>6, <1>7 DEF TrajectoryNext

\* predict and the callback race for the buffer's lock: whatever the callback
\* stores between the question and the answer, the vehicle follows a good
\* trajectory that was fresh when the question was asked, or stops.
THEOREM PlansAreFresh == TrajectorySpec => []FollowsFreshPlan
<1>1. TrajectoryInv => FollowsFreshPlan
  BY DEF TrajectoryInv
<1> QED BY TrajectoryStart, TrajectoryStep, <1>1, PTL DEF TrajectorySpec
-----------------------------------------------------------------------------
(* Proofs: the person at the keyboard.                                       *)

\* A frame or a reply: when in the simulation and when on the wall clock.
Moments == [sim : Nat, wall : Nat]

\* A frame that waits does so until the wall clock has caught up with the
\* reply before it, which is the frame that set the clocks.
ManualInv ==
  /\ wall \in Nat
  /\ speed \in -MaxReverse .. MaxSpeed /\ steer \in -MaxSteer .. MaxSteer
  /\ \E a, b \in Moments \cup {NoReply} :
       /\ replies = <<a, b>> /\ shown = b.sim
       /\ a # NoReply => (b # NoReply /\ b.wall - a.wall >= b.sim - a.sim)
       /\ b # NoReply => lastFrame = b
       /\ b = NoReply => a = NoReply
       /\ (waiting # NoFrame /\ b # NoReply) => waiting.wall = b.wall + waiting.sim - b.sim
  /\ lastFrame = NoFrame \/ lastFrame \in Moments
  /\ waiting = NoFrame \/ (waiting.sim \in Nat /\ waiting.wall \in Int)

LEMMA ManualStart == ManualInit => ManualInv
<1> SUFFICES ASSUME ManualInit PROVE ManualInv
  OBVIOUS
<1>1. replies = <<NoReply, NoReply>> /\ shown = NoReply.sim /\ waiting = NoFrame
  BY DEF ManualInit, NoReply
<1> QED BY <1>1, ManualAssumption DEF ManualInit, ManualInv

LEMMA ControlsInRange ==
  ASSUME NEW low \in Nat, NEW high \in Nat, NEW x \in Int PROVE Clamp(x, -low, high) \in -low .. high
BY DEF Clamp

LEMMA TickKeepsLimits ==
  ASSUME ManualInv, Tick
  PROVE  speed' \in -MaxReverse .. MaxSpeed /\ steer' \in -MaxSteer .. MaxSteer
<1>1. speed \in Int /\ steer \in Int /\ MaxSpeed \in Nat /\ MaxReverse \in Nat /\ MaxSteer \in Nat
  BY ManualAssumption DEF ManualInv
<1>2. Moved(speed, "gas" \in held, "brake" \in held) \in Int
  BY <1>1 DEF Moved
<1>3. Moved(steer, "left" \in held, "right" \in held) \in Int
  BY <1>1 DEF Moved
<1> QED BY <1>1, <1>2, <1>3, ControlsInRange DEF Tick

LEMMA BeginPredictStep ==
  ASSUME ManualInv, NEW t \in FrameTimes, BeginPredict(t) PROVE ManualInv'
<1>1. PICK a, b \in Moments \cup {NoReply} :
       /\ replies = <<a, b>> /\ shown = b.sim
       /\ a # NoReply => (b # NoReply /\ b.wall - a.wall >= b.sim - a.sim)
       /\ b # NoReply => lastFrame = b
       /\ b = NoReply => a = NoReply
  BY DEF ManualInv
<1>2. t \in Nat /\ wall \in Nat
  BY ManualAssumption DEF ManualInv
<1>3. UNCHANGED <<wall, speed, steer, replies, shown>>
  BY DEF BeginPredict
<1>4. CASE lastFrame = NoFrame
  <2>1. b = NoReply
    BY <1>1, <1>4 DEF Moments, NoFrame, NoReply
  <2>2. waiting' = [sim |-> t, wall |-> wall] /\ lastFrame' = [sim |-> t, wall |-> wall]
    BY <1>4 DEF BeginPredict
  <2>3. lastFrame' \in Moments /\ waiting'.sim \in Nat /\ waiting'.wall \in Int
    BY <1>2, <2>2 DEF Moments
  <2> QED BY <1>1, <1>3, <2>1, <2>3 DEF ManualInv
<1>5. CASE lastFrame # NoFrame
  <2>1. lastFrame \in Moments
    BY <1>5 DEF ManualInv
  <2>2. /\ waiting' = [sim |-> t, wall |-> lastFrame.wall + t - lastFrame.sim]
        /\ lastFrame' = lastFrame
    BY <1>5 DEF BeginPredict
  <2>3. /\ waiting'.sim = t /\ waiting'.wall = lastFrame.wall + t - lastFrame.sim
        /\ lastFrame.wall \in Nat /\ lastFrame.sim \in Nat
    BY <2>1, <2>2 DEF Moments
  <2>4. waiting'.sim \in Nat /\ waiting'.wall \in Int
    BY <1>2, <2>3
  <2>5. b # NoReply => waiting'.wall = b.wall + waiting'.sim - b.sim
    BY <1>1, <2>3
  <2> QED BY <1>1, <1>3, <2>1, <2>2, <2>4, <2>5 DEF ManualInv
<1> QED BY <1>4, <1>5

LEMMA FinishPredictStep ==
  ASSUME ManualInv, FinishPredict PROVE ManualInv'
<1>1. PICK a, b \in Moments \cup {NoReply} :
       /\ replies = <<a, b>>
       /\ (waiting # NoFrame /\ b # NoReply) => waiting.wall = b.wall + waiting.sim - b.sim
  BY DEF ManualInv
<1> DEFINE c == [sim |-> waiting.sim, wall |-> wall]
<1>2. waiting.sim \in Nat /\ waiting.wall \in Int /\ wall \in Nat /\ wall >= waiting.wall
  BY DEF ManualInv, FinishPredict
<1>3. c \in Moments /\ c # NoReply /\ c.sim = waiting.sim /\ c.wall = wall
  BY <1>2 DEF Moments, NoReply
<1>4. replies' = <<b, c>> /\ lastFrame' = c /\ shown' = c.sim /\ waiting' = NoFrame
  BY <1>1 DEF FinishPredict
<1>5. b # NoReply => c.wall - b.wall >= c.sim - b.sim
  <2>1. ASSUME b # NoReply PROVE b.sim \in Nat /\ b.wall \in Nat /\ waiting.wall = b.wall + waiting.sim - b.sim
    BY <1>1, <2>1 DEF Moments, FinishPredict
  <2> QED BY <1>2, <1>3, <2>1
<1>6. UNCHANGED <<wall, speed, steer>>
  BY DEF FinishPredict
<1> HIDE DEF c
<1> QED BY <1>3, <1>4, <1>5, <1>6 DEF ManualInv

LEMMA ManualStep ==
  ManualInv /\ [ManualNext]_manualVars => ManualInv'
<1> SUFFICES ASSUME ManualInv, [ManualNext]_manualVars PROVE ManualInv'
  OBVIOUS
<1>1. ASSUME NEW k \in Keys, Key(k) PROVE ManualInv'
  BY <1>1 DEF ManualInv, Key
<1>2. CASE Halt
  <2>1. 0 \in -MaxReverse .. MaxSpeed
    BY ManualAssumption
  <2> QED BY <1>2, <2>1 DEF ManualInv, Halt
<1>3. CASE Quit
  BY <1>3 DEF ManualInv, Quit
<1>4. CASE Tick
  <2>1. wall' \in Nat
    BY <1>4 DEF ManualInv, Tick
  <2>2. UNCHANGED <<waiting, lastFrame, shown, replies>>
    BY <1>4 DEF Tick
  <2> QED BY <1>4, <2>1, <2>2, TickKeepsLimits DEF ManualInv
<1>5. CASE Pass
  BY <1>5 DEF ManualInv, Pass
<1>6. CASE FinishPredict
  BY <1>6, FinishPredictStep
<1>7. ASSUME NEW t \in FrameTimes, BeginPredict(t) PROVE ManualInv'
  BY <1>7, BeginPredictStep
<1>8. CASE UNCHANGED manualVars
  BY <1>8 DEF ManualInv, manualVars
<1> QED BY <1>1, <1>2, <1>3, <1>4, <1>5, <1>6, <1>7, <1>8 DEF ManualNext

\* The sleep of wait_until_sim_time is enough to keep every two replies apart
\* as far on the wall clock as in the simulation, and the keys never take the
\* controls out of the vehicle's limits.
THEOREM RepliesArePaced == ManualSpec => []RepliesPaced
<1>1. ManualInv => RepliesPaced
  <2> SUFFICES ASSUME ManualInv PROVE RepliesPaced
    OBVIOUS
  <2>1. PICK a, b \in Moments \cup {NoReply} :
       /\ replies = <<a, b>> /\ shown = b.sim
       /\ a # NoReply => (b # NoReply /\ b.wall - a.wall >= b.sim - a.sim)
    BY DEF ManualInv
  <2>2. replies[1] = a /\ replies[2] = b
    BY <2>1
  <2>3. a = NoReply => ~(a.sim >= 0)
    BY DEF NoReply
  <2> QED BY <2>1, <2>2, <2>3 DEF RepliesPaced, ManualInv
<1> QED BY ManualStart, ManualStep, <1>1, PTL DEF ManualSpec

\* The planner's buffer and the person's controls, side by side: each keeps its
\* own half, whatever the other's threads do.
THEOREM AnswersAreInTime == TrajectorySpec /\ ManualSpec => []AnswersInTime
BY PlansAreFresh, RepliesArePaced, PTL DEF AnswersInTime
=============================================================================
