------------------------- MODULE ControllerSession -------------------------
(***************************************************************************)
(* A session of the controller service (controller/): its server handles   *)
(* one request at a time, its system steps the vehicle through the times   *)
(* of a request and runs the MPC on a clock of its own, every DtMpc from   *)
(* the first step on, whatever the control step and the reports are.  The  *)
(* runtime asks for one step after the other over one connection; a call   *)
(* may be lost on either way, and a rollout that is cancelled leaves its   *)
(* request behind.                                                         *)
(*                                                                         *)
(* Poses, velocities and controls are left out, but not when they are      *)
(* computed.                                                               *)
(***************************************************************************)
EXTENDS Integers, SequencesExt, FiniteSetsExt

CONSTANTS
  DtMpc,          \* dt_mpc_us
  Cadences,       \* of the runtimes: [step |-> control_timestep_us,
                  \*                   report |-> pose_reporting_interval_us, or 0]
  LastTime        \* bound: the end of a rollout

ASSUME ControllerAssumption ==
  /\ {DtMpc, LastTime} \subseteq Nat \ {0}
  /\ \A c \in Cadences : c.step \in Nat \ {0} /\ c.report \in Nat

VARIABLES
  entry,     \* _sessions[uuid]: absent, registered (None) or created
  clock,     \* _timestamp_us
  poses,     \* the times of _trajectory
  mpcRuns,   \* the times the MPC ran at; the latest is _last_mpc_time_us
  cadence,   \* of this rollout
  at,        \* the runtime's step starts here
  stage,     \* of the runtime: the call it awaits, or idle, over
  inbox,     \* requests on their way or in the executor of the server, in order
  answer     \* of the call: none, or failed, or the times of its states

serverVars == <<entry, clock, poses, mpcRuns>>
clientVars == <<cadence, at, stage>>
controllerVars == <<serverVars, clientVars, inbox, answer>>

NoAnswer == [kind |-> "none", times |-> {}]
Failed   == [kind |-> "failed", times |-> {}]
Done(times) == [kind |-> "done", times |-> times]

ControllerInit ==
  /\ entry = "absent" /\ clock = 0 /\ poses = {} /\ mpcRuns = {}
  /\ cadence \in Cadences /\ at \in {0, 1} /\ stage = "new"
  /\ inbox = <<>> /\ answer = NoAnswer
----------------------------------------------------------------------------
(* The service                                                               *)

\* The times strictly between from and to, every `by` from `first` on.
Every(first, by, to) == {t \in first .. to - 1 : by > 0 /\ (t - first) % by = 0}

Reports(r)  == Every(r.now, r.report, r.future) \ {r.now}

\* Mutant: every call starts the MPC's clock again.
MpcRunTimesPerCall(r) == Every(r.now, DtMpc, r.future)

\* mpc_run_times.
MpcRunTimes(r) ==
  Every(IF mpcRuns = {} THEN r.now ELSE Max(mpcRuns) + DtMpc, DtMpc, r.future)

\* step_targets.
Targets(r) == (MpcRunTimes(r) \ {r.now}) \cup Reports(r) \cup {r.future}

\* The targets at whose predecessor the controller runs.
Runs(r) == MpcRunTimes(r) \cap (Targets(r) \cup {r.now})

\* The vehicle was stepped until some time, before a step raised or to the end.
SteppedTo(r, until) ==
  /\ clock' = until
  /\ poses' = (IF entry = "registered" THEN {r.now} ELSE poses)
                \cup {t \in Targets(r) : t <= until}
  /\ mpcRuns' = mpcRuns \cup {t \in Runs(r) : t < until}
  /\ entry' = "created"

\* Its input sanity checks: the request continues where the vehicle stands.
Continues(r) == entry = "created" => r.now = clock /\ r.now = Max(poses)

\* run_controller_and_vehicle_model, with _create_system on the first call.
RunVehicle(r, result) ==
  /\ r.kind = "run" /\ entry # "absent" /\ Continues(r)
  /\ SteppedTo(r, r.future)
  /\ result = Done(Reports(r) \cup {r.future})

\* compute_control raises, or the plan starts before the vehicle's trajectory.
RunRaises(r, result) ==
  /\ r.kind = "run" /\ entry # "absent" /\ Continues(r)
  /\ \E until \in Runs(r) : SteppedTo(r, until)
  /\ result = Failed

\* start_session.
Register(r, result) ==
  /\ r.kind = "start" /\ entry = "absent"
  /\ entry' = "registered" /\ result = Done({})
  /\ UNCHANGED <<clock, poses, mpcRuns>>

\* close_session.
Deregister(r, result) ==
  /\ r.kind = "close" /\ entry # "absent"
  /\ entry' = "absent" /\ clock' = 0 /\ poses' = {} /\ mpcRuns' = {}
  /\ result = Done({})

\* The KeyErrors and ValueErrors before anything is changed.
Refuse(r, result) ==
  /\ CASE r.kind = "start" -> entry # "absent"
       [] r.kind = "close" -> entry = "absent"
       [] r.kind = "run"   -> entry = "absent" \/ ~Continues(r)
  /\ result = Failed
  /\ UNCHANGED serverVars

\* The one thread of the server, with the lock; the runtime hears of the call
\* it waits for, or that its answer was lost.
Serve(r) ==
  \E result \in {Done(Reports(r) \cup {r.future}), Done({}), Failed} :
    /\ RunVehicle(r, result) \/ RunRaises(r, result) \/ Register(r, result)
         \/ Deregister(r, result) \/ Refuse(r, result)
    /\ answer' \in IF r.kind = stage THEN {result, Failed} ELSE {answer}

ServerStep ==
  /\ inbox # <<>> /\ Serve(Head(inbox)) /\ inbox' = Tail(inbox)
  /\ UNCHANGED clientVars

\* A request never reaches the server: it is UNAVAILABLE, or was cancelled.
Lose ==
  /\ inbox # <<>> /\ inbox' = Tail(inbox)
  /\ answer' = IF Head(inbox).kind = stage THEN Failed ELSE answer
  /\ UNCHANGED <<serverVars, clientVars>>
----------------------------------------------------------------------------
(* The runtime                                                               *)

Request(kind) ==
  [kind |-> kind, now |-> at, future |-> at + cadence.step, report |-> cadence.report]

Call(kind) ==
  /\ stage' = kind /\ answer' = NoAnswer
  /\ inbox' = Append(inbox, Request(kind))
  /\ UNCHANGED <<serverVars, cadence, at>>

\* _initialize_session.
StartController == stage = "new" /\ Call("start")

\* run_controller_and_vehicle.
RunController == stage = "idle" /\ at + cadence.step <= LastTime /\ Call("run")

\* The answer of the awaited call; the next step goes on where its states end.
Answered ==
  /\ stage \in {"start", "run", "close"} /\ answer.kind = "done"
  /\ stage' = IF stage = "close" THEN "over" ELSE "idle"
  /\ at' = IF stage = "run" THEN Max(answer.times) ELSE at
  /\ answer' = NoAnswer
  /\ UNCHANGED <<serverVars, cadence, inbox>>

\* _cleanup_session: after the last step, an error, or a cancellation, which
\* leaves the request where it is; also when the session was not started.
CleanUp == stage \in {"start", "idle", "run"} /\ Call("close")

\* An error of the clean-up is the end, too.
CleanUpFails ==
  /\ stage = "close" /\ answer.kind = "failed" /\ stage' = "over"
  /\ UNCHANGED <<serverVars, cadence, at, inbox, answer>>

ControllerNext ==
  \/ ServerStep \/ Lose
  \/ StartController \/ RunController \/ Answered \/ CleanUp \/ CleanUpFails

ControllerSpec == ControllerInit /\ [][ControllerNext]_controllerVars
----------------------------------------------------------------------------
(* The MPC keeps its own time across calls whose ends do not fall on it: it  *)
(* has run every DtMpc from the first step on, at no other time, so that no  *)
(* control is held longer or replaced sooner than DtMpc; the vehicle is      *)
(* never past the step that was asked for, also when a call broke off        *)
(* half-way; while the runtime has an answer in its hands, its time is the   *)
(* vehicle's, which was at every step's end; and a session that was closed   *)
(* is not brought back by what was left in flight.                           *)
ControllerConsistent ==
  /\ entry = "created" =>
       /\ clock = Max(poses) /\ clock <= at + cadence.step
       /\ mpcRuns = Every(Min(poses), DtMpc, clock)
  /\ stage = "idle" =>
       /\ entry # "absent"
       /\ entry = "created" =>
            /\ clock = at
            /\ \A t \in Min(poses) .. at :
                 (t - Min(poses)) % cadence.step = 0 => t \in poses
  /\ stage = "over" /\ answer.kind = "none" => entry = "absent"
=============================================================================
