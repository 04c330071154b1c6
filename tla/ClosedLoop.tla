------------------------------ MODULE ClosedLoop ------------------------------
(***************************************************************************)
(* What a rollout promises, whatever runs it: simulated time is committed  *)
(* one control step at a time, a step only after a decision at its start,  *)
(* a decision only after every camera frame that had ended by then was     *)
(* recorded, and shown to the driver if it is of the driver's camera, and  *)
(* no frame is rendered beyond the committed time.                         *)
(***************************************************************************)
EXTENDS Integers

CONSTANTS Cameras, DriverCamera, None

VARIABLES
  first, step, end,  \* the control grid: fixed for a rollout
  frames,            \* frames due in the rollout, <<camera, shutter close>>
  covered,           \* the ego's trajectory is committed up to this time
  asked,             \* time of the last decision
  recorded,          \* frames in the record of the rollout
  shown,             \* frames the driver has received
  outcome            \* "running", "complete" or "stopped"

grid    == <<first, step, end, frames>>
loopVars == <<grid, covered, asked, recorded, shown, outcome>>

Init ==
  /\ first \in Nat /\ step \in Nat \ {0} /\ end \in Nat
  /\ frames \in SUBSET (Cameras \X (first..end))
  /\ covered = first
  /\ asked = None
  /\ recorded = {} /\ shown = {}
  /\ outcome = "running"

ForDriver(set) == {f \in set : f[1] = DriverCamera}

(* The driver may fail to get a frame that is recorded. *)
Show(f) ==
  /\ f \in frames
  /\ f[2] <= covered
  /\ recorded' = recorded \cup {f}
  /\ shown' \in {shown, shown \cup ForDriver({f})}
  /\ UNCHANGED <<grid, covered, asked, outcome>>

(* Nothing is withheld of what was due. *)
Informed(due) == due \subseteq recorded /\ ForDriver(due) \subseteq shown

Decide ==
  /\ outcome = "running"
  /\ covered < end /\ asked # covered
  /\ Informed({f \in frames : f[2] <= covered})
  /\ asked' = covered
  /\ UNCHANGED <<grid, covered, recorded, shown, outcome>>

Advance ==
  /\ outcome = "running"
  /\ asked = covered
  /\ covered' = covered + step
  /\ UNCHANGED <<grid, asked, recorded, shown, outcome>>

Complete ==
  /\ outcome = "running"
  /\ covered = end /\ Informed(frames)
  /\ outcome' = "complete"
  /\ UNCHANGED <<grid, covered, asked, recorded, shown>>

(* The driver asked to stop, or something failed. *)
Stop ==
  /\ outcome = "running"
  /\ outcome' = "stopped"
  /\ UNCHANGED <<grid, covered, asked, recorded, shown>>

Next == (\E f \in frames : Show(f)) \/ Decide \/ Advance \/ Complete \/ Stop

Spec == Init /\ [][Next]_loopVars

=============================================================================
