--------------------------- MODULE RolloutRecord ----------------------------
(***************************************************************************)
(* What is left of a rollout on disk and in its job result: a directory,   *)
(* the _complete marker (autoresume.py) and how the job ended.             *)
(***************************************************************************)
CONSTANT Rollouts   \* rollout directories

VARIABLE record     \* per rollout: [dir, marker, result]

Absent == [dir |-> FALSE, marker |-> FALSE, result |-> "pending"]

RecordInit == record = [r \in Rollouts |-> Absent]

\* The log writer creates the directory of r.
Begin(r) ==
  /\ record[r] = Absent
  /\ record' = [record EXCEPT ![r].dir = TRUE]

\* mark_rollout_complete; it may be the last thing that goes right.
Mark(r) ==
  /\ record[r].dir /\ ~record[r].marker /\ record[r].result = "pending"
  /\ record' = [record EXCEPT ![r].marker = TRUE]

\* The job returns, if it returns: success needs the marker, failure does not
\* exclude it.
End(r, result) ==
  /\ record[r].result = "pending" /\ (result = "success" => record[r].marker)
  /\ record' = [record EXCEPT ![r].result = result]

RecordNext ==
  \E r \in Rollouts :
    \/ Begin(r)
    \/ Mark(r)
    \/ \E result \in {"success", "failure", "cancelled"} : End(r, result)

RecordSpec == RecordInit /\ [][RecordNext]_record
=============================================================================
