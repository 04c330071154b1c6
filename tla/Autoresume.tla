----------------------------- MODULE Autoresume ------------------------------
(***************************************************************************)
(* The one-shot command line with autoresume (simulate/__main__.py,        *)
(* autoresume.py): a run plans what is missing, dispatches it, and may be  *)
(* killed at any point, with all its workers; the next run finds on disk   *)
(* what is left.  One scene; every rollout goes through RolloutRecord.     *)
(***************************************************************************)
EXTENDS RolloutRecord, Naturals, FiniteSets

CONSTANTS
  NRollouts,   \* n_rollouts of the scene
  Resume,      \* enable_autoresume
  MaxRuns      \* bound on how often the command is run

ASSUME ResumeAssumption ==
  /\ NRollouts \in Nat /\ Resume \in BOOLEAN /\ MaxRuns \in Nat
  /\ IsFiniteSet(Rollouts)

VARIABLES
  state,     \* idle, planning, running, or the end of the last run
  active,    \* the rollouts of the running request
  used,      \* rollout uuids ever given out
  runs,      \* how often the command was started
  evaluation,  \* eval.enabled of the run, and whether, "lenient", it has
               \* allow_aggregation_with_failed_rollouts
  reported   \* failed_rollouts, as the aggregation of the run got them

resumeVars == <<record, state, active, used, runs, evaluation, reported>>

ResumeTypeOK ==
  /\ record \in [Rollouts -> [dir : BOOLEAN, marker : BOOLEAN,
                              result : {"pending", "success", "failure", "cancelled"}]]
  /\ state \in {"idle", "planning", "running", "succeeded", "failed"}
  /\ active \subseteq used /\ used \subseteq Rollouts
  /\ runs \in 0..MaxRuns
  /\ evaluation \in {"off", "strict", "lenient"} /\ reported \subseteq used

ResumeInit ==
  /\ RecordInit
  /\ state = "idle" /\ active = {} /\ used = {} /\ runs = 0
  /\ evaluation = "off" /\ reported = {}

Stopped == state \notin {"planning", "running"}

\* The rollouts find_num_complete_rollouts counts.
Complete == {r \in Rollouts : record[r].dir /\ record[r].marker}

\* Every run of the command may be configured anew.
Start ==
  /\ Stopped /\ runs < MaxRuns
  /\ runs' = runs + 1 /\ state' = "planning"
  /\ evaluation' \in {"off", "strict", "lenient"} /\ reported' = {}
  /\ UNCHANGED <<record, active, used>>

\* remove_incomplete_rollouts, one directory at a time: a kill may leave some.
RemoveIncomplete(r) ==
  /\ state = "planning" /\ Resume
  /\ record[r].dir /\ ~record[r].marker
  /\ record' = [record EXCEPT ![r].dir = FALSE]
  /\ UNCHANGED <<state, active, used, runs, evaluation, reported>>

Removed == Resume => \A r \in Rollouts : record[r].dir => record[r].marker

\* build_simulation_request: the rollouts still to do; none is no request.
Missing == IF Resume /\ Cardinality(Complete) <= NRollouts
           THEN NRollouts - Cardinality(Complete)
           ELSE IF Resume THEN 0 ELSE NRollouts

\* Fresh uuids for the rollouts to do; which ones makes no difference.
Fresh == CHOOSE new \in SUBSET (Rollouts \ used) : Cardinality(new) = Missing

\* Mutant: the request is built before the directories are gone.
DispatchUncleaned ==
  /\ state = "planning"
  /\ Cardinality(Rollouts \ used) >= Missing
  /\ active' = Fresh /\ used' = used \cup Fresh
  /\ state' = "running"
  /\ UNCHANGED <<record, runs, evaluation, reported>>

\* The request is sent.
DispatchMissing ==
  /\ state = "planning" /\ Removed
  /\ Cardinality(Rollouts \ used) >= Missing
  /\ active' = Fresh /\ used' = used \cup Fresh
  /\ state' = "running"
  /\ UNCHANGED <<record, runs, evaluation, reported>>

\* A rollout of the request goes on.
RolloutStep ==
  /\ state = "running"
  /\ \E r \in active :
       \/ Begin(r) \/ Mark(r) \/ End(r, "success") \/ End(r, "failure")
  /\ UNCHANGED <<state, active, used, runs, evaluation, reported>>

\* The rollouts of the request that were not successful.
FailedRollouts == {r \in active : record[r].result # "success"}

Aggregates == evaluation = "lenient" \/ (evaluation = "strict" /\ FailedRollouts = {})

\* All results are in: run_simulation returns whether all succeeded, or, with
\* evaluation, that the aggregation did not raise, as it does without metrics,
\* which no rollout leaves before its marker.
Finish ==
  /\ state = "running"
  /\ \A r \in active : record[r].result # "pending"
  /\ IF Aggregates
       THEN /\ reported' = FailedRollouts
            /\ state' = "failed" \/ (Complete # {} /\ state' = "succeeded")
       ELSE /\ state' = IF evaluation = "off" /\ FailedRollouts = {} THEN "succeeded" ELSE "failed"
            /\ UNCHANGED reported
  /\ UNCHANGED <<record, active, used, runs, evaluation>>

\* The container is killed, between any two steps.
KillRun ==
  /\ ~Stopped
  /\ state' = "idle" /\ active' = {}
  /\ UNCHANGED <<record, used, runs, evaluation, reported>>

ResumeNext ==
  \/ Start \/ DispatchMissing \/ RolloutStep \/ Finish \/ KillRun
  \/ \E r \in Rollouts : RemoveIncomplete(r)

ResumeSpec == ResumeInit /\ [][ResumeNext]_resumeVars

----------------------------------------------------------------------------
(* Kills, failures and resumes never lead to more complete rollouts than the *)
(* scene asks for.  A run that reports success leaves every wanted rollout   *)
(* either complete or, if it may aggregate with failed rollouts, with a row  *)
(* of its own among those the report lists as failed, and nothing half-done  *)
(* beside them, whatever earlier runs left behind; without that permission   *)
(* just the wanted ones are complete and nothing else is there.              *)
WantedRollouts ==
  /\ ResumeTypeOK
  /\ Cardinality(Complete) <= NRollouts
  /\ state = "succeeded" =>
       /\ Cardinality(Complete \cup reported) = NRollouts
       /\ {r \in Rollouts : record[r].dir} \subseteq Complete \cup reported
       /\ evaluation # "lenient" =>
            Cardinality(Complete) = NRollouts /\ {r \in Rollouts : record[r].dir} = Complete
=============================================================================
