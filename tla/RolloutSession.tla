--------------------------- MODULE RolloutSession ---------------------------
(***************************************************************************)
(* One rollout from run_single_rollout to its JobResult: the exit stack    *)
(* of event_loop.run (log writer, renderer, physics, controller, driver,   *)
(* traffic), rollout_session of service_base.py around each service, and   *)
(* evaluation, marker and teardown behind the event loop, which is one     *)
(* step here (RolloutEventLoop).  Every await may fail or be cancelled.    *)
(***************************************************************************)
EXTENDS Integers, Sequences

CONSTANTS
  Order,         \* the services in the order run enters their sessions
  Remote,        \* the services that keep a session of their own
  Skipped,       \* the services configured with skip
  EvalEnabled    \* eval_config.enabled

Services == {Order[i] : i \in 1..Len(Order)}

\* run enters the session of each of its services once.
ASSUME SessionAssumption ==
  /\ EvalEnabled \in BOOLEAN /\ Order \in Seq(Services)
  /\ \A i, j \in 1..Len(Order) : Order[i] = Order[j] => i = j

VARIABLES
  phase,    \* create, log, enter, loop, evaluate, mark, leave, ended
  depth,    \* how many sessions are on the exit stack
  sessionStage,  \* inside a session: open or init, and cleanup or close
  exc,      \* the exception under way: none, body, teardown or cancel
  error,    \* rollout_session's teardown error not yet raised
  log,      \* the log writer's file: absent, open or closed
  info,     \* per service, whether session_info is set
  channel,  \* per service, whether its channel is open
  session,  \* per service, its remote session: none, open or closed
  refused,  \* services whose close_session failed, or was cut off
  marker,   \* the _complete file
  outcome   \* the JobResult: pending, success, failure, cancelled (none)

where == <<phase, depth, sessionStage>>
failing == <<exc, error>>
serviceVars == <<info, channel, session, refused>>
disk == <<log, marker>>
sessionVars == <<where, failing, serviceVars, disk, outcome>>

SessionTypeOK ==
  /\ phase \in {"create", "log", "enter", "loop", "evaluate", "mark", "leave", "ended"}
  /\ depth \in 0..Len(Order)
  /\ sessionStage \in {"open", "init", "cleanup", "close"}
  /\ exc \in {"none", "body", "teardown", "cancel"} /\ error \in BOOLEAN
  /\ log \in {"absent", "open", "closed"} /\ marker \in BOOLEAN
  /\ info \in [Services -> BOOLEAN] /\ channel \in [Services -> BOOLEAN]
  /\ session \in [Services -> {"none", "open", "closed"}]
  /\ refused \subseteq Services
  /\ outcome \in {"pending", "success", "failure", "cancelled"}

SessionInit ==
  /\ phase = "create" /\ depth = 0 /\ sessionStage = "open"
  /\ exc = "none" /\ error = FALSE
  /\ log = "absent" /\ marker = FALSE
  /\ info = [s \in Services |-> FALSE] /\ channel = info
  /\ session = [s \in Services |-> "none"]
  /\ refused = {}
  /\ outcome = "pending"

KeepsSession(s) == s \in Remote \ Skipped

\* What an await inside the body may raise.
Raised == {"body", "cancel"}

\* UnboundRollout.create and the service objects, before the exit stack.
Create ==
  /\ phase = "create"
  /\ \/ phase' = "log" /\ UNCHANGED exc
     \/ phase' = "ended" /\ exc' \in Raised
  /\ outcome' = IF phase' = "log" THEN outcome
                ELSE IF exc' = "cancel" THEN "cancelled" ELSE "failure"
  /\ UNCHANGED <<depth, sessionStage, error, serviceVars, disk>>

\* The broadcaster's context: the log file is created, or nothing entered.
OpenLog ==
  /\ phase = "log"
  /\ \/ /\ log' = "open"
        /\ \/ phase' = "enter" /\ UNCHANGED exc
           \/ phase' = "leave" /\ exc' \in Raised   \* _log_metadata fails
        /\ UNCHANGED outcome
     \/ /\ phase' = "ended" /\ exc' \in Raised
        /\ outcome' = IF exc' = "cancel" THEN "cancelled" ELSE "failure"
        /\ UNCHANGED log
  /\ UNCHANGED <<depth, sessionStage, error, serviceVars, marker>>

Entering == Order[depth + 1]

\* session_info is set, then the connection opened, outside the try: when it
\* fails, the sessions entered before are left, this one is not.
OpenConnection ==
  /\ phase = "enter" /\ sessionStage = "open" /\ depth < Len(Order)
  /\ info' = [info EXCEPT ![Entering] = TRUE]
  /\ \/ /\ channel' = [channel EXCEPT ![Entering] = Entering \notin Skipped]
        /\ sessionStage' = "init" /\ UNCHANGED <<phase, exc>>
     \/ /\ Entering \notin Skipped
        /\ exc' = "body" /\ phase' = "leave" /\ sessionStage' = "cleanup"
        /\ UNCHANGED channel
  /\ UNCHANGED <<depth, error, session, refused, disk, outcome>>

\* Mutant: a session whose start failed is not cleaned up.
InitializeWithoutCleanup ==
  /\ phase = "enter" /\ sessionStage = "init"
  /\ \/ /\ session' = [session EXCEPT ![Entering] = IF KeepsSession(Entering) THEN "open" ELSE "none"]
        /\ depth' = depth + 1 /\ sessionStage' = "open" /\ UNCHANGED <<phase, exc>>
     \/ /\ KeepsSession(Entering)
        /\ session' \in {session, [session EXCEPT ![Entering] = "open"]}
        /\ exc' \in Raised /\ phase' = "leave" /\ sessionStage' = "cleanup" /\ UNCHANGED depth
  /\ UNCHANGED <<error, info, channel, refused, disk, outcome>>

\* _initialize_session.  When its start_session fails the service may have
\* the session all the same; the session's own finally cleans it up.
Initialize ==
  /\ phase = "enter" /\ sessionStage = "init"
  /\ depth' = depth + 1
  /\ \/ /\ session' = [session EXCEPT ![Entering] = IF KeepsSession(Entering) THEN "open" ELSE "none"]
        /\ sessionStage' = "open" /\ UNCHANGED <<phase, exc>>
     \/ /\ KeepsSession(Entering)
        /\ session' \in {session, [session EXCEPT ![Entering] = "open"]}
        /\ exc' \in Raised /\ phase' = "leave" /\ sessionStage' = "cleanup"
  /\ UNCHANGED <<error, info, channel, refused, disk, outcome>>

\* All sessions are there; what run prepares between them may fail too.
StartLoop ==
  /\ phase = "enter" /\ sessionStage = "open"
  /\ \/ depth = Len(Order) /\ phase' = "loop" /\ UNCHANGED <<sessionStage, exc>>
     \/ phase' = "leave" /\ sessionStage' = "cleanup" /\ exc' \in Raised
  /\ UNCHANGED <<depth, error, serviceVars, disk, outcome>>

\* The event loop ends, by its end event or by an exception.
RunEventLoop ==
  /\ phase = "loop"
  /\ \/ phase' = "evaluate" /\ UNCHANGED <<sessionStage, exc>>
     \/ phase' = "leave" /\ sessionStage' = "cleanup" /\ exc' \in Raised
  /\ UNCHANGED <<depth, error, serviceVars, disk, outcome>>

\* Mutant: a rollout without an evaluation result is not marked.
EvaluateThenMark ==
  /\ phase = "evaluate"
  /\ \/ phase' = "mark" /\ UNCHANGED <<sessionStage, exc>>
     \/ EvalEnabled /\ phase' = "leave" /\ sessionStage' = "cleanup" /\ UNCHANGED exc
  /\ UNCHANGED <<depth, error, serviceVars, disk, outcome>>

\* run_evaluation: what fails in the subprocess is caught, what fails in
\* build_eval_input is not.
Evaluate ==
  /\ phase = "evaluate"
  /\ \/ phase' = "mark" /\ UNCHANGED <<sessionStage, exc>>
     \/ EvalEnabled /\ phase' = "leave" /\ sessionStage' = "cleanup" /\ exc' \in Raised
  /\ UNCHANGED <<depth, error, serviceVars, disk, outcome>>

\* mark_rollout_complete, before any session is left.
MarkComplete ==
  /\ phase = "mark"
  /\ \/ marker' = TRUE /\ UNCHANGED exc
     \/ exc' = "body" /\ UNCHANGED marker
  /\ phase' = "leave" /\ sessionStage' = "cleanup"
  /\ UNCHANGED <<depth, error, serviceVars, log, outcome>>

Leaving == Order[depth]

\* Mutant: an error of the teardown replaces the one under way.
CleanupMasks ==
  /\ phase = "leave" /\ sessionStage = "cleanup" /\ depth > 0
  /\ info' = [info EXCEPT ![Leaving] = FALSE]
  /\ \/ /\ session' = [session EXCEPT ![Leaving] = IF KeepsSession(Leaving) THEN "closed" ELSE "none"]
        /\ UNCHANGED <<error, refused, exc>>
     \/ /\ KeepsSession(Leaving)
        /\ error' = TRUE /\ refused' = refused \cup {Leaving}
        /\ exc' = "teardown" /\ UNCHANGED session
  /\ sessionStage' = "close"
  /\ UNCHANGED <<phase, depth, channel, disk, outcome>>

\* _cleanup_session: a failing close_session is remembered, and session_info
\* reset all the same.
Cleanup ==
  /\ phase = "leave" /\ sessionStage = "cleanup" /\ depth > 0
  /\ info' = [info EXCEPT ![Leaving] = FALSE]
  /\ \/ /\ session' = [session EXCEPT ![Leaving] = IF KeepsSession(Leaving) THEN "closed" ELSE "none"]
        /\ UNCHANGED <<error, refused>>
     \/ /\ KeepsSession(Leaving)
        /\ error' = TRUE /\ refused' = refused \cup {Leaving}
        /\ session' \in {session, [session EXCEPT ![Leaving] = "closed"]}
  /\ sessionStage' = "close"
  /\ UNCHANGED <<phase, depth, exc, channel, disk, outcome>>

\* A cancellation in _cleanup_session is no Exception: it leaves the finally
\* at once, with session_info and channel as they are.
CleanupCancelled ==
  /\ phase = "leave" /\ sessionStage = "cleanup" /\ depth > 0
  /\ exc # "cancel" /\ KeepsSession(Leaving)
  /\ exc' = "cancel" /\ refused' = refused \cup {Leaving}
  /\ depth' = depth - 1
  /\ UNCHANGED <<phase, sessionStage, error, info, channel, session, disk, outcome>>

\* _close_connection, and the end of the session: teardown errors are raised
\* unless an exception is under way.
Close ==
  /\ phase = "leave" /\ sessionStage = "close"
  /\ \E fails \in IF Leaving \in Skipped THEN {FALSE} ELSE BOOLEAN :
       /\ channel' = [channel EXCEPT ![Leaving] = fails]
       /\ exc' = IF exc = "none" /\ (error \/ fails) THEN "teardown" ELSE exc
  /\ error' = FALSE
  /\ depth' = depth - 1 /\ sessionStage' = "cleanup"
  /\ UNCHANGED <<phase, info, session, refused, disk, outcome>>

\* The log is closed last, and run_single_rollout turns what came out of run
\* into a JobResult; a cancellation passes it by.
CloseLog ==
  /\ phase = "leave" /\ depth = 0
  /\ \/ log' = "closed" /\ UNCHANGED exc
     \/ exc' \in {"teardown", "cancel"} /\ UNCHANGED log
  /\ phase' = "ended"
  /\ outcome' = CASE exc' = "none" -> "success"
                  [] exc' = "cancel" -> "cancelled"
                  [] exc' \in {"body", "teardown"} -> "failure"
  /\ UNCHANGED <<depth, sessionStage, error, serviceVars, marker>>

SessionNext ==
  \/ Create \/ OpenLog \/ OpenConnection \/ Initialize \/ StartLoop
  \/ RunEventLoop \/ Evaluate \/ MarkComplete
  \/ Cleanup \/ CleanupCancelled \/ Close \/ CloseLog

SessionSpec == SessionInit /\ [][SessionNext]_sessionVars

----------------------------------------------------------------------------
\* A session a service may have opened is closed in the end, unless that itself
\* failed; a success left nothing open.
NothingLeftOpen ==
  /\ phase = "ended" => \A s \in Services : session[s] = "open" => s \in refused
  /\ outcome = "success" =>
       /\ marker /\ log = "closed" /\ refused = {}
       /\ \A s \in Services : ~info[s] /\ ~channel[s]

(* Whatever fails, a session a service may have opened, also one whose start *)
(* was reported as failed, is closed when the rollout ends, unless the close *)
(* itself failed or was cut off; the log is open as long as a session is, so *)
(* no message of a teardown is lost; a job succeeds only when the loop ran,  *)
(* the marker is written and everything was closed; and the exception that   *)
(* made a rollout fail is the one reported: no error of its teardown         *)
(* replaces it.                                                              *)
SessionsClosed ==
  [][/\ SessionTypeOK' /\ NothingLeftOpen'
     /\ depth' > 0 => log' = "open"
     /\ exc = "body" => exc' \in {"body", "cancel"} \/ depth = 0]_sessionVars

Rec == INSTANCE RolloutRecord WITH
       Rollouts <- {"this"},
       record <- [r \in {"this"} |->
         [dir |-> log # "absent", marker |-> marker, result |-> outcome]]

(* Seen from outside a rollout is a directory, a marker and a result, in     *)
(* that order.                                                               *)
ImplementsRecord == Rec!RecordSpec
=============================================================================
