----------------------------- MODULE WorkerPool ------------------------------
(***************************************************************************)
(* The worker processes (worker/runtime.py, worker/main.py): consumers     *)
(* that share one job queue, the sentinels that stop them, orphan and      *)
(* crash detection, and the parent's stop.  A consumer polls the queue in  *)
(* an executor thread, so an item is out of the queue before the coroutine *)
(* sees it; a cancelled consumer leaves its thread behind.                 *)
(***************************************************************************)
EXTENDS Integers, Sequences, FiniteSets

CONSTANTS
  Jobs,        \* assigned rollout jobs
  Workers,     \* indexes of the workers, 1..nr_workers
  Consumers,   \* consumer tasks of one worker
  Sentinel,    \* SHUTDOWN_SENTINEL
  NoItem       \* a consumer without an item

ASSUME WorkersAssumption ==
  /\ Workers # {} /\ Workers = 1..Cardinality(Workers)
  /\ Sentinel \notin Jobs /\ NoItem \notin Jobs \cup {Sentinel}

VARIABLES
  inline,     \* one worker, run as a task of the parent
  queue,      \* the job queue
  unsent,     \* jobs the parent has not submitted yet
  results,    \* jobs whose result is on the result queue
  parent,     \* running, joining (in stop), stopped or dead
  joining,    \* the worker stop waits for
  stopping,   \* per worker, its shutdown_event
  pc,         \* per worker and consumer, where its coroutine is
  item,       \* per worker and consumer, what its thread or coroutine holds
  exit        \* per worker: alive, failing, ok, failed or killed

consumerVars == <<pc, item>>
parentVars == <<unsent, parent, joining>>
workersVars == <<inline, queue, results, stopping, exit, consumerVars, parentVars>>

Items == Jobs \cup {Sentinel, NoItem}

\* The workers of this run: in the inline mode there is one.
Started == IF inline THEN {1} ELSE Workers

WorkersTypeOK ==
  /\ inline \in BOOLEAN
  /\ queue \in Seq(Jobs \cup {Sentinel})
  /\ unsent \subseteq Jobs /\ results \subseteq Jobs
  /\ parent \in {"running", "joining", "stopped", "dead"}
  /\ joining \in Workers
  /\ stopping \in [Workers -> BOOLEAN]
  /\ pc \in [Workers -> [Consumers -> {"head", "polling", "polled", "rolling", "done"}]]
  /\ item \in [Workers -> [Consumers -> Items]]
  /\ exit \in [Workers -> {"alive", "failing", "ok", "failed", "killed"}]

WorkersInit ==
  /\ inline \in BOOLEAN
  /\ queue = <<>> /\ results = {} /\ unsent = Jobs
  /\ parent = "running" /\ joining = 1
  /\ stopping = [w \in Workers |-> FALSE]
  /\ pc = [w \in Workers |-> [c \in Consumers |-> IF w \in Started THEN "head" ELSE "done"]]
  /\ item = [w \in Workers |-> [c \in Consumers |-> NoItem]]
  /\ exit = [w \in Workers |-> IF w \in Started THEN "alive" ELSE "ok"]

----------------------------------------------------------------------------
\* submit_assigned_job.
Submit(j) ==
  /\ parent = "running" /\ j \in unsent
  /\ unsent' = unsent \ {j}
  /\ queue' = Append(queue, j)
  /\ UNCHANGED <<inline, results, stopping, exit, consumerVars, parent, joining>>

\* stop: one sentinel per worker behind the jobs, then the joins.
Stop ==
  /\ parent = "running"
  /\ queue' = queue \o [w \in Started |-> Sentinel]
  /\ parent' = "joining"
  /\ UNCHANGED <<inline, unsent, results, stopping, exit, consumerVars, joining>>

\* proc.join returns (inline: the await of the task does), and stop goes on.
JoinReturns ==
  /\ parent = "joining"
  /\ exit[joining] \notin {"alive", "failing"}
  /\ IF joining + 1 \in Started THEN joining' = joining + 1 /\ UNCHANGED parent
     ELSE parent' = "stopped" /\ UNCHANGED joining
  /\ UNCHANGED <<inline, queue, unsent, results, stopping, exit, consumerVars>>

\* The 30 s of proc.join pass and the process is terminated.
JoinTimesOut ==
  /\ ~inline
  /\ parent = "joining" /\ exit[joining] \in {"alive", "failing"}
  /\ exit' = [exit EXCEPT ![joining] = "killed"]
  /\ UNCHANGED <<inline, queue, unsent, results, stopping, consumerVars, parent, joining>>

\* The parent process dies: nobody stops the workers any more.
ParentDies ==
  /\ ~inline
  /\ parent \in {"running", "joining"}
  /\ parent' = "dead"
  /\ UNCHANGED <<inline, queue, unsent, results, stopping, exit, consumerVars, joining>>

----------------------------------------------------------------------------
\* Worker w still schedules its consumers.
Runs(w) == exit[w] = "alive"

\* The head of job_consumer's loop: stop, detect that the parent is gone, or
\* hand a poll to the executor.
LoopHead(w, c) ==
  /\ Runs(w) /\ pc[w][c] = "head"
  /\ IF stopping[w] THEN
       /\ pc' = [pc EXCEPT ![w][c] = "done"]
       /\ UNCHANGED stopping
     ELSE IF ~inline /\ parent = "dead" THEN
       /\ stopping' = [stopping EXCEPT ![w] = TRUE]
       /\ pc' = [pc EXCEPT ![w][c] = "done"]
     ELSE
       /\ pc' = [pc EXCEPT ![w][c] = "polling"]
       /\ UNCHANGED stopping
  /\ UNCHANGED <<inline, queue, results, exit, item, parentVars>>

\* job_queue.get returns in the executor thread, also in a process that is
\* already failing: its threads poll on until their timeout.
ThreadGets(w, c) ==
  /\ exit[w] \in {"alive", "failing"}
  /\ pc[w][c] = "polling" /\ queue # <<>>
  /\ item' = [item EXCEPT ![w][c] = Head(queue)]
  /\ queue' = Tail(queue)
  /\ pc' = [pc EXCEPT ![w][c] = IF Runs(w) THEN "polled" ELSE "done"]
  /\ UNCHANGED <<inline, results, stopping, exit, parentVars>>

\* The poll times out: the coroutine tries again.
PollTimesOut(w, c) ==
  /\ exit[w] \in {"alive", "failing"}
  /\ pc[w][c] = "polling" /\ queue = <<>>
  /\ pc' = [pc EXCEPT ![w][c] = IF Runs(w) THEN "head" ELSE "done"]
  /\ UNCHANGED <<inline, queue, results, stopping, exit, item, parentVars>>

\* Mutant: the consumer takes the sentinel as meant for itself alone.
KeepToItself(w, c) ==
  /\ Runs(w) /\ pc[w][c] = "polled" /\ item[w][c] = Sentinel
  /\ item' = [item EXCEPT ![w][c] = NoItem]
  /\ pc' = [pc EXCEPT ![w][c] = "done"]
  /\ UNCHANGED <<inline, queue, results, stopping, exit, parentVars>>

\* The coroutine got the sentinel: back on the queue for the others.
PassSentinelOn(w, c) ==
  /\ Runs(w) /\ pc[w][c] = "polled" /\ item[w][c] = Sentinel
  /\ queue' = Append(queue, Sentinel)
  /\ item' = [item EXCEPT ![w][c] = NoItem]
  /\ stopping' = [stopping EXCEPT ![w] = TRUE]
  /\ pc' = [pc EXCEPT ![w][c] = "done"]
  /\ UNCHANGED <<inline, results, exit, parentVars>>

\* The coroutine got a job, whether or not the worker is stopping.
StartRollout(w, c) ==
  /\ Runs(w) /\ pc[w][c] = "polled" /\ item[w][c] \in Jobs
  /\ pc' = [pc EXCEPT ![w][c] = "rolling"]
  /\ UNCHANGED <<inline, queue, results, stopping, exit, item, parentVars>>

\* Mutant: a stopping worker drops the result.
ReportUnlessStopping(w, c) ==
  /\ Runs(w) /\ pc[w][c] = "rolling"
  /\ results' = IF stopping[w] THEN results ELSE results \cup {item[w][c]}
  /\ item' = [item EXCEPT ![w][c] = NoItem]
  /\ pc' = [pc EXCEPT ![w][c] = "head"]
  /\ UNCHANGED <<inline, queue, stopping, exit, parentVars>>

\* run_single_rollout returns, with success or with the error it caught.
Report(w, c) ==
  /\ Runs(w) /\ pc[w][c] = "rolling"
  /\ results' = results \cup {item[w][c]}
  /\ item' = [item EXCEPT ![w][c] = NoItem]
  /\ pc' = [pc EXCEPT ![w][c] = "head"]
  /\ UNCHANGED <<inline, queue, stopping, exit, parentVars>>

\* get_data_source raises outside run_single_rollout's try: the task group
\* cancels the siblings; only their polling threads live on.
SceneFails(w, c) ==
  /\ Runs(w) /\ pc[w][c] = "polled" /\ item[w][c] \in Jobs
  /\ exit' = [exit EXCEPT ![w] = "failing"]
  /\ pc' = [pc EXCEPT ![w] = [d \in Consumers |->
              IF d # c /\ pc[w][d] = "polling" THEN "polling" ELSE "done"]]
  /\ UNCHANGED <<inline, queue, results, stopping, item, parentVars>>

\* All consumers of w are done (or gone): the process ends.
WorkerExits(w) ==
  /\ exit[w] \in {"alive", "failing"}
  /\ \A c \in Consumers : pc[w][c] = "done"
  /\ exit' = [exit EXCEPT ![w] = IF Runs(w) THEN "ok" ELSE "failed"]
  /\ UNCHANGED <<inline, queue, results, stopping, consumerVars, parentVars>>

\* The process is killed from outside.
WorkerDies(w) ==
  /\ ~inline /\ exit[w] \in {"alive", "failing"}
  /\ exit' = [exit EXCEPT ![w] = "killed"]
  /\ UNCHANGED <<inline, queue, results, stopping, consumerVars, parentVars>>

ConsumerStep(w, c) ==
  \/ LoopHead(w, c) \/ ThreadGets(w, c) \/ PollTimesOut(w, c)
  \/ PassSentinelOn(w, c) \/ StartRollout(w, c) \/ Report(w, c)

WorkersNext ==
  \/ \E j \in Jobs : Submit(j)
  \/ Stop \/ JoinReturns \/ JoinTimesOut \/ ParentDies
  \/ \E w \in Workers : WorkerExits(w) \/ WorkerDies(w)
  \/ \E w \in Workers, c \in Consumers : ConsumerStep(w, c) \/ SceneFails(w, c)

WorkersSpec == WorkersInit /\ [][WorkersNext]_workersVars

\* A worker that is scheduled goes on: its polls return, its rollouts end.
FairWorkers ==
  \A w \in Workers : WF_workersVars(WorkerExits(w)) /\ \A c \in Consumers : WF_workersVars(ConsumerStep(w, c))

WorkersFairSpec == WorkersSpec /\ FairWorkers

----------------------------------------------------------------------------
Gone(w) == exit[w] \in {"failing", "failed", "killed"}

Held(x) == \E w \in Workers, c \in Consumers : ~Gone(w) /\ item[w][c] = x

Queued(x) == \E i \in 1..Len(queue) : queue[i] = x

(* No job is lost unseen.  A submitted job that is neither queued, in the    *)
(* hands of a live consumer nor reported was lost with a worker that the     *)
(* parent can see, or will see, to have crashed.  A worker leaves with exit  *)
(* code 0 only after stop or the parent's death, and then every job accepted *)
(* before was run and reported: the sentinels are behind all jobs.           *)
JobsAccountedFor ==
  /\ WorkersTypeOK
  /\ \A j \in Jobs \ (unsent \cup results) :
       Queued(j) \/ Held(j) \/ \E w \in Workers : Gone(w)
  /\ (\A w \in Workers : exit[w] = "ok") /\ parent # "dead"
       => parent \in {"joining", "stopped"} /\ results \cup unsent = Jobs

(* Without a crash all workers leave on the sentinels alone, each consumer   *)
(* passing them on; after the parent's death they leave as orphans.  On the  *)
(* way no job is lost unseen (JobsAccountedFor).                             *)
WorkersLeave ==
  /\ [][JobsAccountedFor']_workersVars
  /\ parent \in {"joining", "dead"} ~>
       (\A w \in Workers : exit[w] # "alive") \/ \E w \in Workers : Gone(w)
=============================================================================
