-------------------------- MODULE DaemonScheduler --------------------------
(***************************************************************************)
(* The runtime daemon: DaemonScheduler (daemon/scheduler.py) with its      *)
(* request store, the address pools it takes service slots from, the       *)
(* worker runtime it hands jobs to (worker/runtime.py), and the lifecycle  *)
(* the engine and the gRPC application put it through (daemon/engine.py,   *)
(* daemon/app.py).                                                         *)
(*                                                                         *)
(* Which pending job is dispatched next is left open here: the module is   *)
(* the scheduler over ANY DispatchStrategy.  FifoDispatch and              *)
(* SceneAffineDispatch extend it with the data of one strategy each.       *)
(*                                                                         *)
(* One event loop runs the handlers, the result pump and the shutdown, so  *)
(* code between two awaits that suspend is not interleaved with other      *)
(* coroutines.  dispatch_once never suspends, but worker processes see     *)
(* each job as soon as it is queued: it is one step per dispatched job,    *)
(* and no other coroutine runs until it is over (EventLoopFree).           *)
(***************************************************************************)
EXTENDS RequestStore

CONSTANTS
  Services,         \* BASE_SERVICE_NAMES and "renderer"
  Driver,           \* the one service a request can bring its own pool for
  DriverRequests,   \* requests submitted with a driver_pool
  Shared,           \* owner of the pools every request uses by default
  Slots,            \* ServiceAddress objects over all pools
  SlotsOf,          \* the slots a pool was built with
  SkipPools,        \* pools of skipped services: never limiting
  SkipSlot,         \* the synthetic slot a skip pool hands out
  Workers,          \* worker processes
  NumConsumers,     \* consumer tasks per worker
  None

(* A pool is named by the service it serves and the request that brought it. *)
Pools == (Services \X {Shared}) \cup ({Driver} \X DriverRequests)

(* _InFlightEntry; only a skip pool hands out the synthetic slot. *)
Entry ==
  {e \in [pools : [Services -> Pools], acquired : [Services -> Slots \cup {SkipSlot}]] :
     \A s \in Services : e.acquired[s] = SkipSlot <=> e.pools[s] \in SkipPools}

ASSUME DaemonAssumption ==
  /\ Driver \in Services
  /\ DriverRequests \subseteq Requests
  /\ Shared \notin Requests
  /\ SkipPools \subseteq Pools
  /\ SkipSlot \notin Slots
  /\ SlotsOf \in [Pools -> SUBSET Slots]
  /\ \A p, q \in Pools : p # q => SlotsOf[p] \cap SlotsOf[q] = {}
  \* compute_max_in_flight rejects a pool of zero capacity, and simulate one
  \* with n_concurrent_per_driver < 1; a skip pool has no slots at all.
  /\ \A p \in Pools : SlotsOf[p] = {} <=> p \in SkipPools
  /\ NumConsumers \in Nat \ {0}
  /\ None \notin Jobs /\ None \notin Entry

VARIABLES
  accepting,     \* _accepting_requests
  pending,       \* jobs the dispatch strategy holds
  requestPools,  \* keys of _request_pools: requests with a driver pool override
  free,          \* slots in each pool's deque
  inFlight,      \* _in_flight: per job, the pools and slots it was given
  pump,          \* where the task running _dispatch_loop is
  polled,        \* the result the executor thread of poll_result has taken
  jobQueue,      \* job_queue: dispatched, not yet taken by a worker
  running,       \* jobs each worker is executing
  resultQueue,   \* result_queue
  workers,       \* state of each worker process
  phase          \* where RuntimeDaemonApp.run is

schedVars  == <<accepting, pending, requestPools, free, inFlight>>
workerVars == <<jobQueue, running, resultQueue, workers>>
vars == <<storeVars, waiter, schedVars, pump, polled, workerVars, phase>>

Phases == {"serving", "stopping server", "cancelling handlers", "stopping engine",
           "stopping workers", "stopped", "shutdown raised"}

TypeOK ==
  /\ StoreTypeOK
  /\ accepting \in BOOLEAN
  /\ pending \subseteq Jobs
  /\ requestPools \subseteq DriverRequests
  /\ free \in [Pools -> SUBSET Slots]
  /\ inFlight \in [Jobs -> Entry \cup {None}]
  /\ pump \in {"polling", "dispatching", "failed", "cancelled"}
  /\ polled \in Jobs \cup {None}
  /\ jobQueue \subseteq Jobs
  /\ running \in [Workers -> SUBSET Jobs]
  /\ resultQueue \subseteq Jobs
  /\ workers \in [Workers -> {"alive", "crashed", "exited"}]
  /\ phase \in Phases

Init ==
  /\ StoreInit
  /\ accepting = TRUE
  /\ pending = {}
  /\ requestPools = {}
  /\ free = SlotsOf
  /\ inFlight = [j \in Jobs |-> None]
  /\ pump = "polling"
  /\ polled = None
  /\ jobQueue = {}
  /\ running = [w \in Workers |-> {}]
  /\ resultQueue = {}
  /\ workers = [w \in Workers |-> "alive"]
  /\ phase = "serving"

EventLoopFree ==
  /\ pump # "dispatching"
  /\ \A r \in Requests : waiter[r] # "dispatching"

Crashed == \E w \in Workers : workers[w] = "crashed"

-----------------------------------------------------------------------------
(* The gRPC server runs handlers until it cancels those its grace period left. *)
ServerAdmits == phase \in {"serving", "stopping server"}

(* simulate: register the request, enqueue its jobs, enter dispatch_once. *)
Submit(r) ==
  /\ EventLoopFree
  /\ ServerAdmits
  /\ waiter[r] = "new"
  /\ accepting
  /\ Register(r)
  /\ requestPools' = requestPools \cup ({r} \cap DriverRequests)
  /\ pending' = pending \cup JobsOf(r)
  /\ waiter' = [waiter EXCEPT ![r] = "dispatching"]
  /\ UNCHANGED <<accepting, free, inFlight, pump, polled, workerVars, phase>>

(* simulate called once the scheduler has stopped accepting requests. *)
Refuse(r) ==
  /\ EventLoopFree
  /\ waiter[r] = "new"
  /\ ~accepting
  /\ waiter' = [waiter EXCEPT ![r] = "refused"]
  /\ UNCHANGED <<storeVars, schedVars, pump, polled, workerVars, phase>>

-----------------------------------------------------------------------------
(* The pool each service of a job of request r is taken from. *)
PoolOf(r, s) == <<s, IF s = Driver /\ r \in requestPools THEN r ELSE Shared>>

PoolsOf(j) == [s \in Services |-> PoolOf(RequestOf[j], s)]

(* The outcomes of try_acquire_all: one slot of every pool, or nothing. *)
Acquisitions(j) ==
  {acq \in [Services -> Slots \cup {SkipSlot}] :
     \A s \in Services :
       IF PoolsOf(j)[s] \in SkipPools THEN acq[s] = SkipSlot
                                      ELSE acq[s] \in free[PoolsOf(j)[s]]}

(* Mutant: the reservation is not committed, the job stays queued. *)
DispatchWithoutCommit(j, acq) ==
  /\ j \in pending
  /\ acq \in Acquisitions(j)
  /\ free' = [p \in Pools |->
                free[p] \ {acq[s] : s \in {t \in Services : PoolsOf(j)[t] = p}}]
  /\ inFlight' = [inFlight EXCEPT ![j] = [pools |-> PoolsOf(j), acquired |-> acq]]
  /\ jobQueue' = jobQueue \cup {j}
  /\ UNCHANGED <<storeVars, waiter, accepting, pending, requestPools, pump, polled,
                 running, resultQueue, workers, phase>>

(* dispatch_once has room for one more job: reserve, acquire, commit, submit. *)
Dispatch(j, acq) ==
  /\ j \in pending
  /\ acq \in Acquisitions(j)
  /\ pending' = pending \ {j}
  /\ free' = [p \in Pools |->
                free[p] \ {acq[s] : s \in {t \in Services : PoolsOf(j)[t] = p}}]
  /\ inFlight' = [inFlight EXCEPT ![j] = [pools |-> PoolsOf(j), acquired |-> acq]]
  /\ jobQueue' = jobQueue \cup {j}
  /\ UNCHANGED <<storeVars, waiter, accepting, requestPools, pump, polled,
                 running, resultQueue, workers, phase>>

(* Some pool the job needs has no free slot; what was acquired is rolled back. *)
Blocked(j) ==
  \E s \in Services : PoolsOf(j)[s] \notin SkipPools /\ free[PoolsOf(j)[s]] = {}

(* dispatch_once returns to the handler, which awaits the completion future. *)
SubmitReturns(r) ==
  /\ waiter[r] = "dispatching"
  /\ waiter' = [waiter EXCEPT
                  ![r] = IF completion[r] = "pending" THEN "waiting" ELSE "returned"]
  /\ registered' = IF completion[r] = "pending" THEN registered ELSE registered \ {r}
  /\ requestPools' = IF completion[r] = "pending" THEN requestPools ELSE requestPools \ {r}
  /\ UNCHANGED <<pendingJobs, results, completion, abandoned, accepting, pending, free,
                 inFlight, pump, polled, workerVars, phase>>

(* dispatch_once returns to the pump, which polls for the next result. *)
PumpReturns ==
  /\ pump = "dispatching"
  /\ pump' = "polling"
  /\ UNCHANGED <<storeVars, waiter, schedVars, polled, workerVars, phase>>

(* One iteration of dispatch_once, for the job j a strategy selects. *)
DispatchStep(j) == ~EventLoopFree /\ \E acq \in Acquisitions(j) : Dispatch(j, acq)

DispatchReturns == PumpReturns \/ \E r \in Requests : SubmitReturns(r)

(* The loop ends with nothing pending, or at the first job that does not fit. *)
DispatchEnds ==
  /\ pending = {} \/ \E j \in pending : Blocked(j)
  /\ DispatchReturns

-----------------------------------------------------------------------------
(* wait_request resumes; a driver pool override ends with a successful wait. *)
Wake(r) ==
  /\ EventLoopFree
  /\ WaiterWakes(r)
  /\ requestPools' = IF completion[r] = "resolved" THEN requestPools \ {r} ELSE requestPools
  /\ UNCHANGED <<accepting, pending, free, inFlight, pump, polled, workerVars, phase>>

(* The client of a waiting RPC goes away. *)
Disconnect(r) ==
  /\ EventLoopFree
  /\ waiter[r] = "waiting"
  /\ CancelWaiters({r})
  /\ UNCHANGED <<schedVars, pump, polled, workerVars, phase>>

(* Mutant: a cancelled wait drops the driver pool of the request as well. *)
AbandonPools(r) ==
  /\ EventLoopFree
  /\ WaiterAbandons(r)
  /\ requestPools' = requestPools \ {r}
  /\ UNCHANGED <<accepting, pending, free, inFlight, pump, polled, workerVars, phase>>

(* The cancelled handler runs; its driver pool override stays, for its jobs. *)
Abandon(r) ==
  /\ EventLoopFree
  /\ WaiterAbandons(r)
  /\ UNCHANGED <<schedVars, pump, polled, workerVars, phase>>

-----------------------------------------------------------------------------
(* poll_result: a thread of the executor takes a result off the queue. *)
ThreadPolls(j) ==
  /\ pump = "polling" /\ polled = None
  /\ j \in resultQueue
  /\ resultQueue' = resultQueue \ {j}
  /\ polled' = j
  /\ UNCHANGED <<storeVars, waiter, schedVars, pump, jobQueue, running, workers, phase>>

(* Mutant: slots are released into the scheduler's own pools. *)
ReleaseToShared(entry) ==
  free' = [p \in Pools |->
             IF p \in SkipPools \/ p[2] # Shared THEN free[p]
             ELSE free[p] \cup {entry.acquired[p[1]]}]

(* on_result releases into the pools the entry was acquired from. *)
ReleaseAll(entry) ==
  free' = [p \in Pools |->
             IF p \in SkipPools THEN free[p]
             ELSE free[p] \cup {entry.acquired[s] :
                                  s \in {t \in Services : entry.pools[t] = p}}]

(* on_result: the entry is gone and its slots are back before record_result. *)
ReleaseEntry(j) ==
  /\ inFlight[j] # None
  /\ inFlight' = [inFlight EXCEPT ![j] = None]
  /\ ReleaseAll(inFlight[j])
  /\ UNCHANGED <<accepting, pending, requestPools>>

(* Mutant: the pump does not dispatch after a result. *)
ProcessWithoutDispatch(j) ==
  /\ ~Crashed
  /\ ReleaseEntry(j)
  /\ Recordable(j) /\ RecordAndReap(j)
  /\ UNCHANGED pump

(* A result the pump accepts: release the slots, record it, dispatch again. *)
ProcessResult(j) ==
  /\ ~Crashed
  /\ ReleaseEntry(j)
  /\ Recordable(j) /\ RecordAndReap(j)
  /\ pump' = "dispatching"

(* An exception in the loop: the pump fails all requests and ends. *)
PumpFails ==
  /\ pump' = "failed"
  /\ FailAllRequests

(* check_for_crashes raises, or on_result does: on a job that is not in       *)
(* flight, or after the release on a request that expects no more results.    *)
ResultFails(j) ==
  /\ Crashed \/ inFlight[j] = None \/ ~Recordable(j)
  /\ IF Crashed \/ inFlight[j] = None THEN UNCHANGED schedVars ELSE ReleaseEntry(j)
  /\ PumpFails

(* The result is handled on the event loop, after a check for dead workers. *)
PumpResult ==
  /\ EventLoopFree
  /\ pump = "polling" /\ polled # None
  /\ polled' = None
  /\ ProcessResult(polled) \/ ResultFails(polled)
  /\ UNCHANGED <<waiter, workerVars, phase>>

(* poll_result timed out, and a worker is found dead. *)
PumpTimeout ==
  /\ EventLoopFree
  /\ pump = "polling" /\ polled = None
  /\ Crashed
  /\ PumpFails
  /\ UNCHANGED <<waiter, schedVars, polled, workerVars, phase>>

-----------------------------------------------------------------------------
(* A consumer task of a worker takes a job, and later reports its result. *)
TakeJob(w, j) ==
  /\ workers[w] = "alive"
  /\ j \in jobQueue
  /\ Cardinality(running[w]) < NumConsumers
  /\ jobQueue' = jobQueue \ {j}
  /\ running' = [running EXCEPT ![w] = @ \cup {j}]
  /\ UNCHANGED <<storeVars, waiter, schedVars, pump, polled, resultQueue, workers, phase>>

FinishJob(w, j) ==
  /\ j \in running[w]
  /\ running' = [running EXCEPT ![w] = @ \ {j}]
  /\ resultQueue' = resultQueue \cup {j}
  /\ UNCHANGED <<storeVars, waiter, schedVars, pump, polled, jobQueue, workers, phase>>

(* A worker dies with a nonzero exit code, and its rollouts with it. *)
CrashWorker(w) ==
  /\ workers[w] = "alive"
  /\ workers' = [workers EXCEPT ![w] = "crashed"]
  /\ running' = [running EXCEPT ![w] = {}]
  /\ UNCHANGED <<storeVars, waiter, schedVars, pump, polled, jobQueue, resultQueue, phase>>

-----------------------------------------------------------------------------
(* Mutant: the engine is shut down before the gRPC server. *)
ShutdownEngineFirst ==
  /\ phase = "serving"
  /\ phase' = "stopping engine"
  /\ UNCHANGED <<storeVars, waiter, schedVars, pump, polled, workerVars>>

(* A signal, or the shut_down RPC: the gRPC server starts its grace period. *)
RequestShutdown ==
  /\ phase = "serving"
  /\ phase' = "stopping server"
  /\ UNCHANGED <<storeVars, waiter, schedVars, pump, polled, workerVars>>

(* server.stop: handlers still waiting when the grace period ends are cancelled. *)
GraceExpires ==
  /\ EventLoopFree
  /\ phase = "stopping server"
  /\ phase' = "cancelling handlers"
  /\ CancelWaiters({r \in Requests : waiter[r] = "waiting"})
  /\ UNCHANGED <<schedVars, pump, polled, workerVars>>

(* server.stop returns when no handler is left. *)
ServerStops ==
  /\ phase \in {"stopping server", "cancelling handlers"}
  /\ \A r \in Requests : waiter[r] \in {"new"} \cup Ended
  /\ phase' = "stopping engine"
  /\ UNCHANGED <<storeVars, waiter, schedVars, pump, polled, workerVars>>

(* DaemonScheduler.shutdown: fail what is queued, then cancel the pump.  It  *)
(* raises on a queued request the store no longer knows, and re-raises the   *)
(* exception of a pump that has already failed.                              *)
ShutdownScheduler ==
  LET drained == {RequestOf[j] : j \in pending} IN
  /\ EventLoopFree
  /\ phase = "stopping engine"
  /\ accepting' = FALSE
  /\ pending' = {}
  /\ \/ /\ drained \subseteq registered
        /\ requestPools' = requestPools \ drained
        /\ FailRequests(drained)
        /\ IF pump = "failed"
             THEN phase' = "shutdown raised" /\ UNCHANGED pump
             ELSE phase' = "stopping workers" /\ pump' = "cancelled"
     \/ \E unknown \in drained \ registered, failed \in SUBSET (drained \cap registered) :
          /\ requestPools' = requestPools \ (failed \cup {unknown})
          /\ FailRequests(failed)
          /\ phase' = "shutdown raised"
          /\ UNCHANGED pump
  /\ UNCHANGED <<waiter, registered, pendingJobs, results, abandoned, free, inFlight,
                 polled, workerVars>>

(* WorkerRuntime.stop: sentinels, join, and termination of whoever remains. *)
StopWorkers ==
  /\ EventLoopFree
  /\ phase = "stopping workers"
  /\ phase' = "stopped"
  /\ workers' = [w \in Workers |-> IF workers[w] = "alive" THEN "exited" ELSE workers[w]]
  /\ running' = [w \in Workers |-> {}]
  /\ UNCHANGED <<storeVars, waiter, schedVars, pump, polled, jobQueue, resultQueue>>

-----------------------------------------------------------------------------
(* Steps no dispatch strategy takes part in. *)
OtherStep ==
  \/ \E r \in Requests : Refuse(r) \/ Wake(r) \/ Disconnect(r) \/ Abandon(r)
  \/ \E j \in Jobs : ThreadPolls(j)
  \/ PumpTimeout
  \/ \E w \in Workers : CrashWorker(w) \/ \E j \in Jobs : TakeJob(w, j) \/ FinishJob(w, j)
  \/ RequestShutdown \/ GraceExpires \/ ServerStops \/ StopWorkers

Next ==
  \/ \E r \in Requests : Submit(r)
  \/ \E j \in Jobs : DispatchStep(j)
  \/ DispatchEnds
  \/ PumpResult
  \/ ShutdownScheduler
  \/ OtherStep

Spec == Init /\ [][Next]_vars

-----------------------------------------------------------------------------
(* Fairness: the event loop keeps running what is ready, poll_result times   *)
(* out, workers take jobs, and a rollout ends (every RPC of a rollout ends;  *)
(* that a service answers is assumed).  A started server shutdown runs on    *)
(* its own timers.  Nothing makes a client call, disconnect or a worker die. *)
HandlerFairness ==
  \A r \in Requests :
    WF_vars(Wake(r)) /\ WF_vars(Abandon(r))
PumpFairness ==
  /\ WF_vars(PumpResult) /\ WF_vars(PumpTimeout)
  /\ WF_vars(\E j \in Jobs : ThreadPolls(j))
WorkerFairness ==
  \A w \in Workers :
    /\ WF_vars(\E j \in Jobs : TakeJob(w, j))
    /\ \A j \in Jobs : WF_vars(FinishJob(w, j))
ShutdownFairness == WF_vars(GraceExpires) /\ WF_vars(ServerStops) /\ WF_vars(StopWorkers)

CommonFairness == HandlerFairness /\ PumpFairness /\ WorkerFairness /\ ShutdownFairness

FairSpec ==
  /\ Spec /\ CommonFairness
  /\ WF_vars(DispatchEnds \/ \E j \in Jobs : DispatchStep(j))
  /\ WF_vars(ShutdownScheduler)

-----------------------------------------------------------------------------
(* Slots of a pool that in-flight jobs hold. *)
Holds(j, s, p, x) ==
  /\ inFlight[j] # None
  /\ inFlight[j].pools[s] = p
  /\ inFlight[j].acquired[s] = x

(* No service slot is leaked or booked twice, whatever fails or is cancelled: *)
(* each slot of a pool is either in that pool's deque or held by exactly one  *)
(* service of one in-flight job, which took it from that very pool.           *)
SlotsConserved ==
  \A p \in Pools :
    /\ free[p] \subseteq SlotsOf[p]
    /\ \A x \in SlotsOf[p] \ free[p] : \E j \in Jobs, s \in Services : Holds(j, s, p, x)
    /\ \A j \in Jobs, s \in Services, x \in Slots :
         Holds(j, s, p, x) =>
           /\ x \in SlotsOf[p] \ free[p]
           /\ \A k \in Jobs, t \in Services : Holds(k, t, p, x) => k = j /\ t = s

(* A job of a request that brought its own drivers only ever drives on them,  *)
(* even after its waiter was cancelled ("overrides the global driver pool for *)
(* all jobs belonging to this request").                                      *)
OverrideRespected ==
  \A j \in Jobs :
    inFlight[j] # None =>
      inFlight[j].pools[Driver] =
        <<Driver, IF RequestOf[j] \in DriverRequests THEN RequestOf[j] ELSE Shared>>

(* The worker side of an in-flight job: where its token is. *)
Places(j) ==
  (IF j \in jobQueue THEN {"job queue"} ELSE {}) \cup
  (IF \E w \in Workers : j \in running[w] THEN {"worker"} ELSE {}) \cup
  (IF j \in resultQueue THEN {"result queue"} ELSE {}) \cup
  (IF polled = j THEN {"polled"} ELSE {})

(* A dispatched job is in at most one place, in no place unless in flight     *)
(* while the pump lives, and lost only by a crash, by the pump's end or when  *)
(* the workers are stopped; a job still pending is nowhere on that side.      *)
NoJobLostOrDuplicated ==
  \A j \in Jobs :
    /\ Cardinality(Places(j)) <= 1
    /\ Cardinality({w \in Workers : j \in running[w]}) <= 1
    /\ j \in pending => Places(j) = {} /\ inFlight[j] = None
    /\ Places(j) # {} => inFlight[j] # None
    /\ inFlight[j] # None /\ Places(j) = {} => Crashed \/ phase = "stopped"

Outstanding(r) == {j \in JobsOf(r) : j \in pending \/ inFlight[j] # None}

(* While requests are accepted, pending_jobs of a tracked request is exactly  *)
(* the number of its jobs still queued or in flight, and the other jobs have  *)
(* their result recorded: neither a cancelled waiter nor a reap disturbs it.  *)
PendingCountExact ==
  accepting /\ pump # "failed" =>
    \A r \in registered :
      /\ pendingJobs[r] = Cardinality(Outstanding(r))
      /\ results[r] = JobsOf(r) \ Outstanding(r)

(* A request with outstanding jobs is never forgotten while the pump lives:   *)
(* so no result raises in on_result, and the pump ends only with a worker     *)
(* ("kept so that in-flight results can still be recorded without crashing    *)
(* the scheduler's dispatch loop").                                           *)
PumpEndsOnlyByCrash == pump = "failed" => Crashed

(* What simulate returns is complete: every job reported, none outstanding.   *)
ReturnsAllResults ==
  \A r \in Requests :
    waiter[r] = "returned" => results[r] = JobsOf(r) /\ Outstanding(r) = {}

(* The requests are accounted for: what is still to come is counted to the    *)
(* job while requests are accepted, and what simulate has returned lacks none *)
(* and waits for none (daemon/request_store.py).                              *)
RequestsAccounted == PendingCountExact /\ ReturnsAllResults

(* The pools are respected from dispatch to release: no slot is lost or taken *)
(* twice, and those of a request's own drivers and of everybody's are never   *)
(* mixed up (daemon/scheduler.py dispatch_once and on_result).                *)
PoolsRespected == SlotsConserved /\ OverrideRespected

(* dispatch_once never gives up on the last chance: when the event loop is    *)
(* idle with jobs pending and the pump alive, some job is in flight, whose    *)
(* result will trigger the next round.  And stopping the gRPC server before   *)
(* the engine keeps a shutdown from stranding a request: the scheduler does   *)
(* not resolve requests whose jobs are all in flight, so by then no handler   *)
(* may still be waiting for one.                                              *)
NobodyStranded ==
  /\ EventLoopFree /\ pump = "polling" /\ pending # {} => \E j \in Jobs : inFlight[j] # None
  /\ ~accepting => \A r \in Requests : waiter[r] # "waiting"

(* Every request accepted while the pump is alive ends, also when workers     *)
(* crash, clients disconnect or the daemon shuts down; and a shutdown comes   *)
(* to an end, also when a handler would wait for ever.                        *)
AcceptedRequestsEnd ==
  /\ \A r \in Requests :
       (waiter[r] = "waiting" /\ pump # "failed") ~> (waiter[r] \in Ended)
  /\ phase = "stopping server" ~> phase \in {"stopped", "shutdown raised"}

(* DaemonEngine.shutdown "stops the scheduler's dispatch loop, and finally    *)
(* stops all workers": when it is over no worker is left running.             *)
ShutdownStopsWorkers ==
  phase \in {"stopped", "shutdown raised"} => \A w \in Workers : workers[w] # "alive"

=============================================================================
