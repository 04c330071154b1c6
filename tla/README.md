# A TLA+ model of AlpaSim

AlpaSim is a closed-loop driving simulator made of services that talk gRPC: a
*runtime* that owns simulated time and orchestrates everything, and a *driver*,
*renderer*, *physics*, *traffic* and *controller* service.  A *wizard* deploys
them and an *evaluation* judges what they leave.  This directory holds TLA+
modules translated from the source, the TLC configurations that check them and
TLAPS proofs about them.  Paths below are relative to
`src/runtime/alpasim_runtime/` unless they start with `src/`.

## 1. Inventory

| Component | State | Operations | What makes it correct |
|---|---|---|---|
| Request store (`daemon/request_store.py`) | entries with pending count, results, future, `abandoned` | register, record, wait, fail, fail all, reap | exact counts; no entry forgotten while results are due |
| Scheduler (`daemon/scheduler.py`) | `_in_flight`, `_request_pools`, `_accepting_requests`, pump task | submit, wait, dispatch, on_result, shutdown | no slot or job lost or doubled; overrides respected; nobody stranded |
| Dispatch strategies (`daemon/scheduler.py`) | FIFO deque; deques per scene, in-flight mirror, cache mirror | add, reserve, commit, on_result, drain, refresh | submission order; mirror exact; warm renderers first |
| Engine, app, servicer (`daemon/engine.py`, `app.py`, `servicer.py`) | started flag, parts of the engine | startup, simulate, runtime info, shutdown, run | starts whole or leaves nothing behind; every accepted request ends |
| Address pools (`address_pool.py`) | deque of slots per service | try_acquire, try_acquire_for_address, release, acquire all | all or nothing; capacity preserved |
| Worker pool (`worker/runtime.py`, `worker/main.py`) | two queues, processes, consumer tasks | submit, poll, take, finish, stop, crash check | every process leaves; no result lost on the way |
| Scene loading (`scene_loader.py`, `worker/artifact_cache.py`, `src/utils`) | LRU cache, lazily loaded map | load, evict, read | every reader gets the whole map or an error |
| CLI and autoresume (`simulate/__main__.py`, `autoresume.py`) | marker files | plan, run, mark, remove incomplete | a marked rollout is complete, an unmarked one is redone, none is made twice |
| Rollout event loop (`event_loop.py`, `events/`) | heap of events, trajectories, step context, tasks, pacer | one handler per event | order inside an instant; the driver sees current sensors; a step is committed once |
| Delay buffer, force-GT blend | delayed items; eased poses | add, item_at; blend | newest item old enough; one history for the ego |
| Renderer clients (`services/sensorsim_service.py`, `camera_catalog.py`, `events/camera.py`, `events/video_model/`) | camera catalog; chunks | define, render; prefetch, take | frames as the driver was told; no chunk of poses that do not exist |
| Service clients (`services/`) | channel, session | open, initialise, cleanup, close | torn down in reverse, once, whatever fails |
| RPC wrapper (`telemetry/rpc_wrapper.py`) | shared active counts | call, retry | counts return to zero |
| Exporters (`*_tcp.py`, `*_udp.py`) | bounded queue, thread, socket | publish, connect, send | never stall the rollout; the newest state, each scene once |
| Route generator, trajectories, polylines (`route_generator.py`, `src/utils_rs`) | samples | interpolate, clip, join, blend; cut and extend | the same place over time; a route without folds or gaps |
| Driver service and models (`src/driver`) | sessions, frame caches, job queue, batch thread; GUI, ROS buffer | session calls, drive, batch, stop | each drive ends, with its own prediction; caches newest |
| Trafficsim (`src/trafficsim`) | sessions of trajectories | start, simulate, close | replay up to the handover, prediction after, no jump back |
| Controller (`src/controller`) | systems on an MPC clock | start, run, close | time of a session moves forward, whatever is lost |
| Physics (`src/physics`) | LRU of scene meshes | ground intersection | every pose on the ground of its own scene |
| Replay services (`replay_services/`) | the pairs of a log | answer | each request its recorded answer |
| Evaluation (`src/eval`) | accumulator, metrics files, counter | judge, aggregate, summarise | only driven steps count; each rollout counts once |
| Wizard (`src/wizard`) | ports, steps, scene cache | assign, launch, retry, clean up; look up, download, link | what the configuration says is what runs; complete scene sets |

How they interact.  A client calls `simulate` on the daemon.  The engine turns
the request into jobs; the scheduler registers it in the request store, queues
the jobs with its dispatch strategy and dispatches as many as fit: one slot of
every service pool each.  A dispatched job goes through a multiprocessing queue
to a worker process, whose consumer task runs the rollout (the event loop,
against the five services) and puts a result on a second queue.  The
scheduler's pump task polls that queue from an executor thread, releases the
slots, records the result and dispatches again; the last result of a request
resolves the future its handler awaits.  Everything in the daemon runs on one
asyncio loop.  A rollout writes a log, its evaluation reads it, and the last job
of an array aggregates what all of them left.

What is hard: a future wakes its waiter later than it is resolved, and a
cancelled waiter runs later than it is cancelled; a worker can die holding
jobs; clients go away; shutdown stops the server, then the scheduler, then the
workers, each with its own waiting and failing; slots are booked for the whole
life of a job through all of that; services work on grids of time that need not
fit the control step; processes are killed and run again over the files they
left.  `PROJECT.json` lists the hazards line by line, each with the properties
that are about it.

## 2. Modules

| Module | Models |
|---|---|
| `RequestStore` | the request store, the coroutine that waits on each request, runtime information |
| `DaemonScheduler` | the scheduler over *any* dispatch strategy, with pools, worker queues, result pump and lifecycle; extends `RequestStore` |
| `FifoDispatch`, `SceneAffineDispatch` | one strategy each: extend `DaemonScheduler` with the strategy's data and are checked and, with the theorems at their end, proved to implement it |
| `DaemonScheduler_proofs` | theorems about the scheduler |
| `DaemonStartup` | startup and shutdown of the engine: configuration, probes, scene loader, pools, workers, warm-up |
| `SlotLedger`, `AddressPool` | what the pools promise; the deques, round-robin and rollback, which implement it |
| `WorkerPool` | consumers, polling threads, sentinels, orphans, crash check, stop with its timeouts |
| `RpcCall` | retried calls and the count of active calls shared by processes |
| `RolloutRecord`, `RolloutSession` | what is left of a rollout; the exit stack, evaluation, marker and teardown, which implement it |
| `Autoresume` | runs of the command line over the markers of earlier ones |
| `Backend_proofs` | theorems about pools, autoresume, maps, images, the startup of the engine, the scenes of a run, arrays and scores |
| `SceneMaps` | artifacts and their lazily loaded maps |
| `ClosedLoop`, `RolloutEventLoop` | what a rollout promises; the event loop with all its handlers, which implements it |
| `Rollout_proofs` | theorems about the event loop, the session of a rollout, its calls and its pace |
| `WallClock` | the pace of the loop against the wall clock |
| `EgoTrack` | the ego's history over seeds, forced steps and free ones |
| `ActorTracks` | the runtime's tracks of the traffic, the log and the bridge they feed; extends `TrafficSession` |
| `TrafficSession`, `ControllerSession`, `Grounding` | a session of the traffic service; of the controller; the physics server and the events that use it |
| `RenderSession`, `VideoPrefetch` | the camera catalog and images; the chunks of the video model |
| `TcpExporter` | the exporters to the ROS bridge |
| `Services_proofs` | theorems about the controller, the exporters, the chunks of the video model and the ground |
| `PlaceOverTime`, `Trajectories` | what a trajectory stands for; the samples and their operations, which implement it |
| `Routes` | recorded and map routes, their cutting and growing |
| `DriverService` | sessions, batching thread, stop; frame caches; with their theorems |
| `DriverModels` | the two driver models with threads of their own, with their theorems |
| `AslReplay` | reading a log back and answering from it |
| `Evaluation`, `Aggregation` | a rollout's score; the table, summary and video of a job, and which job of an array aggregates |
| `Deployment`, `SceneSets` | ports, containers and job steps; catalog, cache and links of scenes |
| `MC*` | constants for TLC; `MCBackend`, `MCServices`, `MCDriver` and `MCOffline` hold several machines that share no state and run one at a time |

A module named in another as "one step" is where that step is opened: a rollout
is `FinishJob` for the scheduler, a sequence of awaits in `RolloutSession`, and
the event loop among them is `RolloutEventLoop`.

### Atomicity

The loop is cooperative, so a stretch of code without a suspending await is one
step with respect to other coroutines.  `dispatch_once` never suspends, but
worker processes and the executor thread run in parallel with it and see each
job as it is queued: it is one step per dispatched job, and `EventLoopFree`
keeps every other coroutine out until it returns (to `submit_request`, where
the waiter is `"dispatching"`, or to the pump).  `await future` on a future that
is done does not suspend (`SubmitReturns`).  Threads (the driver's inference
thread, the GUI, the exporters, the ROS callback, the maps' readers) and
processes (workers, wizards, jobs of an array) take steps at the granularity of
their locks, queues and file operations.

### State and actions against the code

The daemon:

- `registered`, `pendingJobs`, `results`, `completion`, `abandoned`: the dictionary
  keys and the fields of `RequestState`.  Entries are functions of the request,
  because a waiter keeps the object after its entry is popped.
- `waiter`: the coroutine `engine.simulate`.  `Submit`, `SubmitReturns`, `Wake`,
  `Disconnect` (the task is cancelled), `Abandon` (the cancelled coroutine runs).
- `pending`: what the strategy holds; `requestPools`: keys of `_request_pools`.
- `free`: the slots in each pool's deque.  A pool is named by its service and its
  owner: the scheduler, or the request that brought a driver pool.
- `inFlight`: `_in_flight`.  `Dispatch` is one successful round of `dispatch_once`,
  `DispatchEnds` its two ways to return; a failed `try_acquire_all` gives back
  what it took and is no step there (it is one of `AddressPool`).
- `pump`, `polled`: the dispatch-loop task and what its executor thread took.
  `PumpResult` is `check_for_crashes`, `on_result` and the `except` clause.
- `jobQueue`, `running`, `resultQueue`, `workers`: the worker side.
- `phase`: `RuntimeDaemonApp.run`, through `RequestShutdown`, `GraceExpires`,
  `ServerStops`, `ShutdownScheduler`, `StopWorkers`.

`Next` leaves open which job is dispatched.  `FifoDispatch` adds the deque and
takes its head; `SceneAffineDispatch` adds the deques per scene, the counts of
what is in flight on each renderer and the mirror of the caches, which
`SyncSceneCache` overwrites with any set at any time.

The event loop.  `RolloutEventLoop` keeps poses, frames and plans as the
timestamps they belong to:

- `unbound`: the part of `UnboundRollout` the loop's control depends on.
  `Rollouts` is the set of configurations; `RolloutsAssumption` says what
  `_build_rollout_timing` makes of any recording.
- `queue`: the heap.  `Pop` takes any least event by time and `Priority`, because
  `heapq` does not order equal keys.  Each event class is one action; a
  `RecurringEvent` ends with `Reschedule`.
- `ctx`: the step context, fields in the code's order; `delayed`, `steered`: the delay
  buffer and what it last gave the controller.
- `stage`: `PolicyEvent.run` is cut at its two awaits: the gather of the observations
  (`"barrier"`) and the call of the driver (`"drive"`).  The other handlers await
  services too, but nothing they touch is shared with the observation tasks, which
  alone run meanwhile: they are one step each.
- `inFlight`, `failed`, `gathering`: tasks made by `track_task`; a failed one is noticed
  where it is gathered.  `logged` are the frames that were exported and are in the log,
  `seen` and `seenPoses` what reached the driver service: `submit_image` logs the images of
  all cameras and sends those of `camera_front_wide_120fov` (`DriverCamera`) only.  A driver
  that is skipped is sent nothing, which is left out.
- `status`: `"broken"` after a failed assertion or `ValueError` of a handler,
  `"raised"` after a failed service call.

Around it: `EgoTrack` keeps the heights the ego had, the one thing physics
changes; `ActorTracks` the poses every object has, where each came from, and what
was logged and exported of them, with the traffic service's session as its
source (`AskTraffic` is `simulate_traffic` with `Simulate` of the service, or the
recorded drive if the service is skipped; `RunPhysics` is what a step
accumulates; `RunStep` is the commit at the start of the next step); `WallClock`
the two anchors, the sleep and the lag.  `RenderSession` tells what is handed on of a
rendered frame (`handed`, all cameras, exported and logged) from what the driver is sent
(`sent`, by `ForDriver`).  In `TrafficSession` a trajectory is the
set of its sample times with their origin (log, ego, model, stuck, frozen, held), in
`ControllerSession` the MPC's clock, the set of times it ran at and the times of a call
are kept and the numbers are not.

`TrafficSession` also keeps what the traffic network is shown, on roads that are
places on a line: the scene's map in pieces of three points (`SceneMap`), cut once
to what the first window comes near and to the limits of each class (`chart`,
chosen at random as the code does), filtered around the ego for each query
(`Filtered`), and the ego's window with the strides of its way on (`EgoShown`).  Of
the network it keeps which agents it draws for (`Backfilled`, `Extrapolated`, `Tokens`,
`StrideValid`) and from which motions (`SessionClass`, `TypeOf`, `HasMotions`); which
motion is drawn is open.  `NetworkShown`, a part of `TrafficWhole`, says that the map near
the ego is there in every query unless the limits cut it, that the logged future of the
ego never is, and that an agent seen often enough is drawn however late it came.

Around a run: `Autoresume` gives each run of the command line its `evaluation`: off, on, or
on with `allow_aggregation_with_failed_rollouts`, and `Finish` reports accordingly.  `AslReplay`
takes a rollout as the calls its log has (`Script`), of which `Goes` says what a service
gets.  `SceneSets` has each catalog file as the batches that were merged into it, so that
files can disagree, and for each cached file what it holds (`Content`).  `Deployment` has the
ports of the machine with who listens, job steps that were told to end and may do so later,
the containers whose `scancel` failed (`uncancelled`), the pinned port of a runtime that is a
server, and services outside the deployment.

The driver client sends what the runtime's does: observations of one control step
are posted together and only while no drive of that session is under way;
`predict_batch` returns one prediction per input or raises; the frame caches say
when a session is ready.

## 3. Checks

| Run | Shows |
|---|---|
| `daemon` | slots and overrides (`PoolsRespected`), jobs, the request store's counts, and that after a shutdown or a wakeup nobody is left waiting (`NobodyStranded`) |
| `shutdown_after_crash` | a **violation**: the code does not keep `engine.shutdown`'s promise (section 6) |
| `fifo` | strict submission order, also of the deque itself; `FifoDispatch` implements `DaemonScheduler`; accepted requests and shutdowns end |
| `affine` | deques and mirror exact, warm jobs and renderers first, `SceneAffineDispatch` implements `DaemonScheduler` |
| `affine_liveness` | `OnlyOtherScenesDelay`: under unending streams of requests and cache reports an accepted request ends unless jobs of other scenes overtake it again and again |
| `rollout` | handlers find what they need; the driver is asked when every due frame is logged and those of its camera have reached it, each pose once, and its plan reaches the controller when the delay says; `RolloutEventLoop` implements `ClosedLoop`; every rollout ends |
| `decision_delay`, `front_collision` | two **violations** of what the documentation says (section 6) |
| `backend` | around a job: ledger of slots, workers that leave, calls counted, sessions closed, the record of a rollout, resumed runs, maps, images, startup |
| `driver` | caches, fresh plans, replies and events paced by the wall clock, drives that end |
| `services` | traffic with the runtime's tracks, controller, video chunks, exporters, ego history, physics, trajectories and routes |
| `offline` | replay, scores, aggregation and summary, deployment, scene sets |

Invariants that belong to one machine hold in the others' states, which do not
change it; a property that names several modules is their conjunction
(`TrafficWhole`, `PathsSound`, `AnswersInTime`, `ReadBackWhole`).

*Bounds of the daemon.*  `daemon`: two requests of two jobs, one of them with a driver
of its own, and a request of no jobs; one shared driver slot and two renderer
slots, two workers with the one consumer `compute_num_consumers_per_worker`
gives them.  The smallest instance in which requests compete for a pool, an
override matters while a job still waits, a worker dies while another lives, and
a request finishes in two steps.  `fifo`: two and one jobs, one worker, so that a
request can wait behind another.  `affine`: three jobs of two requests and two
scenes, a renderer with two slots and one with one, so that job and renderer are
both chosen.  Drivers are skipped there, which also exercises skip pools.
`affine_liveness`: four one-job requests at a time, three for one scene and one for
another, over one slot and one worker.  Its specification `SteadySpec` never runs out of
requests: one that has ended without a trace comes again (`NextRequest`, a new id in the
code), so the set bounds only how many there are at a time; workers may die, while shutdown and
disconnects, which end a stream, are in `daemon` and `fifo`.  With one slot the warm tier
takes the cached scene for ever there: "every accepted request ends" is false of this run.  With
`nr_workers` 1 the worker runs on the daemon's own loop; the model lets its steps
interleave more freely than that.  Two services stand for five: all pools are
taken and returned alike, except the driver's (overridable) and the renderer's
(reserved by the strategy).

*Bounds of the event loop.*  `rollout`: rollouts of two or three control steps of
three time units and two cameras, 290 configurations: shutters that close
together or apart, on the control grid or off it, bundled or not; with and
without poses inside a step; no planner delay, one of exactly a step, one of
more; no forced step, a forced step with and without the driver.  Three steps
are the fewest in which the delay buffer drops an item and holds another; two
cameras the fewest in which events tie.  Any observation task may end late or
fail, any service call may fail.

*Bounds of `backend`.*  Five tickets over a driver with three addresses and two
renderers of two slots, so that an attempt can fail at each pool and rotate the
others; two workers of two consumers, or one inline; two callers, one of which
retries; three runs of the command line, with any evaluation, any of which may be killed; four scene
files (both maps, a broken and a good one, one that cannot be aligned, none) over a
cache of two with two readers; two rollouts over two sites and two renderers with
two frames and eight set-ups; sixteen configurations over seven hosts, where any
probe may fail, one worker may fail to start and one Ctrl-C may come.

*Bounds of `driver`.*  One session id that is started twice and two drives in
batches of two: enough for a job to outlive its session, to share a batch with a
job of the next one, and to be queued after the thread has drained the queue.  Two
cameras and five frames over a cache of two times two.  Two messages around a
time-out.  Pace: factors 0, 1 and 2, four events at three times, handlers that take
nothing, a little or longer than the gap to the next event, sleeps that may end
late.

*Bounds of `services`.*  Objects that enter late, leave early, stand still, are too
brief or come after the end, of five classes by names and numbers that agree or do
not; seven lines of which one is too short and two compete for a limit, and an ego
that stays on the map or leaves it; control steps of 1 to 4 against the network's 2,
forced phases that end before, at and after the handover, first policy steps on the grid,
off it and past the handover; MPC steps below, at and
above the control step with every call lost on either way; aligned and misaligned
chunks; a queue of two and two outages; all operations of a trajectory of three
instants and two cuts; nine set-ups of the ego over twelve instants; two rollouts
of two scenes over a cache of one mesh; ten recorded drives on a map with a fork, a
turn and a flawed link, seven places of the ego.

*Bounds of `offline`.*  Fourteen reruns of four recorded rollouts with a window of three: ten
calls of all methods, a start that reports two poses in one call, images of the driver's
camera alone, and images of two cameras, enough to fill the window; four timings, six situations, three steps; three jobs of an array with two
kills; three rollouts of two or three clips, four verdicts, one odd ending and a
second run of the job; twelve plans (servers and a pinned port that a service has or none has, external services known,
unknown and doubled among them) over nine ports with a foreign taker, a crash, time-outs and
`scancel` failing anywhere; two wizards over seven catalogs (several files that agree or overlap,
a mislabelled artifact in either repository) and nine demands (no scenes at all among them), one
rerun and one failed download.

*Deadlock* is not checked: when every request has ended, the daemon has stopped or
a rollout has ended, nothing is left to do.

*Fairness.*  Daemon: weak fairness of what the event loop has ready (`Wake`, `Abandon`,
the rounds of dispatch, the pump), of the executor thread, of workers taking jobs
and of jobs ending (services are assumed to answer), and of the steps of a
shutdown once it has begun (timers).  Nothing forces a client to call or to
disconnect, a worker to die or a shutdown to be asked for.  In `affine_liveness` fairness of
a woken waiter, of the end of a poll and of the pump's result is strong, because the stream
takes the event loop again and again: asyncio runs what is ready in the order it became ready,
so none of these is passed over for ever.  `RolloutEnds` assumes
that the loop runs on and that observation tasks end, well or not: a service that
never answers does hang its rollout.  `DrivesEnd` assumes that the inference thread,
the loop's callbacks and, once it is asked for, the server's stop go on.
`WorkersLeave` assumes that consumers and their polling threads are scheduled and
that the parent's join time-out expires; it needs no fairness of a rollout.

## 4. Proofs

Eight modules prove theorems, for all values of the constants that satisfy the named
assumptions (`PoolAssumption`, `RequestOfAssumption`, `JobsAssumption`, `DaemonAssumption`,
`JobListAssumption`, `SceneAffineAssumption`, `RolloutsAssumption`, `SessionAssumption`,
`RpcAssumption`, `WallClockAssumption`, `DriverAssumption`, `CacheAssumption`,
`ControllerAssumption`, `ResumeAssumption`, `SceneMapsAssumption`, `StartupAssumption`,
`ExporterAssumption`, `VideoAssumption`, `RenderAssumption`, `GroundingAssumption`, `TrajectoryAssumption`,
`ManualAssumption`, `SceneSetsAssumption`, `ArrayAssumption`, `EvaluationAssumption`).

### The daemon (`DaemonScheduler_proofs`)

- `TypeCorrect`: `Spec => []TypeOK`, inductive by itself.  Entries are typed so that
  the synthetic slot occurs exactly at skip pools, which is what makes a
  release put real slots back.
- `SlotsAreConserved`: `Spec => []SlotsConserved`.  The invariant is not
  inductive alone: a dispatch that overwrote an entry would leak its slots.
  `NotYetInFlight` says that a job still queued, or of a request not yet
  submitted, has no entry.  `SlotSteps` reduces the actions to three
  cases: a dispatch, the release of an entry, or neither.
- `NobodyIsStranded`: `Spec => []NobodyStranded`.  A round of dispatch ends with jobs
  pending only if a pool is empty, so some entry holds its slot (`SlotInv`); and the
  gRPC server stops accepting only when every handler has left.
- `ReturnsAreComplete` and `PendingCountIsExact` (with `NoJobForgotten`: until a
  shutdown or a failure, every job is queued, in flight or reported), together
  `RequestsAreAccounted`: `Spec => []RequestsAccounted`.  By the invariant `RequestInv`:
  a job with a result is neither queued nor in flight, `pending_jobs` counts the jobs
  without a result (cancelled request or not), and a resolved future has all of them.
  `StoreSteps` reduces the actions to a submit, a recorded result, or a step that
  leaves results and counts alone and can only fail or cancel futures.
- `OverridesAreRespected`: the override of a request outlives its queued jobs
  (`QueuedJobsHavePools`): the waiter drops it only when the future is resolved, and
  then nothing is queued.  With `SlotsAreConserved` it gives `PoolsAreRespected`:
  `Spec => []PoolsRespected`.
- `JobsAreNeverLost`: `Spec => []NoJobLostOrDuplicated`, by `JobInv`: a job is in one
  place (`OnePlace`), and whatever is on the worker side is in flight
  (`LocatedInFlight`).
- `PumpFailsOnlyByCrash`: `Spec => []PumpEndsOnlyByCrash`.  `PumpInv` joins `RequestInv`
  and `JobInv` with: while the pump lives, a request with a job queued or in flight
  is tracked and not failed.  `ReapKeepsTracked` is the heart of it: the reap after
  a result takes only requests whose count is zero, which have nothing out.

### The strategies (`FifoDispatch`, `SceneAffineDispatch`)

Both refinements are proved: `FifoIsAStrategy` and `AffineIsAStrategy`
(`Spec => ImplementsScheduler`), so every theorem above holds of the daemon with
either strategy.  A strategy has to show that the job it pops is one the scheduler
has queued, and that a round it ends is one that could not go on.

- FIFO, by `FifoInv`: the deque holds the pending jobs sorted as they were submitted
  (`QueueSorted`, over the history of `ArrivalsOnce`), and a job submitted after a
  pending one is pending itself (`PendingIsSuffix`), or it has overtaken it.  From
  it `JobsKeepSubmissionOrder`: `FifoSpec => []SubmissionOrder`.
- Scene-affine, by `AffineInv`: each scene's deque holds the queued jobs of that scene
  once each (`DequesHold`), the keys are the scenes that have one (`KeysHold`), and
  the count of an address and a scene is the number of entries in flight there
  (`CountsHold`), which needs that jobs in flight render on slots of the
  scheduler's own renderer pool (`OnRenderers`).  From it `AffineBooksAgree`:
  `AffineSpec => []BooksAgree`, and the action property `WarmRenderersFirst`:
  `AffineSpec => WarmBeforeCold`.  `SelectedList` and
  `SelectedElements` say what is left of a list when elements are taken out.

### The address pools (`Backend_proofs`)

`PoolsKeepLedger`: `PoolSpec => ImplementsLedger /\ LedgerKept`, for any services, addresses
and requests.  `PoolInv` says that a limited pool has `total_capacity` slots, in its deque
or with the jobs that use it (`SlotsAccounted`), and that the synthetic slot is held of
skip pools only (`SkipsHeld`).  The deques lose and gain slots at either end and, for a
pre-acquired renderer, in the middle; `AppendCount` and `RemovedCount` say how often an
address then occurs, and one lemma per action (`AcquireStep`, `RollBackStep`,
`ReleaseStep`) compares the counts with the ledger's.  `PoolsAgreeOnLimits` compares them with
`max_in_flight`, which is an agreement only where some required service is not skipped.

### The event loop (`Rollout_proofs`)

- `HandlersAlwaysAgree`: `Spec => []HandlersAgree`, for any cameras, intervals, report
  intervals, delays, bundling and number of steps.  `HandlersAgree` is far from
  inductive: whether a handler's sanity check passes depends on which handlers of
  the step have run.  `LoopInv` reads that off the queue: time is committed up to the
  latest ego pose (`Covered`); each handler is queued at `Covered`, where it has
  still to run, or at the next step (`StepQueued`), in the order of their
  priorities; and `ContextAsRun` says for each that has run what it left in the
  step context.  `QueueInOrder` keeps the side events (frames, flushes, first step,
  end) from slipping between, `TasksAwaited` places the policy event, `PlansOrdered`
  gives the delay buffer its order.  One lemma per handler, and `SideEventKeepsStep`
  for those beside the control step.
- `LoopIsClosed`: `Spec => ImplementsClosedLoop`.  The refinement needs to know where a
  frame is.  `FramesInv`: a frame that is due is still to come (an event of its camera at
  or before it), waits for its flush, has a task, or is logged and, of the driver's camera,
  seen (`FramesOnTheirWay`); every pending trigger has its flush event; and
  `lastPose` tells whether the step under way has been decided (`DecidedOnce`).
  When the barrier passes, the first three places are empty for every frame up to
  now (`BarrierDecides`); at the end of the rollout every due frame has a task.
  `DueEveryInterval` is the arithmetic: the due frames of a camera are an interval apart.

### The session, the calls and the pace of a rollout (`Rollout_proofs`)

- `SessionsAreClosed`: `SessionSpec => SessionsClosed`, for any list of services.  The
  assumption that no service occurs twice is the code's: `run` enters one session per
  service.  `SessionInv` says where the exit stack is in each phase (`StackFits`), what
  the files are (`RecordFits`), and that beyond the stack's top everything is closed or
  known to have refused (`StackClean`); whatever a service could still have open is thus
  on the stack.  `Places` is the arithmetic of the order.
- `RolloutKeepsRecord`: `SessionSpec => ImplementsRecord`, from the same invariant: the
  log is opened, the marker written and the result set in this order and once each.
- `CallsAreCounted`: `RpcSpec => []CallsCounted`, for any finite set of callers.  Between
  the read of the shared count and its write a process holds the lock and has read
  what is there (`LockHeld`); `CountStep` moves one caller in or out of the counted.
- `LoopIsPaced`: `PacerSpec => []EventsPaced`.  The anchor is the first event, and the
  loop sleeps until an event is due by it (`Anchored`), so lateness does not add up.

### The driver service (`DriverService`)

- `DrivesAreAccountedFor`: `DriverSpec => []DrivesAccountedFor`, for any session ids, drives and
  batch size; it is the safety part of `DrivesEnd`.  By `DriveInv`: what waits is under way
  and nothing under way was not queued (`NothingDropped`); while a drive waits, its session
  object stands still, so that what a batch would read of it is its job (`InputsKept`), and
  an answer scheduled for it was made from that (`AnswersFit`); how far a handler is tells
  of its future (`HandlersFit`); and the thread ends only with the server
  (`StopsWithServer`).  `JobsPassedOn` is what the steps of the inference thread share: a job
  that leaves the queue, the batch or the callbacks is in the next of them.
- `CachesKeepNewest`: `CacheSpec => []CacheIsNewest`, for any cameras, timestamps, context
  length and stride.  By `CacheInv`: what is cached is newer than all that was pruned, and
  nothing is pruned before the cache is full (`KeepsNewest`).  `InsertedInOrder` and
  `PrunedInOrder` say what the walk and the bound do to a list in order, `NewerAreBehind`
  turns places in the cache into counts of what the camera has sent, and `CacheBound` is
  the arithmetic of the strided context.

### The controller (`Services_proofs`)

`ControllerStaysConsistent`: `ControllerSpec => []ControllerConsistent`, for every control
step, report interval and MPC period.  `ControllerInv` follows the conversation: each stage
of the runtime knows which requests are in flight, in which order, and what the service has
made of those that are not (`ConversationFits`); when a step is asked for or in flight, the
vehicle stands at the runtime's time (`ReadyToStep`); and it is never outside the step under
way, with the MPC's runs and the ends of all steps behind it (`VehicleFits`).
`ClockContinues` is the arithmetic of the MPC's clock: the period after the latest run
continues the grid from the first step on, wherever the calls end.  `RunsGoOn` and
`VehicleSteps` carry it through a call that completes or raises half-way.  That the MPC's
times have a latest and the poses a first are `GreatestExists` and `SmallestExists`, from
well-foundedness.

### Autoresume (`Backend_proofs`)

`ResumeReachesWanted`: `Resume => (ResumeSpec => []WantedRollouts)`.  With
`allow_aggregation_with_failed_rollouts` a run reports success although rollouts failed; what
holds then, and is stated and proved, is that every wanted rollout is complete or one of the
failed rows its report was given, and that success without that permission means that just
the wanted rollouts are complete.  The hypothesis is the command's flag: without `enable_autoresume` a second run adds its rollouts to those of the
first, and the property is false.  `ResumeInv` says that no directory exists for a rollout
that was not given out (`RecordsFit`), and that while a run lasts the complete rollouts of
earlier runs and its own are exactly as many as are wanted (`RunCompletes`), so that what is
not complete at the end is among the failures.

### The maps and the startup (`Backend_proofs`)

- `MapsAreWhole`: `SceneMapsSpec => []MapsWhole`, for any files, readers and cache size.
  `SceneInv` says for each place of a reader what its artifact is like (`Fits`): from the
  lock on to the mark, the reader holds the lock and no attempt is recorded; once one is,
  the map is what it will stay (`Right`).  A failed load of the preferred source
  leaves remnants, so `"xodr"` must leave the parts open.  A raise gives the lock
  back with no attempt recorded: the next reader starts from an empty map.  `Apart`
  keeps one artifact per file in the cache; `UsedApart` is the step of the cache, a hit or
  an eviction.
- `StartupIsWhole`: `StartupSpec => []StartsWhole`, from `StartupInv` (`ChecksAreKept`), for any
  configurations, addresses and answers of the probes.  `ChecksPassed` says which checks
  each phase has behind it, `NothingLeft` which calls and which scheduler may run in
  it, `WorkersFit` how many workers.  The rest is arithmetic: `LimitOfPools` (the limit is
  at most the capacity of each pool that is not skipped), `CeilingIsTight` (the consumers per
  worker are rounded up, never by a whole worker), `CanonicalRecords` (one version per
  service is what is recorded), `FilesApart` (as many scenes as files).

### The images of a worker (`Backend_proofs`)

`ImagesAreAsTold`: `RenderSpec => []RenderedAsTold`, for any cameras, renderers, overrides and
ways of bundling.  `RenderInv` says of the catalog that what it has for a scene is
whole and from one source (`CatalogFits`), and of a roller (`RollerFits`) that the driver was
told what the catalog has, that a request asks for cameras due at the frame and not left
over, each once, and that what was handed on is true to what was told, complete for the
frames that are over and in their order (`HandedFits`).  Handed on means exported and logged:
the driver is sent just those of its one camera, each with the definition it was told.  The sessions of other rollouts
are what could break it: `CatalogStep` is that no session changes a scene already in the catalog,
by whichever renderer it was filled, so what a driver was told stays what its frames are
rendered with.  `SetIsListed` (a finite set and its listing) makes a request one item per
camera; `HandOnFits` is the step of an answer, `PicturesStep` that the three ways of bundling
answer each item once, in whatever order the renderer lists them.

### The scenes of a run (`Backend_proofs`)

`SceneSetsAreComplete`: `SceneSetsSpec => []SceneSetsComplete`, for any catalogs, demands and number
of wizards that share the cache.  `SetsInv` says of each wizard (`WizardInv`) that it keeps to one
choice from the query on (`Picked`), that a phase of its downloads ends only when the
artifacts of that repository are in the cache (`Fetched`), and that what it has not linked yet is on
its list (`Linking`).  What other wizards do, fail or leave behind when they are killed is
`Undisturbed`: the cache and the directories only grow, and a file keeps what was put there.
A file from Hugging Face is the artifact it is named after; one from Swiftstack is whatever lay there
(`Unchecked`), which the code does not look at, and the theorem says no more than that.  Files that
share a row, of scenes or of suites, are refused (`Loads`); an empty list of scenes is no error.
Nothing is assumed of the locks: they keep two wizards from loading a file twice, not from leaving
a directory half linked.  `InOrderLists` (a finite set of naturals has its listing in
order) and `FirstScenesAre` make `ChoiceIsRight`: what the limit leaves out comes after all that is
chosen.  It assumes of a catalog that it is finite and that its repositories are the known ones.

### The deployment of a run (`Backend_proofs`)

`DeploymentIsOrderly`: `DeploySpec => [](PortsApart /\ StepsCancelled /\ ScenesShared)`, three named parts of
`DeployedWhole`, for any configurations, ports, retries and timeouts, and any number of ports others
take and steps that die.  `DeployInv` says that the ports are assigned in ascending order, which no
port somebody takes or leaves meanwhile disturbs (`AssignPortStep`: the search goes on from the last one), and, while
steps are cancelled, that each one alive is of a container still on the list, or was told to end, or is of a container
for which `scancel` failed (`CancelsAll`): `CleanupStepsStep` cancels by name, so that no second step
of a container launched again escapes.  `scancel` signals and does not wait, and a failure is a
warning, so that steps do outlive a deployment; that none is forgotten is what holds.  The ports are
those the wizard gives out; the pinned one of a runtime is not among them.
`EachSceneOnce` is that the scene at place i belongs to task (i - 1) % count alone.  It assumes a
finite set of scenes.

### The end of an array, and the score of a rollout (`Backend_proofs`)

- `ArrayAggregatesOnce`: `ArraySpec => []AggregatesOnce`, for any jobs and number of kills.
  `CounterHeld` says that whoever is at the counter
  holds the lock and that what it has read is still the number of counts; `CountsKept` what rests on the
  counts whoever is killed; `NoneKilled` that without a kill no job is counted twice and the
  one that was counted last is the one about to aggregate.
- `StepsAreJudged`: `EvaluationSpec => []DrivenStepsJudged`, for any timings, situations and length.
  `EvaluationInv` says of the log that a pose is a control step after the one before (`PosesFit`) and
  that images stand in the order of their ends (`ImageGoesInOrder`); the rest is what `ReportOf`
  computes (`VerdictIsRight`).  `HandoverIsMarked`: the rows that the evaluator marks are the
  driver's own steps, since the forced duration is a multiple of the control step.  `RowsKept` follows
  the modifiers: what is left starts there and ends with the first row that is an incident
  or far off, so only that row can have one (`OnlyAtTheEnd`), and its time finds it among all
  (`TimesTell`).

### The exporters and the video chunks (`Services_proofs`)

- `ExportsAreKept`: `ExporterSpec => []ExportsKept`, for any capacity and number of updates, for
  the map's exporter and for those of state.  What was received and what is in hand
  are one list (`Stream`); each action keeps it, adds to its end or drops elements
  (`StreamKept`, `StreamLoses`).  `ScenesFit` says of the map's exporter that what is
  scheduled is in the stream, once, or was wasted; `UpdatesFit` of the others that the
  stream rises and that the update under way is the newest one.
- `VideoKeepsTime`: `VideoSpec => []VideoFramesInTime`, for any first and regular chunk,
  subsampling and control step that pass the checks of the code.  By `VideoInv`, a rollout
  awaits its first chunk (`ChunkAwaited`) or is within one (`ChunkUnderWay`): all of its events
  are determined by the chunk's end, the next image and whether the decision and the step at
  the end have come.  It is inductive because a regular chunk lasts one control step,
  which the runtime demands; `NextInChunk` says which event is next, `ChunkComes` that the
  prefetch at the end of a chunk starts the next one, `LastIsForwarded` that
  subsampling keeps a chunk's last image.

### The handover of traffic (`Services_proofs`)

`TrafficTakesOver`: `ActorsSpec => []TakesOver`, for any logs, grid, strides, control step and
handover, and whatever the network draws.  `TakeoverInv` adds to it that who was predicted has
a sample for the last query, that the next window ends there, and that this is past the
handover: so the agent is there at the window's end, is predicted for every step of the
grid, and the grid covers the query (`ForecastCovers`).  `PredictionMovesOn` is one query of one
agent: windows end with the history (`WindowFits`), the network draws on the grid only and
nothing of what it never saw (`DrawnOnGrid`, `PredictionsFit`), and a merge drops what is behind
its first sample (`MergeKeeps`, `MergeAfter`), which a first answer at the very time of the
query needs.  It assumes that every log is finite.  The proof does not use that the control step
is a multiple of the grid.

`NetworkSees`: `ActorsSpec => []NetworkShown`, the first conjunct of `TrafficConsistent`: at
every query the network is shown each piece near the ego of the session's map, unless there
are too many of its class; never the logged future of the ego, nor the origin for one of its
poses; and an agent that is there and was seen often enough is drawn by the network, not put
where it was.  `NetworkInv` adds that the ego's trajectory starts at its first pose, that the
session's chart has all that the map cut for it has (`HasAll`, `CutHasAll`, `MapStays`), and that
what was shown stays true.  The last part needs that a trajectory has no gaps on the grid up to
the window's end (`NoGaps`), so that the valid steps of a window are its last ones
(`WindowCounts`), and that the last token of a window needs its last step and no more of such an
agent (`LastToken`).  It assumes finite, typed lines and limits for each layer (`TrafficAssumption`), and of
the window what is configured: 16 steps, of which 5 have to be valid, in strides of 5
(`WindowAssumption`).

`TrafficStaysConsistent`: `ActorsSpec => []TrafficConsistent`, the whole first half of
`TrafficWhole`: `NetworkSees` and, where `QueriesOnGrid`, that no pose of the ego that was held is
in a window, nor from the first query on any but the runtime's.  `GridInv` says that queries
follow one another in whole control steps from the first (`QueriesInSteps`), that every held
pose of the ego comes right after one on the grid of the last query (`HeldFits`), and that since
the first query the ego's poses are the runtime's or held ones (`SaidSince`).  What is on that
grid is no held pose, for two poses on it are a grid step apart (`NoneHeld`).  The window of a
query past the handover ends on the grid of the query or less than a grid step before it
(`WindowOnGrid`), so that what is merged for the steps after it keeps this (`HeldFollows`).

`ActorsStayLogged`: `ActorsSpec => [](CommitsSucceed /\ LogIsKept /\ NobodyAppears(Ego))`, the
parts of `ActorsAsLogged` that hold however handover and forced phase fall.  `TracksInv`, on top
of `TakeoverInv`, says that no track goes past `CommittedUntil`, where the step that is due
begins, that the ego's covers all of it from its first pose on, and that what is accumulated is
for the end of that step (`ActorsFit`).  So all that a commit adds comes after all there is, and
interpolation within a track does not change when it is extended (`ExtendedAfter`); `LogStaysTrue`
carries the log over.  It assumes that a step fits between the first policy step and the end
of the ego's recording, without which a rollout is not begun.

`ActorsStayAsLogged`: `ActorsSpec => []ActorsAsLogged`, the whole second half of `TrafficWhole`.
`MovingInv` adds to `TracksInv` what holds of a moving agent where the service replays through
the forced steps (`ReplaysForced`).  A track that ends before what is committed belongs to an
agent whose recording is over (`TrackFits`), so nothing that is added later falls into an
instant where the log had missed it.  An agent that was never predicted is in the service as
it was recorded, and every answer, as physics passes it on, fits the end of its track
(`AnswersFit`, `AnswerFits`).  Where a step is forced nobody was predicted yet (`NoneForced`);
past the handover the window of a query ends where the tracks do or later (`WindowReaches`),
so that a prediction continues a track.  `MovingAnswered` is the answer, `TrackGrows` the commit of
it, `SnapshotTells` what the bridge is told.

### The ground (`Services_proofs`)

`PosesAreGrounded`: `GroundingSpec => []GroundedOnScene`, for any scenes, rollouts, objects,
thresholds and size of the mesh cache.  `GroundInv` says that the cache has backends of scenes
only (`CacheKeepsScenes`), that a request on its way is that of a rollout which awaits its answer,
one per rollout (`RequestsFit`), and, for each phase of a rollout's step, how what it sent
and was answered is related to what it asked about (`RolloutFits`).  `PoseLands` is what the
server does with a pose: put on the ground, or left where that would move it too far.  `EgoKept`,
`ObjectKept` and `ObjectLeft` say that what is then committed is right for the step, forced or
free (`EaseStays`: easing a pose onto itself changes nothing), and `StepKept` that a commit adds
one entry per object and all recorded ones in a forced step.  It assumes that no recorded object
has one of the two names of the ego.

### The driver models (`DriverModels`)

- `PlansAreFresh`: `TrajectorySpec => []FollowsFreshPlan`, for any time-out and number of
  messages.  `TrajectoryInv` types the messages on their way: what a callback stores has passed
  its checks.
- `RepliesArePaced`: `ManualSpec => []RepliesPaced`, for any frame times and limits of
  speed and steering.  `ManualInv`: a frame that waits does so until the wall clock has caught
  up with the reply before it, which is the frame that set the clocks.
  `ControlsInRange` and `TickKeepsLimits` are the arithmetic of the keys.
- `AnswersAreInTime`: `TrajectorySpec /\ ManualSpec => []AnswersInTime`, the conjunction of the
  two that the run `driver` checks.

Before they were proved, `LoopInv`, `FramesInv`, `FifoInv`, `AffineInv`, `SessionInv`,
`RpcInv`, `ResumeInv`, `PoolInv`, `DriveInv`, `CacheInv`, `ControllerInv`, `SceneInv`, `RenderInv`,
`GroundInv`, `SetsInv`, `ArrayInv` and `EvaluationInv` were checked by TLC as invariants of the instances of the runs; of `StartupInv`, `ExporterInv`,
`VideoInv`, `TrajectoryInv`, `ManualInv`, `TakeoverInv`, `GridInv`, `TracksInv` and `DeployInv` TLC checks what they imply.

### Only model-checked

All liveness (`AcceptedRequestsEnd`, `OnlyOtherScenesDelay`, `RolloutEnds`, `DrivesEnd`, `WorkersLeave`), which is
outside TLAPS's reach.  `DriverSeesEverything`: its first part follows from
`LoopIsClosed` for frames; that poses reach the driver once and in order, and which plan
and renderer data are handed on, would need the estimate's history in the invariant.
What the recursive data of routes, trajectories and summaries computes: `PathsSound` (with
`EgoKeepsTrack`, the ego's history, folded over seeds and steps) and `ReadBackWhole`
(`ReplayFaithful`, where the reader folds over the log, and `SummaryWhole`, sums over groups)
are induction over data.  Invariants over several machines at once or over data from a
server, not attempted or not found inductive yet: of `DeployedWhole` what
folds over the containers of a configuration: the network configuration with the external services
(`NetworkNamesServices`), the runtime's own port (`RuntimeServes`), the launch of each
container before the runtime, and at most one job step per retry.

## 5. Plan

Modelled: everything the table of section 2 lists.  Next: a proof of
the pose part of `DriverSeesEverything`.  Theorems are kept in eight
modules: those of a component stand in its own module where they are few, in a module
for several components otherwise.

## 6. Findings and remarks

Three runs expect a violation:

- `shutdown_after_crash`: after a worker crash the result pump ends with an exception.
  From then on `DaemonScheduler.shutdown` raises (an unknown request in the queue, or
  the failed task re-raised), so `DaemonEngine.shutdown` never stops the other workers.
- `decision_delay`: `assert_zero_decision_delay` is documented to check that camera frames
  complete exactly at decision time; it accepts any frame of the past.
- `front_collision`: the collision scorer keeps the kind of the last intersecting actor
  only, so a front collision may be reported as another kind.

Remarks on what the models had to follow, by part.

Daemon and workers:

- No tier of the scene-affine strategy is fair: while requests for a scene in some cache keep
  coming, jobs of a scene in none wait, for ever if they never stop.  `OnlyOtherScenesDelay` says
  that nothing else makes a request wait for ever.
- A failed pump does not stop the daemon from accepting requests: they are
  dispatched and never answered.  `AcceptedRequestsEnd` is therefore about
  requests that wait while the pump lives.
- A driver pool override stays in `_request_pools` when the wait fails or is
  cancelled.  That keeps jobs dispatched later on the right drivers, at the price of
  an entry that is never removed.  With pools of their own, requests may exceed
  `max_in_flight`; with skip pools only, nothing enforces it.
- If a later worker process fails to start, the earlier ones are not stopped.
  Scenarios are validated against the first address of each service only, and an
  unknown scene of the daemon's own list fails only with its request.
- `get_data_source` is called in the consumer outside `run_single_rollout`'s `try`: a
  scene that is unknown there ends the worker.  A crashed worker's polling threads
  can take sentinels, so that others end by the join time-out.
- Opening a connection happens outside `rollout_session`'s `try`: `session_info` stays
  set when it fails.  Only the renderer's calls are retried.
- The completion marker is written before teardown, so a rollout whose teardown
  fails is both failed and complete.  A rollout the driver ends early is complete too.
- With `allow_aggregation_with_failed_rollouts` the command reports success whenever the aggregation
  does not raise: exit status 0 does not say that the wanted rollouts are there.
- `run_evaluation` says that failures are caught, but builds its input outside the `try`.

Rollouts:

- `SimulationEndEvent` is documented to fire between the policy and the controller
  event of the final timestamp; there are none.
- `DelayBuffer.at` is documented to return nothing while no item has met the delay; it
  returns the first item, as its test expects.
- When one observation fails, the loop raises and its siblings keep running into
  the teardown of their sessions.  Without cameras `InitialStepEvent` and `StepEvent`
  can be due at one time with one priority; such rollouts are left out.
- The traffic service is to answer from its log until the last forced step (comment at
  `traffic_service.py:58`), but hands over a control step after context start plus forced
  duration, while the forced phase counts from the first camera frame.  If that frame ends
  more than a control step after the context starts, agents are predicted while the runtime
  still forces the recorded drive on them.  An agent whose recording has ended then is
  missing until the first free step and comes back: its log has a hole that later
  interpolation fills.  The same hole opens when the first policy step comes after the
  handover, as it may with a renderer that needs context: the first answer is a prediction
  already.  And it opens for a moving agent when the handover comes within the first history
  window, whose grid the answers after it are read from: a recording that ends between two
  points of that grid is missed there, and predicted back later.  `ActorsAsLogged` claims what
  depends on it under `ReplaysForced` only; without either of its first two parts `services`
  is violated, without the third it is when `gone` is last recorded at 3.
- Predictions are written on a grid that ends with the history window, queries come every
  control step from the first policy step on.  When the two do not fall together, the
  exact ego pose of a query is overwritten by grid poses, of which the last is held, so
  the network sees an ego that stands still for up to a grid step.  `TrafficConsistent` says
  that it never does for control steps of whole grid steps and a start, or a handover,
  that is on the grid or within one step of the next query (`QueriesOnGrid`).
- The traffic network has motions for vehicles, pedestrians and cyclists.  A moving
  object with another label (`rider`, `heavy_truck`) is put where the window began for as
  long as it is predicted (`Motion`).  An id that is no number is counted from 0 when the
  scene is loaded and from 1 when the session starts, so its class is another object's,
  or a car's (`SceneTrack`, `SessionClass`).
- A static object whose recording has ended is missing from the tracks while the
  ground truth is forced and comes back with the first free step, so its log has a
  hole that later interpolation fills; `ActorsAsLogged` says so for moving agents only.
- The bridge is told of an actor's way on only what is committed: the pose of the
  step's start and of its end.
- Estimated poses are not corrected by physics in free steps.  If the forced duration
  is no multiple of the control step the easing ends below its full weight.  With the
  video model, physics and no forced phase, seeding interpolates beyond the forced
  trajectory and raises; without cameras and forced phase the first free step raises.
- A renderer that is skipped leaves the camera catalog empty, so a rollout with
  cameras then fails when the driver's session starts.
- Map routes: a right-angle turn is cut where its chord falls below the minimal gap; a
  fold at a duplicated point goes unnoticed; an ego beyond the end of its route never
  gets another one.

Services:

- Physics returns a pose as it was when it moves too far, tilts too much or has too
  few hits, and the client ignores the status.  The tilt check takes the absolute
  value after the maximum, so a large negative tilt passes.  Answers are paired by
  place, not by timestamp.
- A map that was handed to a dead connection stays "scheduled" and is never sent
  again; a bridge that restarts after delivery gets nothing; the threads of the
  exporters of current state die silently on anything but an `OSError`.
- A drive queued after the driver's thread drained its queue ends only with the
  server.  Replays displaced beyond the look-ahead window fail even if recorded.
- `submit_image` sends the driver the images of one camera and only logs the others, without
  a word to the configuration that asks for them.
- The same run replayed may be refused.  The runtime logs all poses of an egomotion call as one entry
  (`driver_service.py:188`), while the replay servicer looks for an entry per pose
  (`replay_services/driver_replay_service.py:24`), as it must for recordings that have one each; so a
  start that reports several poses finds none of them.  And images that were logged but never
  sent are not used up: the log is never complete, and once more than the look-ahead window (50)
  of entries lie behind the first of them, images of the driver are refused.
  `ReplayFaithful` says that these are the only cases.

Evaluation and wizard:

- `DrivenStepsJudged` holds where times fit: if the forced duration is no multiple of
  the control step, a driven step is not judged; a rollout with no driven step is
  judged by all.  What touches the ego after the first incident is cut, so a rear-end
  contact before a front collision is not at fault.
- A job of an array with a failed rollout never counts itself; one killed and rerun
  counts twice, so aggregation may come early or again; a kill between truncating and
  writing the counter leaves it unreadable.
- A null metric makes the summary raise after the metrics table was rewritten.  A rerun
  concatenates the old combined video again and cannot overwrite the fast one.  A
  rollout whose teardown fails is in the summary twice, one whose evaluation failed in
  neither list, a removed one in no row.
- The ports of a deployment are checked when they are assigned and bound much later;
  any listener counts as this run's container.  A time-out on SLURM leaves the steps
  that were launched, a failing `scancel` those of its container.  A pinned `runtime_server_port`
  may be a port that a service was given; the runtime then cannot listen.
- A cached artifact is right because it exists: what Swiftstack has under a uuid is not compared with
  it (the TODO at `src/wizard/alpasim_wizard/s3_api.py:181`).  The error path of an S3 download
  removes a file that is not there and masks the error.  Rows of local scenes give
  dangling links, and the next run of such a set fails.

## 7. Not modelled

- Tensor code: what the layers of the traffic network compute and which motion it
  samples (`src/trafficsim/alpasim_trafficsim/catk/smart`), the elevation of its
  predictions, and the map box of the session, which the shipped configuration switches
  off; the neural driver policies (`src/driver/.../models`, `plugins/transfuser_driver`)
  with their pre- and post-processing, whose protocol, one prediction per input or an
  exception, is in `DriverService`.
- Numbers: geometry of collisions and off-road, MPC solvers, ray casting, image
  rectification, NAVSIM metrics.  Where a decision hangs on a number it is a choice.
- Output: plots, videos' drawing, the text of configuration files and commands,
  serialisation of messages, logging, telemetry.
- Tools, examples and benchmarks beside the services, and the parsing of YAML, USDZ
  and map files beyond which source a map comes from.
