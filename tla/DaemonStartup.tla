---------------------------- MODULE DaemonStartup ----------------------------
(***************************************************************************)
(* The startup and shutdown of DaemonEngine (daemon/engine.py): the        *)
(* configuration is read and checked, every address of every service is    *)
(* asked for its version and one of some services for its scenes, the      *)
(* scene loader, the address pools, the workers and the scheduler are made *)
(* and the scheduler's cache is warmed (runtime_context.py, validation.py, *)
(* endpoints.py, scene_loader.py, worker/runtime.py).  Any probe may fail, *)
(* a worker process may fail to start, and Ctrl-C may end it at an await.  *)
(*                                                                         *)
(* The work of the workers and of the scheduler is in other modules; here  *)
(* they only run or do not.                                                *)
(***************************************************************************)
EXTENDS Integers, Sequences, FiniteSets, FiniteSetsExt, SequencesExt

CONSTANTS
  ServiceNames,    \* BASE_SERVICE_NAMES and the renderer
  Setups,      \* configurations: user and network
  VersionAt,   \* of an address: what get_version answers
  ScenesAt,    \* of an address: what get_available_scenes answers
  Introspects, \* addresses of renderers that know GetLoadedScenes
  SkipCap,     \* ALL_SKIP_PER_WORKER_CONCURRENCY
  SkipVersion  \* "<skip>"

ASSUME StartupAssumption ==
  /\ {"driver", "physics", "trafficsim", "controller", "renderer"} = ServiceNames
  /\ \A s \in Setups :
       /\ s.kind \in {"missing", "sensorsim", "video_model"} /\ s.video \in BOOLEAN
       /\ s.skip \subseteq ServiceNames
       /\ s.endpoints \in [ServiceNames -> Seq(DOMAIN VersionAt)]
       /\ s.concurrent \in [ServiceNames -> Nat]
       /\ s.provider \in {"usdz", "unset", "trajdata"} /\ s.files \in Seq(STRING)
       /\ s.nrWorkers \in Nat /\ s.ports \in Nat
  /\ SkipCap \in Nat /\ \A a \in DOMAIN VersionAt : VersionAt[a] # SkipVersion

VARIABLES
  config,        \* the configuration of this process
  boot,        \* the place in engine.startup and engine.shutdown
  probes,       \* calls of a gather: <<service, index of its address>> to their state
  versions,     \* version_ids: field to version
  inFlight,     \* max_in_flight
  spawned,      \* workers that run
  spawnFailed,  \* a process could not be started
  dispatcher    \* the scheduler: "none", "running", "stopped"

startupVars == <<config, boot, probes, versions, inFlight, spawned, spawnFailed, dispatcher>>

StartupInit ==
  /\ config \in Setups /\ boot = "parse"
  /\ probes = <<>> /\ versions = <<>> /\ inFlight = 0
  /\ spawned = 0 /\ spawnFailed = FALSE /\ dispatcher = "none"
----------------------------------------------------------------------------
Active == ServiceNames \ config.skip

\* get_service_endpoints: the addresses of s, each a probe of its own.
ProbesOf(s) == {<<s, i>> : i \in DOMAIN config.endpoints[s]}

AddressAt(p) == config.endpoints[p[1]][p[2]]

VersionProbes == UNION {ProbesOf(s) : s \in Active}

\* The driver and the controller work with any scene; one address stands for all.
SceneProbes ==
  LET asked == Active \cap ({"physics", "trafficsim"}
                 \cup (IF config.kind = "sensorsim" THEN {"renderer"} ELSE {}))
  IN  {<<s, 1>> : s \in {x \in asked : config.endpoints[x] # <<>>}}

\* A coroutine given to gather, with its task and its open channel.
Calling(P) == [p \in P |-> "calling"]

Pending == {p \in DOMAIN probes : probes[p] = "calling"}

\* The step after a check: the next one, or the way out.
GoOn(ok, next) == boot' = IF ok THEN next ELSE "leaving"

\* validate_renderer_config.
RendererValid == config.kind # "missing" /\ (config.video <=> config.kind = "video_model")

\* parse_simulator_config, then the tasks of gather_versions_from_addresses.
ParseConfig ==
  LET ok == RendererValid /\ \A s \in Active : config.endpoints[s] # <<>> IN
  /\ boot = "parse" /\ GoOn(ok, "versions")
  /\ probes' = IF ok THEN Calling(VersionProbes) ELSE <<>>
  /\ UNCHANGED <<config, versions, inFlight, spawned, spawnFailed, dispatcher>>

\* _probe_version_for_address and _probe_scenario_compatibility: an answer.
Answers(p) ==
  /\ p \in Pending /\ probes' = [probes EXCEPT ![p] = "answered"]
  /\ UNCHANGED <<config, boot, versions, inFlight, spawned, spawnFailed, dispatcher>>

\* ... or none in time: gather raises and does not wait for the other probes.
ProbeFails(p) ==
  /\ p \in Pending /\ probes' = [probes EXCEPT ![p] = "closed"]
  /\ boot' = "leaving"
  /\ UNCHANGED <<config, versions, inFlight, spawned, spawnFailed, dispatcher>>

\* _log_awaitable_progress when its task is cancelled, by gather or at the end
\* of the event loop: the call is cancelled and its channel closed.
ProbeCancelled(p) ==
  /\ boot = "leaving" /\ p \in Pending
  /\ probes' = [probes EXCEPT ![p] = "closed"]
  /\ UNCHANGED <<config, boot, versions, inFlight, spawned, spawnFailed, dispatcher>>

\* Mutant: the versions of the addresses are not compared.
ConsistentFirst == \A p \in DOMAIN probes : probes[p] = "answered"

\* _assert_consistent_versions.
Consistent ==
  \A p, q \in DOMAIN probes : p[1] = q[1] => VersionAt[AddressAt(p)] = VersionAt[AddressAt(q)]

VersionField ==
  [driver |-> "egodriver", physics |-> "physics", trafficsim |-> "traffic",
   controller |-> "controller",
   renderer |-> IF config.kind = "video_model" THEN "video_model" ELSE "sensorsim"]

VersionFields == {"egodriver", "sensorsim", "video_model", "physics", "traffic", "controller"}

\* The version of each field: that of the first address of its service.
Canonical ==
  [f \in VersionFields |->
     LET of == {s \in Active : VersionField[s] = f} IN
     IF of = {} THEN SkipVersion ELSE VersionAt[AddressAt(<<CHOOSE s \in of : TRUE, 1>>)]]

PhysicsAgrees == config.physicsMode # "none" <=> "physics" \in Active

\* All versions are there; validate_scenarios goes on.
CheckVersions ==
  /\ boot = "versions" /\ \A p \in DOMAIN probes : probes[p] = "answered"
  /\ GoOn(Consistent /\ PhysicsAgrees, "scenes")
  /\ versions' = IF Consistent THEN Canonical ELSE versions
  /\ probes' = IF Consistent /\ PhysicsAgrees THEN Calling(SceneProbes) ELSE probes
  /\ UNCHANGED <<config, inFlight, spawned, spawnFailed, dispatcher>>

\* The scenes to check: none in a daemon, whose requests bring them.
Validated == IF config.validate THEN config.scenes ELSE {}

Incompatible(p) ==
  {scene \in Validated : ScenesAt[AddressAt(p)] \cap {scene, "*"} = {}}

CheckScenes ==
  /\ boot = "scenes" /\ \A p \in DOMAIN probes : probes[p] = "answered"
  /\ GoOn(\A p \in DOMAIN probes : Incompatible(p) = {}, "load")
  /\ UNCHANGED <<config, probes, versions, inFlight, spawned, spawnFailed, dispatcher>>
----------------------------------------------------------------------------
\* build_scene_loader: only USDZ files, one per scene.
Loadable == config.provider = "usdz" /\ IsInjective(config.files)

\* create_address_pools: what a service can serve.
CapacityOf(s) == Len(config.endpoints[s]) * config.concurrent[s]

\* compute_max_in_flight.
InFlightLimit ==
  IF Active = {} THEN Max({1, config.nrWorkers * SkipCap})
  ELSE Min({CapacityOf(s) : s \in Active})

\* compute_num_consumers_per_worker: rounded up.
ConsumersEach == (inFlight + config.nrWorkers - 1) \div config.nrWorkers

\* The rest of build_runtime_context, and the consumers of a worker.
BuildContext ==
  LET ok == Loadable /\ (\A s \in Active : CapacityOf(s) > 0) /\ config.nrWorkers >= 1 IN
  /\ boot = "load" /\ GoOn(ok, "spawn")
  /\ inFlight' = IF ok THEN InFlightLimit ELSE inFlight
  /\ UNCHANGED <<config, probes, versions, spawned, spawnFailed, dispatcher>>

\* start_worker_runtime: the arguments of all workers, with a port for each.
NoPort ==
  /\ boot = "spawn" /\ config.ports < config.nrWorkers
  /\ boot' = "leaving"
  /\ UNCHANGED <<config, probes, versions, inFlight, spawned, spawnFailed, dispatcher>>

\* WorkerRuntime: the inline task, or one process after the other.
SpawnWorker ==
  /\ boot = "spawn" /\ config.ports >= config.nrWorkers /\ spawned < config.nrWorkers
  /\ spawned' = spawned + 1
  /\ UNCHANGED <<config, boot, probes, versions, inFlight, spawnFailed, dispatcher>>

\* No process for the next: nobody knows of the ones that run already.
SpawnFails ==
  /\ boot = "spawn" /\ config.ports >= config.nrWorkers /\ spawned < config.nrWorkers
  /\ config.nrWorkers > 1
  /\ spawnFailed' = TRUE /\ boot' = "leaving"
  /\ UNCHANGED <<config, probes, versions, inFlight, spawned, dispatcher>>

\* A video model has no scene cache on its GPUs.
Affine == config.affine /\ config.kind # "video_model"

MakeScheduler ==
  /\ boot = "spawn" /\ spawned = config.nrWorkers
  /\ dispatcher' = "running"
  /\ boot' = IF Affine THEN "warm" ELSE "started"
  /\ UNCHANGED <<config, probes, versions, inFlight, spawned, spawnFailed>>

\* scheduler.warm_start: raises if a renderer cannot say what it has loaded.
WarmStart ==
  /\ boot = "warm"
  /\ boot' = IF "renderer" \in Active => ToSet(config.endpoints["renderer"]) \subseteq Introspects
              THEN "started" ELSE "undo"
  /\ UNCHANGED <<config, probes, versions, inFlight, spawned, spawnFailed, dispatcher>>

\* Ctrl-C, which cancels startup at an await.
Interrupt ==
  /\ \/ boot \in {"versions", "scenes"} /\ boot' = "leaving"
     \/ boot = "warm" /\ boot' = "undo"
  /\ UNCHANGED <<config, probes, versions, inFlight, spawned, spawnFailed, dispatcher>>

\* The scheduler's shutdown: after a failed warm start, or when asked to.
StopScheduler ==
  /\ boot \in {"undo", "started"} /\ dispatcher = "running"
  /\ dispatcher' = "stopped"
  /\ boot' = IF boot = "undo" THEN "undo" ELSE "stopping"
  /\ UNCHANGED <<config, probes, versions, inFlight, spawned, spawnFailed>>

\* Mutant: after a failed warm start only the scheduler is shut down.
StopIfAsked ==
  /\ boot \in {"undo", "stopping"} /\ dispatcher = "stopped"
  /\ spawned' = IF boot = "undo" THEN spawned ELSE 0
  /\ boot' = IF boot = "undo" THEN "leaving" ELSE "stopped"
  /\ UNCHANGED <<config, probes, versions, inFlight, spawnFailed, dispatcher>>

\* worker_runtime.stop.
StopAllWorkers ==
  /\ boot \in {"undo", "stopping"} /\ dispatcher = "stopped"
  /\ spawned' = 0
  /\ boot' = IF boot = "undo" THEN "leaving" ELSE "stopped"
  /\ UNCHANGED <<config, probes, versions, inFlight, spawnFailed, dispatcher>>

\* The exception of startup ends asyncio.run, which waits for all tasks.
LeaveStartup ==
  /\ boot = "leaving" /\ Pending = {}
  /\ boot' = "failed"
  /\ UNCHANGED <<config, probes, versions, inFlight, spawned, spawnFailed, dispatcher>>

StartupNext ==
  \/ ParseConfig \/ CheckVersions \/ CheckScenes \/ BuildContext
  \/ NoPort \/ SpawnWorker \/ SpawnFails \/ MakeScheduler \/ WarmStart
  \/ Interrupt \/ StopScheduler \/ StopAllWorkers \/ LeaveStartup
  \/ \E p \in DOMAIN probes : Answers(p) \/ ProbeFails(p) \/ ProbeCancelled(p)

StartupSpec == StartupInit /\ [][StartupNext]_startupVars

\* build_runtime_info: what a client of the daemon is told.
RuntimeInfo ==
  [rollouts |-> inFlight, workers |-> config.nrWorkers,
   scenes |-> ToSet(config.files),
   capacity |-> [s \in ServiceNames |-> IF s \in Active THEN CapacityOf(s) ELSE 0],
   skipped |-> config.skip]
----------------------------------------------------------------------------
(* A runtime that reports itself started can keep what it tells clients and  *)
(* logs with each rollout: every address of a service runs the one version   *)
(* that is recorded for it, the rollouts it takes at once find a slot at     *)
(* every service and a consumer, none of the workers being idle by design,   *)
(* the addresses that were asked have the configured scenes, and a warmed    *)
(* scheduler can ask all renderers.  A startup that gives up on the way, at  *)
(* whichever step, leaves no call, no scheduler and no worker behind, except *)
(* for the workers before the one that could not be started.                 *)
StartsWhole ==
  /\ boot = "started" =>
       /\ \A p \in VersionProbes : versions[VersionField[p[1]]] = VersionAt[AddressAt(p)]
       /\ \A f \in VersionFields :
            versions[f] = SkipVersion <=> \A s \in Active : VersionField[s] # f
       /\ \A s \in ServiceNames \ RuntimeInfo.skipped :
            RuntimeInfo.rollouts \in 1..RuntimeInfo.capacity[s]
       /\ spawned = RuntimeInfo.workers /\ dispatcher = "running"
       /\ spawned * ConsumersEach \in inFlight..(inFlight + spawned - 1)
       /\ Cardinality(RuntimeInfo.scenes) = Len(config.files)
       /\ \A p \in SceneProbes : Incompatible(p) = {}
       /\ Affine /\ "renderer" \in Active => ToSet(config.endpoints["renderer"]) \subseteq Introspects
  /\ boot \in {"failed", "stopped"} =>
       /\ Pending = {} /\ dispatcher # "running"
       /\ spawned = 0 \/ spawnFailed
=============================================================================
