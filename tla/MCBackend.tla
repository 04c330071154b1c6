----------------------------- MODULE MCBackend ------------------------------
(* Eight machines around a job of the scheduler, checked one at a time: the  *)
(* address pools (five jobs, of which one brings its own driver, over a     *)
(* driver with three addresses, two renderers with two slots each and a      *)
(* skipped physics service), the workers (two of two consumers, or one       *)
(* inline), the retried calls of their services (one caller that retries     *)
(* and one that does not, in processes of their own), the five sessions of   *)
(* event_loop.run (physics has no session of its own), two wanted rollouts   *)
(* over three runs of the command line, of which any may be killed, and two  *)
(* consumers that ask for the maps of four scenes over a cache of two, and   *)
(* for the images of two scenes from two renderers.                          *)
EXTENDS AddressPool, WorkerPool, RpcCall, RolloutSession, Autoresume, SceneMaps, RenderSession,
        DaemonStartup

CONSTANTS driver, renderer, physics, own, t1, t2, t3, t4, t5, a1, a2, a3, render, drive

VARIABLE machine   \* the one that runs

vars == <<machine, poolVars, workersVars, rpcVars, sessionVars, resumeVars, sceneVars, renderVars, startupVars>>

MCPoolsOf == [t \in Tickets |-> IF t = t4 THEN <<own, physics, renderer>>
                                ELSE <<driver, physics, renderer>>]

MCAddressList == [p \in Pools |-> CASE p = driver -> <<a1, a2, a3>>
                                    [] p = renderer -> <<a2, a3>>
                                    [] p = own -> <<a3>>
                                    [] p = physics -> <<a1>>]

TwoRenderers == [p \in Pools |-> IF p = renderer THEN 2 ELSE 1]

\* What a file may hold: both maps, a broken clipgt and a good XODR, no clipgt
\* and an XODR that cannot be aligned, a broken clipgt only.
MCContents ==
  [f \in Files |->
     CASE f = "both"  -> [clipgt |-> "whole", xodr |-> "whole"]
       [] f = "mixed" -> [clipgt |-> "broken", xodr |-> "whole"]
       [] f = "lost"  -> [clipgt |-> "none", xodr |-> "unaligned"]
       [] f = "bare"  -> [clipgt |-> "broken", xodr |-> "none"]]

\* A scene with all cameras and one without that in the rear.
MCHasCameras ==
  [s \in Sites |-> IF s = "city" THEN {"front", "side", "rear"} ELSE {"front", "side"}]

MCDue == <<{"front", "side"}, {"front"}>>

\* Workers with each way of rendering, and with overrides that apply to all
\* scenes, to some, not at all, or not to the recorded frames of a video model.
SetupOfWorker(kind, bundling, skip, overrides, bad) ==
  [kind |-> kind, bundling |-> bundling, skip |-> skip, overrides |-> overrides, bad |-> bad]
Replacing(c, field) == [x \in {c} |-> {field}]
MCWorker(bundling, bad) ==
  SetupOfWorker("sensorsim", bundling, FALSE, [x \in bad |-> {"shutter"}], bad)
MCWorkerSetups ==
  {MCWorker("aggregated", {}), MCWorker("none", {"front"}),
   SetupOfWorker("sensorsim", "none", FALSE, Replacing("front", "rig"), {}),
   SetupOfWorker("sensorsim", "batch", FALSE, Replacing("rear", "rig"), {}),
   SetupOfWorker("sensorsim", "none", TRUE, <<>>, {}),
   SetupOfWorker("video", "none", FALSE, Replacing("side", "resolution"), {}),
   SetupOfWorker("video", "none", FALSE, Replacing("front", "rig"), {}),
   SetupOfWorker("video", "none", TRUE, <<>>, {})}

\* Two drivers and renderers, one physics service, and no other service.
Usual ==
  [kind |-> "sensorsim", video |-> FALSE, skip |-> {"controller", "trafficsim"},
   endpoints |-> [s \in ServiceNames |-> CASE s = "driver" -> <<"d1", "d2">>
                                       [] s = "renderer" -> <<"r1", "r2">>
                                       [] s = "physics" -> <<"p1">>
                                       [] OTHER -> <<>>],
   concurrent |-> [s \in ServiceNames |-> IF s = "physics" THEN 3 ELSE 2],
   physicsMode |-> "ego", scenes |-> {"city"}, validate |-> TRUE, provider |-> "usdz",
   files |-> <<"city", "hill">>, nrWorkers |-> 2, ports |-> 2, affine |-> TRUE]

Hosts == {"d1", "d2", "old", "r1", "r2", "blind", "p1"}
MCVersionAt == [a \in Hosts |-> IF a = "old" THEN "v1" ELSE "v2"]
MCScenesAt == [a \in Hosts |-> CASE a = "r1" -> {"city", "hill"} [] a = "p1" -> {"*"}
                                  [] OTHER -> {"hill"}]

MCSetups ==
  {Usual,
   [Usual EXCEPT !.kind = "missing"],
   [Usual EXCEPT !.video = TRUE],
   [Usual EXCEPT !.kind = "video_model", !.video = TRUE, !.physicsMode = "none",
                 !.skip = @ \cup {"physics"}],
   [Usual EXCEPT !.endpoints["driver"] = <<>>],
   [Usual EXCEPT !.endpoints["driver"] = <<"d1", "old">>],
   [Usual EXCEPT !.endpoints["renderer"] = <<"r1", "blind">>],
   [Usual EXCEPT !.endpoints["renderer"] = <<"r2", "r1">>],
   [Usual EXCEPT !.physicsMode = "none"],
   [Usual EXCEPT !.scenes = {"city", "sea"}],
   [Usual EXCEPT !.scenes = {"city", "sea"}, !.validate = FALSE, !.affine = FALSE,
                 !.concurrent["renderer"] = 3, !.ports = 3, !.nrWorkers = 3],
   [Usual EXCEPT !.provider = "trajdata"],
   [Usual EXCEPT !.files = <<"city", "city">>],
   [Usual EXCEPT !.concurrent["driver"] = 0],
   [Usual EXCEPT !.nrWorkers = 1, !.skip = ServiceNames, !.physicsMode = "none"],
   [Usual EXCEPT !.ports = 1]}

MCAttempts == [c \in Callers |-> IF c = drive THEN 1 ELSE 2]

ServiceOrder == <<"renderer", "physics", "controller", "driver", "traffic">>

\* A is taken while its machine runs; the others stand still.
Running(m, A) ==
  /\ machine = m /\ A /\ UNCHANGED machine
  /\ m # "pools" => UNCHANGED poolVars
  /\ m # "workers" => UNCHANGED workersVars
  /\ m # "calls" => UNCHANGED rpcVars
  /\ m # "session" => UNCHANGED sessionVars
  /\ m # "resume" => UNCHANGED resumeVars
  /\ m # "scenes" => UNCHANGED sceneVars
  /\ m # "images" => UNCHANGED renderVars
  /\ m # "startup" => UNCHANGED startupVars

Init ==
  /\ machine \in {"pools", "workers", "calls", "session", "resume", "scenes", "images",
                 "startup"}
  /\ PoolInit /\ WorkersInit /\ RpcInit /\ SessionInit /\ ResumeInit /\ SceneMapsInit
  /\ RenderInit /\ (machine # "images" => worker = MCWorker("aggregated", {}))
  /\ StartupInit /\ (machine # "startup" => config = Usual)

Next ==
  \/ Running("pools", PoolNext) \/ Running("workers", WorkersNext) \/ Running("calls", RpcNext)
  \/ Running("session", SessionNext) \/ Running("resume", ResumeNext)
  \/ Running("scenes", SceneMapsNext) \/ Running("images", RenderNext)
  \/ Running("startup", StartupNext)

\* The fairness of WorkersFairSpec.
Spec ==
  /\ Init /\ [][Next]_vars
  /\ \A w \in Workers :
       /\ WF_vars(Running("workers", WorkerExits(w)))
       /\ \A c \in Consumers : WF_vars(Running("workers", ConsumerStep(w, c)))
=============================================================================
