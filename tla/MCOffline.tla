----------------------------- MODULE MCOffline -----------------------------
(* What is done around rollouts, checked one machine at a time: replaying    *)
(* the log of one, evaluating one, aggregating those of an array of jobs,    *)
(* reporting on those of a job, deploying the services of a run, and         *)
(* fetching its scenes.                                                      *)
EXTENDS AslReplay, Evaluation, Aggregation, Deployment, SceneSets

Pose(t, x) == [at |-> t, x |-> x]
OneCall(m, c, t, x) == [method |-> m, camera |-> c, poses |-> <<Pose(t, x)>>]

\* A render before the first image and one with its own, a step of the driver,
\* and physics calls that wait together, the last with two poses.
MCScript ==
  <<OneCall("render", "front", 1, 0), OneCall("render", "front", 4, 0),
    OneCall("image", "rear", 1, 0), OneCall("image", "front", 4, 0),
    OneCall("egomotion", "", 3, 0), OneCall("egomotion", "", 4, 10),
    OneCall("drive", "", 4, 10),
    OneCall("physics", "", 5, 10), OneCall("physics", "", 6, 20),
    [method |-> "physics", camera |-> "", poses |-> <<Pose(7, 30), Pose(8, 40)>>]>>

\* The first step of a driver, which is told of all poses up to its time at once.
MCStart ==
  <<OneCall("image", "front", 4, 0),
    [method |-> "egomotion", camera |-> "", poses |-> <<Pose(3, 0), Pose(4, 10)>>],
    OneCall("drive", "", 4, 10), OneCall("egomotion", "", 5, 20)>>

\* Images of one camera, and of two in turn, so many that the first of the other
\* camera holds the window back.
MCOneCamera ==
  <<OneCall("image", "front", 1, 0), OneCall("image", "front", 3, 0), OneCall("drive", "", 3, 10),
    OneCall("image", "front", 5, 0), OneCall("image", "front", 7, 0)>>
MCTwoCameras ==
  <<OneCall("image", "rear", 1, 0), OneCall("image", "front", 1, 0), OneCall("drive", "", 2, 10),
    OneCall("image", "rear", 3, 0), OneCall("image", "front", 3, 0), OneCall("drive", "", 4, 20)>>

RerunOf(script, drift, call, how) == [script |-> script, drift |-> drift, call |-> call, how |-> how]
Rerun(drift, call, how) == RerunOf(MCScript, drift, call, how)
Same(script) == RerunOf(script, 0, 0, "moved")

\* Faithful ones with and without drift, and one that differs in each way for a
\* call of each kind.
MCReruns ==
  {Rerun(0, 0, "moved"), Rerun(1, 0, "moved"), Rerun(0, 1, "retimed"), Rerun(1, 5, "left out"),
   Rerun(0, 6, "moved"), Rerun(0, 7, "left out"), Rerun(1, 8, "retimed"), Rerun(0, 10, "moved"),
   Same(MCStart), Same(MCOneCamera), Same(MCTwoCameras), RerunOf(MCOneCamera, 0, 4, "left out"),
   RerunOf(MCTwoCameras, 0, 5, "left out"), RerunOf(MCStart, 0, 2, "left out")}

TimingOf(start, force, short) ==
  [renderStart |-> start, firstPolicy |-> start, force |-> force, control |-> 2, short |-> short]

\* Without and with a forced step, a short drive, and a late first frame.
MCTimings ==
  {TimingOf(1, 0, FALSE), TimingOf(1, 2, FALSE), TimingOf(1, 2, TRUE), TimingOf(3, 2, FALSE)}

Met(touched, offroad, far) == [touched |-> touched, offroad |-> offroad, far |-> far]

MCSituations ==
  {Met({}, FALSE, FALSE), Met({"front"}, FALSE, FALSE), Met({"rear"}, FALSE, FALSE),
   Met({"front", "rear"}, FALSE, FALSE), Met({}, TRUE, FALSE), Met({}, FALSE, TRUE)}

Service(name, boxes, copies) ==
  [name |-> name, boxes |-> boxes, copies |-> copies, skip |-> FALSE, inRenderer |-> FALSE]
PlanOf(method, mode, runtime, retries, services) ==
  [method |-> method, mode |-> mode, runtime |-> runtime, retries |-> retries, services |-> services,
   pinned |-> 0, external |-> {}]
Outside(service, at) == [service |-> service, at |-> at]

MCMerged == [Service("physics", 1, 1) EXCEPT !.inRenderer = TRUE]
MCServer == PlanOf("slurm", "server", TRUE, 1, <<Service("driver", 2, 1)>>)
MCOutside == PlanOf("slurm", "oneshot", TRUE, 1, <<Service("renderer", 1, 1)>>)

\* On SLURM with copies, as a server, at a port of its own choice and at one of
\* those that will be given to a driver, with merged and with external services,
\* also of a kind that is run as well, of one that must not be, and of none that
\* is known, and without a runtime; on docker; only generated; and what cannot be.
MCPlans ==
  {PlanOf("slurm", "oneshot", TRUE, 2, <<Service("driver", 1, 2)>>),
   MCServer, [MCServer EXCEPT !.pinned = 12], [MCServer EXCEPT !.pinned = 5],
   PlanOf("slurm", "oneshot", TRUE, 2, <<MCMerged, Service("renderer", 1, 1)>>),
   [MCOutside EXCEPT !.external = {Outside("driver", 12), Outside("renderer", 13)}],
   [MCOutside EXCEPT !.external = {Outside("map", 12)}],
   [MCServer EXCEPT !.external = {Outside("driver", 12)}],
   PlanOf("docker", "oneshot", TRUE, 1, <<Service("driver", 1, 1), [Service("renderer", 1, 1) EXCEPT !.skip = TRUE]>>),
   PlanOf("slurm", "oneshot", FALSE, 1, <<Service("driver", 1, 1)>>),
   PlanOf("docker", "server", FALSE, 1, <<Service("driver", 1, 1)>>),
   PlanOf("none", "oneshot", TRUE, 1, <<MCMerged, Service("renderer", 2, 1)>>)}

RowOf(uuid, scene, version, repository) ==
  [uuid |-> uuid, scene |-> scene, version |-> version, modified |-> version, repository |-> repository,
   revision |-> repository = "huggingface", readable |-> TRUE]
MCRows ==
  <<RowOf("a", 1, 1, "huggingface"), RowOf("b", 1, 2, "huggingface"), RowOf("c", 2, 1, "swiftstack"),
    RowOf("d", 3, 1, "swiftstack")>>
MCTwo   == << <<"two", 1>>, <<"two", 2>> >>
MCThree == << <<"three", 1>>, <<"three", 2>>, <<"three", 3>> >>

CatalogOf(files, directory) == [files |-> files, suites |-> << <<MCTwo, MCTwo \o MCThree>> >>, directory |-> directory]
MCValid == CatalogOf(<< <<MCRows>> >>, <<>>)

\* A valid one, whose suites may be in two files, also such that overlap, files
\* of scenes that overlap, two with a local directory, and two with a mislabelled
\* artifact each and a scene that is missing, the one with a tie and a local
\* artifact, which is there, the other one's is not.
MCCatalogs ==
  {MCValid, [MCValid EXCEPT !.suites = << <<MCTwo>>, <<MCThree>> >>],
   [MCValid EXCEPT !.suites = << <<MCTwo>>, <<MCThree \o MCTwo>> >>],
   CatalogOf(<< <<SubSeq(MCRows, 1, 2), SubSeq(MCRows, 2, 3)>>, <<SubSeq(MCRows, 3, 4)>> >>, <<>>),
   CatalogOf(<< <<SubSeq(MCRows, 1, 2)>>, <<SubSeq(MCRows, 3, 4)>> >>,
             <<[RowOf("d", 1, 1, "local") EXCEPT !.readable = FALSE], RowOf("c", 2, 1, "local")>>),
   CatalogOf(<< << <<RowOf("a", 1, 1, "huggingface"), RowOf("x", 1, 1, "huggingface"), RowOf("b", 2, 1, "local")>> >> >>, <<>>),
   CatalogOf(<< << <<RowOf("y", 1, 1, "swiftstack"), [RowOf("b", 2, 1, "local") EXCEPT !.readable = FALSE]>> >> >>, <<>>)}

NoScenes == [suite |-> "", named |-> TRUE, ids |-> {}, limit |-> 0, local |-> FALSE]
Named(ids) == [NoScenes EXCEPT !.ids = ids]
OfSuite(suite, limit) == [NoScenes EXCEPT !.suite = suite, !.named = FALSE, !.limit = limit]
MCDemands ==
  {OfSuite("two", 0), OfSuite("three", 2), OfSuite("three", 0), Named({1, 2}), Named({1}), Named({4}), NoScenes,
   [OfSuite("two", 0) EXCEPT !.named = TRUE], [OfSuite("", 1) EXCEPT !.local = TRUE]}

FoundOut(dist, incident, fails) ==
  [dist |-> dist, incident |-> incident, atFault |-> fails, fails |-> fails, score |-> dist,
   black |-> FALSE, gap |-> FALSE]

\* A good drive, one at fault, one with a black frame, and one of which a scorer
\* failed.
MCVerdicts ==
  {FoundOut(2, FALSE, FALSE), FoundOut(1, TRUE, TRUE),
   [FoundOut(2, FALSE, FALSE) EXCEPT !.black = TRUE], [FoundOut(2, FALSE, FALSE) EXCEPT !.gap = TRUE]}

\* Two clips, one with two rollouts, and three; rollouts that never end leave fewer.
MCPlacements == {<<1, 2, 1>>, <<1, 2, 3>>}

\* What is read back of finished rollouts is what they recorded: by a replay,
\* and by the summary of the job they belong to.
ReadBackWhole == ReplayFaithful /\ SummaryWhole

VARIABLE machine   \* the one that runs

vars == <<machine, replayVars, evaluationVars, arrayVars, summaryVars, deployVars, setVars>>

\* The machine that runs; the others stand still.
Running(m) ==
  /\ machine = m /\ UNCHANGED machine
  /\ m # "replay" => UNCHANGED replayVars
  /\ m # "evaluation" => UNCHANGED evaluationVars
  /\ m # "array" => UNCHANGED arrayVars
  /\ m # "summary" => UNCHANGED summaryVars
  /\ m # "deploy" => UNCHANGED deployVars
  /\ m # "scenes" => UNCHANGED setVars

\* Only the machine that runs starts in all its ways.
Init ==
  /\ machine \in {"replay", "evaluation", "array", "summary", "deploy", "scenes"}
  /\ AslReplayInit /\ (machine # "replay" => rerun = Rerun(0, 0, "moved"))
  /\ EvaluationInit /\ (machine # "evaluation" => timing = TimingOf(1, 0, FALSE))
  /\ ArrayInit /\ (machine # "array" => allow = TRUE)
  /\ SummaryInit /\ (machine # "summary" => clipOf = <<1, 2, 1>> /\ combine = FALSE)
  /\ DeployInit /\ (machine # "deploy" => plan.method = "none")
  /\ SceneSetsInit
  /\ machine # "scenes" =>
       catalogs = MCValid /\ demand = [w \in Wizards |-> OfSuite("two", 0)]

Next ==
  \/ Running("replay") /\ AslReplayNext
  \/ Running("evaluation") /\ EvaluationNext
  \/ Running("array") /\ ArrayNext
  \/ Running("summary") /\ SummaryNext
  \/ Running("deploy") /\ DeployNext
  \/ Running("scenes") /\ SceneSetsNext

Spec == Init /\ [][Next]_vars
=============================================================================
