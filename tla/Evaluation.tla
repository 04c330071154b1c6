----------------------------- MODULE Evaluation -----------------------------
(***************************************************************************)
(* From the log of a rollout to its score (eval/): the accumulator gathers *)
(* poses and camera images, the scorers judge each time the ego was at,    *)
(* the modifiers choose the times that count, and what is left becomes one *)
(* row of the summary.  The first steps of a rollout replay the recorded   *)
(* drive; the driver must be judged by the others only.                    *)
(*                                                                         *)
(* What the ego meets at a time is a situation: the sides on which other   *)
(* actors touch it, whether it is off the road, and whether it is too far  *)
(* from the recorded drive.                                                *)
(***************************************************************************)
EXTENDS Integers, FiniteSets, Sequences, SequencesExt, FiniteSetsExt

CONSTANTS
  Timings,     \* of a rollout whose session starts at 0; see Timing
  Situations,  \* what the ego may meet
  Saturation,  \* the numerator of progress_saturation_threshold, over Length
  Length       \* steps to the end of the recorded drive

\* renderStart and firstPolicy come from the scene, force is
\* force_gt_duration_us; short if the recorded drive is.
Timing == [renderStart : Nat, firstPolicy : Nat, force : Nat, control : Nat \ {0}, short : BOOLEAN]

Sides == {"front", "rear", "lateral"}

ASSUME EvaluationAssumption ==
  /\ Timings \subseteq Timing
  /\ Situations \subseteq [touched : SUBSET Sides, offroad : BOOLEAN, far : BOOLEAN]
  /\ Saturation \in Nat \ {0} /\ Length \in Nat

VARIABLES
  timing,    \* of this rollout
  poses,     \* _actor_trajectory_data: where the ego was, and what it met there
  frames,    \* the Camera's timestamps_us and images: [end, black]
  report     \* of the evaluation

evaluationVars == <<timing, poses, frames, report>>

NoReport == [outcome |-> "none", failed |-> "none", incident |-> FALSE, atFault |-> FALSE,
             offroad |-> FALSE, score |-> 0]

Uneventful == [touched |-> {}, offroad |-> FALSE, far |-> FALSE]

\* _handle_rollout_metadata, and the two poses that the runtime logs at the start.
EvaluationInit ==
  /\ timing \in Timings
  /\ poses = <<[at |-> 0, met |-> Uneventful, last |-> "none"],
               [at |-> timing.firstPolicy, met |-> Uneventful, last |-> "none"]>>
  /\ frames = <<>> /\ report = NoReport

Now == Last(poses).at

\* _handle_actor_poses of a step, a control step after the one before; the
\* actor that touches the ego on side last is the one the STRtree gives last.
LogPoses(met, last) ==
  /\ report = NoReport /\ Len(poses) < Length + 2
  /\ IF met.touched = {} THEN last = "none" ELSE last \in met.touched
  /\ poses' = Append(poses, [at |-> Now + timing.control, met |-> met, last |-> last])
  /\ UNCHANGED <<timing, frames, report>>

\* Camera.add_image: in the order of their ends; searchsorted is to the left.
AddImage(images, image) ==
  LET earlier == {k \in DOMAIN images : images[k].end < image.end}
  IN  IF images = <<>> \/ image.end >= Last(images).end THEN Append(images, image)
      ELSE InsertAt(images, Cardinality(earlier) + 1, image)

\* The image of a step, of the newest or of the one before.
LogImage(k, black) ==
  /\ report = NoReport
  /\ k \in {Len(poses) - 1, Len(poses)} \cap 2..Len(poses)
  /\ \A j \in DOMAIN frames : frames[j].end # poses[k].at
  /\ frames' = AddImage(frames, [end |-> poses[k].at, black |-> black])
  /\ UNCHANGED <<timing, poses, report>>

----------------------------------------------------------------------------
\* SimulationResult.first_driven_timestamp_us.
FirstDriven == timing.force + timing.control

\* Camera.image_at_time: the first that ends at t or later, if there is one.
ImageAt(t) == LET later == {k \in DOMAIN frames : frames[k].end >= t}
              IN  IF later = {} THEN {} ELSE {frames[Min(later)]}

\* The image that ImageScorer finds for a step is black, if it does not raise.
SawBlack(pose, failed) ==
  failed # "image" /\ \E image \in ImageAt(pose.at) : image.black

\* OffRoadScorer's value, or the default of a rollout for which it raised.
OffRoad(pose, failed) == pose.met.offroad /\ failed # "offroad"

\* ScenarioEvaluator.evaluate marks what the driver drove.
Relevant(pose) == pose.at >= FirstDriven

\* A row of df_wide, when one scorer failed; CollisionScorer keeps one side.
\* AddCombinedEvent adds the incident (offroad_or_collision) and atFault.
Row(pose, failed) ==
  LET offroad == OffRoad(pose, failed)
  IN  [at |-> pose.at, offroad |-> offroad, far |-> pose.met.far,
       relevant |-> Relevant(pose), black |-> SawBlack(pose, failed),
       incident |-> pose.last # "none" \/ offroad,
       atFault |-> pose.last \in {"front", "lateral"}]

Hits(rows, column) == {k \in DOMAIN rows : rows[k][column]}

\* remove_timesteps_before_or_after_event: all rows stay if there is no event.
RemoveBefore(rows, column) ==
  IF Hits(rows, column) = {} THEN rows ELSE SubSeq(rows, Min(Hits(rows, column)), Len(rows))
RemoveAfter(rows, column) ==
  IF Hits(rows, column) = {} THEN rows ELSE SubSeq(rows, 1, Min(Hits(rows, column)))

\* RemoveTrajectoryWithEvent.
RemoveIfAny(rows, column) == IF Hits(rows, column) = {} THEN rows ELSE <<>>

\* Mutant: what comes after an incident is cut off before what was replayed is.
IncidentFirst(rows) ==
  RemoveAfter(RemoveIfAny(RemoveBefore(RemoveAfter(rows, "incident"), "relevant"), "black"), "far")

\* DEFAULT_MODIFIERS in their order, then max_dist_to_gt_trajectory's.
Modified(rows) ==
  RemoveAfter(RemoveAfter(RemoveIfAny(RemoveBefore(rows, "relevant"), "black"), "incident"), "far")

\* _progress_score, in parts of Saturation: a short drive has no progress to show.
ProgressScore(progress) == IF timing.short THEN Saturation ELSE Min({progress, Saturation})

\* _hard_failure_reason.
HardFailure(atFault, offroad) == atFault \/ offroad

\* score_rollout.
SceneScore(hardFailure, progress) == IF hardFailure THEN 0 ELSE ProgressScore(progress)

\* What is known of a rollout when its rows are aggregated over time.
Scored(rows, failed) ==
  LET kept == Modified(rows)
      any(column) == Hits(kept, column) # {}
      last == CHOOSE k \in DOMAIN rows : rows[k].at = Last(kept).at
  IN  [outcome |-> "scored", failed |-> failed, incident |-> any("incident"),
       atFault |-> any("atFault"), offroad |-> any("offroad"),
       score |-> SceneScore(HardFailure(any("atFault"), any("offroad")), last - 2)]

\* ScorerGroup.calculate and aggregate_and_write_metrics_results_txt: a scorer
\* that raises leaves its columns empty, or out if there are no other rollouts;
\* only offroad's has a default.
ReportOf(failed, others) ==
  LET rows == [k \in DOMAIN poses |-> Row(poses[k], failed)]
      as(outcome) == [NoReport EXCEPT !.outcome = outcome, !.failed = failed]
  IN  IF ~others /\ failed \notin {"none", "offroad"} THEN as("raised")
      ELSE IF Modified(rows) = <<>> THEN as("removed")
      ELSE IF failed \in {"collision", "ground_truth"} \/ (failed = "offroad" /\ others)
        THEN as("raised")
      ELSE Scored(rows, failed)

Evaluate(failed, others) ==
  /\ report = NoReport /\ Len(poses) > 2
  /\ frames = <<>> => failed = "image"
  /\ report' = ReportOf(failed, others)
  /\ UNCHANGED <<timing, poses, frames>>

EvaluationNext ==
  \/ \E met \in Situations, last \in Sides \cup {"none"} : LogPoses(met, last)
  \/ \E k \in 1 .. Length + 2, black \in BOOLEAN : LogImage(k, black)
  \/ \E failed \in {"none", "collision", "offroad", "image", "ground_truth"}, others \in BOOLEAN :
       Evaluate(failed, others)

EvaluationSpec == EvaluationInit /\ [][EvaluationNext]_evaluationVars

----------------------------------------------------------------------------
\* The driver's own steps: force_gt_period is over.
Driven == {k \in 3 .. Len(poses) : poses[k].at > timing.renderStart + timing.force}

\* The scene's first frame and the forced drive fit the control steps, so that
\* FirstDriven is where the runtime hands over.
HandoverFits ==
  /\ timing.firstPolicy = timing.renderStart /\ timing.renderStart < timing.control
  /\ timing.force % timing.control = 0

Happened(k) == poses[k].met.touched # {} \/ poses[k].met.offroad

\* The driven steps that count: up to the first that is an incident or far off.
Counted == {k \in Driven : \A j \in Driven : j < k => ~Happened(j) /\ ~poses[j].met.far}

(* When every scorer worked and the driver drove at all, a rollout is scored *)
(* by the driver's own steps, up to the first incident or the first step far *)
(* from the recorded drive, and not by what happened while that was          *)
(* replayed: the verdicts are those of the one incident, the progress that   *)
(* of the last step that counts.  A black frame drops the rollout, whenever  *)
(* it was shown to the driver and in whatever order the frames were logged.  *)
(* A scorer that failed never makes a rollout that crashed pass.             *)
DrivenStepsJudged ==
  /\ \A j, k \in DOMAIN frames : j < k => frames[j].end < frames[k].end
  /\ report.outcome # "none" /\ report.failed = "none" /\ HandoverFits /\ Driven # {} =>
       LET black(k) == \E image \in ImageAt(poses[k].at) : image.black
           end      == Max(Counted)
           one      == Cardinality(poses[end].met.touched) = 1
       IN  /\ report.outcome = IF \E k \in Driven : black(k) THEN "removed" ELSE "scored"
           /\ report.outcome = "scored" =>
                /\ report.incident = Happened(end)
                /\ report.offroad = poses[end].met.offroad
                /\ report.atFault => {"front", "lateral"} \cap poses[end].met.touched # {}
                /\ one /\ "rear" \notin poses[end].met.touched => report.atFault
                /\ report.score > 0 => end > 2 /\ ~report.atFault /\ ~report.offroad
                /\ ~report.atFault /\ ~report.offroad /\ ~timing.short =>
                     report.score = Min({end - 2, Saturation})
  /\ report.outcome = "scored" => report.failed \notin {"collision", "ground_truth"}

(* What the scorer's docstring says of collision_front, and likewise of the  *)
(* sides: an actor that the ego runs into is a collision at fault.           *)
FrontCollisionsCount ==
  report.outcome = "scored" /\ report.failed = "none" /\ HandoverFits /\ Driven # {} =>
    ("front" \in poses[Max(Counted)].met.touched => report.atFault)
=============================================================================
