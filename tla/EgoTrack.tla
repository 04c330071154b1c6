------------------------------ MODULE EgoTrack ------------------------------
(***************************************************************************)
(* The ego's history in a rollout (event_loop.py, force_gt_blend.py,       *)
(* force_gt_utils.py, events): seeded with the recorded drive, driven      *)
(* along it while the ground truth is forced, which eases over to what     *)
(* physics makes of it, and continued by the steps of the driver.  A pose  *)
(* is a height: the one thing physics changes.                             *)
(***************************************************************************)
EXTENDS Trajectories

CONSTANTS
  Recorded,    \* unbound.gt_ego_trajectory
  Ground,      \* Ground[t]: the height physics finds at t
  Setups,      \* [context, render, policy, force, steps, control, report, physics]
  Heights,     \* heights that plans of the driver lead to
  LookAhead    \* FORCE_GT_REFERENCE_HORIZON_US

VARIABLES
  setup,       \* what UnboundRollout fixes
  ego,         \* state.ego_trajectory
  estimate,    \* state.ego_trajectory_estimate
  forcedEgo,   \* force_gt_ego_trajectory, or <<>>
  now,         \* start of the next control step
  reference,   \* what the controller was last given while ground truth was forced
  progress        \* seeded, running, ended or raised

egoVars == <<setup, ego, estimate, forcedEgo, now, reference, progress>>

----------------------------------------------------------------------------
(* Times that _build_rollout_timing computes                                 *)

ClosedLoop == setup.render + setup.force

\* n_sim_steps_actual: only complete steps within the recording.
NSteps == Min({setup.steps, (EndOf(Recorded) - 1 - setup.policy) \div setup.control})

End == setup.policy + NSteps * setup.control

\* force_gt_period.
InForcePeriod(t) == setup.render <= t /\ t <= ClosedLoop
----------------------------------------------------------------------------
(* The forced trajectory                                                     *)

\* force_gt_physics_blend_hold_end_us.
HoldEnd == setup.render

\* force_gt_physics_blend_alpha: from the recorded height to the ground's.
Eased(t, recorded, ground) ==
  IF ClosedLoop <= HoldEnd \/ t <= HoldEnd THEN recorded
  ELSE IF t >= ClosedLoop THEN ground
  ELSE recorded + ((ground - recorded) * (t - HoldEnd)) \div (ClosedLoop - HoldEnd)

BlendEnd == Min({ClosedLoop, End})

\* The control steps, the last of which may be cut short.
Grid == {t \in setup.policy .. BlendEnd : (t - setup.policy) % setup.control = 0}

\* _build_force_gt_physics_blend_trajectory: recorded instants, steps and ends.
BlendTrajectory ==
  IF BlendEnd <= HoldEnd THEN Clipped(Recorded, setup.context, Min({HoldEnd, End}) + 1)
  ELSE LET clipped == Clipped(Recorded, setup.context, BlendEnd + 1)
           at      == {setup.context, HoldEnd, BlendEnd} \cup Grid
                      \cup {clipped[k].at : k \in DOMAIN clipped}
           gt      == Interpolated(Recorded, SetToSortSeq(at, <))
       IN  [k \in DOMAIN gt |-> Pose(gt[k].at, Eased(gt[k].at, gt[k].x, Ground[gt[k].at]))]

\* RolloutState.force_gt_trajectory.
ForceGtTrajectory == IF forcedEgo = <<>> THEN Recorded ELSE forcedEgo
----------------------------------------------------------------------------
(* The rollout                                                               *)

\* __post_init__: the recorded context up to the first policy step.
Seed(s) == Clipped(Recorded, s.context, s.policy + 1)

EgoTrackInit ==
  /\ setup \in Setups
  /\ ego = Seed(setup) /\ estimate = Seed(setup)
  /\ forcedEgo = <<>> /\ reference = <<>> /\ now = setup.policy /\ progress = "seeded"

\* A trajectory is asked beyond its range, or an assertion fails.
Raise == progress' = "raised" /\ UNCHANGED <<setup, ego, estimate, forcedEgo, now, reference>>

\* The instants of a trajectory.
Instants(s) == [k \in DOMAIN s |-> s[k].at]

\* Mutant: only what is driven from now on is eased.
BlendUnseeded ==
  /\ progress = "seeded" /\ progress' = "running"
  /\ forcedEgo' = IF setup.physics THEN BlendTrajectory ELSE <<>>
  /\ UNCHANGED <<setup, ego, estimate, now, reference>>

\* run, before the loop: with physics the seeds are the eased trajectory's,
\* _apply_force_gt_blend_to_seeded_ego_trajectory.
BlendSeeds ==
  /\ progress = "seeded"
  /\ IF ~setup.physics
     THEN progress' = "running" /\ UNCHANGED <<setup, ego, estimate, forcedEgo, now, reference>>
     ELSE IF \E k \in DOMAIN ego : ~InRange(BlendTrajectory, ego[k].at) THEN Raise
     ELSE /\ progress' = "running" /\ forcedEgo' = BlendTrajectory
          /\ ego' = Interpolated(forcedEgo', Instants(ego))
          /\ estimate' = Interpolated(forcedEgo', Instants(estimate))
          /\ UNCHANGED <<setup, now, reference>>

\* The instants the controller reports of a step, the last is its target.
Target == now + setup.control
Reported == SetToSortSeq({t \in now + 1 .. Target : t = Target \/ (t - now) % setup.report = 0}, <)

\* PolicyEvent decides whether a step is forced.
Forced == InForcePeriod(Target)

\* controller_reference_trajectory.
ControllerReference ==
  Clipped(ForceGtTrajectory, now, Min({now + LookAhead + 1, EndOf(ForceGtTrajectory)}))

\* A step that follows the forced trajectory; physics has been applied to it.
ForcedStep ==
  /\ progress = "running" /\ now < End /\ Forced
  /\ IF ~InRange(ForceGtTrajectory, now) \/ ~InRange(ForceGtTrajectory, Target) THEN Raise
     ELSE /\ reference' = ControllerReference
          /\ ego' = ego \o Interpolated(ForceGtTrajectory, Reported)
          /\ estimate' = estimate \o Interpolated(ForceGtTrajectory, Reported)
          /\ now' = Target /\ UNCHANGED <<setup, forcedEgo, progress>>

\* A step of the driver: physics corrects the true poses, not the estimates.
FreeStep ==
  /\ progress = "running" /\ now < End /\ ~Forced
  /\ IF Len(ego) < 2 THEN Raise
     ELSE \E x \in Heights :
            LET planned == [k \in DOMAIN Reported |-> Pose(Reported[k], x)]
            IN  /\ estimate' = estimate \o planned
                /\ ego' = ego \o [k \in DOMAIN planned |->
                     IF setup.physics THEN Pose(planned[k].at, Ground[planned[k].at]) ELSE planned[k]]
                /\ now' = Target /\ reference' = <<>> /\ UNCHANGED <<setup, forcedEgo, progress>>

EndOfRollout ==
  /\ progress = "running" /\ now = End /\ progress' = "ended"
  /\ UNCHANGED <<setup, ego, estimate, forcedEgo, now, reference>>

EgoTrackNext == BlendSeeds \/ ForcedStep \/ FreeStep \/ EndOfRollout

EgoTrackSpec == EgoTrackInit /\ [][EgoTrackNext]_egoVars
----------------------------------------------------------------------------
\* The height that the eased drive has at t: recorded before the first frame,
\* the ground's from the handover on, in proportion between.
OnGround(t, x) ==
  LET gt == PlaceAt(Recorded, t)
  IN  (ClosedLoop - HoldEnd) * (x - gt) =
        (Ground[t] - gt) * (Min({Max({t, HoldEnd}), ClosedLoop}) - HoldEnd)

\* Where the easing is computed; between these instants it is interpolated.
Eases(t) == t \in Grid \cup {BlendEnd} \cup {Recorded[k].at : k \in DOMAIN Recorded}

\* The forced steps end at the handover, not before it.
HandoverAtStep == setup.force > 0 /\ (ClosedLoop - setup.policy) % setup.control = 0 /\ ClosedLoop <= End

(* From its seeds over the forced steps to those of the driver the ego has   *)
(* one history: its instants rise and reach every step, no step is forced    *)
(* beyond the forced trajectory, the controller's reference starts at the    *)
(* pose the ego has, the recorded drive is kept up to the first frame and    *)
(* then eased, poses of the seeds included, so that when the handover is at  *)
(* a step the ego stands on the ground there as it does on all later ones.   *)
(* A rollout only raises if its first policy step is after the handover or   *)
(* its driver starts from a single pose.                                     *)
EgoKeepsTrack ==
  /\ Rises(ego) /\ Rises(estimate)
  /\ Last(ego).at = now /\ Last(estimate).at = now
  /\ reference # <<>> =>
       /\ Last(reference).at >= now
       /\ \E k \in DOMAIN ego : ego[k] = Head(reference)
  /\ progress \in {"running", "ended"} =>
       \A k \in DOMAIN ego :
         LET t == ego[k].at IN
         /\ t <= HoldEnd => ego[k].x = PlaceAt(Recorded, t)
         /\ setup.physics /\ HoldEnd < t /\ t <= BlendEnd /\ Eases(t) => OnGround(t, ego[k].x)
         /\ setup.physics /\ HandoverAtStep /\ t >= ClosedLoop => ego[k].x = Ground[t]
  /\ progress = "raised" =>
       \/ setup.physics /\ setup.policy > ClosedLoop
       \/ setup.context = setup.policy /\ ~Forced
=============================================================================
