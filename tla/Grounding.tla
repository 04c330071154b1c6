----------------------------- MODULE Grounding ------------------------------
(***************************************************************************)
(* The physics of rollouts (events/physics.py, services/physics_service.py *)
(* and the service, src/physics): after each control step the ego's pose   *)
(* and then those of the traffic are put on the ground of the scene, by    *)
(* one server that all rollouts share and that works on one request at a   *)
(* time.  A pose that moves too far, tilts too much or has no ground under *)
(* it is returned as it was, and nobody looks at the status.               *)
(*                                                                         *)
(* A pose is where it is in the plane, its height, and its tilt about one  *)
(* axis; control steps are 1, 2, ... and the first frame is at 0.          *)
(***************************************************************************)
EXTENDS Integers, Sequences, FiniteSets, FiniteSetsExt, SequencesExt

CONSTANTS
  Actors,      \* ids of traffic objects, in the order of the dict
  EgoActor,    \* the id "EGO", which a traffic response may contain
  Courses,     \* of a rollout: [scene, mode, force, skip, trafficSkip, steps]
  Under,       \* Under[scene][spot]: [hits, z, tilt] of the ground there
  Tracks,      \* Tracks[id]: [from, until, z, tilt], the recorded trajectory
  SimPoses,    \* [z, tilt] a service may move an object or the ego to
  BackendCacheSize, \* cache_size
  MaxLift,     \* translation_threshold_m
  MaxTilt      \* rotation_threshold_deg

ASSUME GroundingAssumption ==
  /\ BackendCacheSize \in Nat \ {0} /\ MaxLift \in Nat /\ MaxTilt \in Nat
  /\ IsFiniteSet(Actors) /\ EgoActor \notin Actors \cup {"ego"} /\ "ego" \notin Actors
  /\ SimPoses \subseteq [z : Int, tilt : Int]
  /\ \A o \in Actors : Tracks[o] \in [from : Int, until : Int, z : Int, tilt : Int]
  /\ \A s \in DOMAIN Under, spot \in {"ego", EgoActor} \cup Actors :
       Under[s][spot] \in [hits : Nat, z : Int, tilt : Int]
  /\ \A k \in DOMAIN Courses :
       Courses[k] \in [scene : DOMAIN Under, mode : {"none", "ego_only", "all_actors"}, force : Nat,
                      skip : BOOLEAN, trafficSkip : BOOLEAN, steps : Nat]

VARIABLES
  course,    \* per rollout: [step, phase, corrected, names, sent, answer]
  requests,  \* those on their way to the server, in the order they arrived
  meshes,    \* lru_cache of backends: [scene, mesh], least recently used first
  wanted,    \* history: per rollout, [step, id, pose] before physics
  kept       \* per rollout, [step, id, pose] committed

groundingVars == <<course, requests, meshes, wanted, kept>>

Sims == DOMAIN Courses

Stand(spot, p) == [spot |-> spot, z |-> p.z, tilt |-> p.tilt]

GroundingInit ==
  /\ course = [r \in Sims |-> [step |-> 1, phase |-> "ego", corrected |-> <<>>,
                               names |-> <<>>, sent |-> <<>>, answer |-> <<>>]]
  /\ requests = <<>> /\ meshes = <<>>
  /\ wanted = [r \in Sims |-> {}] /\ kept = [r \in Sims |-> {}]
----------------------------------------------------------------------------
(* The server                                                                *)

\* Mutant: whatever backend is cached serves.
AnyBackend(scene) ==
  IF meshes # <<>> THEN Last(meshes) ELSE [scene |-> scene, mesh |-> Under[scene]]

\* get_backend: read the mesh of the scene, or take it from the cache.
Backend(scene) ==
  IF \E b \in ToSet(meshes) : b.scene = scene
  THEN CHOOSE b \in ToSet(meshes) : b.scene = scene
  ELSE [scene |-> scene, mesh |-> Under[scene]]

AfterUse(b) ==
  LET at == {i \in DOMAIN meshes : meshes[i].scene = b.scene}
  IN  Append(IF at # {} THEN RemoveAt(meshes, CHOOSE i \in at : TRUE)
             ELSE IF Len(meshes) = BackendCacheSize THEN Tail(meshes) ELSE meshes, b)

Magnitude(n) == IF n < 0 THEN -n ELSE n

\* fit_planes_get_transl_rot: the absolute value is taken of the largest angle,
\* and the angles about the other axes are 0.
Plausible(g, p) ==
  /\ g.hits >= 3
  /\ Magnitude(g.z - p.z) <= MaxLift
  /\ Magnitude(Max({g.tilt - p.tilt, 0})) <= MaxTilt

\* update_pose: height and tilt of the ground, or the pose as it was.
UpdatePose(b, p) ==
  LET g == b.mesh[p.spot]
  IN  IF Plausible(g, p) THEN Stand(p.spot, g) ELSE p

\* ground_intersection of the service.
Intersect ==
  /\ requests # <<>>
  /\ LET q == Head(requests)  b == Backend(Courses[q.from].scene) IN
     /\ meshes' = AfterUse(b)
     /\ course' = [course EXCEPT ![q.from].answer =
          [ego    |-> UpdatePose(b, q.ego),
           others |-> [k \in DOMAIN q.others |-> UpdatePose(b, q.others[k])]]]
  /\ requests' = Tail(requests)
  /\ UNCHANGED <<wanted, kept>>
----------------------------------------------------------------------------
(* A rollout                                                                 *)

\* force_gt of the step that ends at k.
IsForced(r, k) == k <= Courses[r].force

Ask(r, ego, names, poses, next) ==
  /\ requests' = Append(requests, [from |-> r, ego |-> ego, others |-> poses])
  /\ course' = [course EXCEPT ![r] = [course[r] EXCEPT !.phase = next, !.names = names, !.sent = poses]]

\* _run_ego; recorded poses have been eased onto the ground before.
PhysicsOfEgo(r) ==
  /\ course[r].phase = "ego" /\ course[r].step <= Courses[r].steps
  /\ \E p \in SimPoses :
       LET ego == Stand("ego", p) IN
       /\ wanted' = [wanted EXCEPT ![r] = @ \cup {[step |-> course[r].step, id |-> "ego", pose |-> ego]}]
       /\ IF IsForced(r, course[r].step) \/ Courses[r].mode = "none" \/ Courses[r].skip
          THEN /\ course' = [course EXCEPT ![r] =
                    [course[r] EXCEPT !.phase = "traffic", !.corrected = ego]]
               /\ UNCHANGED requests
          ELSE Ask(r, ego, <<>>, <<>>, "ego_asked")
  /\ UNCHANGED <<meshes, kept>>

EgoCorrected(r) ==
  /\ course[r].phase = "ego_asked" /\ course[r].answer # <<>>
  /\ course' = [course EXCEPT ![r] = [course[r] EXCEPT !.phase = "traffic", !.answer = <<>>,
                                                       !.corrected = course[r].answer.ego]]
  /\ UNCHANGED <<requests, meshes, wanted, kept>>

\* Recorded objects that exist at the step.
Existing(k) == {o \in Actors : Tracks[o].from <= k /\ k <= Tracks[o].until}
RecordedAt(k) == SetToSeq(Existing(k))

\* StepEvent commits the step; the traffic's own idea of the ego is dropped.
KeepStep(r, names, poses) ==
  /\ kept' = [kept EXCEPT ![r] = @
       \cup {[step |-> course[r].step, id |-> "ego", pose |-> course[r].corrected]}
       \cup {[step |-> course[r].step, id |-> names[i], pose |-> poses[i]] :
               i \in {j \in DOMAIN names : names[j] # EgoActor}}]

NextStep(r) ==
  course' = [course EXCEPT ![r] = [step |-> @.step + 1, phase |-> "ego", corrected |-> <<>>,
                                   names |-> <<>>, sent |-> <<>>, answer |-> <<>>]]

\* _run_traffic with the poses of these objects: physics has them all, unless
\* the mode or a skipped service leaves them alone.
PhysicsOfTraffic(r, names, poses) ==
  LET forced == IsForced(r, course[r].step)
      skipped == Courses[r].skip \/ (Courses[r].trafficSkip /\ ~forced)
      news == {[step |-> course[r].step, id |-> names[i], pose |-> poses[i]] : i \in DOMAIN names}
  IN  /\ wanted' = [wanted EXCEPT ![r] = @ \cup news]
      /\ IF Courses[r].mode = "all_actors" /\ names # <<>> /\ ~skipped
         THEN Ask(r, course[r].corrected, names, poses, "traffic_asked") /\ UNCHANGED kept
         ELSE KeepStep(r, names, poses) /\ NextStep(r) /\ UNCHANGED requests
      /\ UNCHANGED meshes

\* A forced step shows the recorded traffic, a free one what the service sent.
RunTraffic(r) ==
  /\ course[r].phase = "traffic"
  /\ LET k == course[r].step IN
     IF IsForced(r, k)
     THEN LET names == RecordedAt(k)
          IN  PhysicsOfTraffic(r, names, [i \in DOMAIN names |-> Stand(names[i], Tracks[names[i]])])
     ELSE \E ids \in SUBSET (Actors \cup {EgoActor}), p \in SimPoses :
            LET names == SetToSeq(ids)
            IN  PhysicsOfTraffic(r, names, [i \in DOMAIN names |-> Stand(names[i], p)])

\* gt_pose.blend(physics_pose, alpha), where alpha is step / force.
EasedOnto(r, recorded, physics) ==
  LET part(a, b) == a + ((b - a) * course[r].step) \div Courses[r].force
  IN  [spot |-> recorded.spot, z |-> part(recorded.z, physics.z),
       tilt |-> part(recorded.tilt, physics.tilt)]

\* The poses to commit: objects and answers are paired by their order.
Corrections(r) ==
  LET others == course[r].answer.others
  IN  IF IsForced(r, course[r].step)
        THEN [i \in DOMAIN others |-> EasedOnto(r, course[r].sent[i], others[i])]
        ELSE others

TrafficCorrected(r) ==
  /\ course[r].phase = "traffic_asked" /\ course[r].answer # <<>>
  /\ KeepStep(r, course[r].names, Corrections(r))
  /\ NextStep(r)
  /\ UNCHANGED <<requests, meshes, wanted>>

GroundingNext ==
  \/ Intersect
  \/ \E r \in Sims : PhysicsOfEgo(r) \/ EgoCorrected(r) \/ RunTraffic(r) \/ TrafficCorrected(r)

GroundingSpec == GroundingInit /\ [][GroundingNext]_groundingVars
----------------------------------------------------------------------------
\* Whether physics has a say about an id in a step.
Applied(r, e) ==
  /\ Courses[r].mode # "none" /\ ~Courses[r].skip
  /\ IF e.id = "ego" THEN ~IsForced(r, e.step)
     ELSE Courses[r].mode = "all_actors" /\ (IsForced(r, e.step) \/ ~Courses[r].trafficSkip)

GroundOf(r, p) == Under[Courses[r].scene][p.spot]

\* The height or tilt to commit for a and the ground's b: a part of the way
\* while the recording is eased out.
Way(r, k, a, b) == IF IsForced(r, k) THEN a + ((b - a) * k) \div Courses[r].force ELSE b

\* What was kept for the pose p.
KeptFrom(r, e, p) ==
  LET q == e.pose  g == GroundOf(r, p)
  IN  /\ q.spot = p.spot
      /\ ~Applied(r, e) => q = p
      /\ q # p =>
           /\ q.z = Way(r, e.step, p.z, g.z) /\ q.tilt = Way(r, e.step, p.tilt, g.tilt)
           /\ g.z - p.z \in -MaxLift .. MaxLift /\ g.tilt - p.tilt <= MaxTilt
      /\ Applied(r, e) /\ q = p =>
           \/ g.hits < 3 \/ g.z - p.z \notin -MaxLift .. MaxLift
           \/ g.tilt - p.tilt > MaxTilt
           \/ Way(r, e.step, p.z, g.z) = p.z /\ Way(r, e.step, p.tilt, g.tilt) = p.tilt

IdsAt(entries, k) == {e.id : e \in {d \in entries : d.step = k}}

(* Every pose that a rollout keeps is one it asked about in that step, once  *)
(* per object, and stays where it was in the plane.  If physics has a say it *)
(* stands on the ground of the rollout's own scene, whoever else the server  *)
(* worked for in between, or on the way there while the recording is eased   *)
(* out; only a jump, a steep tilt or a hole in the ground leaves it as it    *)
(* was, and no pose jumps or is tilted forward further than that.  (Backward *)
(* there is no such limit: the code compares the magnitude of the largest    *)
(* angle, not the largest magnitude.)  Forced steps keep all recorded        *)
(* objects that exist.                                                       *)
GroundedOnScene ==
  /\ Len(meshes) <= BackendCacheSize
  /\ \A r \in Sims :
       /\ \A d, e \in kept[r] : d.step = e.step /\ d.id = e.id => d = e
       /\ \A e \in kept[r] :
            \E w \in wanted[r] : w.step = e.step /\ w.id = e.id /\ KeptFrom(r, e, w.pose)
       /\ \A k \in 1 .. course[r].step - 1 :
            IsForced(r, k) => IdsAt(kept[r], k) = {"ego"} \cup Existing(k)
=============================================================================
