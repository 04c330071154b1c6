---------------------------- MODULE Trajectories ----------------------------
(***************************************************************************)
(* The trajectories every part of the runtime works on (utils_rs:          *)
(* trajectory.rs, dynamic_trajectory.rs): sequences of timestamped poses,       *)
(* the dynamic one with a row of dynamics beside each pose, and their      *)
(* operations.  A position is a coordinate on a line, a quaternion is left *)
(* out (its interpolation follows the position's), a row of dynamics is a  *)
(* number.  Positions are multiples of a number that every division the    *)
(* bounds allow divides.                                                   *)
(***************************************************************************)
EXTENDS Integers, Sequences, FiniteSets, SequencesExt

CONSTANTS
  Horizon,     \* times are 0..Horizon
  Xs,          \* positions a caller appends
  Dynamics,    \* Dynamics[t, x]: the row a caller gives with position x at t
  Offsets,     \* what callers transform by
  Joined,      \* trajectories callers join: [poses, dynamics]
  Raised,      \* Raised[t]: by how much the other trajectory of a blend is off
  Alphas,      \* blend factors per time, in halves
  MaxX,        \* bound on the positions that transform makes of the history
  MaxCuts      \* bound on the operations on a part

ASSUME TrajectoryAssumption ==
  /\ Horizon \in Nat /\ MaxCuts \in Nat /\ MaxX \in Nat
  /\ \A o \in Joined : Len(o.poses) = Len(o.dynamics)

VARIABLES
  trajectory,  \* DynamicTrajectory.trajectory
  dynamics,    \* DynamicTrajectory.dynamics
  piece,       \* a Trajectory derived from it
  cuts         \* operations on the piece so far

trajectoryVars == <<trajectory, dynamics, piece, cuts>>

Times == 0 .. Horizon

Pose(t, x) == [at |-> t, x |-> x]

TrajectoriesInit == trajectory = <<>> /\ dynamics = <<>> /\ piece = <<>> /\ cuts = 0
----------------------------------------------------------------------------
(* The operations, on the inputs they do not refuse.                         *)

\* get_time_range_tuple; the end is exclusive.
StartOf(s) == IF s = <<>> THEN 0 ELSE Head(s).at
EndOf(s)   == IF s = <<>> THEN 0 ELSE Last(s).at + 1

InRange(s, t) == StartOf(s) <= t /\ t < EndOf(s)

\* partition_point finds the last pose at t or before, which is never the last
\* of all: the segment that begins with it.
Segment(s, t) == Min({Cardinality({k \in DOMAIN s : s[k].at <= t}), Len(s) - 1})

\* A value between those of a segment's poses.
Lerp(s, k, t, a, b) == a + ((b - a) * (t - s[k].at)) \div (s[k + 1].at - s[k].at)

\* interpolate_pose_internal.
PlaceAt(s, t) ==
  IF Len(s) = 1 THEN s[1].x
  ELSE LET k == Segment(s, t) IN Lerp(s, k, t, s[k].x, s[k + 1].x)

\* interpolate_dynamics, which holds the first and the last row outside.
DynamicsAt(s, rows, t) ==
  IF Len(s) = 1 \/ t <= Head(s).at THEN Head(rows)
  ELSE IF t >= Last(s).at THEN Last(rows)
  ELSE LET k == Segment(s, t) IN Lerp(s, k, t, rows[k], rows[k + 1])

\* interpolate.
Interpolated(s, targets) == [i \in DOMAIN targets |-> Pose(targets[i], PlaceAt(s, targets[i]))]

\* clip to start..end-1, where it interpolates unless it has a pose.
Clipped(s, start, end) ==
  IF start = end \/ StartOf(s) >= end \/ EndOf(s) <= start THEN <<>>
  ELSE LET from == Max({start, StartOf(s)})
           to   == Min({end, EndOf(s)}) - 1
       IN  IF from = to THEN <<Pose(from, PlaceAt(s, from))>>
           ELSE <<Pose(from, PlaceAt(s, from))>>
                \o SelectSeq(s, LAMBDA p : p.at > from /\ p.at < to)
                \o <<Pose(to, PlaceAt(s, to))>>

\* What concat and append require of two trajectories.
StartsAfter(s, o) == (s # <<>> /\ o # <<>>) => Last(s).at < Head(o).at
Overlaps(s, o)    == s # <<>> /\ o # <<>> /\ Last(s) = Head(o)

\* transform, by a translation.
Shifted(s, d) == [k \in DOMAIN s |-> [s[k] EXCEPT !.x = @ + d]]

\* slice, with indices that count from the end when negative.
Index(s, i) == IF i < 0 THEN Max({Len(s) + i, 0}) ELSE Min({i, Len(s)})
Sliced(s, start, end) == SubSeq(s, Index(s, start) + 1, Index(s, end))

\* blend_with clamps alpha.
Clamped(half) == Min({Max({half, 0}), 2})

\* blend with a trajectory of the same timestamps.
Blended(s, o, alpha) ==
  [k \in DOMAIN s |->
     [s[k] EXCEPT !.x = @ + ((o[k].x - @) * Clamped(alpha[s[k].at])) \div 2]]
----------------------------------------------------------------------------
(* A dynamic trajectory is recorded and joined                               *)

\* update_absolute.
UpdateAbsolute(t, x) ==
  /\ trajectory # <<>> => t > Last(trajectory).at
  /\ trajectory' = Append(trajectory, Pose(t, x))
  /\ dynamics' = Append(dynamics, Dynamics[t, x])
  /\ UNCHANGED <<piece, cuts>>

\* concat.
Concat(o) ==
  /\ StartsAfter(trajectory, o.poses)
  /\ trajectory' = trajectory \o o.poses /\ dynamics' = dynamics \o o.dynamics
  /\ UNCHANGED <<piece, cuts>>

\* Mutant: the row of the pose that is dropped is kept.
AppendWithRow(o) ==
  /\ \/ StartsAfter(trajectory, o.poses) /\ trajectory' = trajectory \o o.poses
     \/ Overlaps(trajectory, o.poses) /\ trajectory' = trajectory \o Tail(o.poses)
  /\ dynamics' = dynamics \o o.dynamics
  /\ UNCHANGED <<piece, cuts>>

\* append: of an overlapping instant the first trajectory keeps its own.
AppendOther(o) ==
  /\ \/ /\ StartsAfter(trajectory, o.poses)
        /\ trajectory' = trajectory \o o.poses /\ dynamics' = dynamics \o o.dynamics
     \/ /\ Overlaps(trajectory, o.poses)
        /\ trajectory' = trajectory \o Tail(o.poses) /\ dynamics' = dynamics \o Tail(o.dynamics)
  /\ UNCHANGED <<piece, cuts>>

\* transform leaves the dynamics, which are of the rig.
Transform(d) ==
  /\ cuts = 0 /\ \A k \in DOMAIN trajectory : trajectory[k].x + d <= MaxX
  /\ trajectory' = Shifted(trajectory, d)
  /\ UNCHANGED <<dynamics, piece, cuts>>
----------------------------------------------------------------------------
(* A piece is derived from it, and from that another one                     *)

Derived(new) == cuts < MaxCuts /\ cuts' = cuts + 1 /\ piece' = new /\ UNCHANGED <<trajectory, dynamics>>

\* The trajectories that a piece is derived from.
Origins == IF cuts = 0 THEN {trajectory} ELSE {piece}

\* trajectory() and then clip.
Clip == \E s \in Origins : \E a, b \in 0 .. Horizon + 1 : a <= b /\ Derived(Clipped(s, a, b))

\* interpolate, at times in order.
Interpolate ==
  \E s \in Origins : \E S \in SUBSET {t \in Times : InRange(s, t)} :
    Derived(Interpolated(s, SetToSortSeq(S, <)))

\* filter, by a mask.
Filter ==
  /\ cuts > 0
  /\ \E kept \in SUBSET {piece[k].at : k \in DOMAIN piece} :
       Derived(SelectSeq(piece, LAMBDA p : p.at \in kept))

Slice == cuts > 0 /\ \E a, b \in -2 .. 2 : Derived(Sliced(piece, a, b))

\* update_relative moves on from the last pose.
UpdateRelative ==
  /\ piece # <<>>
  /\ \E t \in Times, d \in Offsets :
       t > Last(piece).at /\ Derived(Append(piece, Pose(t, Last(piece).x + d)))

TransformPiece == cuts > 0 /\ \E d \in Offsets : Derived(Shifted(piece, d))

\* blend with what physics made of it.
Blend ==
  /\ cuts > 0
  /\ \E alpha \in Alphas :
       Derived(Blended(piece, [k \in DOMAIN piece |-> [piece[k] EXCEPT !.x = @ + Raised[piece[k].at]]],
                       alpha))

TrajectoriesNext ==
  \/ \E t \in Times, x \in Xs : cuts = 0 /\ UpdateAbsolute(t, x)
  \/ \E o \in Joined : cuts = 0 /\ (Concat(o) \/ AppendOther(o))
  \/ \E d \in Offsets : Transform(d)
  \/ Clip \/ Interpolate \/ Filter \/ Slice \/ UpdateRelative \/ TransformPiece \/ Blend

TrajectoriesSpec == TrajectoriesInit /\ [][TrajectoriesNext]_trajectoryVars
----------------------------------------------------------------------------
\* What a sequence of poses stands for, as the operations read it.
PathOf(s) == [t \in {u \in Times : InRange(s, u)} |-> PlaceAt(s, t)]
RateOf(s, rows) == [t \in {u \in Times : InRange(s, u)} |-> DynamicsAt(s, rows, t)]

Over == INSTANCE PlaceOverTime WITH
          path <- PathOf(trajectory), rate <- RateOf(trajectory, dynamics), part <- PathOf(piece),
          Lift <- Raised, Continued <- {[path |-> PathOf(o.poses), rate |-> RateOf(o.poses, o.dynamics)] : o \in Joined},
          Halves <- {[t \in Times |-> Clamped(alpha[t])] : alpha \in Alphas}

\* Timestamps rise strictly, as the comment at the struct says.
Rises(s) == \A j, k \in DOMAIN s : j < k => s[j].at < s[k].at

WellFormed == Rises(trajectory) /\ Rises(piece) /\ Len(trajectory) = Len(dynamics)

(* However a history is recorded, joined, moved and cut, its poses and its        *)
(* dynamics say the same of every instant as the places over time they stand *)
(* for: no operation shifts a pose or a row of dynamics to another instant,  *)
(* changes a place at an instant it keeps, loses an end, or leaves           *)
(* timestamps that do not rise.                                              *)
TrajectoriesSound ==
  /\ Over!OverTimeInit
  /\ [][/\ WellFormed'
        /\ Over!OverTimeNext \/ UNCHANGED Over!overTime]_trajectoryVars
=============================================================================
