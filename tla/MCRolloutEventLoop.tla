------------------------- MODULE MCRolloutEventLoop -------------------------
(* Rollouts of two or three control steps with two cameras.  Shutters close  *)
(* together and apart, on the control grid and off it.                       *)
EXTENDS RolloutEventLoop

CONSTANTS front, side

Base ==
  [contextStart |-> 0, firstPolicy |-> 1, steps |-> 3, dt |-> 3,
   closedLoopStart |-> 1, report |-> 0, planDelay |-> 0,
   firstEnd |-> [c \in Cameras |-> 1], interval |-> [c \in Cameras |-> 3],
   renderBundling |-> "none", zeroDelay |-> FALSE, skipDriver |-> FALSE, extras |-> {}]

Every(front_, side_) == [c \in Cameras |-> IF c = side THEN side_ ELSE front_]

(* The front camera is on the control grid or sparse; the side camera is     *)
(* faster or slower, and may start later.  Delays: none, one step, more.     *)
(* No step is forced, or the first one, with or without asking the driver.   *)
MCRollouts ==
  {[Base EXCEPT !.report = r, !.planDelay = d, !.closedLoopStart = g[1],
                !.skipDriver = g[2], !.renderBundling = b, !.firstEnd = Every(1, f),
                !.interval = Every(p, i), !.extras = IF r = 0 THEN {} ELSE {"route"}] :
     r \in {0, 2}, d \in {0, 3, 4}, g \in {<<1, FALSE>>, <<4, FALSE>>, <<4, TRUE>>},
     b \in {"none", "aggregated"}, f \in {1, 2}, p \in {3, 5}, i \in {2, 5}}
  \cup {[Base EXCEPT !.renderBundling = "batch", !.interval = Every(3, 5), !.report = 2]}
  \cup {[Base EXCEPT !.steps = 2, !.zeroDelay = TRUE, !.extras = {"route", "ground truth"}]}

(* Cameras off the control grid, and assert_zero_decision_delay on. *)
MisalignedRollouts == {[Base EXCEPT !.zeroDelay = TRUE, !.interval = Every(3, 2)]}
=============================================================================
