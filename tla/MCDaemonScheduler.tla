------------------------- MODULE MCDaemonScheduler -------------------------
(* A daemon with two shared pools (one driver, two renderers) and two        *)
(* workers, serving a request of two jobs, a request of two jobs that brings *)
(* a driver of its own, and a request without jobs.                          *)
EXTENDS DaemonScheduler, TLC

CONSTANTS r1, r2, r3, j1, j2, j3, j4, driver, renderer, d1, n1, n2, own, w1, w2

MCRequestOf == [j \in Jobs |-> IF j \in {j1, j2} THEN r1 ELSE r2]

MCSlotsOf == [p \in Pools |->
  CASE p = <<driver, Shared>>   -> {d1}
    [] p = <<driver, r2>>       -> {own}
    [] p = <<renderer, Shared>> -> {n1, n2}
    [] OTHER                    -> {}]

NoSkipPools == {}

(* Workers, renderer slots and the jobs of a request are alike. *)
Alike == Permutations({w1, w2}) \cup Permutations({n1, n2})
         \cup Permutations({j1, j2}) \cup Permutations({j3, j4})
=============================================================================
