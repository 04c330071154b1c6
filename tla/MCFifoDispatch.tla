--------------------------- MODULE MCFifoDispatch ---------------------------
(* Two drivers-bound requests of which one brings its own driver, over one   *)
(* shared driver and two renderers, served in submission order.              *)
EXTENDS FifoDispatch

CONSTANTS r1, r2, j1, j2, j3, driver, renderer, d1, n1, n2, own

MCRequestOf == [j \in Jobs |-> IF j = j3 THEN r2 ELSE r1]

MCJobList == [r \in Requests |-> IF r = r1 THEN <<j1, j2>> ELSE <<j3>>]

MCSlotsOf == [p \in Pools |->
  CASE p = <<driver, Shared>>   -> {d1}
    [] p = <<driver, r2>>       -> {own}
    [] p = <<renderer, Shared>> -> {n1, n2}
    [] OTHER                    -> {}]

NoSkipPools == {}
=============================================================================
