----------------------- MODULE MCSceneAffineDispatch -----------------------
(* A request with two jobs for one scene and one for another, and a request  *)
(* with a job for the first, of which a stream has three; renderers at two   *)
(* addresses, one of them with two slots.  Drivers are skipped (an external  *)
(* driver manages itself), renderers are the limit.  Each configuration      *)
(* takes some of these requests, jobs and slots.                             *)
EXTENDS SceneAffineDispatch, TLC

CONSTANTS r1, r2, r3, r4, j1, j2, j3, j4, j5, j6, A, B, driver, renderer, n1, n2, n3, gpu0, gpu1, skip

MCRequestOf == [j \in Jobs |->
  CASE j \in {j1, j2, j3} -> r1 [] j = j4 -> r2 [] j = j5 -> r3 [] OTHER -> r4]

MCJobList == [r \in Requests |-> SelectSeq(<<j1, j2, j3, j4, j5, j6>>,
                                           LAMBDA j : j \in Jobs /\ MCRequestOf[j] = r)]

MCSceneOf == [j \in Jobs |-> IF j = j2 THEN B ELSE A]

MCAddressOf == [x \in {n1, n2, n3, SkipSlot} |->
  CASE x \in {n1, n2} -> gpu0 [] x = n3 -> gpu1 [] OTHER -> skip]

MCSlotsOf == [p \in Pools |-> IF p = <<renderer, Shared>> THEN Slots ELSE {}]

NoDrivers  == {}
SkipDriver == {<<driver, Shared>>}

(* The two slots of gpu0 are alike. *)
Alike == Permutations({n1, n2})
=============================================================================
