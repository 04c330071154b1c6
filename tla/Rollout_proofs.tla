--------------------------- MODULE Rollout_proofs ---------------------------
(***************************************************************************)
(* Proofs about the event loop of a rollout, for every configuration of    *)
(* cameras, intervals, delays and numbers of steps.                        *)
(*                                                                         *)
(* Simulated time is committed up to the latest pose of the ego, and one   *)
(* control step is under way from there.  Which of its handlers have run   *)
(* can be read off the queue, and so can what they have left in the step   *)
(* context: that is the invariant.                                         *)
(***************************************************************************)
EXTENDS RolloutEventLoop, RolloutSession, RpcCall, WallClock, FiniteSetTheorems, SequenceTheorems,
        NaturalsInduction, WellFoundedInduction, TLAPS

(* Simulated time is committed up to here. *)
Covered == Latest(ego)

(* The handlers of a control step. *)
Recurring == {"policy", "controller", "physicsEgo", "traffic", "physicsTraffic", "step"}

(* The handler of a kind has still to run in the step that starts at Covered. *)
ToRun(k) == Event(k, Covered, None) \in queue

(* What it has run in is the step before the next one. *)
NextStep == Covered + unbound.dt

(* The ego, its estimate and the traffic reach up to Covered, on the grid of *)
(* control steps.                                                            *)
PosesAgree ==
  /\ Covered \in ego /\ Covered \in estimate
  /\ \A t \in ego \cup estimate \cup traffic : t <= Covered
  /\ \/ traffic = {} /\ Covered = unbound.firstPolicy
     \/ Covered \in traffic
  /\ {unbound.contextStart, unbound.firstPolicy} \subseteq ego
  /\ \E n \in 0..unbound.steps : Covered = unbound.firstPolicy + n * unbound.dt

(* Every handler of the step is queued for this step or for the next one, if *)
(* there is one, or it is the policy event's and runs; and they run in their *)
(* order.                                                                    *)
StepQueued ==
  /\ \A e \in queue : e.kind \in Recurring => e.at \in {Covered, NextStep} /\ e.at < End
  /\ \A k \in Recurring :
       /\ Event(k, Covered, None) \in queue => Event(k, NextStep, None) \notin queue
       /\ \/ ToRun(k) \/ End <= NextStep \/ Event(k, NextStep, None) \in queue
          \/ k = "policy" /\ stage # "loop"
       /\ \A l \in Recurring : Priority[k] < Priority[l] /\ ToRun(k) => ToRun(l)
  /\ Covered < End => ToRun("step")

(* The queue never holds the past; before the first step it is as it was     *)
(* made; and no camera event is left behind by a policy event.               *)
QueueInOrder ==
  /\ \A e \in queue : now <= e.at
  /\ \A e \in queue : e.kind # "initialStep" => unbound.firstPolicy <= e.at
  /\ \A e \in queue : e.kind = "end" => e.at = End
  /\ \A e \in queue : e.kind = "initialStep" =>
       e.at = unbound.contextStart /\ ctx = FreshContext /\ stage = "loop" /\ ToRun("policy")
  /\ ~ToRun("policy") /\ Covered < End =>
       \A e \in queue : e.kind \in {"camera", "flush"} => Covered < e.at

(* What the handlers that have run have left in the step context. *)
ContextAsRun ==
  Covered < End =>
    /\ ~ToRun("policy") => ctx.start = Covered /\ ctx.target = NextStep /\ ctx.tracked = {}
    /\ ~ToRun("policy") /\ stage = "loop" => ctx.plan # None
    /\ ~ToRun("controller") => NextStep \in ctx.ego /\ ctx.ego \subseteq (Covered + 1)..NextStep
    /\ ~ToRun("physicsEgo") => ctx.corrected = ctx.ego
    /\ ~ToRun("traffic") => ctx.response # None
    /\ ctx.traffic = IF ToRun("physicsTraffic") THEN {} ELSE {NextStep}

(* Where the policy event is, and who waits for the tasks. *)
TasksAwaited ==
  /\ stage # "loop" => now = Covered /\ Covered < End /\ ~ToRun("policy") /\ ToRun("controller")
  /\ stage # "barrier" => gathering = {}

(* The plan stored last is not newer than the step, nor that of this step    *)
(* before the controller has run.                                            *)
PlansOrdered ==
  /\ delayed \in Seq(Times)
  /\ delayed # <<>> =>
       /\ delayed[Len(delayed)] <= Covered
       /\ ToRun("controller") => delayed[Len(delayed)] < Covered

(* A camera has no frame of the future, and with zero delay one of the past. *)
FramesOfPast ==
  \A c \in Cameras :
    /\ lastFrame[c] # None => lastFrame[c] <= now
    /\ unbound.zeroDelay /\ lastFrame[c] = None =>
         Event("camera", unbound.firstPolicy, c) \in queue

(* The invariant while the loop runs. *)
RunInv ==
  /\ TypeOK /\ PosesAgree /\ StepQueued /\ QueueInOrder /\ ContextAsRun
  /\ TasksAwaited /\ PlansOrdered /\ FramesOfPast
  /\ inFlight \cup failed \subseteq ctx.tracked \cup gathering

LoopInv ==
  /\ TypeOK
  /\ PosesAgree
  /\ status # "broken"
  /\ status = "running" => RunInv
  /\ status \in {"running", "ending", "terminating"} =>
       inFlight \cup failed \subseteq ctx.tracked \cup gathering
  /\ status \in {"ending", "terminating"} => gathering = {}
  /\ status \in {"finished", "terminated"} => inFlight = {} /\ failed = {}

-----------------------------------------------------------------------------
(* Latest and First of the sets of times that come up. *)
LEMMA LatestIs ==
  ASSUME NEW S, S \subseteq Int, NEW m \in S, \A x \in S : x <= m
  PROVE  Latest(S) = m
<1>1. \A t \in S : (\A x \in S : x <= t) <=> t = m
  <2>1. \A t \in S : m <= t => t = m
    OBVIOUS
  <2>2. QED
    BY <2>1
<1>2. Latest(S) \in S /\ \A x \in S : x <= Latest(S)
  BY <1>1 DEF Latest
<1>3. QED
  BY <1>1, <1>2

LEMMA FirstIsIn ==
  ASSUME NEW S, S \subseteq Nat, S # {}
  PROVE  First(S) \in S /\ \A x \in S : First(S) <= x
<1> DEFINE R == OpToRel(<, Nat)
<1>1. IsWellFoundedOn(R, Nat)
  BY NatLessThanWellFounded
<1>2. PICK m \in S : \A x \in S : ~(<<x, m>> \in R)
  BY <1>1, WFMin
<1>3. \A x \in S : ~(x < m)
  BY <1>2 DEF OpToRel
<1>4. \A x \in S : m <= x
  BY <1>3
<1>5. QED
  BY <1>4 DEF First

LEMMA LatestIsIn ==
  ASSUME NEW n \in Nat, NEW S, S \subseteq 0..n, S # {}
  PROVE  Latest(S) \in S /\ \A x \in S : x <= Latest(S)
<1> DEFINE R == {n - x : x \in S}
<1>1. R \subseteq Nat
  <2>1. \A x \in S : n - x \in Nat
    OBVIOUS
  <2>2. QED
    BY <2>1
<1>2. R # {}
  <2>1. PICK x \in S : TRUE
    OBVIOUS
  <2>2. n - x \in R
    OBVIOUS
  <2>3. QED
    BY <2>2
<1>3. First(R) \in R /\ \A r \in R : First(R) <= r
  <2> HIDE DEF R
  <2>1. QED
    BY <1>1, <1>2, FirstIsIn
<1>4. PICK m \in S : First(R) = n - m
  BY <1>3
<1>5. \A x \in S : n - m <= n - x
  <2>1. \A x \in S : n - x \in R
    OBVIOUS
  <2>2. QED
    BY <1>3, <1>4, <2>1
<1>6. \A x \in S : x <= m
  BY <1>5
<1>7. QED
  BY <1>6 DEF Latest

(* The fields of the configuration. *)
LEMMA UnboundType ==
  ASSUME unbound \in Rollouts
  PROVE  /\ unbound.contextStart \in Nat /\ unbound.firstPolicy \in Nat
         /\ unbound.steps \in Nat \ {0} /\ unbound.dt \in Nat \ {0}
         /\ unbound.closedLoopStart \in Nat /\ unbound.report \in Nat
         /\ unbound.planDelay \in Nat
         /\ unbound.firstEnd \in [Cameras -> Nat]
         /\ unbound.interval \in [Cameras -> Nat \ {0}]
         /\ unbound.contextStart < unbound.firstPolicy
         /\ \A c \in Cameras : unbound.firstPolicy <= unbound.firstEnd[c]
         /\ unbound.zeroDelay => \A c \in Cameras : unbound.firstPolicy = unbound.firstEnd[c]
         /\ End \in Nat /\ End = unbound.firstPolicy + unbound.steps * unbound.dt
         /\ unbound.firstPolicy < End
         /\ unbound.firstPolicy + unbound.dt <= End
<1>1. unbound \in Rollout
  BY RolloutsAssumption
<1>2. \A m, d \in Nat \ {0} : m * d \in Nat /\ d <= m * d
  OBVIOUS
<1>3. unbound.steps * unbound.dt \in Nat /\ unbound.dt <= unbound.steps * unbound.dt
  BY <1>1, <1>2 DEF Rollout
<1>4. End = unbound.firstPolicy + unbound.steps * unbound.dt
  BY DEF End, EndOf
<1>5. /\ unbound.contextStart \in Nat /\ unbound.firstPolicy \in Nat
      /\ unbound.steps \in Nat \ {0} /\ unbound.dt \in Nat \ {0}
      /\ unbound.closedLoopStart \in Nat /\ unbound.report \in Nat
      /\ unbound.planDelay \in Nat
      /\ unbound.firstEnd \in [Cameras -> Nat]
      /\ unbound.interval \in [Cameras -> Nat \ {0}]
  BY <1>1 DEF Rollout
<1>6. End \in Nat /\ unbound.firstPolicy < End /\ unbound.firstPolicy + unbound.dt <= End
  BY <1>3, <1>4, <1>5
<1>7. QED
  BY <1>4, <1>5, <1>6, RolloutsAssumption

(* Covered is a time of the grid, and the next step ends with the rollout. *)
LEMMA CoveredOnGrid ==
  ASSUME TypeOK, PosesAgree
  PROVE  /\ Covered \in Nat /\ unbound.firstPolicy <= Covered /\ Covered <= End
         /\ NextStep \in Nat /\ Covered < NextStep
         /\ Covered < End => /\ NextStep <= End
                             /\ \E n \in 0..unbound.steps :
                                  NextStep = unbound.firstPolicy + n * unbound.dt
<1> DEFINE F == unbound.firstPolicy
           D == unbound.dt
           M == unbound.steps
<1>1. /\ F \in Nat /\ D \in Nat \ {0} /\ M \in Nat \ {0}
      /\ End = F + M * D
  BY UnboundType DEF TypeOK
<1>2. PICK n \in 0..M : Covered = F + n * D
  BY DEF PosesAgree
<1>3. /\ \A a, b \in Nat : a * D \in Nat /\ (a + 1) * D = a * D + D
      /\ \A a, b \in Nat : a <= b => a * D <= b * D
      /\ \A a, b \in Nat : a * D < b * D => a < b
  BY <1>1
<1>4. n * D \in Nat /\ n * D <= M * D /\ M * D \in Nat
  BY <1>1, <1>3
<1>5. Covered \in Nat /\ F <= Covered /\ Covered <= End /\ NextStep = Covered + D
  BY <1>1, <1>2, <1>4 DEF NextStep
<1>6. ASSUME Covered < End
      PROVE  n + 1 \in 0..M /\ NextStep = F + (n + 1) * D
  <2>1. n * D < M * D
    BY <1>1, <1>2, <1>4, <1>6
  <2>2. n < M
    BY <1>1, <1>3, <2>1
  <2>3. n + 1 \in 0..M /\ (n + 1) * D = n * D + D
    BY <1>1, <1>3, <2>2
  <2>4. NextStep = F + (n * D + D)
    BY <1>1, <1>2, <1>4, <1>5
  <2>5. QED
    BY <2>3, <2>4
<1>7. ASSUME Covered < End
      PROVE  NextStep <= End
  <2>1. (n + 1) * D <= M * D /\ (n + 1) * D \in Nat
    BY <1>1, <1>3, <1>6, <1>7
  <2>2. QED
    BY <1>1, <1>4, <1>6, <1>7, <2>1
<1>8. QED
  BY <1>1, <1>5, <1>6, <1>7

(* An event is known by its fields. *)
LEMMA EventFields ==
  ASSUME TypeOK, NEW e \in queue
  PROVE  /\ e.kind \in DOMAIN Priority /\ e.at \in Nat /\ e.at <= End
         /\ e = Event(e.kind, e.at, e.camera)
         /\ IF e.kind = "camera" THEN e.camera \in Cameras ELSE e.camera = None
<1>1. End \in Nat
  BY UnboundType DEF TypeOK
<1>2. QED
  BY <1>1 DEF TypeOK, Events, Event, Times, Priority

(* What is popped is of the step under way. *)
LEMMA PoppedInStep ==
  ASSUME RunInv, stage = "loop", NEW e \in queue, Pop(e)
  PROVE  /\ e.at <= Covered
         /\ e.kind # "initialStep" => \A f \in queue : f.kind # "initialStep"
         /\ e.kind \in {"camera", "flush"} /\ Covered < End => ToRun("policy")
         /\ e.kind = "end" => Covered = End
<1>1. /\ Covered \in Nat /\ Covered <= End /\ unbound.firstPolicy <= Covered
      /\ End \in Nat /\ unbound.contextStart < unbound.firstPolicy
      /\ unbound.contextStart \in Nat /\ unbound.firstPolicy \in Nat
  BY CoveredOnGrid, UnboundType DEF RunInv, TypeOK
<1>2. e.at \in Nat /\ e.at <= End /\ \A f \in queue : f.at \in Nat /\ e.at <= f.at
  BY EventFields DEF RunInv, Pop
<1>3. e.at <= Covered
  <2>1. CASE Covered < End
    <3>1. Event("step", Covered, None) \in queue
      BY <2>1 DEF RunInv, StepQueued, ToRun
    <3>2. QED
      BY <1>2, <3>1 DEF Event
  <2>2. QED
    BY <1>1, <1>2, <2>1
<1>4. ASSUME e.kind # "initialStep", NEW f \in queue, f.kind = "initialStep"
      PROVE  FALSE
  <2>1. f.at = unbound.contextStart /\ unbound.firstPolicy <= e.at
    BY <1>4 DEF RunInv, QueueInOrder
  <2>2. QED
    BY <1>1, <1>2, <2>1
<1>5. ASSUME e.kind \in {"camera", "flush"}, Covered < End, ~ToRun("policy")
      PROVE  FALSE
  <2>1. Covered < e.at
    BY <1>5 DEF RunInv, QueueInOrder
  <2>2. QED
    BY <1>1, <1>2, <1>3, <2>1
<1>6. ASSUME e.kind = "end"
      PROVE  Covered = End
  <2>1. e.at = End
    BY <1>6 DEF RunInv, QueueInOrder
  <2>2. QED
    BY <1>1, <1>3, <2>1
<1>7. QED
  BY <1>1, <1>3, <1>4, <1>5, <1>6

(* A handler of a step runs in that step, after the handlers before it.      *)
LEMMA PoppedInTurn ==
  ASSUME RunInv, stage = "loop", NEW e \in queue, Pop(e), e.kind \in Recurring
  PROVE  /\ e = Event(e.kind, Covered, None) /\ e.at = Covered /\ ToRun(e.kind)
         /\ Covered < End /\ NextStep <= End
         /\ \A l \in Recurring : Priority[l] < Priority[e.kind] => ~ToRun(l)
<1>1. /\ Covered \in Nat /\ End \in Nat /\ NextStep \in Nat /\ Covered < NextStep
      /\ Covered < End => NextStep <= End
  BY CoveredOnGrid, UnboundType DEF RunInv, TypeOK
<1>2. e.at <= Covered /\ e.at \in {Covered, NextStep} /\ e.at < End
  BY PoppedInStep DEF RunInv, StepQueued
<1>3. e.at = Covered /\ Covered < End
  BY <1>1, <1>2
<1>4. e = Event(e.kind, e.at, e.camera) /\ e.camera = None
  BY EventFields DEF RunInv, Recurring
<1>5. ASSUME NEW l \in Recurring, Priority[l] < Priority[e.kind], ToRun(l)
      PROVE  FALSE
  <2>1. Event(l, Covered, None) \in queue
    BY <1>5 DEF ToRun
  <2>2. Priority[e.kind] <= Priority[l]
    BY <1>1, <1>3, <2>1 DEF Pop, Event
  <2>3. QED
    BY <1>5, <2>2 DEF Recurring, Priority
<1>6. QED
  BY <1>1, <1>3, <1>4, <1>5 DEF ToRun

(* A handler of a step that has run is queued for the next one, and nothing  *)
(* else changes in the queue.                                                *)
LEMMA HandlerDone ==
  ASSUME RunInv, NEW k \in Recurring \ {"step"}, Covered < End,
         IF k = "policy" THEN ~ToRun("policy") ELSE stage = "loop",
         \A l \in Recurring : Priority[l] < Priority[k] => ~ToRun(l),
         \A f \in queue : f.kind # "initialStep" /\ Covered <= f.at,
         Reschedule(Event(k, Covered, None)),
         ego' = ego, estimate' = estimate, traffic' = traffic, lastFrame' = lastFrame,
         unbound' = unbound, now' = Covered, stage' = "loop"
  PROVE  /\ Covered' = Covered /\ NextStep' = NextStep /\ End' = End
         /\ queue' \subseteq Events
         /\ \A l \in Recurring : ToRun(l)' <=> ToRun(l) /\ l # k
         /\ PosesAgree' /\ StepQueued' /\ QueueInOrder' /\ FramesOfPast'
<1> DEFINE next == Event(k, NextStep, None)
<1>1. /\ Covered \in Nat /\ End \in Nat /\ NextStep \in Nat /\ Covered < NextStep
      /\ NextStep <= End /\ unbound.firstPolicy <= Covered /\ unbound.firstPolicy \in Nat
  BY CoveredOnGrid, UnboundType DEF RunInv, TypeOK
<1>2. Covered' = Covered /\ NextStep' = NextStep /\ End' = End
  BY DEF Covered, NextStep, End
<1>3. [Event(k, Covered, None) EXCEPT !.at = @ + unbound.dt] = next
  BY DEF Event, NextStep
<1>4. queue' = (queue \ {Event(k, Covered, None)}) \cup (IF NextStep < End THEN {next} ELSE {})
  BY <1>1, <1>3 DEF Reschedule, Event
<1>5. next.kind = k /\ next.at = NextStep /\ next \in Events
  BY <1>1 DEF Event, Events, Recurring, Priority, Times
<1>6. \A f \in queue' : f \in queue \/ (f = next /\ NextStep < End)
  BY <1>4
<1>7. queue' \subseteq Events
  BY <1>5, <1>6 DEF RunInv, TypeOK
<1>8. \A l \in Recurring : ToRun(l)' <=> ToRun(l) /\ l # k
  <2>1. \A l \in Recurring : Event(l, Covered, None) # next
    BY <1>1 DEF Event
  <2>2. \A l \in Recurring : Event(l, Covered, None) = Event(k, Covered, None) => l = k
    BY DEF Event
  <2>3. QED
    BY <1>2, <1>4, <2>1, <2>2 DEF ToRun
<1>9. StepQueued'
  <2>1. \A f \in queue' : f.kind \in Recurring => f.at \in {Covered, NextStep} /\ f.at < End
    BY <1>5, <1>6 DEF RunInv, StepQueued
  <2>2. \A l \in Recurring :
          ToRun(l)' => Event(l, NextStep, None) \notin queue'
    <3>1. \A l \in Recurring : l # k => Event(l, NextStep, None) # next
      BY DEF Event
    <3>2. QED
      BY <1>6, <1>8, <3>1 DEF RunInv, StepQueued, ToRun
  <2>3. \A l \in Recurring :
          \/ ToRun(l)' \/ End <= NextStep \/ Event(l, NextStep, None) \in queue'
    <3>1. \A l \in Recurring :
            ToRun(l) \/ End <= NextStep \/ Event(l, NextStep, None) \in queue
              \/ (l = "policy" /\ stage # "loop")
      BY <1>1 DEF RunInv, StepQueued
    <3>2. \A l \in Recurring : l # k =>
            ToRun(l) \/ End <= NextStep \/ Event(l, NextStep, None) \in queue
      BY <3>1
    <3>3. \A l \in Recurring : Event(l, NextStep, None) # Event(k, Covered, None)
      BY <1>1 DEF Event
    <3>4. End <= NextStep \/ next \in queue'
      BY <1>1, <1>4
    <3>5. \A f \in queue : f # Event(k, Covered, None) => f \in queue'
      BY <1>4
    <3>6. QED
      BY <1>8, <3>2, <3>3, <3>4, <3>5
  <2>4. \A a, b \in Recurring : Priority[a] < Priority[b] /\ ToRun(a)' => ToRun(b)'
    <3>1. \A a, b \in Recurring : Priority[a] < Priority[b] /\ ToRun(a) => ToRun(b)
      BY DEF RunInv, StepQueued
    <3>2. QED
      BY <1>8, <3>1
  <2>5. ToRun("step")'
    BY <1>8 DEF RunInv, StepQueued, Recurring
  <2>6. QED
    BY <1>2, <2>1, <2>2, <2>3, <2>4, <2>5 DEF StepQueued, ToRun
<1>10. QueueInOrder'
  <2>1. \A f \in queue' : now' <= f.at /\ f.kind # "initialStep" /\ unbound.firstPolicy <= f.at
    BY <1>1, <1>5, <1>6 DEF RunInv, QueueInOrder, Recurring
  <2>2. \A f \in queue' : f.kind = "end" => f.at = End
    BY <1>5, <1>6 DEF RunInv, QueueInOrder, Recurring
  <2>3. ~ToRun("policy")' => \A f \in queue' : f.kind \in {"camera", "flush"} => Covered < f.at
    <3>1. ~ToRun("policy")' => ~ToRun("policy")
      BY <1>8 DEF Recurring
    <3>2. QED
      BY <1>5, <1>6, <3>1 DEF RunInv, QueueInOrder, Recurring
  <2>4. QED
    BY <1>2, <2>1, <2>2, <2>3 DEF QueueInOrder
<1>11. PosesAgree'
  BY <1>2 DEF RunInv, PosesAgree
<1>12. FramesOfPast'
  <2>1. now \in Nat /\ now <= Covered
    <3>1. Event("step", Covered, None) \in queue
      BY DEF RunInv, StepQueued, ToRun
    <3>2. QED
      BY <3>1 DEF RunInv, QueueInOrder, Event, TypeOK, Times
  <2>2. \A c \in Cameras : lastFrame[c] # None => lastFrame[c] <= now'
    <3>1. \A c \in Cameras : lastFrame[c] # None => lastFrame[c] \in Nat /\ lastFrame[c] <= now
      BY DEF RunInv, FramesOfPast, TypeOK, Times
    <3>2. QED
      BY <1>1, <2>1, <3>1
  <2>3. \A c \in Cameras :
          Event("camera", unbound.firstPolicy, c) \in queue =>
            Event("camera", unbound.firstPolicy, c) \in queue'
    BY <1>4 DEF Event, Recurring
  <2>4. QED
    BY <2>2, <2>3 DEF RunInv, FramesOfPast
<1>13. QED
  BY <1>2, <1>7, <1>8, <1>9, <1>10, <1>11, <1>12

(* The types are those of the configuration, which is fixed. *)
LEMMA TypesFixed ==
  ASSUME unbound' = unbound
  PROVE  /\ End' = End /\ Times' = Times /\ Events' = Events /\ Tasks' = Tasks
         /\ ContextType' = ContextType
BY DEF End, Times, Events, Tasks, ContextType

(* Only the controller adds plans. *)
LEMMA PlansKept ==
  ASSUME RunInv, delayed' = delayed, unbound' = unbound, Covered' = Covered,
         ToRun("controller")' => ToRun("controller")
  PROVE  PlansOrdered'
BY TypesFixed DEF RunInv, PlansOrdered

(* Its handler asserts what the handlers before it have left behind, takes   *)
(* the plan that is due and reports the ego's poses up to the next step.     *)
LEMMA ReportsUpToTarget ==
  ASSUME TypeOK, PosesAgree
  PROVE  /\ NextStep \in ReportTimes(Covered, NextStep)
         /\ ReportTimes(Covered, NextStep) \subseteq (Covered + 1)..NextStep
<1>1. Covered \in Nat /\ NextStep \in Nat /\ Covered < NextStep
  BY CoveredOnGrid
<1>2. QED
  BY <1>1 DEF ReportTimes

LEMMA ReadyEndsSame ==
  ASSUME NEW q \in Seq(Times), q # <<>>, NEW t
  PROVE  /\ Ready(q, t) \in Seq(Times) /\ Ready(q, t) # <<>>
         /\ Ready(q, t)[Len(Ready(q, t))] = q[Len(q)]
<1> DEFINE ready == {i \in 2..Len(q) : t - q[i] >= unbound.planDelay}
           S == ready \cup {1}
           m == Latest(S)
<1>1. Len(q) \in Nat \ {0}
  OBVIOUS
<1>2. S \subseteq 0..Len(q) /\ S # {}
  BY <1>1
<1>3. m \in S
  <2> HIDE DEF S
  <2>1. QED
    BY <1>1, <1>2, LatestIsIn
<1>4. m \in 1..Len(q)
  <2> HIDE DEF m
  <2>1. QED
    BY <1>1, <1>3
<1>5. Ready(q, t) = SubSeq(q, m, Len(q))
  BY DEF Ready
<1> HIDE DEF m
<1>6. /\ SubSeq(q, m, Len(q)) \in Seq(Times)
      /\ Len(SubSeq(q, m, Len(q))) = Len(q) - m + 1
      /\ \A i \in 1..(Len(q) - m + 1) : SubSeq(q, m, Len(q))[i] = q[m + i - 1]
  <2>1. \A i \in m..Len(q) : q[i] \in Times
    BY <1>1, <1>4
  <2>2. QED
    BY <1>1, <1>4, <2>1, SubSeqProperties
<1>7. Len(q) - m + 1 \in 1..Len(q) /\ m + (Len(q) - m + 1) - 1 = Len(q)
  BY <1>1, <1>4
<1>8. QED
  BY <1>5, <1>6, <1>7

LEMMA CardinalityOfPair ==
  ASSUME NEW a, NEW b, a # b
  PROVE  Cardinality({a, b}) = 2
<1>1. {a, b} = {a} \cup {b} /\ b \notin {a}
  OBVIOUS
<1>2. IsFiniteSet({a}) /\ Cardinality({a}) = 1
  BY FS_Singleton
<1>3. Cardinality({a} \cup {b}) = Cardinality({a}) + 1
  BY <1>1, <1>2, FS_AddElement
<1>4. QED
  BY <1>1, <1>2, <1>3

LEMMA ControllerKeepsRun ==
  ASSUME RunInv, status = "running", NEW e \in queue, Controller(e)
  PROVE  RunInv' /\ status' = "running"
<1>1. Pop(e) /\ e.kind = "controller" /\ stage = "loop" /\ unbound' = unbound
  BY DEF Controller, Pop
<1>2. /\ e = Event("controller", Covered, None) /\ e.at = Covered
      /\ Covered < End /\ NextStep <= End
      /\ \A l \in Recurring : Priority[l] < Priority["controller"] => ~ToRun(l)
      /\ ToRun("controller") /\ ~ToRun("policy")
  BY <1>1, PoppedInTurn DEF Recurring, Priority
<1>3. /\ Covered \in Nat /\ NextStep \in Nat /\ End \in Nat /\ Covered < NextStep
      /\ Covered \in Times /\ NextStep \in Times
  BY <1>2, CoveredOnGrid, UnboundType DEF RunInv, TypeOK, Times
<1>4. ctx.start = Covered /\ ctx.target = NextStep /\ ctx.plan # None /\ ctx.tracked = {}
  BY <1>1, <1>2 DEF RunInv, ContextAsRun
<1>5. Cardinality(ego) >= 2
  <2>1. IsFiniteSet(0..End) /\ ego \subseteq 0..End
    <3>1. IsFiniteSet(0..End)
      BY <1>3, FS_Interval
    <3>2. ego \subseteq Times
      BY DEF RunInv, TypeOK
    <3>3. Times = 0..End
      BY DEF Times
    <3>4. QED
      BY <3>1, <3>2, <3>3
  <2>2. IsFiniteSet(ego)
    BY <2>1, FS_Subset
  <2>3. {unbound.contextStart, unbound.firstPolicy} \subseteq ego
    BY DEF RunInv, PosesAgree
  <2>4. Cardinality({unbound.contextStart, unbound.firstPolicy}) = 2
    <3>1. unbound.contextStart # unbound.firstPolicy
      BY UnboundType DEF RunInv, TypeOK
    <3>2. QED
      BY <3>1, CardinalityOfPair
  <2>5. Cardinality({unbound.contextStart, unbound.firstPolicy}) <= Cardinality(ego)
    BY <2>2, <2>3, FS_Subset
  <2>6. QED
    BY <2>2, <2>4, <2>5, FS_CardinalityType
<1>6. delayed = <<>> \/ e.at > delayed[Len(delayed)]
  <2>1. delayed # <<>> => delayed[Len(delayed)] < Covered /\ delayed[Len(delayed)] \in Nat
    <3>1. delayed \in Seq(Times) /\ (delayed # <<>> => delayed[Len(delayed)] < Covered)
      BY <1>2 DEF RunInv, PlansOrdered
    <3>2. delayed # <<>> => delayed[Len(delayed)] \in Times
      BY <3>1
    <3>3. QED
      BY <1>3, <3>1, <3>2 DEF Times
  <2>2. QED
    BY <1>2, <1>3, <2>1
<1>7. /\ delayed' = Ready(Append(delayed, Covered), Covered)
      /\ steered' = Head(delayed')
      /\ ctx' = [ctx EXCEPT !.ego = ReportTimes(Covered, NextStep)]
      /\ Reschedule(e)
      /\ UNCHANGED <<status, stage, egoVars, lastPose, cameraVars, rendererData, taskVars,
                     gathering>>
  BY <1>2, <1>4, <1>5, <1>6 DEF Controller
<1>8. /\ Covered' = Covered /\ NextStep' = NextStep /\ End' = End /\ queue' \subseteq Events
      /\ \A l \in Recurring : ToRun(l)' <=> ToRun(l) /\ l # "controller"
      /\ PosesAgree' /\ StepQueued' /\ QueueInOrder' /\ FramesOfPast'
  <2>1. \A f \in queue : f.kind # "initialStep" /\ Covered <= f.at
    BY <1>1, <1>2, <1>3, PoppedInStep, EventFields DEF Pop, RunInv
  <2>2. now' = Covered
    BY <1>1, <1>2 DEF Pop
  <2>3. QED
    BY <1>1, <1>2, <1>7, <2>1, <2>2, HandlerDone DEF Recurring, egoVars, cameraVars
<1>9. ctx' = [ctx EXCEPT !.ego = ctx'.ego] /\ NextStep \in ctx'.ego
      /\ ctx'.ego \subseteq (Covered + 1)..NextStep
  BY <1>7, ReportsUpToTarget DEF RunInv, TypeOK, ContextType
<1>10. /\ delayed' \in Seq(Times) /\ delayed' # <<>>
       /\ delayed'[Len(delayed')] = Covered
       /\ Head(delayed') \in Times
  <2>1. Append(delayed, Covered) \in Seq(Times) /\ Append(delayed, Covered) # <<>>
        /\ Append(delayed, Covered)[Len(Append(delayed, Covered))] = Covered
    <3>1. delayed \in Seq(Times) /\ Covered \in Times
      BY <1>3 DEF RunInv, PlansOrdered
    <3>2. QED
      BY <3>1, AppendProperties
  <2>2. delayed' \in Seq(Times) /\ delayed' # <<>> /\ delayed'[Len(delayed')] = Covered
    BY <1>7, <2>1, ReadyEndsSame
  <2>3. Head(delayed') \in Times
    BY <2>2, HeadTailProperties
  <2>4. QED
    BY <2>2, <2>3
<1>11. TypeOK'
  <2>1. ctx' \in ContextType
    <3>1. ctx'.ego \subseteq Times
      BY <1>2, <1>3, <1>9 DEF Times
    <3>2. QED
      BY <1>9, <3>1 DEF RunInv, TypeOK, ContextType
  <2>2. now' \in Times
    BY <1>1, <1>2, <1>3 DEF Pop
  <2>3. \A i \in DOMAIN delayed' : delayed'[i] \in Times
    BY <1>10
  <2>4. QED
    BY <1>1, <1>7, <1>8, <1>10, <2>1, <2>2, <2>3, TypesFixed
    DEF RunInv, TypeOK, egoVars, cameraVars, taskVars, driverVars
<1>12. ContextAsRun'
  <2>1. ToRun("physicsEgo") /\ ToRun("traffic") /\ ToRun("physicsTraffic")
    BY <1>2 DEF RunInv, StepQueued, Recurring, Priority
  <2>2. ~ToRun("policy")' /\ ToRun("physicsEgo")' /\ ToRun("traffic")' /\ ToRun("physicsTraffic")'
    BY <1>2, <1>8, <2>1 DEF Recurring
  <2>3. ctx.traffic = {}
    BY <1>2, <2>1 DEF RunInv, ContextAsRun
  <2>4. ctx' = [ctx EXCEPT !.ego = ctx'.ego]
    BY <1>9
  <2>5. ctx'.start = Covered /\ ctx'.target = NextStep /\ ctx'.tracked = {} /\ ctx'.plan # None
        /\ ctx'.traffic = {}
    BY <1>4, <2>3, <2>4 DEF RunInv, TypeOK, ContextType
  <2>6. QED
    BY <1>8, <1>9, <2>2, <2>5 DEF ContextAsRun
<1>13. TasksAwaited'
  BY <1>1, <1>7 DEF RunInv, TasksAwaited
<1>14. PlansOrdered'
  <2>1. ~ToRun("controller")'
    BY <1>8 DEF Recurring
  <2>2. QED
    BY <1>1, <1>3, <1>8, <1>10, <2>1, TypesFixed DEF PlansOrdered
<1>15. (inFlight \cup failed \subseteq ctx.tracked \cup gathering)'
  BY <1>7, <1>9 DEF RunInv, taskVars
<1>16. QED
  BY <1>7, <1>8, <1>11, <1>12, <1>13, <1>14, <1>15 DEF RunInv

(* The three handlers after it change the queue and the context only. *)
LEMMA OnlyContextKeepsRun ==
  ASSUME RunInv, status = "running", NEW e \in queue, Pop(e),
         e.kind \in {"physicsEgo", "traffic", "physicsTraffic"},
         Reschedule(e), OnlyContext, ctx' \in ContextType, ctx'.tracked = ctx.tracked,
         /\ \A l \in Recurring : ToRun(l)' <=> ToRun(l) /\ l # e.kind
         /\ Covered' = Covered /\ NextStep' = NextStep /\ End' = End
         => ContextAsRun'
  PROVE  RunInv' /\ status' = "running"
<1>1. stage = "loop" /\ unbound' = unbound /\ now' = e.at
  BY DEF Pop
<1>2. /\ e = Event(e.kind, Covered, None) /\ e.at = Covered /\ Covered < End
      /\ \A l \in Recurring : Priority[l] < Priority[e.kind] => ~ToRun(l)
  BY <1>1, PoppedInTurn DEF Recurring
<1>3. Covered \in Nat /\ End \in Nat /\ Covered <= End
  BY CoveredOnGrid, UnboundType DEF RunInv, TypeOK
<1>4. /\ UNCHANGED <<status, stage, egoVars, lastPose, cameraVars, rendererData, planVars,
                     taskVars, gathering>>
  BY DEF OnlyContext
<1>5. /\ Covered' = Covered /\ NextStep' = NextStep /\ End' = End /\ queue' \subseteq Events
      /\ \A l \in Recurring : ToRun(l)' <=> ToRun(l) /\ l # e.kind
      /\ PosesAgree' /\ StepQueued' /\ QueueInOrder' /\ FramesOfPast'
  <2>1. \A f \in queue : f.kind # "initialStep" /\ Covered <= f.at
    BY <1>1, <1>2, <1>3, PoppedInStep, EventFields DEF Pop, RunInv
  <2>2. e.kind \in Recurring \ {"step"} /\ e.kind # "policy"
    BY DEF Recurring
  <2>3. Reschedule(Event(e.kind, Covered, None))
    BY <1>2
  <2>4. /\ ego' = ego /\ estimate' = estimate /\ traffic' = traffic /\ lastFrame' = lastFrame
        /\ unbound' = unbound /\ now' = Covered /\ stage' = "loop"
    BY <1>1, <1>2, <1>4 DEF egoVars, cameraVars
  <2>5. QED
    BY <1>1, <1>2, <2>1, <2>2, <2>3, <2>4, HandlerDone
<1>6. TypeOK'
  <2>1. now' \in Times
    BY <1>1, <1>2, <1>3 DEF Times
  <2>2. QED
    BY <1>1, <1>4, <1>5, <2>1, TypesFixed
    DEF RunInv, TypeOK, egoVars, cameraVars, planVars, taskVars, driverVars
<1>7. ContextAsRun'
  BY <1>5
<1>8. TasksAwaited'
  BY <1>1, <1>4 DEF RunInv, TasksAwaited
<1>9. PlansOrdered'
  <2>1. ToRun("controller")' => ToRun("controller")
    BY <1>5 DEF Recurring
  <2>2. QED
    BY <1>1, <1>4, <1>5, <2>1, PlansKept DEF planVars
<1>10. (inFlight \cup failed \subseteq ctx.tracked \cup gathering)'
  BY <1>4 DEF RunInv, taskVars
<1>11. QED
  BY <1>4, <1>5, <1>6, <1>7, <1>8, <1>9, <1>10 DEF RunInv

LEMMA PhysicsEgoKeepsRun ==
  ASSUME RunInv, status = "running", NEW e \in queue, PhysicsEgo(e)
  PROVE  RunInv' /\ status' = "running"
<1>1. Pop(e) /\ e.kind = "physicsEgo" /\ stage = "loop" /\ unbound' = unbound
  BY DEF PhysicsEgo, Pop
<1>2. /\ e.at = Covered /\ Covered < End /\ ToRun("physicsEgo")
      /\ ~ToRun("policy") /\ ~ToRun("controller")
  BY <1>1, PoppedInTurn DEF Recurring, Priority
<1>3. ToRun("traffic") /\ ToRun("physicsTraffic")
  BY <1>2 DEF RunInv, StepQueued, Recurring, Priority
<1>4. /\ ctx.start = Covered /\ ctx.target = NextStep /\ ctx.tracked = {} /\ ctx.plan # None
      /\ NextStep \in ctx.ego /\ ctx.ego \subseteq (Covered + 1)..NextStep /\ ctx.traffic = {}
  BY <1>1, <1>2, <1>3 DEF RunInv, ContextAsRun
<1>5. ctx' = [ctx EXCEPT !.corrected = ctx.ego] /\ Reschedule(e) /\ OnlyContext
  BY <1>2, <1>4 DEF PhysicsEgo
<1>6. /\ ctx' \in ContextType /\ ctx'.tracked = ctx.tracked /\ ctx'.corrected = ctx.ego
      /\ ctx'.start = ctx.start /\ ctx'.target = ctx.target /\ ctx'.plan = ctx.plan
      /\ ctx'.ego = ctx.ego /\ ctx'.traffic = ctx.traffic
  BY <1>5 DEF RunInv, TypeOK, ContextType
<1>7. ASSUME \A l \in Recurring : ToRun(l)' <=> ToRun(l) /\ l # "physicsEgo",
             Covered' = Covered, NextStep' = NextStep, End' = End
      PROVE  ContextAsRun'
  <2>1. ToRun("traffic")' /\ ToRun("physicsTraffic")'
    BY <1>3, <1>7 DEF Recurring
  <2>2. QED
    BY <1>4, <1>6, <1>7, <2>1 DEF ContextAsRun
<1>8. QED
  BY <1>1, <1>5, <1>6, <1>7, OnlyContextKeepsRun

(* The corrected poses reach to the next step. *)
LEMMA CorrectedReachNext ==
  ASSUME RunInv, Covered < End, ~ToRun("controller"), ~ToRun("physicsEgo")
  PROVE  /\ ctx.corrected = ctx.ego /\ ctx.corrected # {} /\ NextStep \in ctx.corrected
         /\ ctx.corrected \subseteq (Covered + 1)..NextStep
         /\ NextStep \in First(ctx.corrected)..Latest(ctx.corrected)
         /\ Covered < First(ctx.corrected)
<1>1. Covered \in Nat /\ NextStep \in Nat
  BY CoveredOnGrid DEF RunInv
<1>2. /\ ctx.corrected = ctx.ego /\ NextStep \in ctx.corrected
      /\ ctx.corrected \subseteq (Covered + 1)..NextStep
  BY DEF RunInv, ContextAsRun
<1>3. Latest(ctx.corrected) = NextStep
  BY <1>1, <1>2, LatestIs
<1>4. First(ctx.corrected) \in ctx.corrected /\ First(ctx.corrected) <= NextStep
  <2>1. ctx.corrected \subseteq Nat /\ ctx.corrected # {}
    BY <1>1, <1>2
  <2>2. QED
    BY <1>2, <2>1, FirstIsIn
<1>5. QED
  BY <1>1, <1>2, <1>3, <1>4

LEMMA TrafficKeepsRun ==
  ASSUME RunInv, status = "running", NEW e \in queue, Traffic(e)
  PROVE  RunInv' /\ status' = "running"
<1>1. Pop(e) /\ e.kind = "traffic" /\ stage = "loop" /\ unbound' = unbound
  BY DEF Traffic, Pop
<1>2. /\ e.at = Covered /\ Covered < End /\ NextStep <= End /\ ToRun("traffic")
      /\ ~ToRun("policy") /\ ~ToRun("controller") /\ ~ToRun("physicsEgo")
  BY <1>1, PoppedInTurn DEF Recurring, Priority
<1>3. ToRun("physicsTraffic")
  BY <1>2 DEF RunInv, StepQueued, Recurring, Priority
<1>4. NextStep \in Times /\ NextStep # None
  BY <1>2, CoveredOnGrid, RolloutsAssumption DEF RunInv, Times
<1>5. ctx' = [ctx EXCEPT !.response = NextStep] /\ Reschedule(e) /\ OnlyContext
  <2>1. e.at + unbound.dt = NextStep
    BY <1>2 DEF NextStep
  <2>2. QED
    BY <1>2, <2>1, CorrectedReachNext DEF Traffic
<1>6. /\ ctx' \in ContextType /\ ctx'.tracked = ctx.tracked /\ ctx'.corrected = ctx.corrected
      /\ ctx'.start = ctx.start /\ ctx'.target = ctx.target /\ ctx'.plan = ctx.plan
      /\ ctx'.ego = ctx.ego /\ ctx'.traffic = ctx.traffic /\ ctx'.response # None
  BY <1>4, <1>5 DEF RunInv, TypeOK, ContextType
<1>7. ASSUME \A l \in Recurring : ToRun(l)' <=> ToRun(l) /\ l # "traffic",
             Covered' = Covered, NextStep' = NextStep, End' = End
      PROVE  ContextAsRun'
  <2>1. ToRun("physicsTraffic")'
    BY <1>3, <1>7 DEF Recurring
  <2>2. /\ ctx.start = Covered /\ ctx.target = NextStep /\ ctx.tracked = {} /\ ctx.plan # None
        /\ NextStep \in ctx.ego /\ ctx.ego \subseteq (Covered + 1)..NextStep
        /\ ctx.corrected = ctx.ego /\ ctx.traffic = {}
    BY <1>1, <1>2, <1>3 DEF RunInv, ContextAsRun
  <2>3. QED
    BY <1>6, <1>7, <2>1, <2>2 DEF ContextAsRun
<1>8. QED
  BY <1>1, <1>5, <1>6, <1>7, OnlyContextKeepsRun

LEMMA PhysicsTrafficKeepsRun ==
  ASSUME RunInv, status = "running", NEW e \in queue, PhysicsTraffic(e)
  PROVE  RunInv' /\ status' = "running"
<1>1. Pop(e) /\ e.kind = "physicsTraffic" /\ stage = "loop" /\ unbound' = unbound
  BY DEF PhysicsTraffic, Pop
<1>2. /\ e.at = Covered /\ Covered < End /\ NextStep <= End /\ ToRun("physicsTraffic")
      /\ ~ToRun("policy") /\ ~ToRun("controller") /\ ~ToRun("physicsEgo") /\ ~ToRun("traffic")
  BY <1>1, PoppedInTurn DEF Recurring, Priority
<1>3. NextStep \in Times
  BY <1>2, CoveredOnGrid DEF RunInv, Times
<1>4. /\ ctx.start = Covered /\ ctx.target = NextStep /\ ctx.tracked = {} /\ ctx.plan # None
      /\ NextStep \in ctx.ego /\ ctx.ego \subseteq (Covered + 1)..NextStep
      /\ ctx.corrected = ctx.ego /\ ctx.traffic = {} /\ ctx.response # None
  BY <1>1, <1>2 DEF RunInv, ContextAsRun
<1>5. ctx' = [ctx EXCEPT !.traffic = {NextStep}] /\ Reschedule(e) /\ OnlyContext
  <2>1. e.at + unbound.dt = NextStep
    BY <1>2 DEF NextStep
  <2>2. ctx' = [ctx EXCEPT !.traffic = @ \cup {NextStep}] /\ Reschedule(e) /\ OnlyContext
    BY <1>2, <1>4, <2>1, CorrectedReachNext DEF PhysicsTraffic
  <2>3. QED
    BY <1>4, <2>2
<1>6. /\ ctx' \in ContextType /\ ctx'.tracked = ctx.tracked /\ ctx'.corrected = ctx.corrected
      /\ ctx'.start = ctx.start /\ ctx'.target = ctx.target /\ ctx'.plan = ctx.plan
      /\ ctx'.ego = ctx.ego /\ ctx'.traffic = {NextStep} /\ ctx'.response = ctx.response
  BY <1>3, <1>5 DEF RunInv, TypeOK, ContextType
<1>7. ASSUME \A l \in Recurring : ToRun(l)' <=> ToRun(l) /\ l # "physicsTraffic",
             Covered' = Covered, NextStep' = NextStep, End' = End
      PROVE  ContextAsRun'
  <2>1. ~ToRun("physicsTraffic")'
    BY <1>7 DEF Recurring
  <2>2. QED
    BY <1>4, <1>6, <1>7, <2>1 DEF ContextAsRun
<1>8. QED
  BY <1>1, <1>5, <1>6, <1>7, OnlyContextKeepsRun

-----------------------------------------------------------------------------
(* The step event commits the step and makes the next one current. *)
LEMMA StepKeepsRun ==
  ASSUME RunInv, status = "running", NEW e \in queue, Step(e)
  PROVE  RunInv' /\ status' = "running" /\ Covered' = NextStep
<1> DEFINE Later == NextStep + unbound.dt
<1>1. Pop(e) /\ e.kind = "step" /\ stage = "loop" /\ unbound' = unbound /\ now' = e.at
  BY DEF Step, Pop
<1>2. /\ e = Event("step", Covered, None) /\ e.at = Covered /\ Covered < End /\ NextStep <= End
      /\ \A l \in Recurring \ {"step"} : ~ToRun(l)
  BY <1>1, PoppedInTurn DEF Recurring, Priority
<1>3. /\ Covered \in Nat /\ NextStep \in Nat /\ End \in Nat /\ Covered < NextStep
      /\ Later \in Nat /\ NextStep < Later /\ unbound.firstPolicy <= Covered
      /\ unbound.firstPolicy \in Nat
      /\ \E n \in 0..unbound.steps : NextStep = unbound.firstPolicy + n * unbound.dt
  BY <1>2, CoveredOnGrid, UnboundType DEF RunInv, TypeOK
<1>4. ~ToRun("policy") /\ ~ToRun("controller") /\ ~ToRun("physicsEgo")
      /\ ~ToRun("traffic") /\ ~ToRun("physicsTraffic")
  BY <1>2 DEF Recurring
<1>5. /\ ctx.start = Covered /\ ctx.tracked = {} /\ ctx.traffic = {NextStep}
      /\ NextStep \in ctx.ego /\ ctx.ego \subseteq (Covered + 1)..NextStep
      /\ ctx.corrected = ctx.ego /\ Covered < First(ctx.ego)
  BY <1>2, <1>4, CorrectedReachNext DEF RunInv, ContextAsRun
<1>5a. ctx.ego \subseteq Nat /\ \A t \in ctx.ego : t <= NextStep
  BY <1>3, <1>5
<1>5b. ego \subseteq Nat /\ estimate \subseteq Nat /\ traffic \subseteq Nat
  BY <1>3 DEF RunInv, TypeOK, Times
<1>6. Latest(estimate) = Covered
  <2>1. Covered \in estimate /\ \A t \in estimate : t <= Covered
    BY DEF RunInv, PosesAgree
  <2>2. estimate \subseteq Int
    BY <1>5b
  <2>3. QED
    BY <2>1, <2>2, LatestIs
<1>7. /\ ego' = ego \cup ctx.ego /\ estimate' = estimate \cup ctx.ego
      /\ traffic' = traffic \cup {NextStep}
      /\ ctx' = FreshContext /\ Reschedule(e)
      /\ UNCHANGED <<status, stage, lastPose, cameraVars, rendererData, planVars, taskVars,
                     gathering>>
  <2>1. ctx.ego # {} /\ ctx.corrected # {}
    BY <1>5
  <2>2. First(ctx.corrected) > Latest(ego) /\ First(ctx.ego) > Latest(estimate)
    <3>1. First(ctx.ego) \in Nat
      BY <1>3, <1>5, FirstIsIn
    <3>2. Latest(ego) = Covered
      BY DEF Covered
    <3>3. QED
      BY <1>3, <1>5, <1>6, <3>1, <3>2
  <2>3. QED
    BY <1>2, <1>5, <2>1, <2>2 DEF Step
<1>8. /\ Covered' = NextStep /\ NextStep' = Later /\ End' = End
      /\ \A t \in ego' \cup estimate' \cup traffic' : t <= NextStep
  <2>1. \A t \in ego \cup estimate \cup traffic : t <= Covered
    BY DEF RunInv, PosesAgree
  <2>2. \A t \in ego \cup estimate \cup traffic : t <= NextStep
    BY <1>3, <1>5b, <2>1
  <2>3. \A t \in ego' \cup estimate' \cup traffic' : t <= NextStep
    BY <1>3, <1>5a, <1>7, <2>2
  <2>4. NextStep \in ego' /\ ego' \subseteq Int
    BY <1>5, <1>5a, <1>5b, <1>7
  <2>5. Latest(ego') = NextStep
    BY <2>3, <2>4, LatestIs
  <2>6. QED
    BY <1>1, <2>3, <2>5, TypesFixed DEF Covered, NextStep
<1>9. PosesAgree'
  <2>1. NextStep \in ego' /\ NextStep \in estimate' /\ NextStep \in traffic'
    BY <1>5, <1>7
  <2>2. {unbound.contextStart, unbound.firstPolicy} \subseteq ego'
    BY <1>7 DEF RunInv, PosesAgree
  <2>3. QED
    BY <1>1, <1>3, <1>8, <2>1, <2>2 DEF PosesAgree
(* What is left of the handlers is queued for the next step. *)
<1>10. /\ queue' \subseteq Events
       /\ \A f \in queue' : f \in queue \/ f = Event("step", NextStep, None)
       /\ \A f \in queue' : f.kind \in Recurring => f.at = NextStep /\ NextStep < End
       /\ NextStep < End => \A k \in Recurring : Event(k, NextStep, None) \in queue'
       /\ \A f \in queue : f.kind \notin Recurring => f \in queue'
  <2> DEFINE next == Event("step", NextStep, None)
  <2>1. queue' = (queue \ {e}) \cup (IF NextStep < End THEN {next} ELSE {})
    <3>1. [e EXCEPT !.at = @ + unbound.dt] = next
      BY <1>2 DEF Event, NextStep
    <3>2. QED
      BY <1>3, <1>7, <3>1 DEF Reschedule, Event
  <2>2. next.kind = "step" /\ next.at = NextStep /\ next \in Events
    BY <1>2, <1>3 DEF Event, Events, Priority, Times
  <2>3. \A f \in queue' : f \in queue \ {e} \/ (f = next /\ NextStep < End)
    BY <2>1
  <2>4. ASSUME NEW f \in queue \ {e}, f.kind \in Recurring
        PROVE  f.at = NextStep /\ NextStep < End
    <3>1. f.at \in {Covered, NextStep} /\ f.at < End
      BY <2>4 DEF RunInv, StepQueued
    <3>2. f = Event(f.kind, f.at, None)
      BY <2>4, EventFields DEF RunInv, Recurring
    <3>3. f.at # Covered
      BY <1>2, <2>4, <3>2 DEF ToRun
    <3>4. QED
      BY <3>1, <3>3
  <2>5. ASSUME NextStep < End, NEW k \in Recurring
        PROVE  Event(k, NextStep, None) \in queue'
    <3>1. CASE k = "step"
      BY <2>1, <2>5, <3>1
    <3>2. CASE k # "step"
      <4>1. ~ToRun(k)
        BY <1>2, <3>2
      <4>2. Event(k, NextStep, None) \in queue
        BY <1>1, <1>3, <2>5, <4>1 DEF RunInv, StepQueued
      <4>3. Event(k, NextStep, None) # e
        BY <1>2, <3>2 DEF Event
      <4>4. QED
        BY <2>1, <4>2, <4>3
    <3>3. QED
      BY <3>1, <3>2
  <2>6. queue' \subseteq Events
    BY <2>2, <2>3 DEF RunInv, TypeOK
  <2>7. \A f \in queue : f.kind \notin Recurring => f \in queue'
    BY <1>1, <2>1 DEF Recurring
  <2>8. QED
    BY <2>2, <2>3, <2>4, <2>5, <2>6, <2>7
<1>11. \A k \in Recurring : ToRun(k)' <=> NextStep < End
  <2>1. \A k \in Recurring : Event(k, NextStep, None).kind = k
    BY DEF Event
  <2>2. QED
    BY <1>8, <1>10, <2>1 DEF ToRun
<1>12. StepQueued'
  <2>1. \A k \in Recurring : Event(k, Later, None) \notin queue'
    <3>1. \A k \in Recurring : Event(k, Later, None).kind = k /\ Event(k, Later, None).at = Later
      BY DEF Event
    <3>2. QED
      BY <1>3, <1>10, <3>1
  <2>2. \A k \in Recurring : ToRun(k)' \/ End <= Later
    BY <1>3, <1>11
  <2>3. NextStep < End => ToRun("step")'
    BY <1>11 DEF Recurring
  <2>4. \A k, l \in Recurring : ToRun(k)' => ToRun(l)'
    BY <1>11
  <2>5. \A f \in queue' : f.kind \in Recurring => f.at = NextStep /\ f.at < End
    BY <1>10
  <2>6. QED
    BY <1>8, <2>1, <2>2, <2>3, <2>4, <2>5 DEF StepQueued
<1>13. QueueInOrder'
  <2>1. \A f \in queue : f.kind # "initialStep" /\ Covered <= f.at
    BY <1>1, <1>2, <1>3, PoppedInStep, EventFields DEF Pop, RunInv
  <2>2. \A f \in queue' : now' <= f.at /\ f.kind # "initialStep" /\ unbound.firstPolicy <= f.at
    BY <1>1, <1>2, <1>3, <1>10, <2>1, EventFields DEF RunInv, Event
  <2>3. \A f \in queue' : f.kind = "end" => f.at = End
    BY <1>10 DEF RunInv, QueueInOrder, Event
  <2>4. NextStep < End => ToRun("policy")'
    BY <1>11 DEF Recurring
  <2>5. QED
    BY <1>1, <1>8, <2>2, <2>3, <2>4 DEF QueueInOrder
<1>14. ContextAsRun'
  <2>1. NextStep < End => /\ ToRun("policy")' /\ ToRun("controller")' /\ ToRun("physicsEgo")'
                          /\ ToRun("traffic")' /\ ToRun("physicsTraffic")'
    BY <1>11 DEF Recurring
  <2>2. QED
    BY <1>7, <1>8, <2>1 DEF ContextAsRun, FreshContext
<1>15. TypeOK'
  <2>1. ctx' \in ContextType
    BY <1>3, <1>7 DEF FreshContext, ContextType, Times
  <2>2. ego' \subseteq Times /\ estimate' \subseteq Times /\ traffic' \subseteq Times
        /\ now' \in Times
    <3>1. NextStep \in Times /\ Covered \in Times
      BY <1>2, <1>3 DEF Times
    <3>2. ctx.ego \subseteq Times
      BY DEF RunInv, TypeOK, ContextType
    <3>3. QED
      BY <1>1, <1>2, <1>7, <3>1, <3>2 DEF RunInv, TypeOK
  <2>3. QED
    BY <1>1, <1>7, <1>10, <2>1, <2>2, TypesFixed
    DEF RunInv, TypeOK, cameraVars, planVars, taskVars, driverVars
<1>16. TasksAwaited'
  BY <1>1, <1>7 DEF RunInv, TasksAwaited
<1>17. PlansOrdered'
  <2>1. delayed \in Seq(Times) /\ (delayed # <<>> => delayed[Len(delayed)] <= Covered)
    BY DEF RunInv, PlansOrdered
  <2>2. delayed # <<>> => delayed[Len(delayed)] \in Nat
    BY <1>3, <2>1 DEF Times
  <2>3. delayed # <<>> => delayed[Len(delayed)] < NextStep
    BY <1>3, <2>1, <2>2
  <2>4. delayed' = delayed
    BY <1>7 DEF planVars
  <2>5. QED
    BY <1>1, <1>8, <2>1, <2>2, <2>3, <2>4, <1>3, TypesFixed DEF PlansOrdered
<1>18. FramesOfPast'
  <2>1. now \in Nat /\ now <= Covered
    BY <1>2 DEF RunInv, QueueInOrder, TypeOK, Times
  <2>2. \A c \in Cameras : lastFrame[c] # None => lastFrame[c] <= now'
    <3>1. \A c \in Cameras : lastFrame[c] # None => lastFrame[c] \in Nat /\ lastFrame[c] <= now
      BY DEF RunInv, FramesOfPast, TypeOK, Times
    <3>2. QED
      BY <1>1, <1>2, <1>3, <2>1, <3>1
  <2>3. \A c \in Cameras :
          Event("camera", unbound.firstPolicy, c) \in queue =>
            Event("camera", unbound.firstPolicy, c) \in queue'
    BY <1>10 DEF Event, Recurring
  <2>4. QED
    BY <1>1, <1>7, <2>2, <2>3 DEF RunInv, FramesOfPast, cameraVars
<1>19. (inFlight \cup failed \subseteq ctx.tracked \cup gathering)'
  BY <1>1, <1>5, <1>7 DEF RunInv, taskVars, TasksAwaited
<1>20. QED
  BY <1>7, <1>8, <1>9, <1>12, <1>13, <1>14, <1>15, <1>16, <1>17, <1>18, <1>19 DEF RunInv

-----------------------------------------------------------------------------
(* The policy event finds every sensor up to date, and opens the step. *)
LEMMA SensorsAreUpToDate ==
  ASSUME RunInv, stage = "loop", NEW e \in queue, Pop(e), e.kind = "policy"
  PROVE  /\ unbound.zeroDelay => SensorsUpToDate(Covered)
         /\ Latest(estimate) = Covered
<1>1. /\ e.at = Covered /\ Covered \in Nat /\ unbound.firstPolicy <= Covered
      /\ unbound.firstPolicy \in Nat
  BY PoppedInTurn, CoveredOnGrid, UnboundType DEF Recurring, RunInv, TypeOK
<1>2. Latest(estimate) = Covered
  <2>1. Covered \in estimate /\ \A t \in estimate : t <= Covered
    BY DEF RunInv, PosesAgree
  <2>2. estimate \subseteq Int
    BY UnboundType DEF RunInv, TypeOK, Times
  <2>3. QED
    BY <2>1, <2>2, LatestIs
<1>3. ASSUME unbound.zeroDelay, NEW c \in Cameras
      PROVE  lastFrame[c] # None /\ lastFrame[c] <= Covered
  <2>1. Event("camera", unbound.firstPolicy, c) \notin queue
    <3>1. SUFFICES ASSUME Event("camera", unbound.firstPolicy, c) \in queue PROVE FALSE
      OBVIOUS
    <3>2. \/ Covered < unbound.firstPolicy
          \/ Covered = unbound.firstPolicy /\ Priority["policy"] <= Priority["camera"]
      BY <1>1, <3>1 DEF Pop, Event
    <3>3. QED
      BY <1>1, <3>2 DEF Priority
  <2>2. lastFrame[c] # None
    BY <1>3, <2>1 DEF RunInv, FramesOfPast
  <2>3. lastFrame[c] \in Nat /\ lastFrame[c] <= now /\ now \in Nat /\ now <= Covered
    BY <1>1, <2>2, UnboundType DEF RunInv, FramesOfPast, QueueInOrder, TypeOK, Times
  <2>4. QED
    BY <1>1, <2>2, <2>3
<1>4. QED
  BY <1>2, <1>3 DEF SensorsUpToDate

(* The tasks it adds have their type. *)
LEMMA PolicyTasksType ==
  ASSUME TypeOK, Covered \in Times
  PROVE  {Task("poses", Covered, None, NewPoses(Covered))}
           \cup {Task(k, Covered, None, {}) : k \in unbound.extras} \subseteq Tasks
<1>1. NewPoses(Covered) \subseteq Times
  BY DEF NewPoses, TypeOK
<1>2. QED
  BY <1>1 DEF Task, Tasks

LEMMA ObserveKeepsRun ==
  ASSUME RunInv, status = "running", NEW e \in queue, Observe(e)
  PROVE  /\ RunInv' /\ status' = "running" /\ Covered' = Covered
         /\ queue' = queue \ {e} /\ gathering' \cap ctx.tracked = ctx.tracked
<1> DEFINE tasks == {Task("poses", Covered, None, NewPoses(Covered))}
                      \cup {Task(k, Covered, None, {}) : k \in unbound.extras}
<1>1. Pop(e) /\ e.kind = "policy" /\ stage = "loop" /\ unbound' = unbound /\ now' = e.at
  BY DEF Observe, Pop
<1>2. /\ e = Event("policy", Covered, None) /\ e.at = Covered /\ Covered < End
      /\ NextStep <= End /\ ToRun("policy")
  BY <1>1, PoppedInTurn DEF Recurring
<1>3. /\ Covered \in Nat /\ NextStep \in Nat /\ End \in Nat /\ Covered < NextStep
      /\ Covered \in Times /\ NextStep \in Times
  BY <1>2, CoveredOnGrid, UnboundType DEF RunInv, TypeOK, Times
<1>4. /\ ctx'.start = Covered /\ ctx'.target = NextStep /\ ctx'.tracked = {}
      /\ ctx' \in ContextType
      /\ ctx'.traffic = ctx.traffic
      /\ inFlight' = inFlight \cup tasks /\ gathering' = ctx.tracked \cup tasks
      /\ stage' = "barrier" /\ queue' = queue \ {e}
      /\ UNCHANGED <<status, egoVars, lastPose, cameraVars, rendererData, planVars, failed,
                     driverVars>>
  <2>1. e.at + unbound.dt = NextStep /\ Latest(ego) = e.at
    BY <1>2 DEF NextStep, Covered
  <2>2. unbound.zeroDelay => SensorsUpToDate(e.at)
    BY <1>1, <1>2, SensorsAreUpToDate
  <2>3. /\ ctx' = [ctx EXCEPT !.start = Covered, !.target = NextStep,
                              !.forceGt = NextStep \in unbound.firstPolicy..unbound.closedLoopStart,
                              !.tracked = {}]
        /\ inFlight' = inFlight \cup tasks /\ gathering' = ctx.tracked \cup tasks
        /\ stage' = "barrier" /\ queue' = queue \ {e}
        /\ UNCHANGED <<status, egoVars, lastPose, cameraVars, rendererData, planVars, failed,
                       driverVars>>
    <3>1. /\ ctx' = [ctx EXCEPT
                       !.start = e.at, !.target = e.at + unbound.dt,
                       !.forceGt = e.at + unbound.dt \in unbound.firstPolicy..unbound.closedLoopStart,
                       !.tracked = {}]
          /\ inFlight' = inFlight \cup ({Task("poses", e.at, None, NewPoses(e.at))}
                                          \cup {Task(k, e.at, None, {}) : k \in unbound.extras})
          /\ gathering' = ctx.tracked \cup ({Task("poses", e.at, None, NewPoses(e.at))}
                                              \cup {Task(k, e.at, None, {}) : k \in unbound.extras})
          /\ stage' = "barrier" /\ queue' = queue \ {e}
          /\ UNCHANGED <<status, egoVars, lastPose, cameraVars, rendererData, planVars, failed,
                         driverVars>>
      BY <2>1, <2>2 DEF Observe
    <3>2. e.at = Covered /\ e.at + unbound.dt = NextStep
      BY <1>2, <2>1
    <3>3. QED
      BY <3>1, <3>2
  <2>4. ctx \in ContextType
    BY DEF RunInv, TypeOK
  <2> DEFINE forced == NextStep \in unbound.firstPolicy..unbound.closedLoopStart
  <2>5. forced \in BOOLEAN
    OBVIOUS
  <2> HIDE DEF tasks, forced
  <2>6. ctx' = [ctx EXCEPT !.start = Covered, !.target = NextStep, !.forceGt = forced,
                           !.tracked = {}]
    BY <2>3 DEF forced
  <2>7. ctx'.start = Covered /\ ctx'.target = NextStep /\ ctx'.tracked = {}
        /\ ctx'.traffic = ctx.traffic
    BY <2>4, <2>6 DEF ContextType
  <2>8. ctx' \in ContextType
    BY <1>3, <2>4, <2>5, <2>6 DEF ContextType
  <2>9. QED
    BY <2>3, <2>7, <2>8
<1>5. Covered' = Covered /\ NextStep' = NextStep /\ End' = End
  BY <1>1, <1>4, TypesFixed DEF Covered, NextStep, egoVars
<1>6. \A l \in Recurring : ToRun(l)' <=> ToRun(l) /\ l # "policy"
  <2>1. \A l \in Recurring : Event(l, Covered, None) = e => l = "policy"
    BY <1>2 DEF Event
  <2>2. QED
    BY <1>2, <1>4, <1>5, <2>1 DEF ToRun
<1>7. \A l \in Recurring : l # "policy" => ToRun(l)'
  BY <1>2, <1>6 DEF RunInv, StepQueued, Recurring, Priority
<1>8. PosesAgree'
  BY <1>1, <1>4, <1>5 DEF RunInv, PosesAgree, egoVars
<1>9. StepQueued'
  <2>1. \A f \in queue' : f.kind \in Recurring => f.at \in {Covered, NextStep} /\ f.at < End
    BY <1>4 DEF RunInv, StepQueued
  <2>2. \A k \in Recurring : ToRun(k)' => Event(k, NextStep, None) \notin queue'
    BY <1>4, <1>6 DEF RunInv, StepQueued, ToRun
  <2>3. \A k \in Recurring : ToRun(k)' \/ k = "policy"
    BY <1>7
  <2>4. \A k, l \in Recurring : Priority[k] < Priority[l] => l # "policy"
    BY DEF Recurring, Priority
  <2>5. ToRun("step")'
    BY <1>7 DEF Recurring
  <2>6. QED
    BY <1>4, <1>5, <1>7, <2>1, <2>2, <2>3, <2>4, <2>5 DEF StepQueued, ToRun
<1>10. QueueInOrder'
  <2>1. \A f \in queue : f.kind # "initialStep" /\ Covered <= f.at
    BY <1>1, <1>2, <1>3, PoppedInStep, EventFields DEF Pop, RunInv
  <2>2. \A f \in queue : f.kind \in {"camera", "flush"} => Covered < f.at
    <3>1. \A f \in queue : f.at \in Nat
      BY EventFields DEF RunInv
    <3>2. \A f \in queue : f.at = Covered => Priority["policy"] <= Priority[f.kind]
      BY <1>1, <1>2, <1>3 DEF Pop
    <3>3. ~(Priority["policy"] <= Priority["camera"]) /\ ~(Priority["policy"] <= Priority["flush"])
      BY DEF Priority
    <3>4. \A f \in queue : f.kind \in {"camera", "flush"} => f.at # Covered
      BY <3>2, <3>3
    <3>5. QED
      BY <1>3, <2>1, <3>1, <3>4
  <2>3. QED
    BY <1>1, <1>2, <1>4, <1>5, <2>1, <2>2 DEF RunInv, QueueInOrder
<1>11. ContextAsRun'
  <2>1. /\ ToRun("controller")' /\ ToRun("physicsEgo")' /\ ToRun("traffic")'
        /\ ToRun("physicsTraffic")' /\ ToRun("physicsTraffic")
    BY <1>6, <1>7 DEF Recurring
  <2>2. ctx.traffic = {}
    BY <1>2, <2>1 DEF RunInv, ContextAsRun
  <2>3. QED
    BY <1>4, <1>5, <2>1, <2>2 DEF ContextAsRun
<1>12. TypeOK'
  <2>1. tasks \subseteq Tasks /\ ctx.tracked \subseteq Tasks
    BY <1>3, PolicyTasksType DEF RunInv, TypeOK, ContextType
  <2>2. inFlight' \subseteq Tasks /\ gathering' \subseteq Tasks
    <3> HIDE DEF tasks
    <3>1. QED
      BY <1>4, <2>1 DEF RunInv, TypeOK
  <2>3. queue' \subseteq Events /\ now' \in Times
    BY <1>1, <1>2, <1>3, <1>4 DEF RunInv, TypeOK
  <2>4. QED
    BY <1>1, <1>4, <2>2, <2>3, TypesFixed
    DEF RunInv, TypeOK, egoVars, cameraVars, planVars, driverVars
<1>13. TasksAwaited'
  <2>1. ~ToRun("policy")' /\ ToRun("controller")'
    BY <1>6, <1>7 DEF Recurring
  <2>2. QED
    BY <1>1, <1>2, <1>4, <1>5, <2>1 DEF TasksAwaited
<1>14. PlansOrdered'
  <2>1. ToRun("controller")' => ToRun("controller")
    BY <1>6 DEF Recurring
  <2>2. QED
    BY <1>1, <1>4, <1>5, <2>1, PlansKept DEF planVars
<1>15. FramesOfPast'
  <2>1. now \in Nat /\ now <= Covered
    BY <1>2 DEF RunInv, QueueInOrder, TypeOK, Times
  <2>2. \A c \in Cameras : lastFrame[c] # None => lastFrame[c] <= now'
    <3>1. \A c \in Cameras : lastFrame[c] # None => lastFrame[c] \in Nat /\ lastFrame[c] <= now
      BY DEF RunInv, FramesOfPast, TypeOK, Times
    <3>2. QED
      BY <1>1, <1>2, <1>3, <2>1, <3>1
  <2>3. \A c \in Cameras :
          Event("camera", unbound.firstPolicy, c) \in queue =>
            Event("camera", unbound.firstPolicy, c) \in queue'
    BY <1>1, <1>4 DEF Event
  <2>4. QED
    BY <1>1, <1>4, <2>2, <2>3 DEF RunInv, FramesOfPast, cameraVars
<1>16. (inFlight \cup failed \subseteq ctx.tracked \cup gathering)'
  <2> HIDE DEF tasks
  <2>1. gathering = {}
    BY <1>1 DEF RunInv, TasksAwaited
  <2>2. QED
    BY <1>4, <2>1 DEF RunInv
<1>17. QED
  BY <1>4, <1>5, <1>8, <1>9, <1>10, <1>11, <1>12, <1>13, <1>14, <1>15, <1>16 DEF RunInv

(* A plan ends the policy event. *)
LEMMA PlanKeepsRun ==
  ASSUME RunInv, status = "running", stage # "loop",
         ctx' = [ctx EXCEPT !.plan = now], Reschedule(Event("policy", now, None)),
         stage' = "loop", gathering' = {}, inFlight \cup failed \subseteq ctx.tracked,
         lastPose' \in Times \cup {None}, rendererData' \in Times \cup {None},
         unbound' = unbound, now' = now, status' = status, UNCHANGED egoVars,
         UNCHANGED cameraVars, UNCHANGED planVars, UNCHANGED taskVars
  PROVE  RunInv' /\ Covered' = Covered
<1>1. now = Covered /\ Covered < End /\ ~ToRun("policy") /\ ToRun("controller")
  BY DEF RunInv, TasksAwaited
<1>2. Covered \in Nat /\ End \in Nat /\ now \in Times /\ now # None
  BY <1>1, CoveredOnGrid, UnboundType, RolloutsAssumption DEF RunInv, TypeOK
<1>3. /\ Covered' = Covered /\ NextStep' = NextStep /\ End' = End /\ queue' \subseteq Events
      /\ \A l \in Recurring : ToRun(l)' <=> ToRun(l) /\ l # "policy"
      /\ PosesAgree' /\ StepQueued' /\ QueueInOrder' /\ FramesOfPast'
  <2>1. \A f \in queue : f.kind # "initialStep" /\ Covered <= f.at
    BY <1>1 DEF RunInv, QueueInOrder
  <2>2. \A l \in Recurring : ~(Priority[l] < Priority["policy"])
    BY DEF Recurring, Priority
  <2>3. "policy" \in Recurring \ {"step"}
    BY DEF Recurring
  <2>4. /\ ego' = ego /\ estimate' = estimate /\ traffic' = traffic /\ lastFrame' = lastFrame
        /\ now' = Covered /\ Reschedule(Event("policy", Covered, None))
    BY <1>1 DEF egoVars, cameraVars
  <2>5. QED
    BY <1>1, <2>1, <2>2, <2>3, <2>4, HandlerDone
<1>4. /\ ctx' \in ContextType /\ ctx'.tracked = ctx.tracked /\ ctx'.corrected = ctx.corrected
      /\ ctx'.start = ctx.start /\ ctx'.target = ctx.target /\ ctx'.plan # None
      /\ ctx'.ego = ctx.ego /\ ctx'.traffic = ctx.traffic /\ ctx'.response = ctx.response
  BY <1>2 DEF RunInv, TypeOK, ContextType
<1>5. TypeOK'
  BY <1>3, <1>4, TypesFixed
  DEF RunInv, TypeOK, egoVars, cameraVars, planVars, taskVars, driverVars
<1>6. ContextAsRun'
  <2>1. /\ ToRun("controller") /\ ToRun("physicsEgo") /\ ToRun("traffic")
        /\ ToRun("physicsTraffic")
    BY <1>1 DEF RunInv, StepQueued, Recurring, Priority
  <2>2. /\ ToRun("controller")' /\ ToRun("physicsEgo")' /\ ToRun("traffic")'
        /\ ToRun("physicsTraffic")'
    BY <1>3, <2>1 DEF Recurring
  <2>3. ctx.start = Covered /\ ctx.target = NextStep /\ ctx.tracked = {} /\ ctx.traffic = {}
    BY <1>1, <2>1 DEF RunInv, ContextAsRun
  <2>4. QED
    BY <1>3, <1>4, <2>2, <2>3 DEF ContextAsRun
<1>7. TasksAwaited'
  BY DEF TasksAwaited
<1>8. PlansOrdered'
  <2>1. ToRun("controller")' => ToRun("controller")
    BY <1>1
  <2>2. QED
    BY <1>3, <2>1, PlansKept DEF planVars
<1>9. (inFlight \cup failed \subseteq ctx.tracked \cup gathering)'
  BY <1>4 DEF taskVars
<1>10. QED
  BY <1>3, <1>5, <1>6, <1>7, <1>8, <1>9 DEF RunInv

(* What changes between the barrier and the driver's answer. *)
LEMMA StageKeepsRun ==
  ASSUME RunInv, stage' \in {"barrier", "drive"}, stage # "loop",
         gathering' = {}, inFlight \cup failed \subseteq ctx.tracked,
         lastPose' \in Times \cup {None}, rendererData' \in Times \cup {None},
         unbound' = unbound, now' = now, status' = status, ctx' = ctx, queue' = queue,
         UNCHANGED egoVars, UNCHANGED cameraVars, UNCHANGED planVars, UNCHANGED taskVars
  PROVE  RunInv'
<1>1. Covered' = Covered /\ NextStep' = NextStep /\ End' = End
  BY TypesFixed DEF Covered, NextStep, egoVars
<1>2. \A l : ToRun(l)' <=> ToRun(l)
  BY <1>1 DEF ToRun
<1>3. TypeOK'
  BY TypesFixed DEF RunInv, TypeOK, egoVars, cameraVars, planVars, taskVars, driverVars
<1>4. PosesAgree'
  BY <1>1 DEF RunInv, PosesAgree, egoVars
<1>5. StepQueued'
  <2>1. now = Covered /\ stage # "loop" /\ stage' # "loop"
    BY DEF RunInv, TasksAwaited
  <2>2. QED
    BY <1>1, <1>2, <2>1 DEF RunInv, StepQueued
<1>6. QueueInOrder'
  BY <1>1, <1>2 DEF RunInv, QueueInOrder
<1>7. ContextAsRun'
  BY <1>1, <1>2 DEF RunInv, ContextAsRun
<1>8. TasksAwaited'
  BY <1>1, <1>2 DEF RunInv, TasksAwaited
<1>9. PlansOrdered'
  BY <1>1, <1>2, PlansKept DEF planVars
<1>10. FramesOfPast'
  BY DEF RunInv, FramesOfPast, cameraVars
<1>11. QED
  BY <1>3, <1>4, <1>5, <1>6, <1>7, <1>8, <1>9, <1>10 DEF RunInv, taskVars

LEMMA BarrierKeepsRun ==
  ASSUME RunInv, status = "running", BarrierPasses
  PROVE  RunInv' /\ status' = "running" /\ Covered' = Covered /\ now = Covered
<1>1. /\ stage = "barrier" /\ gathering' = {} /\ lastPose' = now
      /\ unbound' = unbound /\ status' = status /\ now' = now
      /\ UNCHANGED egoVars /\ UNCHANGED cameraVars /\ UNCHANGED planVars /\ UNCHANGED taskVars
  BY DEF BarrierPasses
<1>2. inFlight \cup failed \subseteq ctx.tracked
  BY DEF BarrierPasses, RunInv
<1>3. now = Covered /\ lastPose' \in Times \cup {None}
  BY <1>1 DEF RunInv, TasksAwaited, TypeOK
<1>4. CASE ctx.forceGt /\ unbound.skipDriver
  <2>1. /\ rendererData' = None /\ ctx' = [ctx EXCEPT !.plan = now]
        /\ Reschedule(Event("policy", now, None)) /\ stage' = "loop"
    BY <1>4 DEF BarrierPasses
  <2>2. QED
    BY <1>1, <1>2, <1>3, <2>1, PlanKeepsRun
<1>5. CASE ~(ctx.forceGt /\ unbound.skipDriver)
  <2>1. stage' = "drive" /\ rendererData' = rendererData /\ ctx' = ctx /\ queue' = queue
    BY <1>5 DEF BarrierPasses
  <2>2. rendererData' \in Times \cup {None}
    BY <2>1 DEF RunInv, TypeOK
  <2>3. RunInv'
    BY <1>1, <1>2, <1>3, <2>1, <2>2, StageKeepsRun
  <2>4. Covered' = Covered
    BY <1>1 DEF Covered, egoVars
  <2>5. QED
    BY <1>1, <1>3, <2>3, <2>4
<1>6. QED
  BY <1>4, <1>5

LEMMA DriverAnswersKeepsRun ==
  ASSUME RunInv, status = "running", DriverAnswers, status' = "running"
  PROVE  RunInv' /\ Covered' = Covered
<1>1. /\ stage = "drive" /\ stage' = "loop" /\ rendererData' = None
      /\ ctx' = [ctx EXCEPT !.plan = now] /\ Reschedule(Event("policy", now, None))
      /\ unbound' = unbound /\ now' = now /\ lastPose' = lastPose /\ gathering' = gathering
      /\ UNCHANGED egoVars /\ UNCHANGED cameraVars /\ UNCHANGED planVars /\ UNCHANGED taskVars
  BY DEF DriverAnswers
<1>2. gathering = {} /\ lastPose \in Times \cup {None}
  BY <1>1 DEF RunInv, TasksAwaited, TypeOK
<1>3. inFlight \cup failed \subseteq ctx.tracked
  BY <1>2 DEF RunInv
<1>4. QED
  BY <1>1, <1>2, <1>3, PlanKeepsRun

-----------------------------------------------------------------------------
(* The events beside the control steps leave the step as it is: they replace *)
(* themselves by later camera and flush events and track tasks, before the   *)
(* policy event of the step or at the end.                                   *)
LEMMA SideEventKeepsStep ==
  ASSUME RunInv, NEW e \in queue, Pop(e), e.kind \notin Recurring,
         NEW added, added \subseteq Events,
         \A f \in added : f.kind \in {"camera", "flush"} /\ e.at <= f.at,
         NEW tasks, tasks \subseteq Tasks,
         e.kind \notin {"camera", "flush"} => added = {} /\ tasks = {},
         queue' = (queue \ {e}) \cup added,
         ctx' = [ctx EXCEPT !.tracked = @ \cup tasks], inFlight' = inFlight \cup tasks,
         stage' = stage, gathering' = gathering, failed' = failed,
         UNCHANGED egoVars, UNCHANGED planVars
  PROVE  /\ Covered' = Covered /\ NextStep' = NextStep /\ now' \in Times
         /\ queue' \subseteq Events /\ ctx' \in ContextType /\ inFlight' \subseteq Tasks
         /\ PosesAgree' /\ StepQueued' /\ QueueInOrder' /\ ContextAsRun'
         /\ TasksAwaited' /\ PlansOrdered'
         /\ (inFlight \cup failed \subseteq ctx.tracked \cup gathering)'
<1>1. stage = "loop" /\ unbound' = unbound /\ now' = e.at
  BY DEF Pop
<1>2. Covered' = Covered /\ NextStep' = NextStep /\ End' = End
  BY <1>1, TypesFixed DEF Covered, NextStep, egoVars
<1>3. /\ e.at \in Nat /\ e.at <= End /\ End \in Nat /\ Covered \in Nat /\ NextStep \in Nat
      /\ e.at <= Covered /\ unbound.firstPolicy \in Nat
      /\ unbound.contextStart \in Nat /\ unbound.contextStart < unbound.firstPolicy
  BY <1>1, EventFields, UnboundType, CoveredOnGrid, PoppedInStep DEF RunInv, TypeOK
<1>4. \A k \in Recurring : \A t : Event(k, t, None) \in queue' <=> Event(k, t, None) \in queue
  <2>1. \A k \in Recurring : \A t : Event(k, t, None).kind = k
    BY DEF Event
  <2>2. \A f \in added \cup {e} : f.kind \notin Recurring
    BY DEF Recurring
  <2>3. QED
    BY <2>1, <2>2
<1>5. \A k \in Recurring : ToRun(k)' <=> ToRun(k)
  BY <1>2, <1>4 DEF ToRun
<1>6. ctx \in ContextType /\ queue \subseteq Events /\ inFlight \subseteq Tasks
  BY DEF RunInv, TypeOK
<1>7. /\ ctx' \in ContextType /\ ctx'.tracked = ctx.tracked \cup tasks
      /\ ctx'.corrected = ctx.corrected /\ ctx'.start = ctx.start /\ ctx'.target = ctx.target
      /\ ctx'.plan = ctx.plan /\ ctx'.ego = ctx.ego /\ ctx'.traffic = ctx.traffic
      /\ ctx'.response = ctx.response
  BY <1>6 DEF ContextType
<1>8. queue' \subseteq Events /\ inFlight' \subseteq Tasks /\ now' \in Times
  BY <1>1, <1>3, <1>6 DEF Times
<1>9. PosesAgree'
  BY <1>1, <1>2 DEF RunInv, PosesAgree, egoVars
<1>10. StepQueued'
  <2>1. \A f \in queue' : f.kind \in Recurring => f \in queue
    BY DEF Recurring
  <2>2. \A f \in queue' : f.kind \in Recurring => f.at \in {Covered, NextStep} /\ f.at < End
    BY <2>1 DEF RunInv, StepQueued
  <2>3. "policy" \in Recurring /\ "step" \in Recurring
    BY DEF Recurring
  <2>4. \A k \in Recurring :
          /\ Event(k, Covered, None) \in queue' => Event(k, NextStep, None) \notin queue'
          /\ ToRun(k)' \/ End <= NextStep \/ Event(k, NextStep, None) \in queue'
          /\ \A l \in Recurring : Priority[k] < Priority[l] /\ ToRun(k)' => ToRun(l)'
    BY <1>1, <1>4, <1>5 DEF RunInv, StepQueued
  <2>5. Covered < End => ToRun("step")'
    BY <1>5, <2>3 DEF RunInv, StepQueued
  <2>6. QED
    BY <1>2, <2>2, <2>4, <2>5 DEF StepQueued
<1>11. QueueInOrder'
  <2>1. "policy" \in Recurring
    BY DEF Recurring
  <2>2. \A f \in queue' : now' <= f.at
    <3>1. \A f \in queue : e.at <= f.at
      BY <1>3, EventFields DEF RunInv, Pop
    <3>2. QED
      BY <1>1, <3>1
  <2>3. \A f \in queue' : f.kind # "initialStep" => unbound.firstPolicy <= f.at
    <3>1. added # {} => unbound.firstPolicy <= e.at
      BY DEF RunInv, QueueInOrder
    <3>2. \A f \in added : f.at \in Nat
      BY DEF Events, Times
    <3>3. \A f \in added : unbound.firstPolicy <= f.at
      BY <1>3, <3>1, <3>2
    <3>4. QED
      BY <3>3 DEF RunInv, QueueInOrder
  <2>4. \A f \in queue' : f.kind = "end" => f.at = End
    BY DEF RunInv, QueueInOrder
  <2>5. \A f \in queue' : f.kind # "initialStep"
    <3>1. CASE e.kind = "initialStep"
      <4>1. \A f \in queue : f.kind = "initialStep" => f = e
        <5>1. ASSUME NEW f \in queue, f.kind = "initialStep"
              PROVE  f = Event("initialStep", unbound.contextStart, None)
          BY <5>1, EventFields DEF RunInv, QueueInOrder
        <5>2. QED
          BY <3>1, <5>1
      <4>2. QED
        BY <4>1
    <3>2. CASE e.kind # "initialStep"
      BY <1>1, <3>2, PoppedInStep
    <3>3. QED
      BY <3>1, <3>2
  <2>6. ~ToRun("policy")' /\ Covered < End =>
          \A f \in queue' : f.kind \in {"camera", "flush"} => Covered < f.at
    <3>1. ~ToRun("policy")' /\ Covered < End => added = {}
      BY <1>1, <1>5, <2>1, PoppedInStep
    <3>2. QED
      BY <1>5, <2>1, <3>1 DEF RunInv, QueueInOrder
  <2>7. QED
    BY <1>1, <1>2, <2>2, <2>3, <2>4, <2>5, <2>6 DEF QueueInOrder
<1>12. ContextAsRun'
  <2>1. ~ToRun("policy") /\ Covered < End => tasks = {}
    BY <1>1, PoppedInStep
  <2>2. /\ ToRun("policy")' <=> ToRun("policy")
        /\ ToRun("controller")' <=> ToRun("controller")
        /\ ToRun("physicsEgo")' <=> ToRun("physicsEgo")
        /\ ToRun("traffic")' <=> ToRun("traffic")
        /\ ToRun("physicsTraffic")' <=> ToRun("physicsTraffic")
    BY <1>5 DEF Recurring
  <2>3. QED
    BY <1>2, <1>7, <2>1, <2>2 DEF RunInv, ContextAsRun
<1>13. TasksAwaited'
  BY <1>1 DEF RunInv, TasksAwaited
<1>14. PlansOrdered'
  <2>1. ToRun("controller")' => ToRun("controller")
    BY <1>5 DEF Recurring
  <2>2. QED
    BY <1>1, <1>2, <2>1, PlansKept DEF planVars
<1>15. (inFlight \cup failed \subseteq ctx.tracked \cup gathering)'
  BY <1>7 DEF RunInv
<1>16. QED
  BY <1>2, <1>7, <1>8, <1>9, <1>10, <1>11, <1>12, <1>13, <1>14, <1>15

LEMMA InitialStepKeepsRun ==
  ASSUME RunInv, status = "running", NEW e \in queue, InitialStep(e)
  PROVE  RunInv' /\ status' = "running" /\ Covered' = Covered
<1>1. /\ Pop(e) /\ e.kind = "initialStep" /\ stage = "loop" /\ unbound' = unbound
      /\ queue' = (queue \ {e}) \cup {} /\ ctx' = FreshContext /\ now' = e.at
      /\ status' = status /\ stage' = stage /\ gathering' = gathering
      /\ lastPose' = lastPose /\ rendererData' = rendererData
      /\ UNCHANGED egoVars /\ UNCHANGED cameraVars /\ UNCHANGED planVars /\ UNCHANGED taskVars
  BY DEF InitialStep, Pop
<1>2. ctx = FreshContext
  BY <1>1 DEF RunInv, QueueInOrder
<1>3. ctx' = [ctx EXCEPT !.tracked = @ \cup {}] /\ inFlight' = inFlight \cup {}
      /\ failed' = failed
  BY <1>1, <1>2 DEF FreshContext, taskVars
<1>4. /\ Covered' = Covered /\ now' \in Times
      /\ queue' \subseteq Events /\ ctx' \in ContextType
      /\ PosesAgree' /\ StepQueued' /\ QueueInOrder' /\ ContextAsRun'
      /\ TasksAwaited' /\ PlansOrdered'
      /\ (inFlight \cup failed \subseteq ctx.tracked \cup gathering)'
  <2>1. e.kind \notin Recurring
    BY <1>1 DEF Recurring
  <2>2. PICK none : none = {}
    OBVIOUS
  <2>3. /\ none \subseteq Events /\ none \subseteq Tasks
        /\ \A f \in none : f.kind \in {"camera", "flush"} /\ e.at <= f.at
        /\ e.kind \notin {"camera", "flush"} => none = {} /\ none = {}
        /\ queue' = (queue \ {e}) \cup none /\ inFlight' = inFlight \cup none
        /\ ctx' = [ctx EXCEPT !.tracked = @ \cup none]
    BY <1>1, <1>3, <2>2
  <2>4. /\ stage' = stage /\ gathering' = gathering /\ failed' = failed /\ Pop(e)
        /\ UNCHANGED egoVars /\ UNCHANGED planVars
    BY <1>1, <1>3
  <2>5. QED
    BY <2>1, <2>3, <2>4, SideEventKeepsStep
<1>5. TypeOK'
  BY <1>1, <1>4, TypesFixed
  DEF RunInv, TypeOK, egoVars, cameraVars, planVars, taskVars, driverVars
<1>6. FramesOfPast'
  <2>1. now \in Nat /\ now <= now' /\ now' \in Nat
    BY <1>1, UnboundType, EventFields DEF RunInv, QueueInOrder, TypeOK, Times
  <2>2. \A c \in Cameras : lastFrame[c] # None => lastFrame[c] <= now'
    <3>1. \A c \in Cameras : lastFrame[c] # None => lastFrame[c] \in Nat /\ lastFrame[c] <= now
      BY UnboundType DEF RunInv, FramesOfPast, TypeOK, Times
    <3>2. QED
      BY <2>1, <3>1
  <2>3. \A c \in Cameras :
          Event("camera", unbound.firstPolicy, c) \in queue =>
            Event("camera", unbound.firstPolicy, c) \in queue'
    BY <1>1 DEF Event
  <2>4. QED
    BY <1>1, <2>2, <2>3 DEF RunInv, FramesOfPast, cameraVars
<1>7. QED
  BY <1>1, <1>4, <1>5, <1>6 DEF RunInv

LEMMA CameraFrameKeepsRun ==
  ASSUME RunInv, status = "running", NEW e \in queue, CameraFrame(e)
  PROVE  RunInv' /\ status' = "running" /\ Covered' = Covered
<1>1. /\ Pop(e) /\ e.kind = "camera" /\ stage = "loop" /\ unbound' = unbound /\ now' = e.at
      /\ lastFrame' = [lastFrame EXCEPT ![e.camera] = e.at]
      /\ status' = status /\ stage' = stage /\ gathering' = gathering
      /\ lastPose' = lastPose /\ rendererData' = rendererData
      /\ UNCHANGED egoVars /\ UNCHANGED planVars
  BY DEF CameraFrame, Pop
<1>2. e.camera \in Cameras /\ e.at \in Nat /\ e.at <= End /\ End \in Nat /\ e.at \in Times
      /\ unbound.interval[e.camera] \in Nat \ {0} /\ e = Event("camera", e.at, e.camera)
  BY <1>1, EventFields, UnboundType DEF RunInv, TypeOK, Times
<1>3. PICK added :
        /\ added \subseteq Events
        /\ \A f \in added : f.kind \in {"camera", "flush"} /\ e.at <= f.at
        /\ queue' = (queue \ {e}) \cup added
  <2> DEFINE flush == IF bundled /\ e.at \notin flushes
                        THEN {Event("flush", e.at, None)} ELSE {}
             later == e.at + unbound.interval[e.camera]
  <2>1. [e EXCEPT !.at = @ + unbound.interval[e.camera]] = Event("camera", later, e.camera)
    BY <1>2 DEF Event
  <2>2. NextFrame(e) = IF later <= End THEN {Event("camera", later, e.camera)} ELSE {}
    <3>1. later \in Nat
      BY <1>2
    <3>2. Event("camera", later, e.camera).at = later
      BY DEF Event
    <3>3. QED
      BY <1>2, <2>1, <3>1, <3>2 DEF NextFrame
  <2>3. \A f \in NextFrame(e) : f \in Events /\ f.kind = "camera" /\ e.at <= f.at
    BY <1>2, <2>2 DEF Event, Events, Times
  <2>4. \A f \in flush : f \in Events /\ f.kind = "flush" /\ e.at <= f.at
    BY <1>2 DEF Event, Events, Times, Priority
  <2>5. queue' = (queue \ {e}) \cup (NextFrame(e) \cup flush)
    BY DEF CameraFrame
  <2> HIDE DEF flush
  <2>6. QED
    BY <2>3, <2>4, <2>5
<1>4. PICK tasks :
        /\ tasks \subseteq Tasks
        /\ ctx' = [ctx EXCEPT !.tracked = @ \cup tasks] /\ inFlight' = inFlight \cup tasks
        /\ failed' = failed /\ UNCHANGED driverVars
        /\ triggers' \subseteq Cameras \X Times /\ flushes' \subseteq Times
  <2>1. CASE bundled
    <3>1. /\ triggers' = triggers \cup {<<e.camera, e.at>>} /\ flushes' = flushes \cup {e.at}
          /\ UNCHANGED <<ctx, taskVars>>
      BY <2>1 DEF CameraFrame
    <3>2. PICK none : none = {}
      OBVIOUS
    <3>3. /\ none \subseteq Tasks /\ ctx' = [ctx EXCEPT !.tracked = @ \cup none]
          /\ inFlight' = inFlight \cup none /\ failed' = failed /\ UNCHANGED driverVars
      BY <3>1, <3>2 DEF RunInv, TypeOK, ContextType, taskVars
    <3>4. triggers' \subseteq Cameras \X Times /\ flushes' \subseteq Times
      BY <1>2, <3>1 DEF RunInv, TypeOK
    <3>5. QED
      BY <3>3, <3>4
  <2>2. CASE ~bundled
    <3>1. PICK one : one = {ImageTask(<<e.camera, e.at>>)}
      OBVIOUS
    <3>2. Track(one) /\ UNCHANGED <<triggers, flushes>>
      BY <2>2, <3>1 DEF CameraFrame
    <3>3. one \subseteq Tasks
      BY <1>2, <3>1 DEF ImageTask, Task, Tasks
    <3>4. QED
      BY <3>2, <3>3 DEF Track, RunInv, TypeOK
  <2>3. QED
    BY <2>1, <2>2
<1>5. /\ Covered' = Covered /\ now' \in Times
      /\ queue' \subseteq Events /\ ctx' \in ContextType /\ inFlight' \subseteq Tasks
      /\ PosesAgree' /\ StepQueued' /\ QueueInOrder' /\ ContextAsRun'
      /\ TasksAwaited' /\ PlansOrdered'
      /\ (inFlight \cup failed \subseteq ctx.tracked \cup gathering)'
  <2>1. e.kind \notin Recurring /\ (e.kind \notin {"camera", "flush"} => added = {} /\ tasks = {})
    BY <1>1 DEF Recurring
  <2>2. QED
    BY <1>1, <1>3, <1>4, <2>1, SideEventKeepsStep
<1>6. lastFrame' \in [Cameras -> Times \cup {None}]
  BY <1>1, <1>2 DEF RunInv, TypeOK
<1>7. TypeOK'
  BY <1>1, <1>4, <1>5, <1>6, TypesFixed DEF RunInv, TypeOK, egoVars, planVars, driverVars
<1>8. FramesOfPast'
  <2>1. now \in Nat /\ now <= now' /\ now' \in Nat
    BY <1>1, <1>2 DEF RunInv, QueueInOrder, TypeOK, Times
  <2>2. \A c \in Cameras : lastFrame'[c] = IF c = e.camera THEN e.at ELSE lastFrame[c]
    BY <1>1 DEF RunInv, TypeOK
  <2>3. \A c \in Cameras : lastFrame'[c] # None => lastFrame'[c] <= now'
    <3>1. \A c \in Cameras : lastFrame[c] # None => lastFrame[c] \in Nat /\ lastFrame[c] <= now
      BY <1>2 DEF RunInv, FramesOfPast, TypeOK, Times
    <3>2. QED
      BY <1>1, <1>2, <2>1, <2>2, <3>1
  <2>4. \A c \in Cameras : c # e.camera /\
          Event("camera", unbound.firstPolicy, c) \in queue =>
            Event("camera", unbound.firstPolicy, c) \in queue'
    BY <1>2, <1>3 DEF Event
  <2>5. e.at # None
    BY <1>2, RolloutsAssumption
  <2>6. QED
    BY <1>1, <2>2, <2>3, <2>4, <2>5 DEF RunInv, FramesOfPast
<1>9. QED
  BY <1>1, <1>5, <1>7, <1>8 DEF RunInv

LEMMA FlushKeepsRun ==
  ASSUME RunInv, status = "running", NEW e \in queue, CameraRenderFlush(e)
  PROVE  RunInv' /\ status' = "running" /\ Covered' = Covered
<1> DEFINE taken == {f \in triggers : f[2] = e.at}
<1>1. /\ Pop(e) /\ e.kind = "flush" /\ stage = "loop" /\ unbound' = unbound /\ now' = e.at
      /\ lastFrame' = lastFrame /\ triggers' = triggers \ taken /\ flushes' = flushes \ {e.at}
      /\ queue' = queue \ {e}
      /\ status' = status /\ stage' = stage /\ gathering' = gathering
      /\ lastPose' = lastPose
      /\ UNCHANGED egoVars /\ UNCHANGED planVars
  BY DEF CameraRenderFlush, Pop
<1>2. e.at \in Nat /\ e.at <= End /\ End \in Nat /\ e.at \in Times
  BY <1>1, EventFields, UnboundType DEF RunInv, TypeOK, Times
<1>3. PICK none : none = {}
  OBVIOUS
<1>4. PICK tasks : tasks = {ImageTask(f) : f \in taken}
  OBVIOUS
<1>5. tasks \subseteq Tasks
  <2>1. \A f \in taken : f \in Cameras \X Times
    BY DEF RunInv, TypeOK
  <2>2. \A f \in Cameras \X Times : ImageTask(f) \in Tasks
    BY DEF ImageTask, Task, Tasks
  <2>3. QED
    BY <1>4, <2>1, <2>2
<1>6. /\ ctx' = [ctx EXCEPT !.tracked = @ \cup tasks] /\ inFlight' = inFlight \cup tasks
      /\ failed' = failed /\ UNCHANGED driverVars
  BY <1>4 DEF CameraRenderFlush, Track
<1>7. rendererData' \in Times \cup {None}
  <2>1. rendererData' \in {rendererData, e.at, None}
    BY DEF CameraRenderFlush
  <2>2. QED
    BY <1>2, <2>1 DEF RunInv, TypeOK
<1>8. /\ Covered' = Covered /\ now' \in Times
      /\ queue' \subseteq Events /\ ctx' \in ContextType /\ inFlight' \subseteq Tasks
      /\ PosesAgree' /\ StepQueued' /\ QueueInOrder' /\ ContextAsRun'
      /\ TasksAwaited' /\ PlansOrdered'
      /\ (inFlight \cup failed \subseteq ctx.tracked \cup gathering)'
  <2>1. e.kind \notin Recurring /\ (e.kind \notin {"camera", "flush"} => none = {} /\ tasks = {})
    BY <1>1 DEF Recurring
  <2>2. /\ none \subseteq Events /\ queue' = (queue \ {e}) \cup none
        /\ \A f \in none : f.kind \in {"camera", "flush"} /\ e.at <= f.at
    BY <1>1, <1>3
  <2>3. QED
    BY <1>1, <1>5, <1>6, <2>1, <2>2, SideEventKeepsStep
<1>9. TypeOK'
  <2>1. triggers' \subseteq Cameras \X Times /\ flushes' \subseteq Times
    BY <1>1 DEF RunInv, TypeOK
  <2>2. QED
    BY <1>1, <1>6, <1>7, <1>8, <2>1, TypesFixed
    DEF RunInv, TypeOK, egoVars, planVars, driverVars
<1>10. FramesOfPast'
  <2>1. now \in Nat /\ now <= now' /\ now' \in Nat
    BY <1>1, <1>2 DEF RunInv, QueueInOrder, TypeOK, Times
  <2>2. \A c \in Cameras : lastFrame[c] # None => lastFrame[c] <= now'
    <3>1. \A c \in Cameras : lastFrame[c] # None => lastFrame[c] \in Nat /\ lastFrame[c] <= now
      BY <1>2 DEF RunInv, FramesOfPast, TypeOK, Times
    <3>2. QED
      BY <2>1, <3>1
  <2>3. \A c \in Cameras :
          Event("camera", unbound.firstPolicy, c) \in queue =>
            Event("camera", unbound.firstPolicy, c) \in queue'
    BY <1>1 DEF Event
  <2>4. QED
    BY <1>1, <2>2, <2>3 DEF RunInv, FramesOfPast
<1>11. QED
  BY <1>1, <1>8, <1>9, <1>10 DEF RunInv

-----------------------------------------------------------------------------
(* The invariant holds at the start. *)
LEMMA InitLoopInv == Init => LoopInv
<1> SUFFICES ASSUME Init PROVE LoopInv
  OBVIOUS
<1> DEFINE F == unbound.firstPolicy
<1>1. unbound \in Rollouts /\ ego = {unbound.contextStart, F} /\ estimate = ego /\ traffic = {}
      /\ queue = InitialEvents(unbound) /\ ctx = FreshContext /\ now = unbound.contextStart
      /\ stage = "loop" /\ status = "running"
  BY DEF Init
<1>2. /\ unbound.contextStart \in Nat /\ F \in Nat /\ unbound.contextStart < F
      /\ End \in Nat /\ F < End /\ unbound.dt \in Nat \ {0}
      /\ unbound.firstEnd \in [Cameras -> Nat]
      /\ \A c \in Cameras : F <= unbound.firstEnd[c]
      /\ unbound.zeroDelay => \A c \in Cameras : F = unbound.firstEnd[c]
  BY <1>1, UnboundType
<1>3. Covered = F /\ NextStep = F + unbound.dt
  <2>1. Latest({unbound.contextStart, F}) = F
    <3>1. {unbound.contextStart, F} \subseteq Int
      BY <1>2
    <3>2. F \in {unbound.contextStart, F} /\ \A x \in {unbound.contextStart, F} : x <= F
      BY <1>2
    <3>3. QED
      BY <3>1, <3>2, LatestIs
  <2>2. QED
    BY <1>1, <2>1 DEF Covered, NextStep
<1>4. EndOf(unbound) = End
  BY DEF End
<1>5. /\ \A f \in queue :
           \/ f.kind = "camera" /\ f \in Events /\ F <= f.at
           \/ f = Event("initialStep", unbound.contextStart, None)
           \/ \E k \in Recurring : f = Event(k, F, None)
           \/ f = Event("end", End, None)
      /\ \A k \in Recurring : Event(k, F, None) \in queue
      /\ \A c \in Cameras : unbound.zeroDelay => Event("camera", F, c) \in queue
  <2>1. \A c \in Cameras : unbound.firstEnd[c] <= End =>
          /\ Event("camera", unbound.firstEnd[c], c).kind = "camera"
          /\ Event("camera", unbound.firstEnd[c], c) \in Events
          /\ F <= Event("camera", unbound.firstEnd[c], c).at
    BY <1>2 DEF Event, Events, Times
  <2>2. QED
    BY <1>1, <1>2, <1>4, <2>1 DEF InitialEvents, Recurring
<1>6. TypeOK
  <2>1. queue \subseteq Events
    <3>1. Event("initialStep", unbound.contextStart, None) \in Events
          /\ Event("end", End, None) \in Events
          /\ \A k \in Recurring : Event(k, F, None) \in Events
      BY <1>2 DEF Event, Events, Times, Priority, Recurring
    <3>2. QED
      BY <1>5, <3>1
  <2>2. now \in Times /\ ego \subseteq Times
    BY <1>1, <1>2 DEF Times
  <2>3. ctx \in ContextType
    BY <1>1, <1>2 DEF FreshContext, ContextType, Times
  <2>4. QED
    BY <1>1, <2>1, <2>2, <2>3 DEF Init, TypeOK
<1>7. PosesAgree
  <2>1. Covered \in ego /\ Covered \in estimate
        /\ {unbound.contextStart, unbound.firstPolicy} \subseteq ego
    BY <1>1, <1>3
  <2>2. \A t \in ego \cup estimate \cup traffic : t <= Covered
    BY <1>1, <1>2, <1>3
  <2>3. 0 \in 0..unbound.steps /\ Covered = F + 0 * unbound.dt
    BY <1>1, <1>2, <1>3, UnboundType
  <2>4. QED
    BY <1>1, <1>3, <2>1, <2>2, <2>3 DEF PosesAgree
<1>8. \A k \in Recurring : ToRun(k)
  BY <1>3, <1>5 DEF ToRun
<1>9. StepQueued
  <2>1. \A f \in queue : f.kind \in Recurring => f.at = F
    BY <1>5 DEF Event, Recurring
  <2>2. \A k \in Recurring : Event(k, NextStep, None) \notin queue
    <3>1. \A k \in Recurring : Event(k, NextStep, None).kind = k
                               /\ Event(k, NextStep, None).at = NextStep
      BY DEF Event
    <3>2. NextStep # F
      BY <1>2, <1>3
    <3>3. QED
      BY <2>1, <3>1, <3>2
  <2>3. "step" \in Recurring
    BY DEF Recurring
  <2>4. QED
    BY <1>2, <1>3, <1>8, <2>1, <2>2, <2>3 DEF StepQueued
<1>10. QueueInOrder
  <2>1. \A f \in queue : now <= f.at
    BY <1>1, <1>2, <1>5 DEF Event, Events, Times
  <2>2. \A f \in queue : f.kind # "initialStep" => F <= f.at
    BY <1>2, <1>5 DEF Event
  <2>3. \A f \in queue : f.kind = "end" => f.at = End
    BY <1>5 DEF Event, Recurring
  <2>4. \A f \in queue : f.kind = "initialStep" => f.at = unbound.contextStart
    BY <1>5 DEF Event, Recurring
  <2>5. ToRun("policy")
    BY <1>8 DEF Recurring
  <2>6. QED
    BY <1>1, <2>1, <2>2, <2>3, <2>4, <2>5 DEF QueueInOrder
<1>11. ContextAsRun
  <2>1. /\ ToRun("policy") /\ ToRun("controller") /\ ToRun("physicsEgo") /\ ToRun("traffic")
        /\ ToRun("physicsTraffic")
    BY <1>8 DEF Recurring
  <2>2. QED
    BY <1>1, <2>1 DEF ContextAsRun, FreshContext
<1>12. TasksAwaited /\ PlansOrdered
  BY DEF Init, TasksAwaited, PlansOrdered
<1>13. FramesOfPast
  <2>1. \A c \in Cameras : lastFrame[c] = None
    BY DEF Init
  <2>2. QED
    BY <1>5, <2>1 DEF FramesOfPast
<1>14. inFlight = {} /\ failed = {} /\ gathering = {}
  BY DEF Init
<1>15. QED
  BY <1>1, <1>6, <1>7, <1>9, <1>10, <1>11, <1>12, <1>13, <1>14 DEF LoopInv, RunInv

(* Where the loop stops, nothing is committed or started any more. *)
LEMMA StopKeepsTypes ==
  ASSUME TypeOK, PosesAgree, unbound' = unbound,
         queue' \subseteq queue, now' \in Times, ctx' \in ContextType,
         stage' \in {"loop", "barrier", "drive"},
         status' \in {"ending", "terminating", "finished", "terminated", "raised"},
         lastPose' = lastPose, rendererData' \in Times \cup {None}, gathering' = gathering,
         UNCHANGED egoVars, UNCHANGED cameraVars, UNCHANGED planVars, UNCHANGED taskVars
  PROVE  TypeOK' /\ PosesAgree'
<1>1. TypeOK'
  BY TypesFixed DEF TypeOK, egoVars, cameraVars, planVars, taskVars, driverVars
<1>2. Covered' = Covered
  BY DEF Covered, egoVars
<1>3. PosesAgree'
  BY <1>2 DEF PosesAgree, egoVars
<1>4. QED
  BY <1>1, <1>3

(* A task that ends changes what is under way, logged and seen by the driver. *)
LEMMA TaskKeepsLoopInv ==
  ASSUME LoopInv, NEW t \in inFlight, TaskDone(t) \/ TaskFails(t)
  PROVE  LoopInv'
<1>1. /\ unbound' = unbound /\ status' = status /\ stage' = stage /\ queue' = queue
      /\ now' = now /\ ctx' = ctx /\ lastPose' = lastPose /\ rendererData' = rendererData
      /\ gathering' = gathering
      /\ UNCHANGED egoVars /\ UNCHANGED cameraVars /\ UNCHANGED planVars
  BY DEF TaskDone, TaskFails
<1>2. /\ inFlight' = inFlight \ {t} /\ failed' \subseteq failed \cup {t}
      /\ inFlight' \cup failed' \subseteq inFlight \cup failed
  BY DEF TaskDone, TaskFails
<1>3. /\ t \in Tasks /\ logged \subseteq Cameras \X Times /\ seen \subseteq logged
      /\ seenPoses \subseteq Times
  BY DEF LoopInv, TypeOK
<1>4. logged' \subseteq Cameras \X Times /\ seen' \subseteq logged' /\ seenPoses' \subseteq Times
  <2>1. t.kind = "image" => t.camera \in Cameras /\ t.at \in Times
    <3>1. CASE t \in [kind : unbound.extras, at : Times, camera : {None}, poses : {{}}]
      <4>1. unbound.extras \subseteq {"route", "ground truth"}
        BY RolloutsAssumption DEF LoopInv, TypeOK, Rollout
      <4>2. QED
        BY <3>1, <4>1
    <3>2. QED
      BY <1>3, <3>1 DEF Tasks
  <2>2. t.poses \subseteq Times
    BY <1>3 DEF Tasks
  <2>3. FrameOf(t) \subseteq Cameras \X Times
    BY <2>1 DEF FrameOf
  <2>4. QED
    BY <1>3, <2>2, <2>3 DEF TaskDone, TaskFails
<1>5. inFlight' \subseteq Tasks /\ failed' \subseteq Tasks
  BY <1>2, <1>3 DEF LoopInv, TypeOK
<1>6. TypeOK'
  BY <1>1, <1>4, <1>5, TypesFixed DEF LoopInv, TypeOK, egoVars, cameraVars, planVars
<1>7. Covered' = Covered /\ NextStep' = NextStep /\ End' = End
  BY <1>1, TypesFixed DEF Covered, NextStep, egoVars
<1>8. \A k : ToRun(k)' <=> ToRun(k)
  BY <1>1, <1>7 DEF ToRun
<1>9. PosesAgree'
  BY <1>1, <1>7 DEF LoopInv, PosesAgree, egoVars
<1>10. ASSUME status = "running"
       PROVE  RunInv'
  <2>1. RunInv
    BY <1>10 DEF LoopInv
  <2>2. StepQueued'
    BY <1>1, <1>7, <1>8, <2>1 DEF RunInv, StepQueued
  <2>3. QueueInOrder'
    BY <1>1, <1>7, <1>8, <2>1 DEF RunInv, QueueInOrder
  <2>4. ContextAsRun'
    BY <1>1, <1>7, <1>8, <2>1 DEF RunInv, ContextAsRun
  <2>5. TasksAwaited'
    BY <1>1, <1>7, <1>8, <2>1 DEF RunInv, TasksAwaited
  <2>6. PlansOrdered'
    BY <1>1, <1>7, <1>8, <2>1, PlansKept DEF planVars
  <2>7. FramesOfPast'
    BY <1>1, <2>1 DEF RunInv, FramesOfPast, cameraVars
  <2>8. inFlight' \cup failed' \subseteq ctx'.tracked \cup gathering'
    BY <1>1, <1>2, <2>1 DEF RunInv
  <2>9. QED
    BY <1>6, <1>9, <2>2, <2>3, <2>4, <2>5, <2>6, <2>7, <2>8 DEF RunInv
<1>11. QED
  BY <1>1, <1>2, <1>6, <1>9, <1>10 DEF LoopInv

(* A handler that runs keeps the loop running. *)
LEMMA HandlersKeepRun ==
  ASSUME RunInv, status = "running", NEW e \in queue,
         \/ InitialStep(e) \/ CameraFrame(e) \/ CameraRenderFlush(e) \/ Observe(e)
         \/ Controller(e) \/ PhysicsEgo(e) \/ Traffic(e) \/ PhysicsTraffic(e) \/ Step(e)
  PROVE  RunInv' /\ status' = "running"
BY InitialStepKeepsRun, CameraFrameKeepsRun, FlushKeepsRun, ObserveKeepsRun,
   ControllerKeepsRun, PhysicsEgoKeepsRun, TrafficKeepsRun, PhysicsTrafficKeepsRun,
   StepKeepsRun

LEMMA NextLoopInv == LoopInv /\ [Next]_vars => LoopInv'
<1> SUFFICES ASSUME LoopInv, [Next]_vars PROVE LoopInv'
  OBVIOUS
<1>1. ASSUME RunInv', status' = "running"
      PROVE  LoopInv'
  BY <1>1 DEF LoopInv, RunInv
<1>2. status = "running" => RunInv
  BY DEF LoopInv
<1>3. ASSUME NEW e \in queue, Pop(e)
      PROVE  now' \in Times /\ status = "running" /\ stage = "loop" /\ unbound' = unbound
  BY <1>3, EventFields, UnboundType DEF LoopInv, TypeOK, Pop, Times
<1>4. ctx \in ContextType /\ rendererData \in Times \cup {None} /\ now \in Times
      /\ stage \in {"loop", "barrier", "drive"}
  BY DEF LoopInv, TypeOK
<1>5. ASSUME NEW e \in queue, EndSimulation(e)
      PROVE  LoopInv'
  <2>1. /\ unbound' = unbound /\ queue' \subseteq queue /\ now' \in Times /\ ctx' = ctx
        /\ stage' = stage /\ status' = "ending" /\ lastPose' = lastPose
        /\ rendererData' = rendererData /\ gathering' = gathering
        /\ UNCHANGED egoVars /\ UNCHANGED cameraVars /\ UNCHANGED planVars
        /\ UNCHANGED taskVars
    BY <1>3, <1>5 DEF EndSimulation
  <2>2. TypeOK' /\ PosesAgree'
    BY <1>4, <2>1, StopKeepsTypes DEF LoopInv
  <2>3. gathering = {} /\ inFlight \cup failed \subseteq ctx.tracked
    BY <1>2, <1>3, <1>5 DEF EndSimulation, RunInv, TasksAwaited
  <2>4. QED
    BY <2>1, <2>2, <2>3 DEF LoopInv, taskVars
<1>6. CASE BarrierPasses
  <2>1. status = "running"
    BY <1>6 DEF BarrierPasses
  <2>2. QED
    BY <1>1, <1>2, <1>6, <2>1, BarrierKeepsRun
<1>7. CASE BarrierFails
  <2>1. /\ unbound' = unbound /\ queue' = queue /\ now' = now /\ ctx' = ctx
        /\ stage' = stage /\ status' = "raised" /\ lastPose' = lastPose
        /\ rendererData' = rendererData /\ gathering' = gathering
        /\ UNCHANGED egoVars /\ UNCHANGED cameraVars /\ UNCHANGED planVars
        /\ UNCHANGED taskVars
    BY <1>7 DEF BarrierFails
  <2>2. TypeOK' /\ PosesAgree'
    BY <1>4, <2>1, StopKeepsTypes DEF LoopInv
  <2>3. QED
    BY <2>1, <2>2 DEF LoopInv
<1>8. CASE DriverAnswers
  <2>1. status = "running" /\ stage = "drive"
    BY <1>8 DEF DriverAnswers
  <2>2. CASE status' = "running"
    BY <1>1, <1>2, <1>8, <2>1, <2>2, DriverAnswersKeepsRun
  <2>3. CASE status' # "running"
    <3>1. /\ unbound' = unbound /\ queue' = queue /\ now' = now /\ ctx' = ctx
          /\ stage' = "loop" /\ status' = "terminating" /\ lastPose' = lastPose
          /\ rendererData' = None /\ gathering' = gathering
          /\ UNCHANGED egoVars /\ UNCHANGED cameraVars /\ UNCHANGED planVars
          /\ UNCHANGED taskVars
      BY <1>8, <2>1, <2>3 DEF DriverAnswers
    <3>2. TypeOK' /\ PosesAgree'
      BY <1>4, <3>1, StopKeepsTypes DEF LoopInv
    <3>3. gathering = {} /\ inFlight \cup failed \subseteq ctx.tracked
      BY <1>2, <2>1 DEF RunInv, TasksAwaited
    <3>4. QED
      BY <3>1, <3>2, <3>3 DEF LoopInv, taskVars
  <2>4. QED
    BY <2>2, <2>3
<1>9. CASE ServiceFails
  <2>1. /\ unbound' = unbound /\ queue' \subseteq queue /\ now' \in Times
    BY <1>3, <1>4, <1>9 DEF ServiceFails
  <2>2. /\ ctx' = ctx /\ stage' = stage /\ status' = "raised" /\ lastPose' = lastPose
        /\ rendererData' = rendererData /\ gathering' = gathering
        /\ UNCHANGED egoVars /\ UNCHANGED cameraVars /\ UNCHANGED planVars
        /\ UNCHANGED taskVars
    BY <1>9 DEF ServiceFails
  <2>3. TypeOK' /\ PosesAgree'
    BY <1>4, <2>1, <2>2, StopKeepsTypes DEF LoopInv
  <2>4. QED
    BY <2>2, <2>3 DEF LoopInv
<1>10. CASE Drained \/ DrainFails
  <2>1. /\ unbound' = unbound /\ queue' = queue /\ now' = now
        /\ ctx' \in {ctx, [ctx EXCEPT !.tracked = {}]}
        /\ stage' = stage /\ status' \in {"finished", "terminated", "raised"}
        /\ lastPose' = lastPose /\ rendererData' = rendererData /\ gathering' = gathering
        /\ UNCHANGED egoVars /\ UNCHANGED cameraVars /\ UNCHANGED planVars
        /\ UNCHANGED taskVars
    BY <1>10 DEF Drained, DrainFails, outcomeOf
  <2>2. ctx' \in ContextType
    BY <1>4, <2>1 DEF ContextType
  <2>3. TypeOK' /\ PosesAgree'
    BY <1>4, <2>1, <2>2, StopKeepsTypes DEF LoopInv
  <2>4. status' # "raised" => inFlight = {} /\ failed = {}
    BY <1>10 DEF Drained, DrainFails, LoopInv
  <2>5. QED
    BY <2>1, <2>3, <2>4 DEF LoopInv, taskVars
<1>11. CASE UNCHANGED vars
  <2>1. Covered' = Covered /\ NextStep' = NextStep /\ End' = End
    BY <1>11, TypesFixed DEF vars, Covered, NextStep, egoVars
  <2>2. \A k : ToRun(k)' <=> ToRun(k)
    BY <1>11, <2>1 DEF ToRun, vars
  <2>3. TypeOK' /\ PosesAgree'
    BY <1>11, <2>1, TypesFixed
    DEF LoopInv, TypeOK, PosesAgree, vars, egoVars, cameraVars, planVars, taskVars, driverVars
  <2>4. ASSUME status = "running"
        PROVE  RunInv'
    <3>1. RunInv
      BY <1>2, <2>4
    <3>2. StepQueued' /\ QueueInOrder' /\ ContextAsRun' /\ TasksAwaited'
      BY <1>11, <2>1, <2>2, <3>1
      DEF RunInv, StepQueued, QueueInOrder, ContextAsRun, TasksAwaited, vars
    <3>3. PlansOrdered'
      BY <1>11, <2>1, <2>2, <3>1, PlansKept DEF vars, planVars
    <3>4. FramesOfPast' /\ (inFlight \cup failed \subseteq ctx.tracked \cup gathering)'
      BY <1>11, <3>1 DEF RunInv, FramesOfPast, vars, cameraVars, taskVars
    <3>5. QED
      BY <2>3, <3>2, <3>3, <3>4 DEF RunInv
  <2>5. QED
    BY <1>11, <2>3, <2>4 DEF LoopInv, vars, taskVars
<1>12. CASE \E t \in inFlight : TaskDone(t) \/ TaskFails(t)
  BY <1>12, TaskKeepsLoopInv
<1>13. CASE HandleEvent
  <2>1. PICK e \in queue :
          \/ InitialStep(e) \/ CameraFrame(e) \/ CameraRenderFlush(e) \/ Observe(e)
          \/ EndSimulation(e) \/ Controller(e) \/ PhysicsEgo(e) \/ Traffic(e)
          \/ PhysicsTraffic(e) \/ Step(e)
    BY <1>13 DEF HandleEvent
  <2>2. CASE EndSimulation(e)
    BY <1>5, <2>2
  <2>3. CASE ~EndSimulation(e)
    <3>1. Pop(e)
      BY <2>1, <2>3 DEF InitialStep, CameraFrame, CameraRenderFlush, Observe, Controller,
         PhysicsEgo, Traffic, PhysicsTraffic, Step
    <3>2. RunInv' /\ status' = "running"
      BY <1>2, <1>3, <2>1, <2>3, <3>1, HandlersKeepRun
    <3>3. QED
      BY <1>1, <3>2
  <2>4. QED
    BY <2>2, <2>3
<1>14. QED
  BY <1>6, <1>7, <1>8, <1>9, <1>10, <1>11, <1>12, <1>13 DEF Next, LoopStep

(* In no rollout, with whatever cameras, intervals, delays and number of     *)
(* steps, does a sanity check of a handler fail; ego, estimate and traffic   *)
(* are committed up to the same time, and a rollout that returns has         *)
(* gathered all its tasks.                                                   *)
THEOREM HandlersAlwaysAgree == Spec => []HandlersAgree
<1>1. LoopInv => HandlersAgree
  <2> SUFFICES ASSUME LoopInv PROVE HandlersAgree
    OBVIOUS
  <2>1. ego \subseteq Int /\ estimate \subseteq Int /\ traffic \subseteq Int
    BY UnboundType DEF LoopInv, TypeOK, Times
  <2>2. Covered \in estimate /\ \A t \in ego \cup estimate \cup traffic : t <= Covered
    BY DEF LoopInv, PosesAgree
  <2>3. Latest(estimate) = Covered
    BY <2>1, <2>2, LatestIs
  <2>4. Covered = IF traffic = {} THEN unbound.firstPolicy ELSE Latest(traffic)
    <3>1. CASE Covered \in traffic
      BY <2>1, <2>2, <3>1, LatestIs
    <3>2. CASE Covered \notin traffic
      BY <3>2 DEF LoopInv, PosesAgree
    <3>3. QED
      BY <3>1, <3>2
  <2>5. QED
    BY <2>3, <2>4 DEF LoopInv, HandlersAgree, Covered
<1>2. QED
  BY <1>1, InitLoopInv, NextLoopInv, PTL DEF Spec

-----------------------------------------------------------------------------
(***************************************************************************)
(* The event loop is a closed loop of decisions and steps.  A frame that   *)
(* is due is on its way to the driver in one of four places, and has left  *)
(* the first three of them when the policy event passes its barrier; and   *)
(* lastPose tells whether the step under way has been decided.             *)
(***************************************************************************)

(* Camera events, pending triggers, image tasks and logged frames are of     *)
(* frames that are due, and no frame is rendered beyond Covered.             *)
FramesDue ==
  /\ \A e \in queue : e.kind = "camera" => <<e.camera, e.at>> \in DueFrames
  /\ \A f \in triggers \cup logged : f \in DueFrames /\ f[2] <= Covered
  /\ \A t \in inFlight : t.kind = "image" => <<t.camera, t.at>> \in DueFrames /\ t.at <= Covered

(* A pending trigger has its flush event. *)
FlushesQueued ==
  /\ \A t \in flushes : Event("flush", t, None) \in queue
  /\ \A f \in triggers : f[2] \in flushes

(* A frame has reached the log, and the driver if it is of its camera. *)
Arrived(f) == f \in logged /\ (f[1] = DriverCamera => f \in seen)

(* No frame is forgotten. *)
Underway(f) == Arrived(f) \/ ImageTask(f) \in inFlight \cup failed

FramesOnTheirWay ==
  \A f \in DueFrames :
    \/ Underway(f) \/ f \in triggers
    \/ \E t \in Times : t <= f[2] /\ Event("camera", t, f[1]) \in queue

(* The step under way has been decided once its policy event has asked. *)
DecidedOnce ==
  /\ lastPose # None => lastPose <= Covered
  /\ Covered < End => (lastPose = Covered <=> ~ToRun("policy") /\ stage # "barrier")

FramesInv ==
  /\ FramesDue
  /\ status = "running" => FlushesQueued /\ FramesOnTheirWay /\ DecidedOnce
  /\ status = "ending" => Covered = End /\ \A f \in DueFrames : Underway(f)

LEMMA QuotientOf ==
  ASSUME NEW a \in Nat, NEW b \in Nat \ {0}, a % b = 0
  PROVE  \E n \in Nat : a = n * b
OBVIOUS

(* The frames of a camera are due at the multiples of its interval. *)
LEMMA MultiplesOf ==
  ASSUME NEW b \in Nat \ {0}
  PROVE  /\ \A n \in Nat : n % b = 0 => (n + b) % b = 0
         /\ \A m, n \in Nat : m % b = 0 /\ n % b = 0 /\ m < n => m + b <= n
         /\ 0 % b = 0
<1>1. \A n \in Nat : n % b = 0 => \E q \in Nat : n = q * b
  BY QuotientOf
<1>2. \A m, n \in Nat : m * b < n * b => m * b + b <= n * b
  <2>1. \A m, n \in Nat : m * b < n * b => m < n
    OBVIOUS
  <2>2. \A m, n \in Nat : m < n => m * b + b <= n * b
    OBVIOUS
  <2>3. QED
    BY <2>1, <2>2
<1>3. ASSUME NEW n \in Nat, n % b = 0
      PROVE  (n + b) % b = 0
  <2>1. PICK q \in Nat : n = q * b
    BY <1>1, <1>3
  <2>2. n + b = (q + 1) * b
    BY <2>1
  <2>3. (q + 1) * b \in Nat /\ ((q + 1) * b) % b = 0
    OBVIOUS
  <2>4. QED
    BY <2>2, <2>3
<1>4. ASSUME NEW m \in Nat, NEW n \in Nat, m % b = 0, n % b = 0, m < n
      PROVE  m + b <= n
  <2>1. PICK p \in Nat : m = p * b
    BY <1>1, <1>4
  <2>2. PICK q \in Nat : n = q * b
    BY <1>1, <1>4
  <2>3. QED
    BY <1>2, <1>4, <2>1, <2>2
<1>5. QED
  BY <1>3, <1>4

LEMMA DueEveryInterval ==
  ASSUME unbound \in Rollouts, NEW c \in Cameras
  PROVE  /\ \A t \in Nat : <<c, t>> \in DueFrames <=>
              t <= End /\ unbound.firstEnd[c] <= t
              /\ (t - unbound.firstEnd[c]) % unbound.interval[c] = 0
         /\ \A t \in Nat : <<c, t>> \in DueFrames /\ t + unbound.interval[c] <= End =>
              <<c, t + unbound.interval[c]>> \in DueFrames
         /\ \A s, t \in Nat : <<c, s>> \in DueFrames /\ <<c, t>> \in DueFrames /\ s < t =>
              s + unbound.interval[c] <= t
         /\ unbound.firstEnd[c] <= End => <<c, unbound.firstEnd[c]>> \in DueFrames
<1> DEFINE a == unbound.firstEnd[c]
           b == unbound.interval[c]
<1>1. a \in Nat /\ b \in Nat \ {0} /\ End \in Nat
  BY UnboundType
<1>2. \A t \in Nat : <<c, t>> \in DueFrames <=> t <= End /\ a <= t /\ (t - a) % b = 0
  BY <1>1 DEF DueFrames, Times
<1> HIDE DEF a, b
<1>3. ASSUME NEW t \in Nat, <<c, t>> \in DueFrames, t + b <= End
      PROVE  <<c, t + b>> \in DueFrames
  <2>1. t - a \in Nat /\ (t - a) % b = 0 /\ a <= t
    BY <1>1, <1>2, <1>3
  <2>2. (t - a + b) % b = 0
    BY <1>1, <2>1, MultiplesOf
  <2>3. t - a + b = (t + b) - a /\ t + b \in Nat /\ a <= t + b
    BY <1>1, <2>1
  <2>4. QED
    BY <1>2, <1>3, <2>2, <2>3
<1>4. ASSUME NEW s \in Nat, NEW t \in Nat, <<c, s>> \in DueFrames, <<c, t>> \in DueFrames, s < t
      PROVE  s + b <= t
  <2>1. s - a \in Nat /\ t - a \in Nat /\ (s - a) % b = 0 /\ (t - a) % b = 0 /\ s - a < t - a
    BY <1>1, <1>2, <1>4
  <2>2. (s - a) + b <= t - a
    BY <1>1, <2>1, MultiplesOf
  <2>3. QED
    BY <1>1, <2>2
<1>5. a <= End => <<c, a>> \in DueFrames
  <2>1. a - a = 0
    BY <1>1
  <2>2. QED
    BY <1>1, <1>2, <2>1, MultiplesOf
<1>6. QED
  BY <1>2, <1>3, <1>4, <1>5 DEF a, b

(* Steps that leave the cameras alone. *)
LEMMA FramesKept ==
  ASSUME FramesInv, status = "running", status' = "running", unbound' = unbound,
         \A e : e.kind \in {"camera", "flush"} => (e \in queue' <=> e \in queue),
         triggers' = triggers, flushes' = flushes, UNCHANGED driverVars, failed' = failed,
         inFlight \subseteq inFlight', \A t \in inFlight' \ inFlight : t.kind # "image",
         triggers \cup logged \subseteq Cameras \X Nat, \A t \in inFlight : t.at \in Nat,
         Covered \in Nat, Covered' \in Nat, Covered <= Covered', DecidedOnce'
  PROVE  FramesInv'
<1>1. DueFrames' = DueFrames /\ Times' = Times
  BY TypesFixed DEF DueFrames, Times, End, EndOf
<1>2. FramesDue'
  <2>1. \A e \in queue' : e.kind = "camera" => <<e.camera, e.at>> \in DueFrames
    BY DEF FramesInv, FramesDue
  <2>2. \A f \in triggers \cup logged : f \in DueFrames /\ f[2] <= Covered'
    <3>1. \A f \in triggers \cup logged : f \in DueFrames /\ f[2] <= Covered /\ f[2] \in Nat
      BY DEF FramesInv, FramesDue
    <3>2. QED
      BY <3>1
  <2>3. \A t \in inFlight' : t.kind = "image" => <<t.camera, t.at>> \in DueFrames /\ t.at <= Covered'
    <3>1. \A t \in inFlight : t.kind = "image" =>
            <<t.camera, t.at>> \in DueFrames /\ t.at <= Covered /\ t.at \in Nat
      BY DEF FramesInv, FramesDue
    <3>2. \A t \in inFlight' : t.kind = "image" => t \in inFlight
      OBVIOUS
    <3>3. QED
      BY <3>1, <3>2
  <2>4. QED
    BY <1>1, <2>1, <2>2, <2>3 DEF FramesDue, driverVars
<1>3. \A t : (Event("flush", t, None) \in queue' <=> Event("flush", t, None) \in queue)
             /\ \A c : Event("camera", t, c) \in queue' <=> Event("camera", t, c) \in queue
  BY DEF Event
<1>4. FlushesQueued'
  BY <1>3 DEF FramesInv, FlushesQueued
<1>5. \A f : Underway(f) => Underway(f)'
  BY DEF Underway, Arrived, driverVars
<1>6. FramesOnTheirWay'
  BY <1>1, <1>3, <1>5 DEF FramesInv, FramesOnTheirWay
<1>7. QED
  BY <1>2, <1>4, <1>6 DEF FramesInv

(* What has been rendered has a type. *)
LEMMA FramesType ==
  ASSUME TypeOK
  PROVE  /\ triggers \cup logged \subseteq Cameras \X Nat /\ \A t \in inFlight : t.at \in Nat
         /\ \A t \in Times : t \in Nat /\ t <= End
<1>1. \A t \in Times : t \in Nat /\ t <= End
  BY UnboundType DEF TypeOK, Times
<1>2. \A t \in Tasks : t.at \in Times
  BY DEF Tasks
<1>3. QED
  BY <1>1, <1>2 DEF TypeOK

LEMMA DecisionKept ==
  ASSUME DecidedOnce, lastPose' = lastPose, Covered' = Covered, unbound' = unbound,
         stage' = stage, ToRun("policy")' <=> ToRun("policy")
  PROVE  DecidedOnce'
BY TypesFixed DEF DecidedOnce

(* Rescheduling a handler leaves the other events alone. *)
LEMMA OthersKept ==
  ASSUME NEW e, e.kind \in Recurring, e = Event(e.kind, e.at, None), Reschedule(e)
  PROVE  \A f : f.kind # e.kind => (f \in queue' <=> f \in queue)
<1> DEFINE next == [e EXCEPT !.at = @ + unbound.dt]
<1>1. next.kind = e.kind
  BY DEF Event
<1> HIDE DEF next
<1>2. queue' = (queue \ {e}) \cup (IF next.at >= End THEN {} ELSE {next})
  BY DEF Reschedule, next
<1>3. QED
  BY <1>1, <1>2

LEMMA HandlersKeepFrames ==
  ASSUME RunInv, FramesInv, status = "running", NEW e \in queue,
         Controller(e) \/ PhysicsEgo(e) \/ Traffic(e) \/ PhysicsTraffic(e)
  PROVE  FramesInv'
<1>1. /\ Pop(e) /\ stage = "loop" /\ unbound' = unbound
      /\ e.kind \in {"controller", "physicsEgo", "traffic", "physicsTraffic"}
  BY DEF Controller, PhysicsEgo, Traffic, PhysicsTraffic, Pop
<1>2. RunInv' /\ status' = "running"
  BY HandlersKeepRun
<1>3. /\ Reschedule(e) /\ stage' = stage /\ lastPose' = lastPose
      /\ UNCHANGED egoVars /\ UNCHANGED cameraVars /\ UNCHANGED taskVars
  BY <1>2 DEF Controller, PhysicsEgo, Traffic, PhysicsTraffic, CheckFails, OnlyContext
<1>4. Covered' = Covered /\ Covered \in Nat
  BY <1>3, CoveredOnGrid DEF Covered, egoVars, RunInv
<1>5. \A f : f.kind # e.kind => (f \in queue' <=> f \in queue)
  <2>1. e = Event(e.kind, e.at, None) /\ e.kind \in Recurring
    BY <1>1, EventFields DEF RunInv, Recurring
  <2>2. QED
    BY <1>3, <2>1, OthersKept
<1>6. DecidedOnce'
  <2>1. ToRun("policy")' <=> ToRun("policy")
    <3>1. Event("policy", Covered, None).kind = "policy"
      BY DEF Event
    <3>2. QED
      BY <1>1, <1>4, <1>5, <3>1 DEF ToRun
  <2>2. QED
    BY <1>1, <1>3, <1>4, <2>1, DecisionKept DEF FramesInv
<1>7. \A f : f.kind \in {"camera", "flush"} => (f \in queue' <=> f \in queue)
  BY <1>1, <1>5
<1>8. /\ triggers' = triggers /\ flushes' = flushes /\ UNCHANGED driverVars /\ failed' = failed
      /\ inFlight \subseteq inFlight' /\ \A t \in inFlight' \ inFlight : t.kind # "image"
  BY <1>3 DEF cameraVars, taskVars, driverVars
<1>9. QED
  BY <1>1, <1>2, <1>4, <1>6, <1>7, <1>8, FramesType, FramesKept DEF RunInv

LEMMA StepKeepsFrames ==
  ASSUME RunInv, FramesInv, status = "running", NEW e \in queue, Step(e)
  PROVE  FramesInv' /\ Covered' = NextStep /\ lastPose = Covered
<1>1. Pop(e) /\ stage = "loop" /\ unbound' = unbound /\ e.kind = "step"
  BY DEF Step, Pop
<1>2. /\ RunInv' /\ status' = "running" /\ Covered' = NextStep
  BY StepKeepsRun
<1>3. /\ Reschedule(e) /\ lastPose' = lastPose /\ stage' = stage
      /\ UNCHANGED cameraVars /\ UNCHANGED taskVars
  BY <1>2 DEF Step, CheckFails
<1>4. /\ Covered \in Nat /\ NextStep \in Nat /\ Covered < NextStep
  BY CoveredOnGrid DEF RunInv
<1>5. lastPose = Covered
  <2>1. ~ToRun("policy") /\ Covered < End
    BY <1>1, PoppedInTurn DEF Recurring, Priority
  <2>2. QED
    BY <1>1, <2>1 DEF FramesInv, DecidedOnce
<1>6. DecidedOnce'
  <2>1. NextStep < End => ToRun("policy")'
    <3>1. \A k \in Recurring \ {"step"} : ~ToRun(k)
      BY <1>1, PoppedInTurn DEF Recurring, Priority
    <3>2. "policy" \in Recurring \ {"step"}
      BY DEF Recurring
    <3>3. NextStep < End => Event("policy", NextStep, None) \in queue
      BY <1>1, <1>4, <3>1, <3>2, UnboundType DEF RunInv, StepQueued, TypeOK
    <3>4. Event("policy", NextStep, None) # e
      BY <1>1 DEF Event
    <3>5. QED
      BY <1>2, <1>3, <3>3, <3>4 DEF Reschedule, ToRun
  <2>2. lastPose' = Covered /\ End' = End
    BY <1>1, <1>3, <1>5, TypesFixed
  <2>3. QED
    BY <1>2, <1>4, <2>1, <2>2 DEF DecidedOnce
<1>7. \A f : f.kind \in {"camera", "flush"} => (f \in queue' <=> f \in queue)
  <2>1. e = Event(e.kind, e.at, None) /\ e.kind \in Recurring
    BY <1>1, EventFields DEF RunInv, Recurring
  <2>2. \A f : f.kind # e.kind => (f \in queue' <=> f \in queue)
    BY <1>3, <2>1, OthersKept
  <2>3. QED
    BY <1>1, <2>2
<1>8. /\ triggers' = triggers /\ flushes' = flushes /\ UNCHANGED driverVars /\ failed' = failed
      /\ inFlight \subseteq inFlight' /\ \A t \in inFlight' \ inFlight : t.kind # "image"
  BY <1>3 DEF cameraVars, taskVars, driverVars
<1>9. FramesInv'
  BY <1>1, <1>2, <1>4, <1>6, <1>7, <1>8, FramesType, FramesKept DEF RunInv
<1>10. QED
  BY <1>2, <1>5, <1>9

LEMMA InitialStepKeepsFrames ==
  ASSUME RunInv, FramesInv, status = "running", NEW e \in queue, InitialStep(e)
  PROVE  FramesInv' /\ Covered' = Covered
<1>1. /\ Pop(e) /\ e.kind = "initialStep" /\ stage = "loop" /\ unbound' = unbound
      /\ queue' = queue \ {e} /\ status' = status /\ stage' = stage /\ lastPose' = lastPose
      /\ UNCHANGED egoVars /\ UNCHANGED cameraVars /\ UNCHANGED taskVars
  BY DEF InitialStep, Pop
<1>2. Covered' = Covered /\ Covered \in Nat
  BY <1>1, CoveredOnGrid DEF Covered, egoVars, RunInv
<1>3. \A f : f.kind # "initialStep" => (f \in queue' <=> f \in queue)
  BY <1>1
<1>4. DecidedOnce'
  <2>1. ToRun("policy")' <=> ToRun("policy")
    BY <1>2, <1>3 DEF ToRun, Event
  <2>2. QED
    BY <1>1, <1>2, <2>1, DecisionKept DEF FramesInv
<1>5. \A f : f.kind \in {"camera", "flush"} => (f \in queue' <=> f \in queue)
  BY <1>3
<1>6. /\ triggers' = triggers /\ flushes' = flushes /\ UNCHANGED driverVars /\ failed' = failed
      /\ inFlight \subseteq inFlight' /\ \A t \in inFlight' \ inFlight : t.kind # "image"
  BY <1>1 DEF cameraVars, taskVars, driverVars
<1>7. FramesInv'
  BY <1>1, <1>2, <1>4, <1>5, <1>6, FramesType, FramesKept DEF RunInv
<1>8. QED
  BY <1>2, <1>7

LEMMA ObserveKeepsFrames ==
  ASSUME RunInv, FramesInv, status = "running", NEW e \in queue, Observe(e)
  PROVE  FramesInv' /\ Covered' = Covered
<1> DEFINE tasks == {Task("poses", e.at, None, NewPoses(e.at))}
                      \cup {Task(k, e.at, None, {}) : k \in unbound.extras}
<1>1. Pop(e) /\ e.kind = "policy" /\ stage = "loop" /\ unbound' = unbound
  BY DEF Observe, Pop
<1>2. /\ RunInv' /\ status' = "running" /\ Covered' = Covered /\ queue' = queue \ {e}
      /\ e = Event("policy", Covered, None) /\ Covered < End
  BY <1>1, ObserveKeepsRun, PoppedInTurn DEF Recurring
<1>3. Covered \in Nat
  BY CoveredOnGrid DEF RunInv
<1>4. /\ stage' = "barrier" /\ inFlight' = inFlight \cup tasks /\ failed' = failed
      /\ lastPose' = lastPose /\ UNCHANGED cameraVars /\ UNCHANGED driverVars
  BY <1>2 DEF Observe, CheckFails
<1>5. DecidedOnce'
  <2>1. ToRun("policy") /\ lastPose # Covered
    BY <1>2 DEF ToRun, FramesInv, DecidedOnce
  <2>2. End' = End
    BY <1>1, TypesFixed
  <2>3. QED
    BY <1>2, <1>4, <2>1, <2>2 DEF FramesInv, DecidedOnce
<1>6. \A f : f.kind \in {"camera", "flush"} => (f \in queue' <=> f \in queue)
  BY <1>1, <1>2
<1>7. \A t \in tasks : t.kind # "image"
  <2>1. unbound.extras \subseteq {"route", "ground truth"}
    BY RolloutsAssumption DEF RunInv, TypeOK, Rollout
  <2>2. \A k, ps : Task(k, e.at, None, ps).kind = k
    BY DEF Task
  <2>3. "image" \notin unbound.extras
    BY <2>1
  <2>4. QED
    BY <2>2, <2>3
<1>8. /\ triggers' = triggers /\ flushes' = flushes /\ UNCHANGED driverVars /\ failed' = failed
      /\ inFlight \subseteq inFlight' /\ \A t \in inFlight' \ inFlight : t.kind # "image"
  BY <1>4, <1>7 DEF cameraVars, driverVars
<1>9. FramesInv'
  BY <1>1, <1>2, <1>3, <1>5, <1>6, <1>8, FramesType, FramesKept DEF RunInv
<1>10. QED
  BY <1>2, <1>9

(* The barrier passes when every frame up to now has arrived. *)
LEMMA BarrierDecides ==
  ASSUME RunInv, FramesInv, status = "running", BarrierPasses
  PROVE  /\ Covered < End /\ lastPose # Covered /\ lastPose' = Covered
         /\ \A f \in DueFrames : f[2] <= Covered => Arrived(f)
<1>1. /\ stage = "barrier" /\ lastPose' = now /\ now = Covered /\ Covered < End
      /\ ~ToRun("policy")
  BY DEF BarrierPasses, RunInv, TasksAwaited
<1>2. lastPose # Covered
  BY <1>1 DEF FramesInv, DecidedOnce
<1>3. inFlight = {} /\ failed = {}
  <2>1. ctx.tracked = {}
    BY <1>1 DEF RunInv, ContextAsRun
  <2>2. QED
    BY <2>1 DEF BarrierPasses, RunInv
<1>4. \A f \in queue : f.kind \in {"camera", "flush"} => Covered < f.at
  BY <1>1 DEF RunInv, QueueInOrder
<1>5. Covered \in Nat /\ \A t \in Times : t \in Nat
  BY CoveredOnGrid, FramesType DEF RunInv
<1>6. ASSUME NEW f \in DueFrames, f[2] <= Covered
      PROVE  Arrived(f)
  <2>1. f[2] \in Nat
    BY <1>5 DEF DueFrames
  <2>2. f \notin triggers
    <3>1. \A t : Event("flush", t, None).kind = "flush" /\ Event("flush", t, None).at = t
      BY DEF Event
    <3>2. f \in triggers => Event("flush", f[2], None) \in queue
      BY DEF FramesInv, FlushesQueued
    <3>3. f \in triggers => Covered < f[2]
      BY <1>4, <3>1, <3>2
    <3>4. QED
      BY <1>5, <1>6, <2>1, <3>3
  <2>3. ASSUME NEW t \in Times, t <= f[2], Event("camera", t, f[1]) \in queue
        PROVE  FALSE
    <3>1. Event("camera", t, f[1]).kind = "camera" /\ Event("camera", t, f[1]).at = t
      BY DEF Event
    <3>2. Covered < t
      BY <1>4, <2>3, <3>1
    <3>3. QED
      BY <1>5, <1>6, <2>1, <2>3, <3>2
  <2>4. QED
    BY <1>3, <2>2, <2>3 DEF FramesInv, FramesOnTheirWay, Underway
<1>7. QED
  BY <1>1, <1>2, <1>6

(* The queue and the cameras while the driver is asked. *)
LEMMA AskingKeepsFrames ==
  ASSUME RunInv, FramesInv, status = "running", status' = "running",
         BarrierPasses \/ DriverAnswers
  PROVE  FramesInv' /\ Covered' = Covered
<1>1. /\ stage # "loop" /\ unbound' = unbound /\ UNCHANGED egoVars
      /\ UNCHANGED cameraVars /\ UNCHANGED taskVars
      /\ queue' = queue \/ Reschedule(Event("policy", now, None))
  BY DEF BarrierPasses, DriverAnswers
<1>2. Covered' = Covered /\ Covered \in Nat /\ End' = End
  BY <1>1, CoveredOnGrid, TypesFixed DEF Covered, egoVars, RunInv
<1>3. now = Covered /\ Covered < End /\ ~ToRun("policy")
  BY <1>1 DEF RunInv, TasksAwaited
<1>4. lastPose' = Covered /\ stage' # "barrier"
  <2>1. CASE BarrierPasses
    BY <1>3, <2>1 DEF BarrierPasses
  <2>2. CASE DriverAnswers
    <3>1. stage = "drive" /\ lastPose' = lastPose /\ stage' = "loop"
      BY <2>2 DEF DriverAnswers
    <3>2. QED
      BY <1>3, <3>1 DEF FramesInv, DecidedOnce
  <2>3. QED
    BY <2>1, <2>2
<1>5. \A f : f.kind # "policy" => (f \in queue' <=> f \in queue)
  <2>1. Event("policy", now, None).kind = "policy"
        /\ Event("policy", now, None) = Event("policy", Event("policy", now, None).at, None)
        /\ "policy" \in Recurring
    BY DEF Event, Recurring
  <2>2. CASE queue' = queue
    BY <2>2
  <2>3. CASE Reschedule(Event("policy", now, None))
    BY <2>1, <2>3, OthersKept
  <2>4. QED
    BY <1>1, <2>2, <2>3
<1>6. ~ToRun("policy")'
  <2>1. RunInv'
    BY BarrierKeepsRun, DriverAnswersKeepsRun
  <2>2. ASSUME ToRun("policy")'
        PROVE  FALSE
    <3>1. Event("policy", Covered, None) \in queue'
      BY <1>2, <2>2 DEF ToRun
    <3>2. Event("policy", Covered, None) \notin queue
      BY <1>3 DEF ToRun
    <3>3. Reschedule(Event("policy", Covered, None))
      BY <1>1, <1>3, <3>1, <3>2
    <3>4. [Event("policy", Covered, None) EXCEPT !.at = @ + unbound.dt] = Event("policy", NextStep, None)
      BY DEF Event, NextStep
    <3>5. Event("policy", Covered, None) \in {Event("policy", NextStep, None)}
      BY <3>1, <3>3, <3>4 DEF Reschedule
    <3>6. Covered < NextStep /\ NextStep \in Nat
      BY CoveredOnGrid DEF RunInv
    <3>7. QED
      BY <1>2, <3>5, <3>6 DEF Event
  <2>3. QED
    BY <2>2
<1>7. DecidedOnce'
  BY <1>2, <1>4, <1>6 DEF DecidedOnce
<1>8. \A f : f.kind \in {"camera", "flush"} => (f \in queue' <=> f \in queue)
  BY <1>5
<1>9. /\ triggers' = triggers /\ flushes' = flushes /\ UNCHANGED driverVars /\ failed' = failed
      /\ inFlight \subseteq inFlight' /\ \A t \in inFlight' \ inFlight : t.kind # "image"
  BY <1>1 DEF cameraVars, taskVars, driverVars
<1>10. FramesInv'
  BY <1>1, <1>2, <1>7, <1>8, <1>9, FramesType, FramesKept DEF RunInv
<1>11. QED
  BY <1>2, <1>10

(* A camera frame becomes a pending trigger or a task, and the next frame of *)
(* the camera that is due is queued.                                         *)
LEMMA CameraFrameKeepsFrames ==
  ASSUME RunInv, FramesInv, status = "running", NEW e \in queue, CameraFrame(e)
  PROVE  FramesInv' /\ Covered' = Covered
<1> DEFINE c == e.camera
           later == e.at + unbound.interval[c]
<1>1. /\ Pop(e) /\ e.kind = "camera" /\ stage = "loop" /\ unbound' = unbound
      /\ status' = status /\ stage' = stage /\ lastPose' = lastPose /\ UNCHANGED egoVars
      /\ failed' = failed /\ UNCHANGED driverVars
  BY DEF CameraFrame, Pop, Track, taskVars, driverVars
<1>2. /\ c \in Cameras /\ e.at \in Nat /\ e.at <= End /\ End \in Nat /\ e.at \in Times
      /\ unbound.interval[c] \in Nat \ {0} /\ e = Event("camera", e.at, c)
      /\ later \in Nat /\ unbound \in Rollouts /\ e.at < later
  BY <1>1, EventFields, UnboundType DEF RunInv, TypeOK, Times
<1>3. Covered' = Covered /\ Covered \in Nat /\ e.at <= Covered /\ End' = End
      /\ DueFrames' = DueFrames /\ Times' = Times
  BY <1>1, CoveredOnGrid, PoppedInStep, TypesFixed
  DEF Covered, egoVars, RunInv, DueFrames, EndOf, End
<1>4. PICK flush :
        /\ queue' = (queue \ {e}) \cup NextFrame(e) \cup flush
        /\ flush = IF bundled /\ e.at \notin flushes THEN {Event("flush", e.at, None)} ELSE {}
  BY DEF CameraFrame
<1>5. NextFrame(e) = IF later <= End THEN {Event("camera", later, c)} ELSE {}
  <2>1. [e EXCEPT !.at = @ + unbound.interval[c]] = Event("camera", later, c)
    BY <1>2 DEF Event
  <2>2. Event("camera", later, c).at = later
    BY DEF Event
  <2>3. NextFrame(e) = IF Event("camera", later, c).at > End THEN {} ELSE {Event("camera", later, c)}
    BY <2>1 DEF NextFrame
  <2>4. QED
    BY <1>2, <2>2, <2>3
<1>6. \/ /\ triggers' = triggers \cup {<<c, e.at>>} /\ flushes' = flushes \cup {e.at}
         /\ inFlight' = inFlight /\ bundled
      \/ /\ triggers' = triggers /\ flushes' = flushes
         /\ inFlight' = inFlight \cup {ImageTask(<<c, e.at>>)} /\ ~bundled
  BY DEF CameraFrame, Track, taskVars
<1> HIDE DEF later, c
<1>7. <<c, e.at>> \in DueFrames
  BY <1>1, <1>2 DEF FramesInv, FramesDue, c
<1>8. FramesDue'
  <2>1. \A f \in queue' : f.kind = "camera" => <<f.camera, f.at>> \in DueFrames
    <3>1. later <= End => <<c, later>> \in DueFrames
      BY <1>2, <1>7, DueEveryInterval DEF later
    <3>2. Event("camera", later, c).camera = c /\ Event("camera", later, c).at = later
          /\ Event("flush", e.at, None).kind = "flush"
      BY DEF Event
    <3>3. \A f \in queue' : \/ f \in queue
                            \/ (f = Event("camera", later, c) /\ later <= End)
                            \/ f = Event("flush", e.at, None)
      BY <1>4, <1>5
    <3>4. QED
      BY <3>1, <3>2, <3>3 DEF FramesInv, FramesDue
  <2>2. \A f \in triggers' \cup logged' : f \in DueFrames /\ f[2] <= Covered
    <3>1. <<c, e.at>>[2] = e.at
      OBVIOUS
    <3>2. \A f \in triggers' \cup logged' : f \in triggers \cup logged \/ f = <<c, e.at>>
      BY <1>1, <1>6 DEF driverVars
    <3>3. QED
      BY <1>3, <1>7, <3>1, <3>2 DEF FramesInv, FramesDue
  <2>3. \A t \in inFlight' : t.kind = "image" => <<t.camera, t.at>> \in DueFrames /\ t.at <= Covered
    <3>1. ImageTask(<<c, e.at>>).camera = c /\ ImageTask(<<c, e.at>>).at = e.at
      BY DEF ImageTask, Task
    <3>2. \A t \in inFlight' : t \in inFlight \/ t = ImageTask(<<c, e.at>>)
      BY <1>6
    <3>3. QED
      BY <1>3, <1>7, <3>1, <3>2 DEF FramesInv, FramesDue
  <2>4. QED
    BY <1>3, <2>1, <2>2, <2>3 DEF FramesDue
<1>9. \A f : f.kind # "camera" /\ f \in queue => f \in queue'
  BY <1>1, <1>4
<1>10. FlushesQueued'
  <2>1. \A t \in flushes : Event("flush", t, None) \in queue'
    <3>1. \A t : Event("flush", t, None).kind = "flush"
      BY DEF Event
    <3>2. QED
      BY <1>9, <3>1 DEF FramesInv, FlushesQueued
  <2>2. bundled => Event("flush", e.at, None) \in queue'
    BY <1>4, <2>1
  <2>3. \A t \in flushes' : Event("flush", t, None) \in queue'
    BY <1>6, <2>1, <2>2
  <2>4. \A f \in triggers' : f[2] \in flushes'
    <3>1. <<c, e.at>>[2] = e.at
      OBVIOUS
    <3>2. QED
      BY <1>6, <3>1 DEF FramesInv, FlushesQueued
  <2>5. QED
    BY <2>3, <2>4 DEF FlushesQueued
<1>11. FramesOnTheirWay'
  <2>1. \A f : (Underway(f) => Underway(f)') /\ (f \in triggers => f \in triggers')
    BY <1>1, <1>6 DEF Underway, Arrived, driverVars
  <2>2. Underway(<<c, e.at>>)' \/ <<c, e.at>> \in triggers'
    BY <1>6 DEF Underway
  <2>3. ASSUME NEW f \in DueFrames, NEW t \in Times, t <= f[2],
               Event("camera", t, f[1]) \in queue
        PROVE  \/ Underway(f)' \/ f \in triggers'
               \/ \E s \in Times : s <= f[2] /\ Event("camera", s, f[1]) \in queue'
    <3>1. CASE Event("camera", t, f[1]) # e
      BY <1>4, <2>3, <3>1
    <3>2. CASE Event("camera", t, f[1]) = e
      <4>1. t = e.at /\ f[1] = c
        BY <1>2, <3>2 DEF Event
      <4>2. f = <<c, f[2]>> /\ f[2] \in Nat /\ f[2] <= End
        <5>1. PICK d \in Cameras, r \in Times : f = <<d, r>>
          BY DEF DueFrames
        <5>2. r \in Nat /\ r <= End
          BY FramesType DEF RunInv
        <5>3. QED
          BY <4>1, <5>1, <5>2
      <4>3. CASE f[2] = e.at
        BY <2>2, <4>2, <4>3
      <4>4. CASE f[2] # e.at
        <5>1. e.at < f[2]
          BY <1>2, <2>3, <4>1, <4>2, <4>4
        <5>2. <<c, f[2]>> \in DueFrames
          BY <4>2
        <5>3. later <= f[2]
          BY <1>2, <1>7, <4>2, <5>1, <5>2, DueEveryInterval DEF later
        <5>4. later <= End
          BY <1>2, <4>2, <5>3
        <5>5. later \in Times
          BY <1>2, <5>4 DEF Times
        <5>6. Event("camera", later, c) \in queue'
          BY <1>4, <1>5, <5>4
        <5>7. QED
          BY <4>1, <5>3, <5>5, <5>6
      <4>5. QED
        BY <4>3, <4>4
    <3>3. QED
      BY <3>1, <3>2
  <2>4. QED
    BY <1>3, <2>1, <2>3 DEF FramesInv, FramesOnTheirWay
<1>12. DecidedOnce'
  <2>1. Event("policy", Covered, None).kind = "policy" /\ Event("camera", later, c).kind = "camera"
        /\ Event("flush", e.at, None).kind = "flush"
    BY DEF Event
  <2>2. ToRun("policy")' <=> ToRun("policy")
    BY <1>1, <1>3, <1>4, <1>5, <2>1 DEF ToRun
  <2>3. QED
    BY <1>1, <1>3, <2>2, DecisionKept DEF FramesInv
<1>13. QED
  BY <1>1, <1>3, <1>8, <1>10, <1>11, <1>12 DEF FramesInv

(* A flush turns the pending triggers of its time into tasks. *)
LEMMA FlushKeepsFrames ==
  ASSUME RunInv, FramesInv, status = "running", NEW e \in queue, CameraRenderFlush(e)
  PROVE  FramesInv' /\ Covered' = Covered
<1> DEFINE taken == {f \in triggers : f[2] = e.at}
<1>1. /\ Pop(e) /\ e.kind = "flush" /\ stage = "loop" /\ unbound' = unbound
      /\ status' = status /\ stage' = stage /\ lastPose' = lastPose /\ UNCHANGED egoVars
      /\ failed' = failed /\ UNCHANGED driverVars
      /\ triggers' = triggers \ taken /\ flushes' = flushes \ {e.at} /\ queue' = queue \ {e}
      /\ inFlight' = inFlight \cup {ImageTask(f) : f \in taken}
  BY DEF CameraRenderFlush, Pop, Track, driverVars
<1>2. e = Event("flush", e.at, None)
  BY <1>1, EventFields DEF RunInv
<1>3. Covered' = Covered /\ End' = End /\ DueFrames' = DueFrames /\ Times' = Times
  BY <1>1, TypesFixed DEF Covered, egoVars, DueFrames, EndOf, End
<1>4. \A f : f.kind # "flush" => (f \in queue' <=> f \in queue)
  BY <1>1
<1>5. FramesDue'
  <2>1. \A t \in inFlight' : t.kind = "image" => <<t.camera, t.at>> \in DueFrames /\ t.at <= Covered
    <3>1. ASSUME NEW f \in taken
          PROVE  <<ImageTask(f).camera, ImageTask(f).at>> \in DueFrames /\ ImageTask(f).at <= Covered
      <4>1. f \in DueFrames /\ f[2] <= Covered
        BY DEF FramesInv, FramesDue
      <4>2. f = <<f[1], f[2]>>
        BY <4>1 DEF DueFrames
      <4>3. ImageTask(f).camera = f[1] /\ ImageTask(f).at = f[2]
        BY DEF ImageTask, Task
      <4>4. QED
        BY <4>1, <4>2, <4>3
    <3>2. QED
      BY <1>1, <3>1 DEF FramesInv, FramesDue
  <2>2. QED
    BY <1>1, <1>3, <2>1 DEF FramesInv, FramesDue, driverVars
<1>6. FlushesQueued'
  <2>1. \A t \in flushes' : Event("flush", t, None) \in queue'
    <3>1. \A t : Event("flush", t, None) = e => t = e.at
      BY DEF Event
    <3>2. QED
      BY <1>1, <3>1 DEF FramesInv, FlushesQueued
  <2>2. \A f \in triggers' : f[2] \in flushes'
    BY <1>1 DEF FramesInv, FlushesQueued
  <2>3. QED
    BY <2>1, <2>2 DEF FlushesQueued
<1>7. FramesOnTheirWay'
  <2>1. \A f : Underway(f) \/ f \in triggers => Underway(f)' \/ f \in triggers'
    BY <1>1 DEF Underway, Arrived, driverVars
  <2>2. \A t, d : Event("camera", t, d).kind = "camera"
    BY DEF Event
  <2>3. \A t, d : Event("camera", t, d) \in queue => Event("camera", t, d) \in queue'
    BY <1>4, <2>2
  <2>4. QED
    BY <1>3, <2>1, <2>3 DEF FramesInv, FramesOnTheirWay
<1>8. DecidedOnce'
  <2>1. Event("policy", Covered, None).kind = "policy"
    BY DEF Event
  <2>2. ToRun("policy")' <=> ToRun("policy")
    BY <1>3, <1>4, <2>1 DEF ToRun
  <2>3. QED
    BY <1>1, <1>3, <2>2, DecisionKept DEF FramesInv
<1>9. QED
  BY <1>1, <1>3, <1>5, <1>6, <1>7, <1>8 DEF FramesInv

(* At the end of the rollout every due frame has a task of its own. *)
LEMMA EndKeepsFrames ==
  ASSUME RunInv, FramesInv, status = "running", NEW e \in queue, EndSimulation(e)
  PROVE  FramesInv' /\ Covered' = Covered
<1>1. /\ Pop(e) /\ e.kind = "end" /\ stage = "loop" /\ unbound' = unbound
      /\ status' = "ending" /\ queue' = queue \ {e}
      /\ UNCHANGED egoVars /\ UNCHANGED cameraVars /\ UNCHANGED taskVars
  BY DEF EndSimulation, Pop
<1>2. Covered' = Covered /\ End' = End /\ DueFrames' = DueFrames
  BY <1>1, TypesFixed DEF Covered, egoVars, DueFrames, EndOf, End
<1>3. Covered = End /\ e.at = End /\ End \in Nat
  BY <1>1, PoppedInStep, UnboundType DEF RunInv, QueueInOrder, TypeOK
<1>4. \A f \in queue : f.kind \notin {"camera", "flush"}
  <2>1. \A f \in queue : f.at \in Nat /\ f.at <= End
    BY EventFields DEF RunInv
  <2>2. \A f \in queue : Priority["end"] <= Priority[f.kind]
    BY <1>1, <1>3, <2>1 DEF Pop
  <2>3. ~(Priority["end"] <= Priority["camera"]) /\ ~(Priority["end"] <= Priority["flush"])
    BY DEF Priority
  <2>4. QED
    BY <2>2, <2>3
<1>5. FlushesQueued /\ FramesOnTheirWay
  BY DEF FramesInv
<1>6. \A f \in DueFrames : Underway(f)
  <2>1. \A t, d : Event("camera", t, d).kind = "camera" /\ Event("flush", t, None).kind = "flush"
    BY DEF Event
  <2>2. \A f : f \notin triggers
    BY <1>4, <1>5, <2>1 DEF FlushesQueued
  <2>3. QED
    BY <1>4, <1>5, <2>1, <2>2 DEF FramesOnTheirWay
<1>7. \A f : Underway(f)' <=> Underway(f)
  BY <1>1 DEF Underway, Arrived, taskVars, driverVars
<1>8. FramesDue'
  BY <1>1, <1>2 DEF FramesInv, FramesDue, cameraVars, taskVars, driverVars
<1>9. QED
  BY <1>1, <1>2, <1>3, <1>6, <1>7, <1>8 DEF FramesInv

LEMMA StopKeepsFrames ==
  ASSUME FramesInv, unbound' = unbound, status' \notin {"running", "ending"},
         queue' \subseteq queue,
         UNCHANGED egoVars, UNCHANGED cameraVars, UNCHANGED taskVars
  PROVE  FramesInv' /\ Covered' = Covered
<1>1. Covered' = Covered /\ DueFrames' = DueFrames
  BY TypesFixed DEF Covered, egoVars, DueFrames, EndOf, End
<1>2. FramesDue'
  BY <1>1 DEF FramesInv, FramesDue, cameraVars, taskVars, driverVars
<1>3. QED
  BY <1>1, <1>2 DEF FramesInv

(* A task that ends has logged and shown its frame, or failed. *)
LEMMA TaskKeepsFrames ==
  ASSUME LoopInv, FramesInv, NEW t \in inFlight, TaskDone(t) \/ TaskFails(t)
  PROVE  /\ FramesInv' /\ Covered' = Covered
         /\ \/ logged' = logged /\ seen' = seen
            \/ /\ <<t.camera, t.at>> \in DueFrames /\ t.at <= Covered
               /\ logged' = logged \cup {<<t.camera, t.at>>}
               /\ seen' \in {seen, seen \cup Loop!ForDriver({<<t.camera, t.at>>})}
<1>1. /\ unbound' = unbound /\ status' = status /\ stage' = stage /\ queue' = queue
      /\ lastPose' = lastPose /\ UNCHANGED egoVars /\ UNCHANGED cameraVars
      /\ inFlight' = inFlight \ {t} /\ failed \subseteq failed'
      /\ logged \subseteq logged' /\ seen \subseteq seen'
  BY DEF TaskDone, TaskFails
<1>2. /\ Covered' = Covered /\ End' = End /\ DueFrames' = DueFrames /\ Times' = Times
  BY <1>1, TypesFixed DEF Covered, egoVars, DueFrames, EndOf, End
<1>3. \/ logged' = logged /\ seen' = seen
      \/ /\ t.kind = "image" /\ <<t.camera, t.at>> \in DueFrames /\ t.at <= Covered
         /\ logged' = logged \cup {<<t.camera, t.at>>}
         /\ seen' \in {seen, seen \cup Loop!ForDriver({<<t.camera, t.at>>})}
  <2>1. CASE t.kind = "image"
    <3>1. <<t.camera, t.at>> \in DueFrames /\ t.at <= Covered
      BY <2>1 DEF FramesInv, FramesDue
    <3>2. FrameOf(t) = {<<t.camera, t.at>>}
          /\ {f \in FrameOf(t) : f[1] = DriverCamera} = Loop!ForDriver({<<t.camera, t.at>>})
      BY <2>1 DEF FrameOf, Loop!ForDriver
    <3>3. QED
      BY <2>1, <3>1, <3>2 DEF TaskDone, TaskFails
  <2>2. CASE t.kind # "image"
    <3>1. FrameOf(t) = {}
      BY <2>2 DEF FrameOf
    <3>2. QED
      BY <3>1 DEF TaskDone, TaskFails
  <2>3. QED
    BY <2>1, <2>2
<1>4. \A f : f \in DueFrames /\ Underway(f) => Underway(f)'
  <2>1. ASSUME NEW f \in DueFrames, ImageTask(f) = t
        PROVE  Underway(f)'
    <3>1. t.kind = "image" /\ t.camera = f[1] /\ t.at = f[2]
      BY <2>1 DEF ImageTask, Task
    <3>2. f = <<t.camera, t.at>>
      BY <2>1, <3>1 DEF DueFrames
    <3>3. CASE TaskDone(t)
      BY <3>1, <3>2, <3>3 DEF TaskDone, FrameOf, Underway, Arrived
    <3>4. CASE TaskFails(t)
      BY <2>1, <3>4 DEF TaskFails, Underway
    <3>5. QED
      BY <3>3, <3>4
  <2>2. \A f : ImageTask(f) # t /\ Underway(f) => Underway(f)'
    BY <1>1 DEF Underway, Arrived
  <2>3. QED
    BY <2>1, <2>2
<1>5. FramesDue'
  <2>1. \A f \in logged' : f \in DueFrames /\ f[2] <= Covered
    <3>1. <<t.camera, t.at>>[2] = t.at
      OBVIOUS
    <3>2. QED
      BY <1>3, <3>1 DEF FramesInv, FramesDue
  <2>2. QED
    BY <1>1, <1>2, <2>1 DEF FramesInv, FramesDue, cameraVars
<1>6. FlushesQueued => FlushesQueued'
  BY <1>1 DEF FlushesQueued, cameraVars
<1>7. FramesOnTheirWay => FramesOnTheirWay'
  BY <1>1, <1>2, <1>4 DEF FramesOnTheirWay, cameraVars
<1>8. DecidedOnce => DecidedOnce'
  BY <1>1, <1>2 DEF DecidedOnce, ToRun
<1>9. QED
  BY <1>1, <1>2, <1>3, <1>4, <1>5, <1>6, <1>7, <1>8 DEF FramesInv

LEMMA InitFramesInv == Init => FramesInv
<1> SUFFICES ASSUME Init PROVE FramesInv
  OBVIOUS
<1>1. LoopInv /\ status = "running" /\ RunInv /\ stage = "loop"
  BY InitLoopInv DEF Init, LoopInv
<1>2. /\ queue = InitialEvents(unbound) /\ triggers = {} /\ flushes = {} /\ logged = {}
      /\ inFlight = {} /\ lastPose = None /\ unbound \in Rollouts /\ EndOf(unbound) = End
  BY DEF Init, End
<1>3. \A e \in queue : e.kind = "camera" =>
        \E c \in Cameras : unbound.firstEnd[c] <= End /\ e = Event("camera", unbound.firstEnd[c], c)
  BY <1>2 DEF InitialEvents, Event
<1>4. \A c \in Cameras : unbound.firstEnd[c] <= End =>
        Event("camera", unbound.firstEnd[c], c) \in queue
  BY <1>2 DEF InitialEvents
<1>5. FramesDue
  <2>1. \A e \in queue : e.kind = "camera" => <<e.camera, e.at>> \in DueFrames
    <3>1. \A c \in Cameras : Event("camera", unbound.firstEnd[c], c).camera = c
                             /\ Event("camera", unbound.firstEnd[c], c).at = unbound.firstEnd[c]
      BY DEF Event
    <3>2. QED
      BY <1>2, <1>3, <3>1, DueEveryInterval
  <2>2. QED
    BY <1>2, <2>1 DEF FramesDue
<1>6. FramesOnTheirWay
  <2>1. ASSUME NEW f \in DueFrames
        PROVE  \E t \in Times : t <= f[2] /\ Event("camera", t, f[1]) \in queue
    <3>1. PICK c \in Cameras, t \in Times : f = <<c, t>>
      BY DEF DueFrames
    <3>2. unbound.firstEnd[c] <= t /\ t \in Nat /\ t <= End /\ unbound.firstEnd[c] \in Nat
          /\ End \in Nat
      <4>1. t \in Nat /\ t <= End
        BY <1>1, FramesType DEF LoopInv
      <4>2. unbound.firstEnd[c] \in Nat /\ End \in Nat
        BY <1>2, UnboundType
      <4>3. <<c, t>> \in DueFrames
        BY <2>1, <3>1
      <4>4. unbound.firstEnd[c] <= t
        BY <1>2, <4>1, <4>3, DueEveryInterval
      <4>5. QED
        BY <4>1, <4>2, <4>4
    <3>3. unbound.firstEnd[c] \in Times /\ unbound.firstEnd[c] <= End
      BY <3>2 DEF Times
    <3>4. QED
      BY <1>4, <3>1, <3>2, <3>3
  <2>2. QED
    BY <2>1 DEF FramesOnTheirWay
<1>7. DecidedOnce
  <2>1. ToRun("policy")
    <3>1. Event("initialStep", unbound.contextStart, None) \in queue
          /\ Event("initialStep", unbound.contextStart, None).kind = "initialStep"
      BY <1>2 DEF InitialEvents, Event
    <3>2. QED
      BY <1>1, <3>1 DEF RunInv, QueueInOrder
  <2>2. None # Covered
    BY <1>1, CoveredOnGrid, RolloutsAssumption DEF RunInv
  <2>3. QED
    BY <1>2, <2>1, <2>2 DEF DecidedOnce
<1>8. FlushesQueued
  BY <1>2 DEF FlushesQueued
<1>9. QED
  BY <1>1, <1>5, <1>6, <1>7, <1>8 DEF FramesInv

-----------------------------------------------------------------------------
(* The steps of the closed loop that the event loop takes. *)
Outcome ==
  CASE status \in {"running", "ending", "terminating"} -> "running"
    [] status = "finished" -> "complete"
    [] OTHER -> "stopped"

LEMMA LoopStutters ==
  ASSUME unbound' = unbound, Covered' = Covered, lastPose' = lastPose,
         logged' = logged, seen' = seen,
         Outcome' = Outcome
  PROVE  UNCHANGED Loop!loopVars
<1>1. DueFrames' = DueFrames /\ End' = End
  BY TypesFixed DEF DueFrames, EndOf, End
<1>2. QED
  BY <1>1 DEF Covered, Outcome, Loop!loopVars, Loop!grid

LEMMA LoopStops ==
  ASSUME unbound' = unbound, Covered' = Covered, lastPose' = lastPose,
         logged' = logged, seen' = seen,
         Outcome = "running", Outcome' = "stopped"
  PROVE  Loop!Next
<1>1. DueFrames' = DueFrames /\ End' = End
  BY TypesFixed DEF DueFrames, EndOf, End
<1>2. Loop!Stop
  BY <1>1 DEF Covered, Outcome, Loop!Stop, Loop!grid
<1>3. QED
  BY <1>2 DEF Loop!Next

(* A service that fails stops the loop, and so does the drain that fails. *)
LEMMA FailuresStop ==
  ASSUME LoopInv, FramesInv, BarrierFails \/ ServiceFails \/ DrainFails
  PROVE  FramesInv' /\ Loop!Next
<1>1. /\ unbound' = unbound /\ status' = "raised" /\ queue' \subseteq queue
      /\ lastPose' = lastPose
      /\ UNCHANGED egoVars /\ UNCHANGED cameraVars /\ UNCHANGED taskVars
  BY DEF BarrierFails, ServiceFails, DrainFails, Pop
<1>2. status \in {"running", "ending", "terminating"}
  BY DEF BarrierFails, ServiceFails, DrainFails, Pop
<1>3. FramesInv' /\ Covered' = Covered
  BY <1>1, StopKeepsFrames
<1>4. Outcome = "running" /\ Outcome' = "stopped" /\ logged' = logged /\ seen' = seen
  BY <1>1, <1>2 DEF Outcome, taskVars, driverVars
<1>5. QED
  BY <1>1, <1>3, <1>4, LoopStops

(* The last drain completes a rollout that has reached its end, and stops    *)
(* one the driver asked to end.                                              *)
LEMMA DrainEnds ==
  ASSUME LoopInv, FramesInv, Drained
  PROVE  FramesInv' /\ Loop!Next
<1>1. /\ unbound' = unbound /\ queue' = queue /\ lastPose' = lastPose
      /\ status' = outcomeOf /\ status \in {"ending", "terminating"}
      /\ UNCHANGED egoVars /\ UNCHANGED cameraVars /\ UNCHANGED taskVars
  BY DEF Drained
<1>2. status' \in {"finished", "terminated"}
  BY <1>1 DEF outcomeOf
<1>3. FramesInv' /\ Covered' = Covered
  BY <1>1, <1>2, StopKeepsFrames
<1>4. logged' = logged /\ seen' = seen /\ Outcome = "running"
  BY <1>1 DEF Outcome, taskVars, driverVars
<1>5. CASE status = "terminating"
  <2>1. Outcome' = "stopped"
    BY <1>1, <1>5 DEF Outcome, outcomeOf
  <2>2. QED
    BY <1>1, <1>3, <1>4, <2>1, LoopStops
<1>6. CASE status = "ending"
  <2>1. Outcome' = "complete"
    BY <1>1, <1>6 DEF Outcome, outcomeOf
  <2>2. inFlight = {} /\ failed = {}
    BY <1>6 DEF LoopInv, Drained
  <2>3. Covered = End /\ Loop!Informed(DueFrames)
    BY <1>6, <2>2 DEF FramesInv, Underway, Arrived, Loop!Informed, Loop!ForDriver
  <2>4. DueFrames' = DueFrames /\ End' = End
    BY <1>1, TypesFixed DEF DueFrames, EndOf, End
  <2>5. Loop!Complete
    BY <1>1, <1>3, <1>4, <2>1, <2>3, <2>4 DEF Covered, Outcome, Loop!Complete, Loop!grid
  <2>6. QED
    BY <1>3, <2>5 DEF Loop!Next
<1>7. QED
  BY <1>1, <1>5, <1>6

(* A policy event that has gathered its tasks decides; the driver's answer   *)
(* is no step of the closed loop.                                            *)
LEMMA AskingDecides ==
  ASSUME LoopInv, FramesInv, BarrierPasses \/ DriverAnswers
  PROVE  FramesInv' /\ [Loop!Next]_(Loop!loopVars)
<1>1. /\ unbound' = unbound /\ status = "running" /\ RunInv
      /\ UNCHANGED egoVars /\ UNCHANGED cameraVars /\ UNCHANGED taskVars
  BY DEF BarrierPasses, DriverAnswers, LoopInv
<1>2. /\ Covered' = Covered /\ logged' = logged /\ seen' = seen
      /\ DueFrames' = DueFrames /\ End' = End
  BY <1>1, TypesFixed DEF Covered, egoVars, taskVars, driverVars, DueFrames, EndOf, End
<1>3. CASE BarrierPasses
  <2>1. status' = "running"
    BY <1>1, <1>3 DEF BarrierPasses
  <2>2. FramesInv'
    BY <1>1, <1>3, <2>1, AskingKeepsFrames
  <2>3. /\ Covered < End /\ lastPose # Covered /\ lastPose' = Covered
        /\ \A f \in DueFrames : f[2] <= Covered => Arrived(f)
    BY <1>1, <1>3, BarrierDecides
  <2>4. Outcome = "running" /\ Outcome' = "running"
    BY <1>1, <2>1 DEF Outcome
  <2>5. Loop!Informed({f \in DueFrames : f[2] <= Covered})
    BY <2>3 DEF Arrived, Loop!Informed, Loop!ForDriver
  <2>6. Loop!Decide
    BY <1>1, <1>2, <2>3, <2>4, <2>5 DEF Covered, Outcome, Loop!Decide, Loop!grid
  <2>7. QED
    BY <2>2, <2>6 DEF Loop!Next
<1>4. CASE DriverAnswers
  <2>1. lastPose' = lastPose /\ status' \in {"running", "terminating"}
        /\ (status' = "terminating" => queue' = queue)
    BY <1>1, <1>4 DEF DriverAnswers
  <2>2. FramesInv'
    <3>1. CASE status' = "running"
      BY <1>1, <1>4, <3>1, AskingKeepsFrames
    <3>2. CASE status' = "terminating"
      BY <1>1, <2>1, <3>2, StopKeepsFrames
    <3>3. QED
      BY <2>1, <3>1, <3>2
  <2>3. Outcome' = Outcome
    BY <1>1, <2>1 DEF Outcome
  <2>4. QED
    BY <1>1, <1>2, <2>1, <2>2, <2>3, LoopStutters
<1>5. QED
  BY <1>3, <1>4

LEMMA TasksShow ==
  ASSUME LoopInv, FramesInv, NEW t \in inFlight, TaskDone(t) \/ TaskFails(t)
  PROVE  FramesInv' /\ [Loop!Next]_(Loop!loopVars)
<1>1. unbound' = unbound /\ status' = status /\ lastPose' = lastPose
  BY DEF TaskDone, TaskFails
<1>2. /\ FramesInv' /\ Covered' = Covered
      /\ \/ logged' = logged /\ seen' = seen
         \/ /\ <<t.camera, t.at>> \in DueFrames /\ t.at <= Covered
            /\ logged' = logged \cup {<<t.camera, t.at>>}
            /\ seen' \in {seen, seen \cup Loop!ForDriver({<<t.camera, t.at>>})}
  BY TaskKeepsFrames
<1>3. Outcome' = Outcome
  BY <1>1 DEF Outcome
<1>4. DueFrames' = DueFrames /\ End' = End
  BY <1>1, TypesFixed DEF DueFrames, EndOf, End
<1>5. CASE logged' = logged /\ seen' = seen
  BY <1>1, <1>2, <1>3, <1>5, LoopStutters
<1>6. CASE ~(logged' = logged /\ seen' = seen)
  <2> DEFINE f == <<t.camera, t.at>>
  <2>1. /\ f \in DueFrames /\ f[2] <= Covered /\ logged' = logged \cup {f}
        /\ seen' \in {seen, seen \cup Loop!ForDriver({f})}
    BY <1>2, <1>6
  <2> HIDE DEF f
  <2>2. Loop!Show(f)
    BY <1>1, <1>2, <1>3, <1>4, <2>1 DEF Covered, Outcome, Loop!Show, Loop!grid
  <2>3. QED
    BY <1>2, <2>1, <2>2 DEF Loop!Next
<1>7. QED
  BY <1>5, <1>6

(* A control step commits its time; no other handler does. *)
LEMMA HandlersAdvance ==
  ASSUME LoopInv, FramesInv, HandleEvent
  PROVE  FramesInv' /\ [Loop!Next]_(Loop!loopVars)
<1>1. PICK e \in queue :
        \/ InitialStep(e) \/ CameraFrame(e) \/ CameraRenderFlush(e) \/ Observe(e)
        \/ EndSimulation(e) \/ Controller(e) \/ PhysicsEgo(e) \/ Traffic(e)
        \/ PhysicsTraffic(e) \/ Step(e)
  BY DEF HandleEvent
<1>2. Pop(e)
  BY <1>1 DEF InitialStep, CameraFrame, CameraRenderFlush, Observe, Controller,
     PhysicsEgo, Traffic, PhysicsTraffic, Step, EndSimulation
<1>3. status = "running" /\ unbound' = unbound /\ RunInv
  BY <1>2 DEF Pop, LoopInv
<1>4. Outcome' = Outcome /\ logged' = logged /\ seen' = seen
  <2>1. CASE EndSimulation(e)
    BY <1>3, <2>1 DEF EndSimulation, Outcome, taskVars, driverVars
  <2>2. CASE ~EndSimulation(e)
    <3>1. status' = "running"
      BY <1>1, <1>3, <2>2, HandlersKeepRun
    <3>2. logged' = logged /\ seen' = seen
      BY <1>1, <2>2 DEF InitialStep, CameraFrame, CameraRenderFlush, Observe, Controller,
         PhysicsEgo, Traffic, PhysicsTraffic, Step, Track, OnlyContext, CheckFails,
         taskVars, driverVars
    <3>3. QED
      BY <1>3, <3>1, <3>2 DEF Outcome
  <2>3. QED
    BY <2>1, <2>2
<1>5. lastPose' = lastPose
  BY <1>1 DEF InitialStep, CameraFrame, CameraRenderFlush, Observe, Controller,
     PhysicsEgo, Traffic, PhysicsTraffic, Step, EndSimulation, OnlyContext, CheckFails
<1>6. CASE Step(e)
  <2>1. FramesInv' /\ Covered' = NextStep /\ lastPose = Covered
    BY <1>3, <1>6, StepKeepsFrames
  <2>2. DueFrames' = DueFrames /\ End' = End
    BY <1>3, TypesFixed DEF DueFrames, EndOf, End
  <2>3. Loop!Advance
    BY <1>3, <1>4, <1>5, <2>1, <2>2
    DEF Covered, NextStep, Outcome, Loop!Advance, Loop!grid
  <2>4. QED
    BY <2>1, <2>3 DEF Loop!Next
<1>7. CASE ~Step(e)
  <2>1. FramesInv'
    BY <1>1, <1>3, <1>7, InitialStepKeepsFrames, CameraFrameKeepsFrames, FlushKeepsFrames,
       ObserveKeepsFrames, EndKeepsFrames, HandlersKeepFrames
  <2>2. Covered' = Covered
    <3>1. CASE InitialStep(e) \/ CameraFrame(e) \/ CameraRenderFlush(e) \/ Observe(e)
               \/ EndSimulation(e)
      BY <1>3, <3>1, InitialStepKeepsFrames, CameraFrameKeepsFrames, FlushKeepsFrames,
         ObserveKeepsFrames, EndKeepsFrames
    <3>2. CASE Controller(e) \/ PhysicsEgo(e) \/ Traffic(e) \/ PhysicsTraffic(e)
      BY <3>2 DEF Controller, PhysicsEgo, Traffic, PhysicsTraffic, OnlyContext, CheckFails,
         Covered, egoVars
    <3>3. QED
      BY <1>1, <1>7, <3>1, <3>2
  <2>3. QED
    BY <1>3, <1>4, <1>5, <2>1, <2>2, LoopStutters
<1>8. QED
  BY <1>6, <1>7

LEMMA NextFramesInv ==
  LoopInv /\ FramesInv /\ [Next]_vars => FramesInv' /\ [Loop!Next]_(Loop!loopVars)
<1> SUFFICES ASSUME LoopInv, FramesInv, [Next]_vars
             PROVE  FramesInv' /\ [Loop!Next]_(Loop!loopVars)
  OBVIOUS
<1>1. CASE UNCHANGED vars
  <2>1. /\ unbound' = unbound /\ lastPose' = lastPose /\ status' = status
        /\ logged' = logged /\ seen' = seen
    BY <1>1 DEF vars, taskVars, driverVars
  <2>2. /\ Covered' = Covered /\ End' = End /\ DueFrames' = DueFrames /\ Times' = Times
    BY <1>1, <2>1, TypesFixed DEF vars, Covered, egoVars, DueFrames, EndOf, End
  <2>3. \A k : ToRun(k)' <=> ToRun(k)
    BY <1>1, <2>2 DEF ToRun, vars
  <2>4. \A f : Underway(f)' <=> Underway(f)
    BY <1>1 DEF Underway, Arrived, vars, taskVars, driverVars
  <2>5. FramesDue' /\ (FlushesQueued => FlushesQueued')
    BY <1>1, <2>2
    DEF FramesInv, FramesDue, FlushesQueued, vars, cameraVars, taskVars, driverVars
  <2>6. (FramesOnTheirWay => FramesOnTheirWay') /\ (DecidedOnce => DecidedOnce')
    BY <1>1, <2>2, <2>3, <2>4 DEF FramesOnTheirWay, DecidedOnce, vars, cameraVars
  <2>7. FramesInv'
    BY <2>1, <2>2, <2>4, <2>5, <2>6 DEF FramesInv
  <2>8. Outcome' = Outcome
    BY <2>1 DEF Outcome
  <2>9. QED
    BY <2>1, <2>2, <2>7, <2>8, LoopStutters
<1>2. QED
  BY <1>1, HandlersAdvance, AskingDecides, TasksShow, FailuresStop, DrainEnds
  DEF Next, LoopStep

LEMMA InitClosedLoop == Init => Loop!Init
<1> SUFFICES ASSUME Init PROVE Loop!Init
  OBVIOUS
<1>1. /\ unbound \in Rollouts /\ lastPose = None /\ logged = {} /\ seen = {}
      /\ Outcome = "running"
      /\ ego = {unbound.contextStart, unbound.firstPolicy}
  BY DEF Init, Outcome
<1>2. /\ unbound.firstPolicy \in Nat /\ unbound.dt \in Nat \ {0} /\ End \in Nat
      /\ unbound.contextStart \in Nat /\ unbound.contextStart < unbound.firstPolicy
      /\ unbound.firstEnd \in [Cameras -> Nat]
      /\ \A c \in Cameras : unbound.firstPolicy <= unbound.firstEnd[c]
  BY <1>1, UnboundType
<1>3. Covered = unbound.firstPolicy
  <2>1. \A t \in ego : t \in Int /\ t <= unbound.firstPolicy
    BY <1>1, <1>2
  <2>2. QED
    BY <1>1, <2>1, LatestIs DEF Covered
<1>4. DueFrames \in SUBSET (Cameras \X (unbound.firstPolicy..End))
  <2>1. ASSUME NEW f \in DueFrames
        PROVE  f \in Cameras \X (unbound.firstPolicy..End)
    <3>1. PICK c \in Cameras, t \in Times : f = <<c, t>>
      BY DEF DueFrames
    <3>2. t \in Nat /\ t <= End
      BY <1>2 DEF Times
    <3>3. unbound.firstEnd[c] <= t
      BY <1>1, <2>1, <3>1, <3>2, DueEveryInterval
    <3>4. unbound.firstPolicy <= t
      BY <1>2, <3>2, <3>3
    <3>5. QED
      BY <1>2, <3>1, <3>2, <3>4
  <2>2. QED
    BY <2>1
<1>5. QED
  BY <1>1, <1>2, <1>3, <1>4 DEF Covered, Outcome, Loop!Init

(* Whatever the cameras, the bundling of their frames and the delays, a      *)
(* rollout commits one control step at a time, after a decision at its       *)
(* start, which is only made when every frame that had ended by then is in   *)
(* its log and has reached the driver, if it is of the driver's camera; and  *)
(* it is complete only when this holds of all its frames.                    *)
THEOREM LoopIsClosed == Spec => ImplementsClosedLoop
<1>1. Init => LoopInv /\ FramesInv /\ Loop!Init
  BY InitLoopInv, InitFramesInv, InitClosedLoop
<1>2. LoopInv /\ FramesInv /\ [Next]_vars =>
        (LoopInv /\ FramesInv)' /\ [Loop!Next]_(Loop!loopVars)
  BY NextLoopInv, NextFramesInv
<1>3. QED
  BY <1>1, <1>2, PTL DEF Spec, ImplementsClosedLoop, Loop!Spec

----------------------------------------------------------------------------
(* The session of a rollout                                                  *)

\* Where the exit stack is in each phase.
StackFits ==
  /\ phase \in {"create", "log", "ended"} => depth = 0
  /\ phase \in {"create", "log"} => sessionStage = "open"
  /\ phase = "enter" => sessionStage \in {"open", "init"}
  /\ phase = "enter" /\ sessionStage = "init" => depth < Len(Order)
  /\ phase = "leave" /\ sessionStage = "close" => depth > 0
  /\ error => phase = "leave" /\ sessionStage = "close"

\* The files and the result, phase by phase.
RecordFits ==
  /\ phase \in {"create", "log"} <=> log = "absent" /\ phase # "ended"
  /\ phase # "ended" => log # "closed" /\ outcome = "pending"
  /\ marker => phase \in {"leave", "ended"} /\ log # "absent"
  /\ phase = "leave" /\ exc = "none" => marker

\* The services that come after the first k.
Beyond(k) == {Order[i] : i \in k + 1 .. Len(Order)}

\* The services whose session is not entered, or was left; and of those, the
\* ones whose connection is not just being made.
Outside == Beyond(depth)
Apart == Beyond(IF phase = "enter" /\ sessionStage = "init" THEN depth + 1 ELSE depth)

\* What was left is closed, and whatever could not be closed is known of.
StackClean ==
  /\ \A s \in Outside : session[s] = "open" => s \in refused
  /\ phase = "leave" /\ sessionStage = "close" =>
       /\ session[Leaving] = "open" => Leaving \in refused
       /\ ~info[Leaving]
  /\ exc = "none" => \A s \in Apart : ~info[s] /\ ~channel[s]
  /\ exc = "none" /\ ~error => refused = {}

SessionInv ==
  /\ SessionTypeOK /\ NothingLeftOpen
  /\ StackFits /\ RecordFits /\ StackClean

(* A service is in one place of the order. *)
LEMMA Places ==
  ASSUME NEW k \in 0..Len(Order)
  PROVE  /\ Beyond(k) \subseteq Services /\ Beyond(0) = Services
         /\ k < Len(Order) =>
              /\ Order[k + 1] \in Services /\ Order[k + 1] \notin Beyond(k + 1)
              /\ Beyond(k) = Beyond(k + 1) \cup {Order[k + 1]}
<1>1. Len(Order) \in Nat
  BY SessionAssumption
<1>2. Beyond(k) \subseteq Services /\ Beyond(0) = Services
  BY <1>1 DEF Beyond, Services
<1>3. ASSUME k < Len(Order)
      PROVE  Order[k + 1] \in Services /\ Order[k + 1] \notin Beyond(k + 1)
  <2>1. k + 1 \in 1..Len(Order)
    BY <1>1, <1>3
  <2>2. \A i \in k + 2 .. Len(Order) : i \in 1..Len(Order) /\ i # k + 1
    BY <1>1
  <2>3. Beyond(k + 1) = {Order[i] : i \in k + 2 .. Len(Order)}
    BY <1>1 DEF Beyond
  <2>4. QED
    BY <2>1, <2>2, <2>3, SessionAssumption DEF Services
<1>4. ASSUME k < Len(Order)
      PROVE  Beyond(k) = Beyond(k + 1) \cup {Order[k + 1]}
  <2>1. k + 1 .. Len(Order) = (k + 2 .. Len(Order)) \cup {k + 1}
    BY <1>1, <1>4
  <2>2. Beyond(k + 1) = {Order[i] : i \in k + 2 .. Len(Order)}
    BY <1>1 DEF Beyond
  <2>3. QED
    BY <2>1, <2>2 DEF Beyond
<1>5. QED
  BY <1>2, <1>3, <1>4

LEMMA SessionStart == SessionInit => SessionInv
<1>1. Len(Order) \in Nat
  BY SessionAssumption
<1>2. ASSUME SessionInit
      PROVE  SessionTypeOK /\ NothingLeftOpen /\ StackFits /\ RecordFits
  <2>1. SessionTypeOK
    <3>1. info \in [Services -> BOOLEAN] /\ channel \in [Services -> BOOLEAN]
      <4>1. info = [s \in Services |-> FALSE] /\ channel = info
        BY <1>2 DEF SessionInit
      <4>2. [s \in Services |-> FALSE] \in [Services -> BOOLEAN]
        OBVIOUS
      <4>3. QED
        BY <4>1, <4>2, Zenon
    <3>2. QED
      <4>1. /\ phase = "create" /\ depth = 0 /\ sessionStage = "open" /\ exc = "none" /\ error = FALSE
            /\ log = "absent" /\ marker = FALSE /\ refused = {} /\ outcome = "pending"
            /\ session \in [Services -> {"none", "open", "closed"}]
        BY <1>2 DEF SessionInit
      <4>2. depth \in 0..Len(Order) /\ refused \subseteq Services
        BY <1>1, <4>1
      <4>3. /\ phase \in {"create", "log", "enter", "loop", "evaluate", "mark", "leave", "ended"}
            /\ sessionStage \in {"open", "init", "cleanup", "close"}
            /\ exc \in {"none", "body", "teardown", "cancel"}
            /\ log \in {"absent", "open", "closed"} /\ error \in BOOLEAN /\ marker \in BOOLEAN
            /\ outcome \in {"pending", "success", "failure", "cancelled"}
        BY <4>1
      <4>4. QED
        BY <3>1, <4>1, <4>2, <4>3, Zenon DEF SessionTypeOK
  <2>2. NothingLeftOpen
    BY <1>2 DEF SessionInit, NothingLeftOpen
  <2>3. StackFits /\ RecordFits
    BY <1>2 DEF SessionInit, StackFits, RecordFits
  <2>4. QED
    BY <2>1, <2>2, <2>3
<1>3. ASSUME SessionInit
      PROVE  StackClean
  <2>1. Outside = Services /\ Apart = Services
    BY <1>1, <1>3, Places DEF SessionInit, Outside, Apart
  <2>2. QED
    BY <1>3, <2>1 DEF SessionInit, StackClean
<1>4. QED
  BY <1>2, <1>3 DEF SessionInv

(* What a step does to the places is what it does to phase, sessionStage and depth. *)
LEMMA TypeStep == SessionInv /\ [SessionNext]_sessionVars => SessionTypeOK'
<1> SUFFICES ASSUME SessionInv, [SessionNext]_sessionVars
             PROVE  SessionTypeOK'
  OBVIOUS
<1>1. Len(Order) \in Nat
  BY SessionAssumption
<1>2. depth < Len(Order) => Entering \in Services
  BY Places DEF SessionInv, SessionTypeOK, Entering
<1>3. depth > 0 => Leaving \in Services
  BY <1>1 DEF SessionInv, SessionTypeOK, Leaving, Services
<1> USE DEF SessionInv, SessionTypeOK, StackFits, serviceVars, disk
<1>4. CASE Create
  BY <1>4 DEF Create, Raised
<1>5. CASE OpenLog
  BY <1>5 DEF OpenLog, Raised
<1>6. CASE OpenConnection
  <2> HIDE DEF Entering
  <2>1. QED
    BY <1>2, <1>6 DEF OpenConnection
<1>7. CASE Initialize
  <2>1. depth < Len(Order)
    BY <1>7 DEF Initialize
  <2>2. session' \in [Services -> {"none", "open", "closed"}]
    BY <1>2, <1>7, <2>1 DEF Initialize
  <2>3. QED
    BY <1>1, <1>7, <2>1, <2>2 DEF Initialize, Raised
<1>8. CASE StartLoop
  BY <1>8 DEF StartLoop, Raised
<1>9. CASE RunEventLoop
  BY <1>9 DEF RunEventLoop, Raised
<1>10. CASE Evaluate
  BY <1>10 DEF Evaluate, Raised
<1>11. CASE MarkComplete
  BY <1>11 DEF MarkComplete
<1>12. CASE Cleanup
  <2>1. session' \in [Services -> {"none", "open", "closed"}]
    BY <1>3, <1>12 DEF Cleanup
  <2>2. QED
    BY <1>3, <1>12, <2>1 DEF Cleanup
<1>13. CASE CleanupCancelled
  BY <1>1, <1>3, <1>13 DEF CleanupCancelled
<1>14. CASE Close
  <2>1. channel' \in [Services -> BOOLEAN]
    BY <1>3, <1>14 DEF Close
  <2>2. exc' \in {"none", "body", "teardown", "cancel"}
    BY <1>14 DEF Close
  <2>3. depth' \in 0..Len(Order)
    BY <1>1, <1>14 DEF Close
  <2>4. QED
    BY <1>14, <2>1, <2>2, <2>3 DEF Close
<1>15. CASE CloseLog
  BY <1>15 DEF CloseLog
<1>16. CASE UNCHANGED sessionVars
  BY <1>16 DEF sessionVars, where, failing
<1>17. QED
  BY <1>4, <1>5, <1>6, <1>7, <1>8, <1>9, <1>10, <1>11, <1>12, <1>13, <1>14, <1>15, <1>16
     DEF SessionNext

LEMMA StackStep == SessionInv /\ [SessionNext]_sessionVars => StackFits' /\ RecordFits'
<1> SUFFICES ASSUME SessionInv, [SessionNext]_sessionVars
             PROVE  StackFits' /\ RecordFits'
  OBVIOUS
<1>1. Len(Order) \in Nat
  BY SessionAssumption
<1> USE DEF SessionInv, SessionTypeOK, StackFits, RecordFits, serviceVars, disk
<1>2. CASE Create
  BY <1>2 DEF Create, Raised
<1>3. CASE OpenLog
  BY <1>3 DEF OpenLog, Raised
<1>4. CASE OpenConnection
  BY <1>4 DEF OpenConnection
<1>5. CASE Initialize
  BY <1>1, <1>5 DEF Initialize, Raised
<1>6. CASE StartLoop
  BY <1>6 DEF StartLoop, Raised
<1>7. CASE RunEventLoop
  BY <1>7 DEF RunEventLoop, Raised
<1>8. CASE Evaluate
  BY <1>8 DEF Evaluate, Raised
<1>9. CASE MarkComplete
  BY <1>9 DEF MarkComplete
<1>10. CASE Cleanup
  BY <1>10 DEF Cleanup
<1>11. CASE CleanupCancelled
  BY <1>1, <1>11 DEF CleanupCancelled
<1>12. CASE Close
  BY <1>1, <1>12 DEF Close
<1>13. CASE CloseLog
  BY <1>13 DEF CloseLog
<1>14. CASE UNCHANGED sessionVars
  BY <1>14 DEF sessionVars, where, failing
<1>15. QED
  BY <1>2, <1>3, <1>4, <1>5, <1>6, <1>7, <1>8, <1>9, <1>10, <1>11, <1>12, <1>13, <1>14
     DEF SessionNext

(* Where depth, phase and sessionStage say so, the places do not move. *)
LEMMA CleanKept ==
  ASSUME SessionInv, UNCHANGED <<info, channel, session, refused>>, UNCHANGED depth,
         UNCHANGED error, exc' = "none" => exc = "none",
         (phase = "enter" /\ sessionStage = "init")' <=> (phase = "enter" /\ sessionStage = "init"),
         (phase = "leave" /\ sessionStage = "close")' => (phase = "leave" /\ sessionStage = "close")
  PROVE  StackClean'
<1>1. Outside' = Outside /\ Apart' = Apart /\ Leaving' = Leaving
  BY DEF Outside, Apart, Leaving, Beyond
<1>2. QED
  BY <1>1 DEF SessionInv, StackClean

LEMMA CleanStep == SessionInv /\ [SessionNext]_sessionVars => StackClean'
<1> SUFFICES ASSUME SessionInv, [SessionNext]_sessionVars
             PROVE  StackClean'
  OBVIOUS
<1>1. Len(Order) \in Nat /\ depth \in 0..Len(Order)
  BY SessionAssumption DEF SessionInv, SessionTypeOK
<1> USE DEF serviceVars, disk
<1>2. CASE Create
  BY <1>2, CleanKept DEF Create, Raised
<1>3. CASE OpenLog
  BY <1>3, CleanKept DEF OpenLog, Raised, SessionInv, StackFits
<1>4. CASE OpenConnection
  <2>1. /\ phase = "enter" /\ sessionStage = "open" /\ depth < Len(Order)
        /\ UNCHANGED depth /\ UNCHANGED session /\ UNCHANGED refused /\ UNCHANGED error
    BY <1>4 DEF OpenConnection
  <2>2. /\ Outside = Beyond(depth + 1) \cup {Entering} /\ Entering \in Services
        /\ Beyond(depth + 1) \subseteq Services /\ Entering \notin Beyond(depth + 1)
    BY <1>1, <2>1, Places DEF Outside, Entering
  <2>3. Outside' = Outside /\ Apart = Outside
    BY <2>1 DEF Outside, Apart, Beyond
  <2>4. ASSUME exc' = "none"
        PROVE  /\ Apart' = Beyond(depth + 1) /\ exc = "none"
               /\ \A s \in Beyond(depth + 1) : info'[s] = info[s] /\ channel'[s] = channel[s]
    <3>1. sessionStage' = "init" /\ phase' = "enter" /\ exc = "none"
      BY <1>4, <2>1, <2>4 DEF OpenConnection
    <3>2. Apart' = Beyond(depth + 1)
      BY <2>1, <3>1 DEF Apart, Beyond
    <3>3. /\ info' = [info EXCEPT ![Entering] = TRUE]
          /\ channel' = [channel EXCEPT ![Entering] = Entering \notin Skipped]
      BY <1>4, <2>4 DEF OpenConnection
    <3>4. QED
      BY <2>2, <3>1, <3>2, <3>3 DEF SessionInv, SessionTypeOK
  <2>5. ~(phase' = "leave" /\ sessionStage' = "close")
    BY <1>4 DEF OpenConnection
  <2>6. QED
    BY <2>1, <2>2, <2>3, <2>4, <2>5 DEF SessionInv, StackClean
<1>5. CASE Initialize
  <2>1. /\ phase = "enter" /\ sessionStage = "init" /\ depth < Len(Order) /\ depth' = depth + 1
        /\ UNCHANGED <<info, channel>> /\ UNCHANGED refused /\ UNCHANGED error
    BY <1>5 DEF Initialize, SessionInv, StackFits
  <2>2. /\ Outside = Beyond(depth + 1) \cup {Entering} /\ Entering \in Services
        /\ Beyond(depth + 1) \subseteq Services /\ Entering \notin Beyond(depth + 1)
    BY <1>1, <2>1, Places DEF Outside, Entering
  <2>3. Outside' = Beyond(depth + 1) /\ Apart = Beyond(depth + 1)
    BY <2>1 DEF Outside, Apart, Beyond
  <2>4. Apart' = Outside' /\ ~(phase' = "leave" /\ sessionStage' = "close")
    BY <1>5 DEF Initialize, Apart, Outside, Beyond
  <2>5. \A s \in Beyond(depth + 1) : session'[s] = session[s]
    BY <1>5, <2>2 DEF Initialize, SessionInv, SessionTypeOK
  <2>6. exc' = "none" => exc = "none"
    BY <1>5 DEF Initialize, Raised
  <2>7. QED
    BY <2>1, <2>2, <2>3, <2>4, <2>5, <2>6 DEF SessionInv, StackClean
<1>6. CASE StartLoop
  BY <1>6, CleanKept DEF StartLoop, Raised, SessionInv, StackFits
<1>7. CASE RunEventLoop
  BY <1>7, CleanKept DEF RunEventLoop, Raised
<1>8. CASE Evaluate
  BY <1>8, CleanKept DEF Evaluate, Raised
<1>9. CASE MarkComplete
  BY <1>9, CleanKept DEF MarkComplete
<1>10. CASE Cleanup
  <2>1. /\ phase = "leave" /\ depth > 0 /\ phase' = "leave" /\ sessionStage' = "close"
        /\ UNCHANGED depth /\ UNCHANGED exc /\ UNCHANGED channel
        /\ info' = [info EXCEPT ![Leaving] = FALSE]
    BY <1>10 DEF Cleanup
  <2>2. Leaving \in Services /\ Leaving \notin Outside /\ Outside \subseteq Services
    <3>1. depth - 1 \in 0..Len(Order) /\ depth - 1 < Len(Order) /\ depth - 1 + 1 = depth
      BY <1>1, <2>1
    <3>2. Order[depth] \in Services /\ Order[depth] \notin Beyond(depth)
      BY <3>1, Places
    <3>3. QED
      BY <1>1, <3>2, Places DEF Outside, Leaving
  <2>3. Outside' = Outside /\ Apart' = Outside /\ Apart = Outside /\ Leaving' = Leaving
    BY <2>1 DEF Outside, Apart, Leaving, Beyond
  <2>4. /\ \A s \in Outside : session'[s] = session[s] /\ info'[s] = info[s]
        /\ ~info'[Leaving]
    BY <1>10, <2>1, <2>2 DEF Cleanup, SessionInv, SessionTypeOK
  <2>5. /\ refused \subseteq refused'
        /\ session'[Leaving] = "open" => Leaving \in refused'
        /\ ~error' => ~error /\ refused' = refused
    BY <1>10, <2>2 DEF Cleanup, SessionInv, SessionTypeOK, StackFits
  <2>6. QED
    BY <2>1, <2>3, <2>4, <2>5 DEF SessionInv, StackClean
<1>11. CASE CleanupCancelled
  <2>1. /\ phase = "leave" /\ sessionStage = "cleanup" /\ depth > 0 /\ depth' = depth - 1
        /\ phase' = "leave" /\ sessionStage' = "cleanup" /\ exc' = "cancel"
        /\ refused' = refused \cup {Leaving} /\ UNCHANGED session
    BY <1>11 DEF CleanupCancelled
  <2>2. Outside' = Outside \cup {Leaving}
    <3>1. depth - 1 \in 0..Len(Order) /\ depth - 1 < Len(Order) /\ depth - 1 + 1 = depth
      BY <1>1, <2>1
    <3>2. Beyond(depth - 1) = Beyond(depth) \cup {Order[depth]}
      BY <3>1, Places
    <3>3. QED
      BY <2>1, <3>2 DEF Outside, Leaving, Beyond
  <2>3. QED
    BY <2>1, <2>2 DEF SessionInv, StackClean
<1>12. CASE Close
  <2>1. /\ phase = "leave" /\ sessionStage = "close" /\ depth > 0 /\ depth' = depth - 1
        /\ phase' = "leave" /\ sessionStage' = "cleanup"
        /\ UNCHANGED refused /\ UNCHANGED session /\ UNCHANGED info
    BY <1>12 DEF Close, SessionInv, StackFits
  <2>2. /\ Beyond(depth - 1) = Outside \cup {Leaving}
        /\ Leaving \in Services /\ Leaving \notin Outside /\ Outside \subseteq Services
    <3>1. depth - 1 \in 0..Len(Order) /\ depth - 1 < Len(Order) /\ depth - 1 + 1 = depth
      BY <1>1, <2>1
    <3>2. /\ Beyond(depth - 1) = Beyond(depth) \cup {Order[depth]}
          /\ Order[depth] \in Services /\ Order[depth] \notin Beyond(depth)
      BY <3>1, Places
    <3>3. QED
      BY <1>1, <3>2, Places DEF Outside, Leaving
  <2>3. Outside' = Outside \cup {Leaving} /\ Apart' = Outside \cup {Leaving} /\ Apart = Outside
    BY <2>1, <2>2 DEF Outside, Apart, Beyond
  <2>4. ASSUME exc' = "none"
        PROVE  /\ exc = "none" /\ ~error
               /\ ~channel'[Leaving] /\ \A s \in Outside : channel'[s] = channel[s]
    BY <1>12, <2>2, <2>4 DEF Close, SessionInv, SessionTypeOK
  <2>5. QED
    BY <2>1, <2>3, <2>4 DEF SessionInv, StackClean
<1>13. CASE CloseLog
  <2>1. /\ phase = "leave" /\ phase' = "ended" /\ UNCHANGED <<info, channel, session, refused>>
        /\ UNCHANGED depth /\ UNCHANGED error
        /\ exc' = "none" => exc = "none"
    BY <1>13 DEF CloseLog
  <2>2. QED
    BY <1>13, <2>1, CleanKept
<1>14. CASE UNCHANGED sessionVars
  BY <1>14, CleanKept DEF sessionVars, where, failing
<1>15. QED
  BY <1>2, <1>3, <1>4, <1>5, <1>6, <1>7, <1>8, <1>9, <1>10, <1>11, <1>12, <1>13, <1>14
     DEF SessionNext

LEMMA SuccessStep == SessionInv /\ [SessionNext]_sessionVars => NothingLeftOpen'
<1> SUFFICES ASSUME SessionInv, [SessionNext]_sessionVars
             PROVE  NothingLeftOpen'
  OBVIOUS
<1>1. ASSUME phase' = "ended", NEW s \in Services, session'[s] = "open"
      PROVE  s \in refused'
  <2>1. depth' = 0
    BY <1>1, StackStep DEF StackFits
  <2>2. Outside' = Services
    BY <2>1, Places, SessionAssumption DEF Outside, Beyond
  <2>3. QED
    BY <1>1, <2>2, CleanStep DEF StackClean
<1>2. CASE CloseLog
  <2>1. ASSUME outcome' = "success"
        PROVE  exc' = "none" /\ exc = "none" /\ log' = "closed"
    <3>1. exc' \in {"none", "cancel", "body", "teardown"}
      BY TypeStep DEF SessionTypeOK
    <3>2. exc' = "none"
      BY <1>2, <2>1, <3>1 DEF CloseLog
    <3>3. QED
      BY <1>2, <3>2 DEF CloseLog
  <2>2. ASSUME outcome' = "success"
        PROVE  marker' /\ refused' = {} /\ ~error'
    <3>1. phase = "leave" /\ depth = 0 /\ marker' = marker /\ error' = error /\ refused' = refused
      BY <1>2 DEF CloseLog, serviceVars
    <3>2. marker
      BY <2>1, <2>2, <3>1 DEF SessionInv, RecordFits
    <3>3. ~error
      BY <3>1 DEF SessionInv, StackFits
    <3>4. refused = {}
      BY <2>1, <2>2, <3>3 DEF SessionInv, StackClean
    <3>5. QED
      BY <3>1, <3>2, <3>3, <3>4
  <2>3. Apart' = Services
    <3>1. phase' = "ended" /\ depth' = 0
      BY <1>2, StackStep DEF CloseLog, StackFits
    <3>2. QED
      BY <3>1, Places, SessionAssumption DEF Apart, Beyond
  <2>4. QED
    BY <1>1, <2>1, <2>2, <2>3, CleanStep DEF NothingLeftOpen, StackClean
<1>3. CASE UNCHANGED sessionVars
  BY <1>3 DEF SessionInv, NothingLeftOpen, sessionVars, where, failing, serviceVars, disk
<1>4. CASE ~CloseLog /\ SessionNext
  <2>1. outcome' # "success"
    BY <1>4 DEF SessionNext, Create, OpenLog, OpenConnection, Initialize, StartLoop, RunEventLoop,
                Evaluate, MarkComplete, Cleanup, CleanupCancelled, Close, Raised, SessionInv, RecordFits
  <2>2. QED
    BY <1>1, <2>1 DEF NothingLeftOpen
<1>5. QED
  BY <1>2, <1>3, <1>4

LEMMA SessionInvariant == SessionSpec => []SessionInv
<1>1. SessionInv /\ [SessionNext]_sessionVars => SessionInv'
  BY TypeStep, StackStep, CleanStep, SuccessStep DEF SessionInv
<1>2. QED
  BY <1>1, SessionStart, PTL DEF SessionSpec

(* However many services a rollout has and whichever of them keep a session, *)
(* one that was opened is closed or is known not to be, the log outlives the *)
(* sessions, only a clean rollout succeeds, and the first error is the one   *)
(* that is reported.                                                         *)
THEOREM SessionsAreClosed == SessionSpec => SessionsClosed
<1> DEFINE Promised ==
      /\ SessionTypeOK' /\ NothingLeftOpen'
      /\ depth' > 0 => log' = "open"
      /\ exc = "body" => exc' \in {"body", "cancel"} \/ depth = 0
<1>1. ASSUME SessionInv, SessionInv', [SessionNext]_sessionVars
      PROVE  [Promised]_sessionVars
  <2>1. depth' > 0 => log' = "open"
    BY <1>1, SessionAssumption DEF SessionInv, SessionTypeOK, StackFits, RecordFits
  <2>2. ASSUME exc = "body"
        PROVE  exc' \in {"body", "cancel"} \/ depth = 0
    BY <1>1, <2>2 DEF SessionNext, Create, OpenLog, OpenConnection, Initialize, StartLoop, RunEventLoop,
         Evaluate, MarkComplete, Cleanup, CleanupCancelled, Close, CloseLog, Raised, SessionInv,
         StackFits, sessionVars, failing
  <2>3. QED
    BY <1>1, <2>1, <2>2 DEF SessionInv
<1>2. QED
  BY <1>1, SessionInvariant, PTL DEF SessionSpec, SessionsClosed

(* Every rollout keeps the record that autoresume reads: its directory, then *)
(* its marker, then its result, of which success implies the marker.         *)
THEOREM RolloutKeepsRecord == SessionSpec => ImplementsRecord
<1> DEFINE shown == [r \in {"this"} |-> [dir |-> log # "absent", marker |-> marker, result |-> outcome]]
<1>1. SessionInit => Rec!RecordInit
  BY DEF SessionInit, Rec!RecordInit, Rec!Absent
<1>2. ASSUME SessionInv, [SessionNext]_sessionVars
      PROVE  [Rec!RecordNext]_shown
  <2>1. /\ "this" \in {"this"} /\ shown["this"] = [dir |-> log # "absent", marker |-> marker, result |-> outcome]
        /\ shown' = [shown EXCEPT !["this"] = [dir |-> log' # "absent", marker |-> marker', result |-> outcome']]
    OBVIOUS
  <2>2. CASE (log' # "absent" <=> log # "absent") /\ UNCHANGED marker /\ UNCHANGED outcome
    BY <2>2
  <2>3. CASE /\ log = "absent" /\ log' # "absent" /\ ~marker /\ outcome = "pending"
             /\ UNCHANGED marker /\ UNCHANGED outcome
    <3>1. shown["this"] = Rec!Absent
      <4>1. marker = FALSE /\ (log # "absent") = FALSE
        BY <1>2, <2>3 DEF SessionInv, SessionTypeOK
      <4>2. QED
        BY <2>1, <2>3, <4>1 DEF Rec!Absent
    <3>2. shown' = [shown EXCEPT !["this"].dir = TRUE]
      BY <2>3
    <3>3. QED
      BY <2>1, <3>1, <3>2 DEF Rec!RecordNext, Rec!Begin
  <2>4. CASE /\ log # "absent" /\ ~marker /\ marker' = TRUE /\ outcome = "pending"
             /\ UNCHANGED log /\ UNCHANGED outcome
    <3>1. shown["this"].dir /\ ~shown["this"].marker /\ shown["this"].result = "pending"
      BY <2>1, <2>4
    <3>2. shown' = [shown EXCEPT !["this"].marker = TRUE]
      BY <2>4
    <3>3. QED
      BY <2>1, <3>1, <3>2 DEF Rec!RecordNext, Rec!Mark
  <2>5. CASE /\ outcome = "pending" /\ outcome' \in {"success", "failure", "cancelled"}
             /\ outcome' = "success" => marker
             /\ (log' # "absent" <=> log # "absent") /\ UNCHANGED marker
    <3>1. shown["this"].result = "pending" /\ (outcome' = "success" => shown["this"].marker)
      BY <2>1, <2>5
    <3>2. shown' = [shown EXCEPT !["this"].result = outcome']
      BY <2>5
    <3>3. QED
      BY <2>1, <2>5, <3>1, <3>2 DEF Rec!RecordNext, Rec!End
  <2> DEFINE Same == (log' # "absent" <=> log # "absent") /\ UNCHANGED marker /\ UNCHANGED outcome
  <2>6. ASSUME OpenConnection \/ Initialize \/ StartLoop \/ RunEventLoop \/ Evaluate \/ Cleanup
               \/ CleanupCancelled \/ Close
        PROVE  Same
    BY <2>6 DEF OpenConnection, Initialize, StartLoop, RunEventLoop, Evaluate, Cleanup, CleanupCancelled,
                Close, disk
  <2>7. CASE Create
    BY <1>2, <2>2, <2>5, <2>7 DEF Create, Raised, disk, SessionInv, RecordFits
  <2>8. CASE OpenLog
    BY <1>2, <2>3, <2>5, <2>8 DEF OpenLog, Raised, SessionInv, RecordFits
  <2>9. CASE MarkComplete
    BY <1>2, <2>2, <2>4, <2>9 DEF MarkComplete, SessionInv, RecordFits
  <2>10. CASE CloseLog
    <3>1. exc' \in {"none", "teardown", "cancel", "body"}
      BY <1>2, TypeStep DEF SessionTypeOK
    <3>2. outcome' \in {"success", "failure", "cancelled"} /\ (outcome' = "success" => exc' = "none")
      BY <2>10, <3>1 DEF CloseLog
    <3>3. exc' = "none" => exc = "none"
      BY <2>10 DEF CloseLog
    <3>4. phase = "leave" /\ log' # "absent" /\ log # "absent" /\ UNCHANGED marker
      BY <1>2, <2>10 DEF CloseLog, SessionInv, RecordFits
    <3>5. QED
      BY <1>2, <2>5, <3>2, <3>3, <3>4 DEF SessionInv, RecordFits
  <2>11. CASE UNCHANGED sessionVars
    BY <2>2, <2>11 DEF sessionVars, disk
  <2>12. QED
    BY <1>2, <2>2, <2>6, <2>7, <2>8, <2>9, <2>10, <2>11 DEF SessionNext
<1>3. QED
  BY <1>1, <1>2, SessionInvariant, PTL DEF SessionSpec, ImplementsRecord, Rec!RecordSpec

----------------------------------------------------------------------------
(* The calls of a rollout                                                    *)

(* The calls that the shared count has to count. *)
Counted == {c \in Callers : callAt[c] \in {"awaiting", "ended", "decrementing"}}

(* Between reading the count and writing it a process holds the lock, and    *)
(* nobody else has written it.                                               *)
LockHeld ==
  \A c \in Callers : callAt[c] \in {"reading", "decrementing"} => lock = c /\ read[c] = count

(* An attempt is executed once at most, and after it was begun. *)
AttemptsBound ==
  \A c \in Callers :
    /\ attempt[c] <= MaxAttempts[c]
    /\ executed[c] <= attempt[c]
    /\ callAt[c] \in {"start", "reading", "awaiting"} => executed[c] < attempt[c]
    /\ callAt[c] = "sleeping" => attempt[c] < MaxAttempts[c]
    /\ callAt[c] = "done" /\ answer[c] = "unavailable" => attempt[c] = MaxAttempts[c]

RpcInv == RpcTypeOK /\ count = leaked + Cardinality(Counted) /\ LockHeld /\ AttemptsBound

LEMMA RpcStart == RpcInit => RpcInv
<1> SUFFICES ASSUME RpcInit
             PROVE  RpcInv
  OBVIOUS
<1>1. RpcTypeOK /\ LockHeld
  BY DEF RpcInit, RpcTypeOK, LockHeld
<1>2. Counted = {}
  BY DEF RpcInit, Counted
<1>3. count = leaked + Cardinality(Counted)
  BY <1>2, FS_EmptySet DEF RpcInit
<1>4. AttemptsBound
  BY RpcAssumption DEF RpcInit, AttemptsBound
<1>5. QED
  BY <1>1, <1>3, <1>4 DEF RpcInv

LEMMA CountedFinite ==
  ASSUME RpcTypeOK
  PROVE  IsFiniteSet(Counted) /\ Cardinality(Counted) \in Nat
BY RpcAssumption, FS_Subset, FS_CardinalityType DEF Counted

(* What a step of one caller does to the set of counted calls. *)
LEMMA CountedStep ==
  ASSUME RpcTypeOK, NEW c \in Callers, NEW at, callAt' = [callAt EXCEPT ![c] = at]
  PROVE  /\ at \in {"awaiting", "ended", "decrementing"} => Counted' = Counted \cup {c}
         /\ at \notin {"awaiting", "ended", "decrementing"} => Counted' = Counted \ {c}
BY DEF RpcTypeOK, Counted

LEMMA RpcTypeStep == RpcTypeOK /\ [RpcNext]_rpcVars => RpcTypeOK'
<1> SUFFICES ASSUME RpcTypeOK, [RpcNext]_rpcVars
             PROVE  RpcTypeOK'
  OBVIOUS
<1> USE DEF RpcTypeOK
<1>1. ASSUME NEW c \in Callers, CallerStep(c) \/ Kill(c)
      PROVE  RpcTypeOK'
  <2>1. CASE LockAndRead(c, "start", "reading")
    BY <1>1, <2>1 DEF LockAndRead
  <2>2. CASE LockAndRead(c, "ended", "decrementing")
    BY <1>1, <2>2 DEF LockAndRead
  <2>3. CASE Increment(c)
    BY <1>1, <2>3 DEF Increment
  <2>4. CASE Answer(c)
    BY <1>1, <2>4 DEF Answer
  <2>5. CASE Decrement(c)
    BY <1>1, <2>5 DEF Decrement
  <2>6. CASE WakeUp(c)
    BY <1>1, <2>6 DEF WakeUp
  <2>7. CASE Kill(c)
    BY <1>1, <2>7 DEF Kill
  <2>8. QED
    BY <1>1, <2>1, <2>2, <2>3, <2>4, <2>5, <2>6, <2>7 DEF CallerStep
<1>2. CASE UNCHANGED rpcVars
  BY <1>2 DEF rpcVars
<1>3. QED
  BY <1>1, <1>2 DEF RpcNext

LEMMA LockStep ==
  ASSUME RpcInv, NEW c \in Callers, CallerStep(c) \/ Kill(c)
  PROVE  LockHeld'
<1> USE RpcAssumption DEF RpcInv, RpcTypeOK, LockHeld
<1>1. CASE LockAndRead(c, "start", "reading")
  BY <1>1 DEF LockAndRead
<1>2. CASE LockAndRead(c, "ended", "decrementing")
  BY <1>2 DEF LockAndRead
<1>3. CASE Increment(c)
  BY <1>3 DEF Increment
<1>4. CASE Answer(c)
  BY <1>4 DEF Answer
<1>5. CASE Decrement(c)
  BY <1>5 DEF Decrement
<1>6. CASE WakeUp(c)
  BY <1>6 DEF WakeUp
<1>7. CASE Kill(c)
  BY <1>7 DEF Kill
<1>8. QED
  BY <1>1, <1>2, <1>3, <1>4, <1>5, <1>6, <1>7 DEF CallerStep

LEMMA CountStep ==
  ASSUME RpcInv, NEW c \in Callers, CallerStep(c) \/ Kill(c)
  PROVE  count' = leaked' + Cardinality(Counted')
<1>1. /\ IsFiniteSet(Counted) /\ Cardinality(Counted) \in Nat
      /\ count \in Nat /\ leaked \in Nat /\ count = leaked + Cardinality(Counted)
      /\ RpcTypeOK
  BY CountedFinite DEF RpcInv, RpcTypeOK
<1>2. /\ c \in Counted => /\ Cardinality(Counted \ {c}) = Cardinality(Counted) - 1
                          /\ Counted \cup {c} = Counted
      /\ c \notin Counted => /\ Cardinality(Counted \cup {c}) = Cardinality(Counted) + 1
                             /\ Counted \ {c} = Counted
  <2>1. c \in Counted => Cardinality(Counted \ {c}) = Cardinality(Counted) - 1
    BY <1>1, FS_RemoveElement
  <2>2. c \notin Counted => Cardinality(Counted \cup {c}) = Cardinality(Counted) + 1
    BY <1>1, FS_AddElement
  <2>3. (c \in Counted => Counted \cup {c} = Counted) /\ (c \notin Counted => Counted \ {c} = Counted)
    OBVIOUS
  <2>4. QED
    BY <2>1, <2>2, <2>3
<1>3. c \in Counted <=> callAt[c] \in {"awaiting", "ended", "decrementing"}
  BY DEF Counted
<1>4. CASE LockAndRead(c, "start", "reading")
  <2>1. c \notin Counted /\ count' = count /\ leaked' = leaked
    BY <1>3, <1>4 DEF LockAndRead
  <2>2. Counted' = Counted \ {c}
    BY <1>1, <1>4 DEF LockAndRead, RpcTypeOK, Counted
  <2>3. QED
    BY <1>1, <1>2, <2>1, <2>2
<1>5. CASE LockAndRead(c, "ended", "decrementing")
  BY <1>1, <1>2, <1>3, <1>5, CountedStep DEF LockAndRead
<1>6. CASE Increment(c)
  <2>1. count' = count + 1 /\ leaked' = leaked /\ c \notin Counted
    BY <1>3, <1>6 DEF Increment, RpcInv, LockHeld
  <2>2. Counted' = Counted \cup {c}
    BY <1>1, <1>6, CountedStep DEF Increment
  <2>3. QED
    BY <1>1, <1>2, <2>1, <2>2
<1>7. CASE Answer(c)
  BY <1>1, <1>2, <1>3, <1>7, CountedStep DEF Answer
<1>8. CASE Decrement(c)
  <2>1. read[c] = count /\ leaked' = leaked /\ c \in Counted
    BY <1>3, <1>8 DEF Decrement, RpcInv, LockHeld
  <2>2. Cardinality(Counted) > 0
    BY <1>1, <2>1, FS_EmptySet
  <2>3. count' = count - 1
    <3>1. count > 0
      BY <1>1, <2>2
    <3>2. count' = (IF read[c] > 0 THEN read[c] - 1 ELSE 0)
      BY <1>8 DEF Decrement
    <3>3. QED
      BY <1>1, <2>1, <3>1, <3>2
  <2>4. Counted' = Counted \ {c}
    BY <1>1, <1>8 DEF Decrement, RpcTypeOK, Counted
  <2>5. QED
    BY <1>1, <1>2, <2>1, <2>3, <2>4
<1>9. CASE WakeUp(c)
  <2>1. Counted' = Counted \ {c} /\ c \notin Counted
    BY <1>1, <1>3, <1>9, CountedStep DEF WakeUp
  <2>2. QED
    BY <1>1, <1>2, <1>9, <2>1 DEF WakeUp
<1>10. CASE Kill(c)
  <2>1. Counted' = Counted \ {c} /\ count' = count
    BY <1>1, <1>10 DEF Kill, RpcTypeOK, Counted
  <2>2. leaked' = IF c \in Counted THEN leaked + 1 ELSE leaked
    <3>1. leaked' = leaked + IF callAt[c] \in {"awaiting", "ended", "decrementing"} THEN 1 ELSE 0
      BY <1>10 DEF Kill
    <3>2. CASE c \in Counted
      BY <1>1, <1>3, <3>1, <3>2
    <3>3. CASE c \notin Counted
      BY <1>1, <1>3, <3>1, <3>3
    <3>4. QED
      BY <3>2, <3>3
  <2>3. CASE c \in Counted
    BY <1>1, <1>2, <2>1, <2>2, <2>3
  <2>4. CASE c \notin Counted
    BY <1>1, <1>2, <2>1, <2>2, <2>4
  <2>5. QED
    BY <2>3, <2>4
<1>11. QED
  BY <1>4, <1>5, <1>6, <1>7, <1>8, <1>9, <1>10, CallerStep(c) \/ Kill(c) DEF CallerStep

LEMMA AttemptsStep ==
  ASSUME RpcInv, NEW c \in Callers, CallerStep(c) \/ Kill(c)
  PROVE  AttemptsBound'
<1> USE RpcAssumption DEF RpcInv, RpcTypeOK, AttemptsBound
<1>1. CASE LockAndRead(c, "start", "reading")
  BY <1>1 DEF LockAndRead
<1>2. CASE LockAndRead(c, "ended", "decrementing")
  BY <1>2 DEF LockAndRead
<1>3. CASE Increment(c)
  BY <1>3 DEF Increment
<1>4. CASE Answer(c)
  BY <1>4 DEF Answer
<1>5. CASE Decrement(c)
  BY <1>5 DEF Decrement, Retries
<1>6. CASE WakeUp(c)
  BY <1>6 DEF WakeUp
<1>7. CASE Kill(c)
  BY <1>7 DEF Kill
<1>8. QED
  BY <1>1, <1>2, <1>3, <1>4, <1>5, <1>6, <1>7 DEF CallerStep

(* However many processes call a service, with whatever retries, and         *)
(* whichever of them are killed: the count they share loses no update, and a *)
(* call is executed at most as often as it may be attempted.                 *)
THEOREM CallsAreCounted == RpcSpec => []CallsCounted
<1>1. RpcInv /\ [RpcNext]_rpcVars => RpcInv'
  <2> SUFFICES ASSUME RpcInv, [RpcNext]_rpcVars
               PROVE  RpcInv'
    OBVIOUS
  <2>1. RpcTypeOK'
    BY RpcTypeStep DEF RpcInv
  <2>2. CASE UNCHANGED rpcVars
    <3>1. Counted' = Counted /\ LockHeld' = LockHeld /\ AttemptsBound' = AttemptsBound
      BY <2>2 DEF rpcVars, Counted, LockHeld, AttemptsBound
    <3>2. QED
      BY <2>1, <2>2, <3>1 DEF RpcInv, rpcVars
  <2>3. ASSUME NEW c \in Callers, CallerStep(c) \/ Kill(c)
        PROVE  RpcInv'
    BY <2>1, <2>3, LockStep, CountStep, AttemptsStep DEF RpcInv
  <2>4. QED
    BY <2>2, <2>3 DEF RpcNext
<1>2. RpcInv => CallsCounted
  <2> SUFFICES ASSUME RpcInv
               PROVE  CallsCounted
    OBVIOUS
  <2>1. ASSUME NEW c \in Callers
        PROVE  executed[c] <= MaxAttempts[c]
    BY <2>1, RpcAssumption DEF RpcInv, RpcTypeOK, AttemptsBound
  <2>2. QED
    BY <2>1 DEF RpcInv, AttemptsBound, Counted, CallsCounted
<1>3. QED
  BY <1>1, <1>2, RpcStart, PTL DEF RpcSpec

----------------------------------------------------------------------------
(* The pace of a rollout                                                     *)

Begun == [sim : Nat, wall : Nat, slept : BOOLEAN]

PacerTypeOK ==
  /\ factor \in Nat /\ uptime \in Nat /\ totalSleep \in Int /\ maximumLag \in Nat
  /\ anchor = <<>> \/ anchor \in Nat \X Nat
  /\ sleeping = <<>> \/ sleeping \in Nat \X Nat
  /\ begun \in Seq(Begun)

(* When an event is due by the first event. *)
DueAt(t) == begun[1].wall + (t - begun[1].sim) \div factor

(* The first event is the anchor, and the loop sleeps until an event is due. *)
Anchored ==
  factor > 0 =>
    /\ anchor = <<>> => begun = <<>> /\ sleeping = <<>>
    /\ anchor # <<>> => begun # <<>> /\ anchor = <<begun[1].sim, begun[1].wall>>
    /\ sleeping # <<>> => sleeping[2] = DueAt(sleeping[1])

PacerInv == PacerTypeOK /\ (factor = 0 => anchor = <<>> /\ sleeping = <<>>) /\ Anchored /\ EventsPaced

LEMMA QuotientType ==
  ASSUME NEW a \in Int, NEW b \in Nat, b > 0
  PROVE  a \div b \in Int
OBVIOUS

LEMMA FirstBegun ==
  ASSUME PacerTypeOK, begun # <<>>
  PROVE  begun[1] \in Begun /\ begun[1].sim \in Nat /\ begun[1].wall \in Nat
<1>1. begun \in Seq(Begun) /\ 1 \in 1..Len(begun)
  BY DEF PacerTypeOK
<1>2. begun[1] \in Begun
  BY <1>1
<1>3. QED
  BY <1>2 DEF Begun

LEMMA DueType ==
  ASSUME PacerTypeOK, begun # <<>>, factor > 0, NEW t \in Nat
  PROVE  DueAt(t) \in Int
<1>1. t - begun[1].sim \in Int /\ begun[1].wall \in Int
  BY FirstBegun
<1>2. (t - begun[1].sim) \div factor \in Int
  BY <1>1, QuotientType DEF PacerTypeOK
<1>3. QED
  BY <1>1, <1>2 DEF DueAt

(* An event that begins no earlier than it is due, and is late no more than  *)
(* is reported.                                                              *)
LEMMA PacedAppend ==
  ASSUME PacerInv, factor > 0, begun # <<>>, UNCHANGED factor,
         maximumLag' \in Nat, maximumLag <= maximumLag',
         NEW t \in Nat, NEW start \in Nat, NEW slept \in BOOLEAN,
         begun' = Append(begun, [sim |-> t, wall |-> start, slept |-> slept]),
         DueAt(t) <= start,
         start - DueAt(t) <= IF slept THEN Oversleep ELSE maximumLag'
  PROVE  EventsPaced' /\ begun'[1] = begun[1] /\ begun' # <<>> /\ begun' \in Seq(Begun)
<1> DEFINE new == [sim |-> t, wall |-> start, slept |-> slept]
<1>1. /\ Len(begun) \in Nat /\ Len(begun) > 0 /\ DOMAIN begun = 1..Len(begun)
      /\ new \in Begun /\ begun \in Seq(Begun)
  BY DEF PacerInv, PacerTypeOK, Begun
<1>2. /\ begun' \in Seq(Begun) /\ DOMAIN begun' = 1..Len(begun) + 1
      /\ begun'[Len(begun) + 1] = new
      /\ \A k \in 1..Len(begun) : begun'[k] = begun[k]
  BY <1>1
<1>3. begun'[1] = begun[1] /\ begun' # <<>>
  BY <1>1, <1>2
<1> DEFINE late(k) == begun'[k].wall - DueAt(begun'[k].sim)
           bound(k) == IF begun'[k].slept THEN Oversleep ELSE maximumLag'
<1>4. ASSUME NEW k \in 1..Len(begun)
      PROVE  0 <= late(k) /\ late(k) <= bound(k)
  <2>1. /\ 0 <= begun[k].wall - DueAt(begun[k].sim)
        /\ begun[k].wall - DueAt(begun[k].sim) <= IF begun[k].slept THEN Oversleep ELSE maximumLag
    BY <1>1, <1>4 DEF PacerInv, EventsPaced, DueAt
  <2>2. begun[1] \in Begun /\ begun[k] \in Begun
    <3>1. 1 \in 1..Len(begun)
      BY <1>1
    <3>2. QED
      BY <1>1, <1>4, <3>1
  <2>3. DueAt(begun[k].sim) \in Int
    <3>1. begun[k].sim \in Nat
      BY <2>2 DEF Begun
    <3>2. QED
      BY <3>1, DueType DEF PacerInv
  <2>4. begun'[k] = begun[k]
    BY <1>2, <1>4
  <2> HIDE DEF new
  <2>5. CASE begun[k].slept
    BY <2>1, <2>2, <2>3, <2>4, <2>5, WallClockAssumption DEF Begun
  <2>6. CASE ~begun[k].slept
    <3>1. maximumLag \in Nat
      BY DEF PacerInv, PacerTypeOK
    <3>2. QED
      BY <2>1, <2>2, <2>3, <2>4, <2>6, <3>1 DEF Begun
  <2>7. QED
    BY <2>5, <2>6
<1>5. 0 <= late(Len(begun) + 1) /\ late(Len(begun) + 1) <= bound(Len(begun) + 1)
  <2>1. DueAt(t) \in Int
    BY DueType DEF PacerInv
  <2>2. QED
    BY <1>2, <2>1
<1>6. ASSUME NEW k \in DOMAIN begun'
      PROVE  0 <= late(k) /\ late(k) <= bound(k)
  BY <1>1, <1>2, <1>4, <1>5, <1>6
<1>7. EventsPaced'
  <2>1. \A k \in DOMAIN begun' :
          DueAt(begun'[k].sim) = begun'[1].wall + (begun'[k].sim - begun'[1].sim) \div factor'
    BY <1>3 DEF DueAt
  <2>2. QED
    BY <1>6, <2>1 DEF EventsPaced
<1>8. QED
  BY <1>2, <1>3, <1>7

LEMMA PacerStart == PacerInit => PacerInv
<1> SUFFICES ASSUME PacerInit
             PROVE  PacerInv
  OBVIOUS
<1>1. factor \in Nat
  BY WallClockAssumption DEF PacerInit
<1>2. begun = <<>> /\ <<>> \in Seq(Begun) /\ DOMAIN begun = {}
  BY DEF PacerInit
<1>3. PacerTypeOK
  BY <1>1, <1>2 DEF PacerInit, PacerTypeOK
<1>4. QED
  BY <1>1, <1>2, <1>3 DEF PacerInit, PacerInv, Anchored, EventsPaced

LEMMA PacerStep == PacerInv /\ [PacerNext]_pacerVars => PacerInv'
<1> SUFFICES ASSUME PacerInv, [PacerNext]_pacerVars
             PROVE  PacerInv'
  OBVIOUS
<1>1. /\ factor \in Nat /\ uptime \in Nat /\ totalSleep \in Int /\ maximumLag \in Nat
      /\ begun \in Seq(Begun) /\ Len(begun) \in Nat
      /\ SimTimes \subseteq Nat /\ Costs \subseteq Nat /\ Oversleep \in Nat
  BY WallClockAssumption DEF PacerInv, PacerTypeOK
<1>2. begun # <<>> => begun[1].sim \in Nat /\ begun[1].wall \in Nat
  BY FirstBegun DEF PacerInv
<1>4. ASSUME NEW t \in SimTimes, Unpaced(t)
      PROVE  PacerInv'
  <2>1. /\ factor = 0 /\ factor' = 0 /\ UNCHANGED anchor /\ UNCHANGED totalSleep
        /\ UNCHANGED maximumLag /\ UNCHANGED sleeping /\ uptime' \in Nat
    BY <1>1, <1>4 DEF Unpaced, Handle
  <2>2. begun' \in Seq(Begun)
    <3>1. [sim |-> t, wall |-> uptime, slept |-> FALSE] \in Begun
      BY <1>1 DEF Begun
    <3>2. QED
      BY <1>1, <1>4, <3>1 DEF Unpaced, Handle
  <2>3. QED
    BY <2>1, <2>2 DEF PacerInv, PacerTypeOK, Anchored, EventsPaced
<1>5. ASSUME NEW t \in SimTimes, SetAnchor(t)
      PROVE  PacerInv'
  <2> DEFINE new == [sim |-> t, wall |-> uptime, slept |-> FALSE]
  <2>1. /\ factor > 0 /\ factor' = factor /\ anchor = <<>> /\ anchor' = <<t, uptime>>
        /\ UNCHANGED totalSleep /\ UNCHANGED maximumLag /\ UNCHANGED sleeping
        /\ uptime' \in Nat /\ begun' = Append(begun, new)
    BY <1>1, <1>5 DEF SetAnchor, Handle
  <2>2. begun = <<>> /\ sleeping = <<>>
    BY <2>1 DEF PacerInv, Anchored
  <2>3. begun' = <<new>> /\ new \in Begun /\ t \in Nat
    BY <1>1, <2>1, <2>2 DEF Begun
  <2>4. begun' \in Seq(Begun) /\ DOMAIN begun' = {1} /\ begun'[1] = new /\ begun' # <<>>
    BY <2>3
  <2>5. PacerTypeOK'
    BY <1>1, <2>1, <2>2, <2>3, <2>4 DEF PacerTypeOK
  <2>6. Anchored'
    BY <2>1, <2>2, <2>4 DEF Anchored
  <2>7. EventsPaced'
    <3>1. (t - t) \div factor = 0
      BY <1>1, <2>1, <2>3
    <3>2. begun'[1].sim = t /\ begun'[1].wall = uptime /\ ~begun'[1].slept
      BY <2>4
    <3>3. \A k \in DOMAIN begun' : k = 1
      BY <2>4
    <3>4. QED
      <4>1. (begun'[1].sim - begun'[1].sim) \div factor' = 0
        BY <2>1, <3>1, <3>2
      <4>2. /\ 0 <= uptime - (uptime + 0) /\ uptime - (uptime + 0) <= maximumLag'
        BY <1>1, <2>1
      <4>3. QED
        BY <3>2, <3>3, <4>1, <4>2 DEF EventsPaced
  <2>8. QED
    BY <1>1, <2>1, <2>5, <2>6, <2>7 DEF PacerInv
<1>6. ASSUME NEW t \in SimTimes, factor > 0, anchor # <<>>
      PROVE  begun # <<>> /\ SleepFor(t) \in Int /\ DueAt(t) = uptime + SleepFor(t)
  <2>1. begun # <<>> /\ anchor[1] = begun[1].sim /\ anchor[2] = begun[1].wall
    BY <1>6 DEF PacerInv, Anchored
  <2> DEFINE q == (t - begun[1].sim) \div factor
  <2>2. q \in Int
    BY <1>1, <1>2, <1>6, <2>1
  <2>3. SleepFor(t) = q - (uptime - begun[1].wall) /\ DueAt(t) = begun[1].wall + q
    BY <2>1 DEF SleepFor, DueAt
  <2> HIDE DEF q
  <2>4. QED
    BY <1>1, <1>2, <2>1, <2>2, <2>3
<1>7. ASSUME NEW t \in SimTimes, BeginSleep(t)
      PROVE  PacerInv'
  <2>1. /\ factor > 0 /\ anchor # <<>> /\ SleepFor(t) > 0 /\ sleeping' = <<t, uptime + SleepFor(t)>>
        /\ UNCHANGED factor /\ UNCHANGED uptime /\ UNCHANGED anchor /\ UNCHANGED totalSleep
        /\ UNCHANGED maximumLag /\ UNCHANGED begun
    BY <1>7 DEF BeginSleep
  <2>2. begun # <<>> /\ SleepFor(t) \in Int /\ DueAt(t) = uptime + SleepFor(t)
    BY <1>6, <2>1
  <2>3. sleeping' \in Nat \X Nat /\ sleeping'[2] = DueAt(sleeping'[1])
    BY <1>1, <2>1, <2>2
  <2>4. PacerTypeOK' /\ EventsPaced'
    <3>1. PacerTypeOK'
      BY <2>1, <2>3 DEF PacerInv, PacerTypeOK
    <3>2. EventsPaced'
      BY <2>1 DEF PacerInv, EventsPaced
    <3>3. QED
      BY <3>1, <3>2
  <2>5. sleeping'[1] = t /\ sleeping'[2] = begun[1].wall + (t - begun[1].sim) \div factor
    BY <2>1, <2>2 DEF DueAt
  <2>6. Anchored'
    <3>1. factor' > 0 /\ anchor' # <<>> /\ begun' # <<>> /\ anchor' = <<begun'[1].sim, begun'[1].wall>>
      BY <2>1, <2>2 DEF PacerInv, Anchored
    <3>2. sleeping'[2] = begun'[1].wall + (sleeping'[1] - begun'[1].sim) \div factor'
      BY <2>1, <2>5
    <3>3. QED
      BY <3>1, <3>2 DEF Anchored, DueAt
  <2>7. QED
    BY <1>1, <2>1, <2>4, <2>6 DEF PacerInv
<1>8. CASE EndSleep
  <2>1. /\ sleeping # <<>> /\ sleeping' = <<>> /\ totalSleep' = totalSleep + sleeping[2] - uptime
        /\ UNCHANGED factor /\ UNCHANGED anchor /\ UNCHANGED maximumLag
    BY <1>8 DEF EndSleep
  <2>2. sleeping[1] \in Nat /\ sleeping[2] \in Nat
    BY <2>1 DEF PacerInv, PacerTypeOK
  <2>3. factor > 0 /\ begun # <<>> /\ anchor # <<>> /\ sleeping[2] = DueAt(sleeping[1])
    BY <1>1, <2>1 DEF PacerInv, Anchored
  <2>4. PICK over \in 0 .. Oversleep : Handle(sleeping[1], sleeping[2] + over, TRUE)
    BY <1>8 DEF EndSleep
  <2>5. /\ begun' = Append(begun, [sim |-> sleeping[1], wall |-> sleeping[2] + over, slept |-> TRUE])
        /\ uptime' \in Nat /\ totalSleep' \in Int /\ over \in Nat
    <3>1. over \in Nat /\ sleeping[2] + over \in Nat
      BY <1>1, <2>2, <2>4
    <3>2. PICK cost \in Costs : uptime' = sleeping[2] + over + cost
      BY <2>4 DEF Handle
    <3>3. cost \in Nat
      BY <1>1, <3>2
    <3>4. uptime' \in Nat
      BY <3>1, <3>2, <3>3
    <3>5. totalSleep' \in Int
      BY <1>1, <2>1, <2>2
    <3>6. QED
      BY <2>4, <3>1, <3>4, <3>5 DEF Handle
  <2>6. sleeping[2] + over \in Nat /\ sleeping[2] <= sleeping[2] + over
        /\ sleeping[2] + over - sleeping[2] <= Oversleep
    BY <1>1, <2>2, <2>4, <2>5
  <2>7. EventsPaced' /\ begun'[1] = begun[1] /\ begun' # <<>> /\ begun' \in Seq(Begun)
    <3>1. maximumLag' \in Nat /\ maximumLag <= maximumLag' /\ TRUE \in BOOLEAN
      BY <1>1, <2>1
    <3> DEFINE start == sleeping[2] + over
    <3>2. start - DueAt(sleeping[1]) <= IF TRUE THEN Oversleep ELSE maximumLag'
      <4>1. start - DueAt(sleeping[1]) <= Oversleep
        BY <2>2, <2>3, <2>6
      <4>2. QED
        BY <4>1
    <3>3. start \in Nat /\ DueAt(sleeping[1]) <= start
      BY <2>3, <2>6
    <3>4. begun' = Append(begun, [sim |-> sleeping[1], wall |-> start, slept |-> TRUE])
      BY <2>5
    <3> HIDE DEF start
    <3>5. QED
      BY <2>1, <2>2, <2>3, <3>1, <3>2, <3>3, <3>4, PacedAppend
  <2>8. PacerTypeOK'
    BY <1>1, <2>1, <2>5, <2>7 DEF PacerInv, PacerTypeOK
  <2>9. Anchored'
    BY <2>1, <2>3, <2>7 DEF PacerInv, Anchored
  <2>10. QED
    BY <1>1, <2>1, <2>3, <2>7, <2>8, <2>9 DEF PacerInv
<1>9. ASSUME NEW t \in SimTimes, Lag(t)
      PROVE  PacerInv'
  <2>1. /\ factor > 0 /\ anchor # <<>> /\ SleepFor(t) <= 0 /\ t \in Nat
        /\ maximumLag' = IF -SleepFor(t) > maximumLag THEN -SleepFor(t) ELSE maximumLag
        /\ UNCHANGED factor /\ UNCHANGED anchor /\ UNCHANGED totalSleep /\ UNCHANGED sleeping
        /\ begun' = Append(begun, [sim |-> t, wall |-> uptime, slept |-> FALSE])
        /\ uptime' \in Nat /\ sleeping = <<>>
    BY <1>1, <1>9 DEF Lag, Handle, MayPop
  <2>2. begun # <<>> /\ SleepFor(t) \in Int /\ DueAt(t) = uptime + SleepFor(t)
    BY <1>6, <2>1
  <2>3. /\ maximumLag' \in Nat /\ maximumLag <= maximumLag' /\ DueAt(t) <= uptime
        /\ uptime - DueAt(t) <= maximumLag'
    BY <1>1, <2>1, <2>2
  <2>4. EventsPaced' /\ begun'[1] = begun[1] /\ begun' # <<>> /\ begun' \in Seq(Begun)
    <3>1. uptime - DueAt(t) <= IF FALSE THEN Oversleep ELSE maximumLag'
      BY <2>3
    <3>2. QED
      BY <1>1, <2>1, <2>2, <2>3, <3>1, PacedAppend
  <2>5. PacerTypeOK'
    BY <1>1, <2>1, <2>3, <2>4 DEF PacerInv, PacerTypeOK
  <2>6. Anchored'
    BY <2>1, <2>2, <2>4 DEF PacerInv, Anchored
  <2>7. QED
    BY <1>1, <2>1, <2>4, <2>5, <2>6 DEF PacerInv
<1>10. CASE UNCHANGED pacerVars
  BY <1>10 DEF pacerVars, PacerInv, PacerTypeOK, Anchored, EventsPaced, DueAt
<1>11. QED
  BY <1>4, <1>5, <1>7, <1>8, <1>9, <1>10 DEF PacerNext

(* Whatever the handlers cost and however late a sleep ends, the wall clock  *)
(* is never behind the simulation by more than the lag that is reported.     *)
THEOREM LoopIsPaced == PacerSpec => []EventsPaced
BY PacerStart, PacerStep, PTL DEF PacerSpec, PacerInv

=============================================================================
