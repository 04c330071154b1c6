--------------------------- MODULE Services_proofs --------------------------
(***************************************************************************)
(* Proofs about what a rollout talks to: the controller's session, the     *)
(* exporters to the bridge, the video-model renderer, physics and the      *)
(* traffic service.  Each section is about one module and uses no other's  *)
(* variables.                                                              *)
(***************************************************************************)
EXTENDS ActorTracks, ControllerSession, TcpExporter, VideoPrefetch, Grounding, SequenceTheorems,
        FiniteSetTheorems, NaturalsInduction, WellFoundedInduction, TLAPS
----------------------------------------------------------------------------
(* The controller (ControllerSession)                                        *)

(* The session can take the next step: it stands where the runtime does.     *)
ReadyToStep ==
  /\ entry # "absent"
  /\ entry = "created" => clock = at /\ Min(poses) < at

(* How far the conversation is, and what the service has made of it.         *)
ConversationFits ==
  /\ stage = "new" => inbox = <<>> /\ answer = NoAnswer /\ entry = "absent"
  /\ stage = "start" =>
       \/ inbox = <<Request("start")>> /\ answer = NoAnswer /\ entry = "absent"
       \/ inbox = <<>> /\ answer.kind = "done" /\ entry = "registered"
       \/ inbox = <<>> /\ answer.kind = "failed" /\ entry \in {"absent", "registered"}
  /\ stage = "idle" => inbox = <<>> /\ answer = NoAnswer /\ ReadyToStep
  /\ stage = "run" =>
       \/ inbox = <<Request("run")>> /\ answer = NoAnswer /\ ReadyToStep
       \/ /\ inbox = <<>> /\ answer.kind = "done" /\ entry = "created"
          /\ clock = at + cadence.step /\ Max(answer.times) = clock
       \/ inbox = <<>> /\ answer.kind = "failed"
  /\ stage = "close" =>
       \/ inbox = <<Request("start"), Request("close")>> /\ answer = NoAnswer /\ entry = "absent"
       \/ inbox = <<Request("run"), Request("close")>> /\ answer = NoAnswer /\ ReadyToStep
       \/ inbox = <<Request("close")>> /\ answer = NoAnswer
       \/ inbox = <<>> /\ answer.kind = "done" /\ entry = "absent"
       \/ inbox = <<>> /\ answer.kind = "failed"
  /\ stage = "over" =>
       inbox = <<>> /\ answer.kind # "done" /\ (answer.kind = "none" => entry = "absent")

(* The vehicle: between the runtime's time and the end of its step, with the *)
(* MPC's runs and the runtime's steps behind it.                             *)
VehicleFits ==
  /\ entry # "created" => mpcRuns = {}
  /\ entry = "created" =>
       /\ poses \subseteq Nat /\ clock \in poses /\ \A t \in poses : t <= clock
       /\ at <= clock /\ clock <= at + cadence.step
       /\ mpcRuns = Every(Min(poses), DtMpc, clock)
       /\ Min(poses) <= at /\ (at - Min(poses)) % cadence.step = 0
       /\ \A t \in Min(poses) .. at : (t - Min(poses)) % cadence.step = 0 => t \in poses

ControllerInv ==
  /\ cadence \in Cadences /\ at \in Nat
  /\ entry \in {"absent", "registered", "created"}
  /\ stage \in {"new", "start", "idle", "run", "close", "over"}
  /\ ConversationFits /\ VehicleFits

LEMMA Quotients ==
  ASSUME NEW d \in Nat \ {0}, NEW x \in Int
  PROVE  /\ x % d = 0 => \E q \in Int : x = q * d
         /\ \A q \in Int : x = q * d => x % d = 0
<1>1. ASSUME x % d = 0
      PROVE  \E q \in Int : x = q * d
  BY <1>1
<1>2. ASSUME NEW q \in Int, x = q * d
      PROVE  x % d = 0
  BY <1>2
<1>3. QED
  BY <1>1, <1>2

LEMMA Multiples ==
  ASSUME NEW d \in Nat \ {0}, NEW x \in Int, NEW y \in Int, NEW z \in Int,
         x = y + z, y % d = 0, x % d = 0 \/ z % d = 0
  PROVE  x % d = 0 /\ z % d = 0
<1>1. PICK p \in Int : y = p * d
  BY Quotients
<1>2. CASE z % d = 0
  <2>1. PICK q \in Int : z = q * d
    BY <1>2, Quotients
  <2> DEFINE k == p + q
  <2>2. k \in Int /\ x = k * d
    BY <1>1, <2>1
  <2> HIDE DEF k
  <2>3. QED
    BY <1>2, <2>2, Quotients
<1>3. CASE x % d = 0
  <2>1. PICK q \in Int : x = q * d
    BY <1>3, Quotients
  <2> DEFINE k == q - p
  <2>2. k \in Int /\ z = k * d
    BY <1>1, <2>1
  <2> HIDE DEF k
  <2>3. QED
    BY <1>3, <2>2, Quotients
<1>4. QED
  BY <1>2, <1>3

LEMMA MultiplesApart ==
  ASSUME NEW d \in Nat \ {0}, NEW x \in Int, x % d = 0, 0 < x
  PROVE  d <= x
<1>1. PICK q \in Int : x = q * d
  BY Quotients
<1>2. 0 < q
  <2>1. q <= 0 => q * d <= 0
    OBVIOUS
  <2>2. QED
    BY <1>1, <2>1
<1>3. 1 * d <= q * d
  BY <1>2
<1>4. QED
  BY <1>1, <1>3

LEMMA TrivialMultiples ==
  ASSUME NEW d \in Nat \ {0}
  PROVE  0 % d = 0 /\ d % d = 0
OBVIOUS

LEMMA GreatestIs ==
  ASSUME NEW S \in SUBSET Int, NEW m \in S, \A x \in S : x <= m
  PROVE  Max(S) = m
<1>1. \A x \in S : (\A y \in S : x >= y) => x = m
  OBVIOUS
<1>2. \A y \in S : m >= y
  OBVIOUS
<1>3. QED
  BY <1>1, <1>2 DEF Max

LEMMA SmallestIs ==
  ASSUME NEW S \in SUBSET Int, NEW m \in S, \A x \in S : m <= x
  PROVE  Min(S) = m
<1>1. \A x \in S : (\A y \in S : x <= y) => x = m
  OBVIOUS
<1>2. QED
  BY <1>1 DEF Min

LEMMA SmallestExists ==
  ASSUME NEW P \in SUBSET Nat, P # {}
  PROVE  Min(P) \in P /\ \A k \in P : Min(P) <= k
<1> DEFINE R == OpToRel(<, Nat)
<1>1. P \subseteq Nat
  OBVIOUS
<1>2. IsWellFoundedOn(R, Nat)
  BY NatLessThanWellFounded
<1>3. PICK i \in P : \A k \in P : ~(<<k, i>> \in R)
  BY <1>1, <1>2, WFMin
<1>4. \A k \in P : ~(k < i)
  BY <1>1, <1>3 DEF OpToRel
<1>5. \A k \in P : i <= k
  BY <1>1, <1>4
<1>6. QED
  BY <1>5 DEF Min

LEMMA GreatestExists ==
  ASSUME NEW b \in Nat, NEW P \in SUBSET (0 .. b), P # {}
  PROVE  Max(P) \in P /\ \A k \in P : k <= Max(P)
<1> DEFINE D == {b - k : k \in P}
<1>1. D \in SUBSET Nat /\ D # {}
  <2>1. D \subseteq Nat
    OBVIOUS
  <2>2. D # {}
    OBVIOUS
  <2>3. QED
    BY <2>1, <2>2
<1>2. PICK d \in D : \A e \in D : d <= e
  BY <1>1, SmallestExists
<1>3. PICK m \in P : d = b - m
  OBVIOUS
<1>4. \A k \in P : k <= m
  <2> SUFFICES ASSUME NEW k \in P
               PROVE  k <= m
    OBVIOUS
  <2>1. b - m <= b - k
    BY <1>2, <1>3
  <2>2. QED
    BY <2>1
<1>5. Max(P) = m
  <2>1. P \subseteq Int
    OBVIOUS
  <2>2. QED
    BY <1>4, <2>1, GreatestIs
<1>6. QED
  BY <1>4, <1>5

(* The MPC's clock: what has run are the times every d from f on before now; *)
(* the next ones continue them up to any time.                               *)
LEMMA ClockContinues ==
  ASSUME NEW d \in Nat \ {0}, NEW f \in Nat, NEW now \in Nat, NEW future \in Nat, f < now,
         now < future
  PROVE  LET ran == Every(f, d, now)
             next == Every(Max(ran) + d, d, future)
         IN  /\ ran # {} /\ next \subseteq Nat /\ \A t \in next : now <= t /\ t < future
             /\ \A until \in Nat : now <= until /\ until <= future =>
                  ran \cup {t \in next : t < until} = Every(f, d, until)
<1> DEFINE ran == Every(f, d, now)
<1>1. ran = {t \in f .. now - 1 : (t - f) % d = 0}
  BY DEF Every
<1>2. ran \in SUBSET (0 .. now)
  BY <1>1
<1>3. f \in ran
  <2>1. f \in f .. now - 1 /\ f - f = 0
    OBVIOUS
  <2>2. 0 % d = 0
    BY TrivialMultiples
  <2>3. QED
    BY <1>1, <2>1, <2>2
<1> HIDE DEF ran
<1>4. PICK last : last = Max(ran)
  OBVIOUS
<1>5. last \in ran /\ \A t \in ran : t <= last
  BY <1>2, <1>3, <1>4, GreatestExists
<1>6. last \in f .. now - 1 /\ (last - f) % d = 0
  BY <1>1, <1>5
<1> DEFINE next == Every(last + d, d, future)
<1>7. next = {t \in last + d .. future - 1 : (t - (last + d)) % d = 0}
  BY DEF Every
<1> HIDE DEF next
<1>8. ASSUME NEW t \in Int
      PROVE  /\ (t - f) % d = 0 <=> (t - (last + d)) % d = 0
             /\ (t - f) % d = 0 /\ last < t => last + d <= t
  <2> DEFINE a == last - f
             b == t - last
             c == t - f
             e == t - (last + d)
  <2>1. a \in Int /\ b \in Int /\ c \in Int /\ e \in Int /\ a % d = 0
    BY <1>6
  <2>2. c = a + b /\ b = d + e
    BY <1>6
  <2>3. (0 < b <=> last < t) /\ (d <= b <=> last + d <= t)
    BY <1>6
  <2> HIDE DEF a, b, c, e
  <2> DEFINE Whole(v) == v % d = 0
  <2>4. Whole(d) /\ d \in Int
    BY TrivialMultiples
  <2>5. \A x, y, z \in Int : x = y + z /\ Whole(y) /\ (Whole(x) \/ Whole(z)) => Whole(x) /\ Whole(z)
    BY Multiples
  <2>6. \A x \in Int : Whole(x) /\ 0 < x => d <= x
    BY MultiplesApart
  <2>7. Whole(a)
    BY <2>1
  <2> HIDE DEF Whole
  <2>8. Whole(c) <=> Whole(b)
    BY <2>1, <2>2, <2>5, <2>7
  <2>9. Whole(b) <=> Whole(e)
    BY <2>1, <2>2, <2>4, <2>5
  <2>10. Whole(b) /\ 0 < b => d <= b
    BY <2>1, <2>6
  <2>11. (Whole(c) <=> Whole(e)) /\ (Whole(c) /\ last < t => last + d <= t)
    BY <2>3, <2>8, <2>9, <2>10
  <2>12. QED
    BY <2>11 DEF Whole, c, e
<1>9. last + d \in Nat /\ last < last + d /\ f <= last
  BY <1>6
<1>10. ASSUME NEW t \in next
       PROVE  t \in Nat /\ now <= t /\ t < future
  <2>1. t \in Int /\ last + d <= t /\ t < future /\ (t - (last + d)) % d = 0
    BY <1>6, <1>7
  <2>2. (t - f) % d = 0 /\ f <= t
    BY <1>6, <1>8, <1>9, <2>1
  <2>3. ~(t < now)
    <3>1. ASSUME t < now
          PROVE  FALSE
      <4>1. t \in f .. now - 1
        BY <2>1, <2>2, <3>1
      <4>2. t <= last
        BY <1>1, <1>5, <2>2, <4>1
      <4>3. QED
        BY <1>6, <2>1, <4>2
    <3>2. QED
      BY <3>1
  <2>4. QED
    BY <2>1, <2>2, <2>3
<1>11. ASSUME NEW until \in Nat, now <= until, until <= future
       PROVE  ran \cup {t \in next : t < until} = Every(f, d, until)
  <2> DEFINE E == Every(f, d, until)
  <2>1. E = {t \in f .. until - 1 : (t - f) % d = 0}
    BY DEF Every
  <2> HIDE DEF E
  <2>2. ASSUME NEW t \in E
        PROVE  t \in ran \cup {u \in next : u < until}
    <3>1. t \in f .. until - 1 /\ (t - f) % d = 0
      BY <2>1
    <3>2. CASE t < now
      <4>1. t \in f .. now - 1
        BY <3>1, <3>2
      <4>2. QED
        BY <1>1, <3>1, <4>1
    <3>3. CASE ~(t < now)
      <4>1. t \in Int /\ now <= t /\ t < until /\ t <= future - 1
        BY <1>11, <3>1, <3>3
      <4>2. last + d <= t /\ (t - (last + d)) % d = 0
        BY <1>6, <1>8, <3>1, <4>1
      <4>3. t \in last + d .. future - 1
        BY <1>6, <4>1, <4>2
      <4>4. QED
        BY <1>7, <4>1, <4>2, <4>3
    <3>4. QED
      BY <3>2, <3>3
  <2>3. ran \subseteq E
    <3>1. f .. now - 1 \subseteq f .. until - 1
      BY <1>11
    <3>2. QED
      BY <1>1, <2>1, <3>1
  <2>4. ASSUME NEW t \in next, t < until
        PROVE  t \in E
    <3>1. t \in Int /\ last + d <= t /\ (t - (last + d)) % d = 0
      BY <1>6, <1>7
    <3>2. (t - f) % d = 0 /\ f <= t
      BY <1>6, <1>8, <1>9, <3>1
    <3>3. t \in f .. until - 1
      BY <2>4, <3>1, <3>2
    <3>4. QED
      BY <2>1, <3>2, <3>3
  <2>5. QED
    BY <2>2, <2>3, <2>4 DEF E
<1>12. QED
  BY <1>3, <1>4, <1>10, <1>11 DEF ran, next

LEMMA CadenceType ==
  ASSUME ControllerInv
  PROVE  cadence.step \in Nat \ {0} /\ cadence.report \in Nat /\ DtMpc \in Nat \ {0} /\ at \in Nat
BY ControllerAssumption DEF ControllerInv

(* The MPC's next times, on the first call and on a later one.               *)
LEMMA RunsGoOn ==
  ASSUME ControllerInv, ReadyToStep, NEW r, r = Request("run")
  PROVE  LET f == IF entry = "registered" THEN at ELSE Min(poses)
         IN  /\ f \in Nat /\ f <= at
             /\ Runs(r) = MpcRunTimes(r)
             /\ \A t \in MpcRunTimes(r) : t \in Nat /\ at <= t /\ t < at + cadence.step
             /\ \A until \in Nat : at <= until /\ until <= at + cadence.step =>
                  mpcRuns \cup {t \in Runs(r) : t < until} = Every(f, DtMpc, until)
<1> DEFINE f == IF entry = "registered" THEN at ELSE Min(poses)
           future == at + cadence.step
           N == MpcRunTimes(r)
<1>1. r.now = at /\ r.future = future /\ r.report = cadence.report
  BY DEF Request
<1>2. /\ at \in Nat /\ future \in Nat /\ at < future /\ DtMpc \in Nat \ {0}
  BY CadenceType
<1>3. Runs(r) = N
  BY DEF Runs, Targets
<1>4. CASE entry = "registered"
  <2>1. f = at /\ mpcRuns = {} /\ N = Every(at, DtMpc, future)
    BY <1>1, <1>4 DEF MpcRunTimes, ControllerInv, VehicleFits
  <2>2. N = {t \in at .. future - 1 : (t - at) % DtMpc = 0}
    BY <1>2, <2>1 DEF Every
  <2>3. \A t \in N : t \in Nat /\ at <= t /\ t < future
    BY <1>2, <2>2
  <2>4. ASSUME NEW until \in Nat, at <= until, until <= future
        PROVE  {t \in N : t < until} = Every(at, DtMpc, until)
    <3>1. Every(at, DtMpc, until) = {t \in at .. until - 1 : (t - at) % DtMpc = 0}
      BY <1>2 DEF Every
    <3>2. at .. until - 1 = {t \in at .. future - 1 : t < until}
      BY <1>2, <2>4
    <3>3. QED
      BY <2>2, <3>1, <3>2
  <2>5. QED
    BY <1>2, <1>3, <2>1, <2>3, <2>4
<1>5. CASE entry = "created"
  <2>1. f = Min(poses) /\ clock = at /\ f < at /\ mpcRuns = Every(f, DtMpc, at)
    BY <1>5 DEF ControllerInv, VehicleFits, ReadyToStep
  <2>2. f \in Nat
    <3>1. poses \in SUBSET Nat /\ poses # {}
      BY <1>5 DEF ControllerInv, VehicleFits
    <3>2. QED
      BY <2>1, <3>1, SmallestExists
  <2> HIDE DEF f
  <2> DEFINE ran == Every(f, DtMpc, at)
             next == Every(Max(ran) + DtMpc, DtMpc, future)
  <2>3. /\ ran # {} /\ next \subseteq Nat /\ \A t \in next : at <= t /\ t < future
        /\ \A until \in Nat : at <= until /\ until <= future =>
             ran \cup {t \in next : t < until} = Every(f, DtMpc, until)
    <3> HIDE DEF future
    <3>1. QED
      BY <1>2, <2>1, <2>2, ClockContinues
  <2>4. N = next /\ mpcRuns = ran
    BY <1>1, <2>1, <2>3 DEF MpcRunTimes
  <2>5. QED
    BY <1>3, <2>1, <2>2, <2>3, <2>4, <1>2 DEF f
<1>6. QED
  BY <1>4, <1>5 DEF ReadyToStep, ControllerInv

LEMMA VehicleSteps ==
  ASSUME ControllerInv, ReadyToStep, NEW r, r = Request("run"), NEW until,
         until = r.future \/ until \in Runs(r), SteppedTo(r, until), UNCHANGED clientVars
  PROVE  VehicleFits' /\ entry' = "created" /\ clock' = until
<1> DEFINE f == IF entry = "registered" THEN at ELSE Min(poses)
           future == at + cadence.step
           before == IF entry = "registered" THEN {at} ELSE poses
           T == {t \in Targets(r) : t <= until}
<1>1. r.now = at /\ r.future = future /\ r.report = cadence.report /\ UNCHANGED at /\ UNCHANGED cadence
  BY DEF Request, clientVars
<1>2. /\ at \in Nat /\ future \in Nat /\ at < future /\ cadence.step \in Nat \ {0}
  BY CadenceType
<1>3. /\ f \in Nat /\ f <= at /\ Runs(r) = MpcRunTimes(r)
      /\ \A t \in MpcRunTimes(r) : t \in Nat /\ at <= t /\ t < future
      /\ \A u \in Nat : at <= u /\ u <= future =>
           mpcRuns \cup {t \in Runs(r) : t < u} = Every(f, DtMpc, u)
  BY RunsGoOn
<1>4. /\ until \in Nat /\ at <= until /\ until <= future
  BY <1>1, <1>2, <1>3
<1>5. \A t \in Targets(r) : t \in Nat /\ at < t
  <2>1. \A t \in Reports(r) : t \in Nat /\ at < t
    <3>1. Reports(r) \subseteq (at .. future - 1) \ {at}
      BY <1>1 DEF Reports, Every
    <3>2. QED
      BY <1>2, <3>1
  <2>2. \A t \in MpcRunTimes(r) \ {at} : t \in Nat /\ at < t
    BY <1>2, <1>3
  <2>3. Targets(r) = (MpcRunTimes(r) \ {at}) \cup Reports(r) \cup {future}
    BY <1>1 DEF Targets
  <2>4. QED
    BY <1>2, <2>1, <2>2, <2>3
<1>6. until \in T \/ until = at
  <2>1. until \in Targets(r) \/ until = at
    BY <1>1, <1>3 DEF Targets
  <2>2. QED
    BY <1>4, <2>1
<1>7. /\ before \subseteq Nat /\ at \in before /\ \A t \in before : t <= at
      /\ f \in before /\ \A t \in before : f <= t
      /\ (at - f) % cadence.step = 0
      /\ \A t \in f .. at : (t - f) % cadence.step = 0 => t \in before
  <2>1. CASE entry = "registered"
    <3>1. f = at /\ before = {at}
      BY <2>1
    <3>2. 0 % cadence.step = 0
      BY <1>2, TrivialMultiples
    <3> HIDE DEF f, before
    <3>3. at - f = 0 /\ \A t \in f .. at : t = at
      BY <1>2, <3>1
    <3>4. QED
      BY <1>2, <3>1, <3>2, <3>3
  <2>2. CASE entry # "registered"
    <3>1. entry = "created" /\ clock = at /\ f = Min(poses) /\ before = poses
      BY <2>2 DEF ReadyToStep, ControllerInv
    <3>2. poses \in SUBSET Nat /\ poses # {}
      BY <3>1 DEF ControllerInv, VehicleFits
    <3>3. Min(poses) \in poses /\ \A t \in poses : Min(poses) <= t
      BY <3>2, SmallestExists
    <3> HIDE DEF f, before
    <3>4. QED
      BY <3>1, <3>2, <3>3 DEF ControllerInv, VehicleFits
  <2>3. QED
    BY <2>1, <2>2
<1>8. /\ entry' = "created" /\ clock' = until /\ poses' = before \cup T
      /\ mpcRuns' = Every(f, DtMpc, until)
  BY <1>1, <1>3, <1>4 DEF SteppedTo
<1>9. \A t \in T : t \in Nat /\ f <= t /\ t <= until
  <2>1. \A t \in T : t \in Nat /\ at < t /\ t <= until
    BY <1>5
  <2> HIDE DEF f, T
  <2>2. QED
    BY <1>2, <1>3, <2>1
<1> HIDE DEF f, before, T
<1>10. /\ poses' \subseteq Nat /\ f \in poses' /\ until \in poses'
       /\ \A t \in poses' : f <= t /\ t <= until
  <2>1. \A t \in before : t \in Nat /\ f <= t /\ t <= until
    BY <1>2, <1>4, <1>7
  <2>2. \A t \in poses' : t \in Nat /\ f <= t /\ t <= until
    BY <1>8, <1>9, <2>1
  <2>3. QED
    BY <1>6, <1>7, <1>8, <2>2
<1>11. Min(poses') = f
  <2>1. poses' \in SUBSET Int
    BY <1>10
  <2>2. QED
    BY <1>10, <2>1, SmallestIs
<1>12. QED
  BY <1>1, <1>3, <1>4, <1>7, <1>8, <1>10, <1>11 DEF VehicleFits

(* The vehicle does not change where nothing of it and of the runtime's time *)
(* does.                                                                     *)
LEMMA VehicleStays ==
  ASSUME VehicleFits, UNCHANGED entry, UNCHANGED clock, UNCHANGED poses, UNCHANGED mpcRuns,
         UNCHANGED at, UNCHANGED cadence
  PROVE  VehicleFits'
BY DEF VehicleFits

(* What the server makes of a step of a session that is ready for it.        *)
LEMMA StepServed ==
  ASSUME ControllerInv, ReadyToStep, NEW r, r = Request("run"), NEW result,
         RunVehicle(r, result) \/ RunRaises(r, result), UNCHANGED clientVars
  PROVE  /\ VehicleFits' /\ entry' = "created"
         /\ \/ result = Failed
            \/ /\ result.kind = "done" /\ clock' = at + cadence.step
               /\ Max(result.times) = at + cadence.step
<1>1. CASE RunVehicle(r, result)
  <2>1. SteppedTo(r, r.future) /\ result = Done(Reports(r) \cup {r.future})
    BY <1>1 DEF RunVehicle
  <2>2. VehicleFits' /\ entry' = "created" /\ clock' = r.future
    BY <2>1, VehicleSteps
  <2>3. r.now = at /\ r.future = at + cadence.step
    BY DEF Request
  <2>4. at \in Nat /\ cadence.step \in Nat
    BY CadenceType
  <2>5. Max(Reports(r) \cup {r.future}) = r.future
    <3>1. Reports(r) \subseteq r.now .. r.future - 1
      BY DEF Reports, Every
    <3>2. Reports(r) \cup {r.future} \in SUBSET Int /\ r.future \in Int
      BY <2>3, <2>4, <3>1
    <3>3. \A t \in Reports(r) \cup {r.future} : t <= r.future
      BY <2>3, <2>4, <3>1
    <3>4. QED
      BY <3>2, <3>3, GreatestIs
  <2>6. result.kind = "done" /\ result.times = Reports(r) \cup {r.future}
    BY <2>1 DEF Done
  <2>7. QED
    BY <2>2, <2>3, <2>5, <2>6
<1>2. CASE RunRaises(r, result)
  <2>1. PICK until \in Runs(r) : SteppedTo(r, until)
    BY <1>2 DEF RunRaises
  <2>2. VehicleFits' /\ entry' = "created"
    BY <2>1, VehicleSteps
  <2>3. QED
    BY <1>2, <2>2 DEF RunRaises
<1>3. QED
  BY <1>1, <1>2

(* What the server makes of any request it may meet, and what the runtime    *)
(* hears of it.                                                              *)
LEMMA RequestServed ==
  ASSUME ControllerInv, NEW kind \in {"start", "run", "close"}, Serve(Request(kind)),
         UNCHANGED clientVars, kind = "start" => entry = "absent", kind = "run" => ReadyToStep
  PROVE  /\ VehicleFits' /\ entry' \in {"absent", "registered", "created"}
         /\ kind = "start" => entry' = "registered"
         /\ stage # kind => answer' = answer
         /\ stage = kind => answer'.kind \in {"failed", "done"}
         /\ stage = kind /\ answer'.kind = "done" =>
              /\ kind = "run" => /\ entry' = "created" /\ clock' = at + cadence.step
                                 /\ Max(answer'.times) = at + cadence.step
              /\ kind = "close" => entry' = "absent"
<1> DEFINE r == Request(kind)
<1>1. r.kind = kind
  BY DEF Request
<1>2. PICK result \in {Done(Reports(r) \cup {r.future}), Done({}), Failed} :
        /\ RunVehicle(r, result) \/ RunRaises(r, result) \/ Register(r, result)
             \/ Deregister(r, result) \/ Refuse(r, result)
        /\ answer' \in IF r.kind = stage THEN {result, Failed} ELSE {answer}
  BY DEF Serve
<1>3. /\ stage # kind => answer' = answer
      /\ stage = kind => answer' \in {result, Failed}
  BY <1>1, <1>2
<1>4. result.kind \in {"failed", "done"} /\ Failed.kind = "failed" /\ Done({}).kind = "done"
  BY <1>2 DEF Done, Failed
<1>5. UNCHANGED at /\ UNCHANGED cadence
  BY DEF clientVars
<1> HIDE DEF r
<1>6. /\ VehicleFits' /\ entry' \in {"absent", "registered", "created"}
      /\ kind = "start" => entry' = "registered"
      /\ result.kind = "done" =>
           /\ kind = "run" => /\ entry' = "created" /\ clock' = at + cadence.step
                              /\ Max(result.times) = at + cadence.step
           /\ kind = "close" => entry' = "absent"
  <2>1. CASE RunVehicle(r, result) \/ RunRaises(r, result)
    <3>1. kind = "run"
      BY <1>1, <2>1 DEF RunVehicle, RunRaises
    <3>2. r = Request("run")
      BY <3>1 DEF r
    <3>3. /\ VehicleFits' /\ entry' = "created"
          /\ \/ result = Failed
             \/ /\ result.kind = "done" /\ clock' = at + cadence.step
                /\ Max(result.times) = at + cadence.step
      BY <2>1, <3>1, <3>2, StepServed
    <3>4. QED
      BY <1>4, <3>1, <3>3
  <2>2. CASE Register(r, result)
    <3>1. kind = "start" /\ entry' = "registered" /\ mpcRuns' = mpcRuns /\ entry = "absent"
      BY <1>1, <2>2 DEF Register
    <3>2. VehicleFits'
      BY <3>1 DEF VehicleFits, ControllerInv
    <3>3. QED
      BY <3>1, <3>2
  <2>3. CASE Deregister(r, result)
    <3>1. kind = "close" /\ entry' = "absent" /\ mpcRuns' = {}
      BY <1>1, <2>3 DEF Deregister
    <3>2. VehicleFits'
      BY <3>1 DEF VehicleFits
    <3>3. QED
      BY <3>1, <3>2
  <2>4. CASE Refuse(r, result)
    <3>1. /\ result = Failed /\ UNCHANGED entry /\ UNCHANGED clock /\ UNCHANGED poses
          /\ UNCHANGED mpcRuns /\ kind # "start"
      BY <1>1, <2>4 DEF Refuse, serverVars
    <3>2. VehicleFits'
      BY <1>5, <3>1, VehicleStays DEF ControllerInv
    <3>3. QED
      BY <1>4, <3>1, <3>2 DEF ControllerInv
  <2>5. QED
    BY <1>2, <2>1, <2>2, <2>3, <2>4
<1>7. QED
  BY <1>3, <1>4, <1>6

LEMMA Queues ==
  ASSUME NEW a, NEW b
  PROVE  /\ Head(<<a>>) = a /\ Tail(<<a>>) = <<>> /\ <<a>> # <<>>
         /\ Head(<<a, b>>) = a /\ Tail(<<a, b>>) = <<b>> /\ <<a, b>> # <<>>
         /\ Append(<<>>, a) = <<a>> /\ Append(<<a>>, b) = <<a, b>>
<1>1. Head(<<a>>) = a /\ <<a>> # <<>> /\ Head(<<a, b>>) = a /\ <<a, b>> # <<>>
  OBVIOUS
<1>2. Tail(<<a>>) = <<>>
  OBVIOUS
<1>3. Tail(<<a, b>>) = <<b>>
  OBVIOUS
<1>4. Append(<<>>, a) = <<a>>
  OBVIOUS
<1>5. Append(<<a>>, b) = <<a, b>>
  <2> DEFINE S == {a, b}
             s == <<a>>
             t == Append(s, b)
             u == <<a, b>>
  <2>1. s \in Seq(S) /\ u \in Seq(S) /\ b \in S /\ Len(s) = 1 /\ s[1] = a
    OBVIOUS
  <2>2. Len(u) = 2 /\ u[1] = a /\ u[2] = b
    OBVIOUS
  <2> HIDE DEF S, s, u
  <2>3. \A m \in S : \A i \in 1 .. Len(s) : Append(s, m)[i] = s[i]
    BY <2>1, AppendProperties
  <2>4. /\ t \in Seq(S) /\ Len(t) = Len(s) + 1 /\ t[Len(s) + 1] = b
        /\ \A i \in 1 .. Len(s) : t[i] = s[i]
    <3>1. t \in Seq(S) /\ Len(t) = Len(s) + 1 /\ t[Len(s) + 1] = b
      BY <2>1, AppendProperties
    <3> QED
      BY <2>1, <2>3, <3>1
  <2> HIDE DEF t
  <2>5. Len(t) = 2 /\ t[1] = a /\ t[2] = b
    BY <2>1, <2>4
  <2>6. \A i \in 1 .. Len(t) : t[i] = u[i]
    BY <2>2, <2>5
  <2>7. t = u
    BY <2>1, <2>2, <2>4, <2>5, <2>6, SeqEqual
  <2>8. QED
    BY <2>7 DEF s, t, u
<1>6. QED
  BY <1>1, <1>2, <1>3, <1>4, <1>5

(* What is in flight: nothing, or one request or two, the first of which can *)
(* be met.                                                                   *)
LEMMA InFlight ==
  ASSUME ControllerInv, inbox # <<>>
  PROVE  /\ answer = NoAnswer
         /\ \/ /\ stage \in {"start", "run", "close"} /\ inbox = <<Request(stage)>>
               /\ stage = "start" => entry = "absent"
               /\ stage = "run" => ReadyToStep
            \/ /\ stage = "close"
               /\ \E kind \in {"start", "run"} :
                    /\ inbox = <<Request(kind), Request("close")>>
                    /\ kind = "start" => entry = "absent"
                    /\ kind = "run" => ReadyToStep
BY DEF ControllerInv, ConversationFits

LEMMA RequestsStay ==
  ASSUME UNCHANGED at, UNCHANGED cadence
  PROVE  \A kind : Request(kind)' = Request(kind)
BY DEF Request

LEMMA ControllerServes ==
  ASSUME ControllerInv, ServerStep
  PROVE  ControllerInv'
<1>1. /\ UNCHANGED cadence /\ UNCHANGED at /\ UNCHANGED stage /\ UNCHANGED clientVars
      /\ inbox # <<>> /\ Serve(Head(inbox)) /\ inbox' = Tail(inbox)
  BY DEF ServerStep, clientVars
<1>2. \A kind : Request(kind)' = Request(kind)
  BY <1>1, RequestsStay
<1>3. cadence' \in Cadences /\ at' \in Nat /\ stage' \in {"new", "start", "idle", "run", "close", "over"}
  BY <1>1 DEF ControllerInv
<1>4. NoAnswer.kind = "none"
  BY DEF NoAnswer
<1>5. CASE /\ stage \in {"start", "run", "close"} /\ inbox = <<Request(stage)>>
           /\ stage = "start" => entry = "absent"
           /\ stage = "run" => ReadyToStep
  <2>1. Serve(Request(stage)) /\ inbox' = <<>>
    BY <1>1, <1>5, Queues
  <2>2. /\ VehicleFits' /\ entry' \in {"absent", "registered", "created"}
        /\ stage = "start" => entry' = "registered"
        /\ answer'.kind \in {"failed", "done"}
        /\ answer'.kind = "done" =>
             /\ stage = "run" => /\ entry' = "created" /\ clock' = at + cadence.step
                                 /\ Max(answer'.times) = at + cadence.step
             /\ stage = "close" => entry' = "absent"
    BY <1>1, <1>5, <2>1, RequestServed
  <2>3. ConversationFits'
    BY <1>1, <1>5, <2>1, <2>2 DEF ConversationFits
  <2>4. QED
    BY <1>3, <2>2, <2>3 DEF ControllerInv
<1>6. ASSUME stage = "close", NEW kind \in {"start", "run"},
             inbox = <<Request(kind), Request("close")>>,
             kind = "start" => entry = "absent", kind = "run" => ReadyToStep
      PROVE  ControllerInv'
  <2>1. Serve(Request(kind)) /\ inbox' = <<Request("close")>>
    BY <1>1, <1>6, Queues
  <2>2. /\ VehicleFits' /\ entry' \in {"absent", "registered", "created"} /\ answer' = answer
    BY <1>1, <1>6, <2>1, RequestServed
  <2>3. answer' = NoAnswer
    BY <1>1, <2>2, InFlight
  <2>4. ConversationFits'
    BY <1>1, <1>2, <1>6, <2>1, <2>3 DEF ConversationFits, NoAnswer
  <2>5. QED
    BY <1>3, <2>2, <2>4 DEF ControllerInv
<1>7. QED
  BY <1>1, <1>5, <1>6, InFlight

LEMMA ControllerLoses ==
  ASSUME ControllerInv, Lose
  PROVE  ControllerInv'
<1>1. /\ UNCHANGED cadence /\ UNCHANGED at /\ UNCHANGED stage /\ UNCHANGED entry
      /\ UNCHANGED clock /\ UNCHANGED poses /\ UNCHANGED mpcRuns
      /\ inbox # <<>> /\ inbox' = Tail(inbox)
      /\ answer' = IF Head(inbox).kind = stage THEN Failed ELSE answer
  BY DEF Lose, clientVars, serverVars
<1>2. \A kind : Request(kind)' = Request(kind) /\ Request(kind).kind = kind
  BY <1>1, RequestsStay DEF Request
<1>3. VehicleFits'
  BY <1>1, VehicleStays DEF ControllerInv
<1>4. Failed.kind = "failed" /\ NoAnswer.kind = "none"
  BY DEF Failed, NoAnswer
<1>5. CASE /\ stage \in {"start", "run", "close"} /\ inbox = <<Request(stage)>>
           /\ stage = "start" => entry = "absent"
           /\ stage = "run" => ReadyToStep
  <2>1. answer' = Failed /\ inbox' = <<>>
    BY <1>1, <1>2, <1>5, Queues
  <2>2. ConversationFits'
    BY <1>1, <1>4, <1>5, <2>1 DEF ConversationFits
  <2>3. QED
    BY <1>1, <1>3, <2>2 DEF ControllerInv
<1>6. ASSUME stage = "close", NEW kind \in {"start", "run"},
             inbox = <<Request(kind), Request("close")>>
      PROVE  ControllerInv'
  <2>1. inbox' = <<Request("close")>> /\ answer' = NoAnswer
    BY <1>1, <1>2, <1>6, Queues, InFlight
  <2>2. ConversationFits'
    BY <1>1, <1>2, <1>6, <2>1, <1>4 DEF ConversationFits
  <2>3. QED
    BY <1>1, <1>3, <2>2 DEF ControllerInv
<1>7. QED
  BY <1>1, <1>5, <1>6, InFlight

(* A call of the runtime changes nothing but what is in flight.              *)
LEMMA ControllerCalls ==
  ASSUME ControllerInv, NEW kind, Call(kind)
  PROVE  /\ UNCHANGED cadence /\ UNCHANGED at /\ UNCHANGED entry /\ VehicleFits'
         /\ cadence' \in Cadences /\ at' \in Nat /\ entry' \in {"absent", "registered", "created"}
         /\ stage' = kind /\ answer' = NoAnswer /\ inbox' = Append(inbox, Request(kind))
         /\ \A k : Request(k)' = Request(k)
         /\ ReadyToStep => ReadyToStep'
<1>1. /\ UNCHANGED cadence /\ UNCHANGED at /\ UNCHANGED entry /\ UNCHANGED clock
      /\ UNCHANGED poses /\ UNCHANGED mpcRuns
  BY DEF Call, serverVars
<1>2. VehicleFits'
  BY <1>1, VehicleStays DEF ControllerInv
<1>3. \A k : Request(k)' = Request(k)
  BY <1>1, RequestsStay
<1>4. ReadyToStep => ReadyToStep'
  BY <1>1 DEF ReadyToStep
<1>5. QED
  BY <1>1, <1>2, <1>3, <1>4 DEF Call, ControllerInv

LEMMA ControllerStarts ==
  ASSUME ControllerInv, StartController
  PROVE  ControllerInv'
<1>1. stage = "new" /\ Call("start")
  BY DEF StartController
<1>2. inbox = <<>> /\ entry = "absent"
  BY <1>1 DEF ControllerInv, ConversationFits
<1>3. inbox' = <<Request("start")>>
  BY <1>1, <1>2, ControllerCalls, Queues
<1>4. ConversationFits'
  BY <1>1, <1>2, <1>3, ControllerCalls DEF ConversationFits
<1>5. QED
  BY <1>1, <1>4, ControllerCalls DEF ControllerInv

LEMMA ControllerAsksForStep ==
  ASSUME ControllerInv, RunController
  PROVE  ControllerInv'
<1>1. stage = "idle" /\ Call("run")
  BY DEF RunController
<1>2. inbox = <<>> /\ ReadyToStep
  BY <1>1 DEF ControllerInv, ConversationFits
<1>3. inbox' = <<Request("run")>>
  BY <1>1, <1>2, ControllerCalls, Queues
<1>4. ConversationFits'
  BY <1>1, <1>2, <1>3, ControllerCalls DEF ConversationFits
<1>5. QED
  BY <1>1, <1>4, ControllerCalls DEF ControllerInv

LEMMA ControllerCleansUp ==
  ASSUME ControllerInv, CleanUp
  PROVE  ControllerInv'
<1>1. stage \in {"start", "idle", "run"} /\ Call("close")
  BY DEF CleanUp
<1>2. /\ stage' = "close" /\ answer' = NoAnswer /\ inbox' = Append(inbox, Request("close"))
      /\ \A k : Request(k)' = Request(k)
      /\ UNCHANGED entry
      /\ ReadyToStep => ReadyToStep'
  BY <1>1, ControllerCalls
<1>3. ConversationFits'
  <2>1. CASE inbox = <<>>
    <3>1. inbox' = <<Request("close")>>
      BY <1>2, <2>1, Queues
    <3>2. QED
      BY <1>2, <3>1 DEF ConversationFits
  <2>2. CASE inbox # <<>>
    <3>1. \/ inbox = <<Request("start")>> /\ entry = "absent"
          \/ inbox = <<Request("run")>> /\ ReadyToStep
      BY <1>1, <2>2 DEF ControllerInv, ConversationFits
    <3>2. \/ inbox' = <<Request("start"), Request("close")>> /\ entry = "absent"
          \/ inbox' = <<Request("run"), Request("close")>> /\ ReadyToStep
      BY <1>2, <3>1, Queues
    <3>3. QED
      BY <1>2, <3>2 DEF ConversationFits
  <2>3. QED
    BY <2>1, <2>2
<1>4. QED
  BY <1>1, <1>3, ControllerCalls DEF ControllerInv

LEMMA ControllerCleanUpFails ==
  ASSUME ControllerInv, CleanUpFails
  PROVE  ControllerInv'
<1>1. /\ stage = "close" /\ answer.kind = "failed" /\ stage' = "over"
      /\ UNCHANGED cadence /\ UNCHANGED at /\ UNCHANGED entry /\ UNCHANGED clock
      /\ UNCHANGED poses /\ UNCHANGED mpcRuns /\ UNCHANGED inbox /\ UNCHANGED answer
  BY DEF CleanUpFails, serverVars
<1>2. VehicleFits'
  BY <1>1, VehicleStays DEF ControllerInv
<1>3. inbox = <<>>
  BY <1>1 DEF ControllerInv, ConversationFits, NoAnswer
<1>4. ConversationFits'
  BY <1>1, <1>3 DEF ConversationFits
<1>5. QED
  BY <1>1, <1>2, <1>4 DEF ControllerInv

(* Between the runtime's time and the end of its step there is no other      *)
(* end of a step.                                                            *)
LEMMA NextStepEnds ==
  ASSUME NEW d \in Nat \ {0}, NEW f \in Nat, NEW now \in Nat, f <= now, (now - f) % d = 0
  PROVE  /\ (now + d - f) % d = 0
         /\ \A t \in f .. now + d : (t - f) % d = 0 => t \in f .. now \/ t = now + d
<1>1. ASSUME NEW t \in Int
      PROVE  /\ (t - f) % d = 0 <=> (t - now) % d = 0
  <2> DEFINE a == now - f
             b == t - now
             c == t - f
  <2>1. a \in Int /\ b \in Int /\ c \in Int /\ a % d = 0 /\ c = a + b
    OBVIOUS
  <2> HIDE DEF a, b, c
  <2>2. ASSUME c % d = 0
        PROVE  b % d = 0
    BY <2>1, <2>2, Multiples
  <2>3. ASSUME b % d = 0
        PROVE  c % d = 0
    BY <2>1, <2>3, Multiples
  <2>4. QED
    BY <2>2, <2>3 DEF b, c
<1>2. (now + d - f) % d = 0
  <2> DEFINE e == now + d
  <2>1. e \in Int /\ e - now = d /\ e - f = now + d - f
    OBVIOUS
  <2> HIDE DEF e
  <2>2. d % d = 0
    BY TrivialMultiples
  <2>3. (e - f) % d = 0
    BY <1>1, <2>1, <2>2
  <2>4. QED
    BY <2>1, <2>3
<1>3. ASSUME NEW t \in f .. now + d, (t - f) % d = 0
      PROVE  t \in f .. now \/ t = now + d
  <2> DEFINE b == t - now
  <2>1. t \in Int /\ f <= t /\ t <= now + d /\ b \in Int
    OBVIOUS
  <2>2. b % d = 0
    BY <1>1, <1>3, <2>1
  <2>3. (0 < b <=> now < t) /\ (d <= b <=> now + d <= t)
    BY <2>1
  <2> HIDE DEF b
  <2>4. 0 < b => d <= b
    BY <2>1, <2>2, MultiplesApart
  <2>5. QED
    BY <2>1, <2>3, <2>4
<1>4. QED
  BY <1>2, <1>3

LEMMA ControllerAnswered ==
  ASSUME ControllerInv, Answered
  PROVE  ControllerInv'
<1>1. /\ stage \in {"start", "run", "close"} /\ answer.kind = "done"
      /\ stage' = IF stage = "close" THEN "over" ELSE "idle"
      /\ at' = IF stage = "run" THEN Max(answer.times) ELSE at
      /\ answer' = NoAnswer
      /\ UNCHANGED cadence /\ UNCHANGED entry /\ UNCHANGED clock /\ UNCHANGED poses
      /\ UNCHANGED mpcRuns /\ UNCHANGED inbox
  BY DEF Answered, serverVars
<1>2. NoAnswer.kind = "none" /\ inbox' = <<>>
  BY <1>1 DEF NoAnswer, ControllerInv, ConversationFits
<1>3. CASE stage # "run"
  <2>1. UNCHANGED at
    BY <1>1, <1>3
  <2>2. VehicleFits'
    BY <1>1, <2>1, VehicleStays DEF ControllerInv
  <2>3. /\ stage = "start" => entry = "registered"
        /\ stage = "close" => entry = "absent"
    BY <1>1, <1>2 DEF ControllerInv, ConversationFits
  <2>4. ConversationFits'
    BY <1>1, <1>2, <1>3, <2>3 DEF ConversationFits, ReadyToStep
  <2>5. QED
    BY <1>1, <2>1, <2>2, <2>4 DEF ControllerInv
<1>4. CASE stage = "run"
  <2> DEFINE f == Min(poses)
             d == cadence.step
  <2>1. /\ entry = "created" /\ clock = at + d /\ at' = clock
    BY <1>1, <1>2, <1>4 DEF ControllerInv, ConversationFits
  <2>2. /\ poses \subseteq Nat /\ clock \in poses /\ \A t \in poses : t <= clock
        /\ mpcRuns = Every(f, DtMpc, clock)
        /\ f <= at /\ (at - f) % d = 0
        /\ \A t \in f .. at : (t - f) % d = 0 => t \in poses
    BY <2>1 DEF ControllerInv, VehicleFits
  <2>3. f \in Nat
    <3>1. poses \in SUBSET Nat /\ poses # {}
      BY <2>2
    <3>2. QED
      BY <3>1, SmallestExists
  <2>4. at \in Nat /\ d \in Nat \ {0}
    BY CadenceType
  <2>5. f = Min(poses)'
    BY <1>1
  <2>6. d = cadence'.step
    BY <1>1
  <2> HIDE DEF f, d
  <2>7. /\ (at + d - f) % d = 0
        /\ \A t \in f .. at + d : (t - f) % d = 0 => t \in f .. at \/ t = at + d
    BY <2>2, <2>3, <2>4, NextStepEnds
  <2>8. at' \in Nat /\ f < at' /\ at' <= clock /\ clock <= at' + d
    BY <2>1, <2>2, <2>3, <2>4
  <2>9. \A t \in f .. at' : (t - f) % d = 0 => t \in poses
    BY <2>1, <2>2, <2>7
  <2>10. VehicleFits'
    <3>1. at' = at + d /\ (at' - f) % d = 0 /\ f <= at'
      BY <2>1, <2>3, <2>4, <2>7, <2>8
    <3>2. entry' = "created" /\ clock' = clock /\ poses' = poses /\ mpcRuns' = mpcRuns
      BY <1>1, <2>1
    <3>3. QED
      BY <2>2, <2>5, <2>6, <2>8, <2>9, <3>1, <3>2 DEF VehicleFits
  <2>11. ReadyToStep'
    BY <1>1, <2>1, <2>5, <2>8 DEF ReadyToStep
  <2>12. ConversationFits'
    BY <1>1, <1>2, <1>4, <2>11 DEF ConversationFits
  <2>13. QED
    BY <1>1, <2>8, <2>10, <2>12 DEF ControllerInv
<1>5. QED
  BY <1>3, <1>4

(* Every reachable state of a session and its runtime fits: the vehicle is   *)
(* between the runtime's time and the end of its step, the MPC has run on a  *)
(* clock of its own, and each stage of the conversation knows what is in     *)
(* flight and what the service has made of it (the loop of                   *)
(* run_controller_and_vehicle and the three handlers of the server).         *)
THEOREM ControllerFits == ControllerSpec => []ControllerInv
<1>1. ControllerInit => ControllerInv
  <2> SUFFICES ASSUME ControllerInit
               PROVE  ControllerInv
    OBVIOUS
  <2>1. /\ entry = "absent" /\ mpcRuns = {} /\ cadence \in Cadences /\ at \in Nat
        /\ stage = "new" /\ inbox = <<>> /\ answer = NoAnswer
    BY DEF ControllerInit
  <2>2. QED
    BY <2>1 DEF ControllerInv, ConversationFits, VehicleFits
<1>2. ControllerInv /\ [ControllerNext]_controllerVars => ControllerInv'
  <2> SUFFICES ASSUME ControllerInv, [ControllerNext]_controllerVars
               PROVE  ControllerInv'
    OBVIOUS
  <2>1. CASE ServerStep
    BY <2>1, ControllerServes
  <2>2. CASE Lose
    BY <2>2, ControllerLoses
  <2>3. CASE StartController
    BY <2>3, ControllerStarts
  <2>4. CASE RunController
    BY <2>4, ControllerAsksForStep
  <2>5. CASE Answered
    BY <2>5, ControllerAnswered
  <2>6. CASE CleanUp
    BY <2>6, ControllerCleansUp
  <2>7. CASE CleanUpFails
    BY <2>7, ControllerCleanUpFails
  <2>8. CASE UNCHANGED controllerVars
    <3>1. /\ UNCHANGED cadence /\ UNCHANGED at /\ UNCHANGED stage /\ UNCHANGED entry
          /\ UNCHANGED clock /\ UNCHANGED poses /\ UNCHANGED mpcRuns
          /\ UNCHANGED inbox /\ UNCHANGED answer
      BY <2>8 DEF controllerVars, serverVars, clientVars
    <3>2. VehicleFits'
      BY <3>1, VehicleStays DEF ControllerInv
    <3>3. ConversationFits'
      BY <3>1 DEF ControllerInv, ConversationFits, ReadyToStep, Request
    <3>4. QED
      BY <3>1, <3>2, <3>3 DEF ControllerInv
  <2>9. QED
    BY <2>1, <2>2, <2>3, <2>4, <2>5, <2>6, <2>7, <2>8 DEF ControllerNext
<1>3. QED
  BY <1>1, <1>2, PTL DEF ControllerSpec

(* The MPC keeps its own time, the vehicle is never past the step that was   *)
(* asked for, an idle runtime's time is the vehicle's with every end of a    *)
(* step behind it, and a closed session stays closed (ControllerConsistent), *)
(* for every cadence and MPC period, whatever calls are lost, raise or are   *)
(* left in flight.                                                           *)
THEOREM ControllerStaysConsistent == ControllerSpec => []ControllerConsistent
<1>1. ControllerInv => ControllerConsistent
  <2> SUFFICES ASSUME ControllerInv
               PROVE  ControllerConsistent
    OBVIOUS
  <2>1. ASSUME entry = "created"
        PROVE  clock = Max(poses)
    <3>1. poses \subseteq Nat /\ clock \in poses /\ \A t \in poses : t <= clock
      BY <2>1 DEF ControllerInv, VehicleFits
    <3>2. poses \in SUBSET Int
      BY <3>1
    <3>3. QED
      BY <3>1, <3>2, GreatestIs
  <2>2. entry = "created" => clock <= at + cadence.step /\ mpcRuns = Every(Min(poses), DtMpc, clock)
    BY DEF ControllerInv, VehicleFits
  <2>3. ASSUME stage = "idle"
        PROVE  /\ entry # "absent"
               /\ entry = "created" => clock = at
    BY <2>3 DEF ControllerInv, ConversationFits, ReadyToStep
  <2>4. ASSUME entry = "created"
        PROVE  \A t \in Min(poses) .. at : (t - Min(poses)) % cadence.step = 0 => t \in poses
    BY <2>4 DEF ControllerInv, VehicleFits
  <2>5. stage = "over" /\ answer.kind = "none" => entry = "absent"
    BY DEF ControllerInv, ConversationFits
  <2>6. QED
    BY <2>1, <2>2, <2>3, <2>4, <2>5 DEF ControllerConsistent
<1>2. QED
  BY <1>1, ControllerFits, PTL

----------------------------------------------------------------------------
(* The exporters (TcpExporter)                                               *)

Messages == Nat \ {0}
Distinct(s) == \A i, j \in 1 .. Len(s) : s[i] = s[j] => i = j
Rising(s) == \A i, j \in 1 .. Len(s) : i < j => s[i] < s[j]

ExporterTypeOK ==
  /\ keeps \in BOOLEAN /\ scheduled \subseteq Scenes /\ sequence \in Nat
  /\ offer \in [message : Nat, at : {"idle", "put", "replace", "retry"}]
  /\ offer = NoOffer <=> offer.at = "idle"
  /\ offer.at # "idle" => offer.message > 0
  /\ exports \in Seq(Messages) /\ Len(exports) <= Capacity
  /\ pending \in Nat \cup {Dead}
  /\ keeps => pending # Dead
  /\ received \in Seq(Messages) /\ wasted \subseteq Messages

(* Lists put together, in a form that is not expanded where it is used.      *)
Cat(s, t) == s \o t
One(m) == <<m>>
Nil == <<>>

(* What was received and what is in hand, oldest first.                      *)
Lined(r, p, e, o) == Cat(Cat(r, p), Cat(e, o))
Stream == Lined(received, IfAny(pending), exports, IfAny(offer.message))

(* The map's exporter: what is scheduled is in the stream, once, or wasted.  *)
ScenesFit ==
  keeps =>
    /\ scheduled = ToSet(Stream) \cup wasted
    /\ Distinct(Stream) /\ wasted \cap ToSet(Stream) = {}

(* The exporter of state: the stream rises up to the newest update, which is *)
(* the one that is being offered.                                            *)
UpdatesFit ==
  ~keeps =>
    /\ Rising(Stream) /\ \A m \in ToSet(Stream) : m <= sequence
    /\ sequence > 0 => sequence \in ToSet(Stream) \cup wasted
    /\ offer.at # "idle" => offer.message = sequence

ExporterInv ==
  /\ ExporterTypeOK
  /\ offer.at = "retry" => Len(exports) < Capacity
  /\ ScenesFit /\ UpdatesFit

LEMMA SetOfList ==
  ASSUME NEW S, NEW s \in Seq(S)
  PROVE  /\ ToSet(s) = {s[i] : i \in 1 .. Len(s)} /\ ToSet(s) \subseteq S
         /\ Len(s) \in Nat /\ \A i \in 1 .. Len(s) : s[i] \in S
<1>1. DOMAIN s = 1 .. Len(s) /\ Len(s) \in Nat /\ \A i \in 1 .. Len(s) : s[i] \in S
  BY LenProperties, ElementOfSeq
<1>2. QED
  BY <1>1 DEF ToSet

LEMMA SetOfConcat ==
  ASSUME NEW S, NEW s \in Seq(S), NEW t \in Seq(S)
  PROVE  ToSet(s \o t) = ToSet(s) \cup ToSet(t)
<1> DEFINE u == s \o t
<1>1. /\ u \in Seq(S) /\ Len(u) = Len(s) + Len(t)
      /\ \A i \in 1 .. Len(s) + Len(t) : u[i] = IF i <= Len(s) THEN s[i] ELSE t[i - Len(s)]
  BY ConcatProperties
<1> HIDE DEF u
<1>2. /\ ToSet(u) = {u[i] : i \in 1 .. Len(u)} /\ ToSet(s) = {s[i] : i \in 1 .. Len(s)}
      /\ ToSet(t) = {t[i] : i \in 1 .. Len(t)} /\ Len(s) \in Nat /\ Len(t) \in Nat
  BY <1>1, SetOfList
<1>3. ASSUME NEW i \in 1 .. Len(u)
      PROVE  u[i] \in ToSet(s) \cup ToSet(t)
  <2>1. CASE i <= Len(s)
    BY <1>1, <1>2, <2>1
  <2>2. CASE ~(i <= Len(s))
    <3>1. i - Len(s) \in 1 .. Len(t)
      BY <1>1, <1>2, <2>2
    <3>2. QED
      BY <1>1, <1>2, <2>2, <3>1
  <2>3. QED
    BY <2>1, <2>2
<1>4. ASSUME NEW i \in 1 .. Len(s)
      PROVE  s[i] \in ToSet(u)
  <2>1. i \in 1 .. Len(u) /\ u[i] = s[i]
    BY <1>1, <1>2
  <2>2. QED
    BY <1>2, <2>1
<1>5. ASSUME NEW i \in 1 .. Len(t)
      PROVE  t[i] \in ToSet(u)
  <2> DEFINE k == i + Len(s)
  <2>1. k \in 1 .. Len(s) + Len(t) /\ ~(k <= Len(s)) /\ k - Len(s) = i
    BY <1>2
  <2> HIDE DEF k
  <2>2. u[k] = t[i]
    BY <1>1, <2>1
  <2>3. QED
    BY <1>1, <1>2, <2>1, <2>2
<1>6. QED
  BY <1>2, <1>3, <1>4, <1>5 DEF u

LEMMA CatIsList ==
  ASSUME NEW S, NEW s \in Seq(S), NEW t \in Seq(S)
  PROVE  Cat(s, t) \in Seq(S) /\ Len(Cat(s, t)) = Len(s) + Len(t)
<1>1. s \o t \in Seq(S) /\ Len(s \o t) = Len(s) + Len(t)
  BY ConcatProperties
<1>2. QED
  BY <1>1 DEF Cat

LEMMA CatElements ==
  ASSUME NEW S, NEW s \in Seq(S), NEW t \in Seq(S), NEW i \in 1 .. Len(s) + Len(t)
  PROVE  Cat(s, t)[i] = IF i <= Len(s) THEN s[i] ELSE t[i - Len(s)]
<1>1. (s \o t)[i] = IF i <= Len(s) THEN s[i] ELSE t[i - Len(s)]
  BY ConcatProperties
<1>2. QED
  BY <1>1 DEF Cat

LEMMA CatSet ==
  ASSUME NEW S, NEW s \in Seq(S), NEW t \in Seq(S)
  PROVE  ToSet(Cat(s, t)) = ToSet(s) \cup ToSet(t)
<1>1. ToSet(s \o t) = ToSet(s) \cup ToSet(t)
  BY SetOfConcat
<1>2. QED
  BY <1>1 DEF Cat

LEMMA CatAssociates ==
  ASSUME NEW S, NEW s \in Seq(S), NEW t \in Seq(S), NEW u \in Seq(S)
  PROVE  Cat(Cat(s, t), u) = Cat(s, Cat(t, u))
<1>1. (s \o t) \o u = s \o (t \o u)
  BY ConcatAssociative
<1>2. QED
  BY <1>1 DEF Cat

LEMMA CatNil ==
  ASSUME NEW S, NEW s \in Seq(S)
  PROVE  Cat(s, Nil) = s /\ Nil \in Seq(S) /\ ToSet(Nil) = {} /\ Len(Nil) = 0
<1>1. s \o <<>> = s
  BY ConcatEmptySeq
<1>2. <<>> \in Seq(S) /\ Len(<<>>) = 0
  OBVIOUS
<1> DEFINE n == <<>>
<1>3. n \in Seq(S) /\ Len(n) = 0
  BY <1>2
<1> HIDE DEF n
<1>4. ToSet(n) = {n[i] : i \in 1 .. 0}
  BY <1>3, SetOfList
<1>5. ToSet(n) = {}
  BY <1>4
<1>6. QED
  BY <1>1, <1>3, <1>5 DEF Cat, Nil, n

LEMMA OneIsList ==
  ASSUME NEW S, NEW m \in S
  PROVE  One(m) \in Seq(S) /\ ToSet(One(m)) = {m} /\ Len(One(m)) = 1 /\ One(m)[1] = m
<1>1. One(m) \in Seq(S) /\ Len(One(m)) = 1 /\ One(m)[1] = m
  BY DEF One
<1>2. ToSet(One(m)) = {One(m)[i] : i \in 1 .. 1}
  BY <1>1, SetOfList
<1>3. QED
  BY <1>1, <1>2

(* A list comes out of a stream: what is left has the properties.            *)
LEMMA OneLess ==
  ASSUME NEW a \in Seq(Messages), NEW b \in Seq(Messages), NEW m \in Messages, NEW s, NEW t,
         s = Cat(Cat(a, One(m)), b), t = Cat(a, b)
  PROVE  /\ s \in Seq(Messages) /\ t \in Seq(Messages)
         /\ ToSet(s) = ToSet(t) \cup {m}
         /\ Distinct(s) => Distinct(t) /\ m \notin ToSet(t)
         /\ Rising(s) => Rising(t)
         /\ Rising(s) => \A x \in ToSet(b) : m < x
<1> DEFINE c == Cat(a, One(m))
           n == Len(a) + 1
           shift(k) == IF k < n THEN k ELSE k + 1
<1>1. One(m) \in Seq(Messages) /\ Len(One(m)) = 1 /\ One(m)[1] = m /\ ToSet(One(m)) = {m}
  BY OneIsList
<1>2. /\ c \in Seq(Messages) /\ Len(c) = Len(a) + Len(One(m))
      /\ \A i \in 1 .. Len(a) + Len(One(m)) :
           c[i] = IF i <= Len(a) THEN a[i] ELSE One(m)[i - Len(a)]
      /\ ToSet(c) = ToSet(a) \cup ToSet(One(m))
  <2>1. c \in Seq(Messages) /\ Len(c) = Len(a) + Len(One(m))
    BY <1>1, CatIsList
  <2>2. \A i \in 1 .. Len(a) + Len(One(m)) :
           c[i] = IF i <= Len(a) THEN a[i] ELSE One(m)[i - Len(a)]
    BY <1>1, CatElements
  <2>3. ToSet(c) = ToSet(a) \cup ToSet(One(m))
    BY <1>1, CatSet
  <2>4. QED
    BY <2>1, <2>2, <2>3
<1>3. Len(a) \in Nat /\ Len(b) \in Nat /\ n \in Nat
  BY LenProperties
<1>4. /\ Len(c) = n /\ \A i \in 1 .. Len(a) : c[i] = a[i]
      /\ c[n] = m
  BY <1>1, <1>2, <1>3
<1> HIDE DEF c
<1>5. /\ s \in Seq(Messages) /\ Len(s) = n + Len(b)
      /\ \A i \in 1 .. n + Len(b) : s[i] = IF i <= n THEN c[i] ELSE b[i - n]
      /\ ToSet(s) = ToSet(c) \cup ToSet(b)
  <2>1. s = Cat(c, b)
    BY DEF c
  <2>2. s \in Seq(Messages) /\ Len(s) = Len(c) + Len(b)
    BY <1>2, <2>1, CatIsList
  <2>3. \A i \in 1 .. Len(c) + Len(b) : s[i] = IF i <= Len(c) THEN c[i] ELSE b[i - Len(c)]
    BY <1>2, <2>1, CatElements
  <2>4. ToSet(s) = ToSet(c) \cup ToSet(b)
    BY <1>2, <2>1, CatSet
  <2>5. QED
    BY <1>4, <2>2, <2>3, <2>4
<1>6. /\ t \in Seq(Messages) /\ Len(t) = Len(a) + Len(b)
      /\ \A i \in 1 .. Len(a) + Len(b) : t[i] = IF i <= Len(a) THEN a[i] ELSE b[i - Len(a)]
      /\ ToSet(t) = ToSet(a) \cup ToSet(b)
  <2>1. t \in Seq(Messages) /\ Len(t) = Len(a) + Len(b)
    BY CatIsList
  <2>2. \A i \in 1 .. Len(a) + Len(b) : t[i] = IF i <= Len(a) THEN a[i] ELSE b[i - Len(a)]
    BY CatElements
  <2>3. ToSet(t) = ToSet(a) \cup ToSet(b)
    BY CatSet
  <2>4. QED
    BY <2>1, <2>2, <2>3
<1>7. n \in 1 .. Len(s) /\ s[n] = m /\ Len(s) = Len(t) + 1 /\ Len(t) \in Nat
  BY <1>3, <1>4, <1>5, <1>6
<1>8. ASSUME NEW k \in 1 .. Len(t)
      PROVE  shift(k) \in 1 .. Len(s) /\ t[k] = s[shift(k)] /\ shift(k) # n
  <2>1. CASE k < n
    <3>1. k \in 1 .. Len(a) /\ k \in 1 .. n + Len(b) /\ k <= n /\ k \in 1 .. Len(a) + Len(b)
      BY <1>3, <1>6, <2>1
    <3>2. t[k] = a[k] /\ s[k] = c[k] /\ c[k] = a[k]
      BY <1>3, <1>4, <1>5, <1>6, <3>1
    <3>3. QED
      BY <1>3, <1>5, <2>1, <3>1, <3>2
  <2>2. CASE ~(k < n)
    <3>1. /\ k + 1 \in 1 .. n + Len(b) /\ ~(k + 1 <= n) /\ ~(k <= Len(a)) /\ k \in 1 .. Len(a) + Len(b)
          /\ k + 1 - n = k - Len(a)
      BY <1>3, <1>6, <2>2
    <3>2. t[k] = b[k - Len(a)] /\ s[k + 1] = b[k + 1 - n]
      BY <1>5, <1>6, <3>1
    <3>3. QED
      BY <1>3, <1>5, <2>2, <3>1, <3>2
  <2>3. QED
    BY <2>1, <2>2
<1>9. \A i, k \in 1 .. Len(t) : (i < k <=> shift(i) < shift(k)) /\ (shift(i) = shift(k) => i = k)
  BY <1>3, <1>7
<1>10. ToSet(s) = ToSet(t) \cup {m}
  BY <1>1, <1>2, <1>5, <1>6
<1>11. ToSet(t) = {t[i] : i \in 1 .. Len(t)} /\ ToSet(b) = {b[i] : i \in 1 .. Len(b)}
  <2>1. ToSet(b) = {b[i] : i \in 1 .. Len(b)}
    BY SetOfList
  <2>2. ToSet(t) = {t[i] : i \in 1 .. Len(t)}
    BY <1>6, SetOfList
  <2>3. QED
    BY <2>1, <2>2
<1>12. ASSUME Distinct(s)
       PROVE  Distinct(t) /\ m \notin ToSet(t)
  <2>1. Distinct(t)
    <3> SUFFICES ASSUME NEW i \in 1 .. Len(t), NEW k \in 1 .. Len(t), t[i] = t[k]
                 PROVE  i = k
      BY DEF Distinct
    <3>1. s[shift(i)] = s[shift(k)] /\ shift(i) \in 1 .. Len(s) /\ shift(k) \in 1 .. Len(s)
      BY <1>8
    <3> HIDE DEF shift
    <3>2. QED
      BY <1>9, <1>12, <3>1 DEF Distinct
  <2>2. ASSUME NEW k \in 1 .. Len(t), t[k] = m
        PROVE  FALSE
    <3>1. s[shift(k)] = s[n] /\ shift(k) \in 1 .. Len(s) /\ shift(k) # n
      BY <1>7, <1>8, <2>2
    <3> HIDE DEF shift
    <3>2. QED
      BY <1>7, <1>12, <3>1 DEF Distinct
  <2>3. QED
    BY <1>11, <2>1, <2>2
<1>13. ASSUME Rising(s)
       PROVE  Rising(t)
  <2> SUFFICES ASSUME NEW i \in 1 .. Len(t), NEW k \in 1 .. Len(t), i < k
               PROVE  t[i] < t[k]
    BY DEF Rising
  <2>1. /\ shift(i) \in 1 .. Len(s) /\ shift(k) \in 1 .. Len(s) /\ shift(i) < shift(k)
        /\ t[i] = s[shift(i)] /\ t[k] = s[shift(k)]
    BY <1>8, <1>9
  <2> HIDE DEF shift
  <2>2. QED
    BY <1>13, <2>1 DEF Rising
<1>14. ASSUME Rising(s), NEW i \in 1 .. Len(b)
       PROVE  m < b[i]
  <2> DEFINE k == n + i
  <2>1. k \in 1 .. n + Len(b) /\ ~(k <= n) /\ k - n = i /\ n < k
    BY <1>3
  <2> HIDE DEF k
  <2>2. s[k] = b[i] /\ k \in 1 .. Len(s)
    BY <1>5, <2>1
  <2>3. QED
    BY <1>7, <1>14, <2>1, <2>2 DEF Rising
<1>15. QED
  BY <1>5, <1>6, <1>10, <1>11, <1>12, <1>13, <1>14

(* A list comes to a stream: it is new, or greater than all before it.       *)
LEMMA OneMore ==
  ASSUME NEW s \in Seq(Messages), NEW m \in Messages, NEW t, t = Cat(s, One(m))
  PROVE  /\ t \in Seq(Messages) /\ ToSet(t) = ToSet(s) \cup {m}
         /\ Distinct(s) /\ m \notin ToSet(s) => Distinct(t)
         /\ Rising(s) /\ (\A x \in ToSet(s) : x < m) => Rising(t)
<1>1. One(m) \in Seq(Messages) /\ Len(One(m)) = 1 /\ One(m)[1] = m /\ ToSet(One(m)) = {m}
  BY OneIsList
<1>2. /\ t \in Seq(Messages) /\ Len(t) = Len(s) + Len(One(m))
      /\ \A i \in 1 .. Len(s) + Len(One(m)) :
           t[i] = IF i <= Len(s) THEN s[i] ELSE One(m)[i - Len(s)]
      /\ ToSet(t) = ToSet(s) \cup ToSet(One(m))
  <2>1. t \in Seq(Messages) /\ Len(t) = Len(s) + Len(One(m))
    BY <1>1, CatIsList
  <2>2. \A i \in 1 .. Len(s) + Len(One(m)) :
           t[i] = IF i <= Len(s) THEN s[i] ELSE One(m)[i - Len(s)]
    BY <1>1, CatElements
  <2>3. ToSet(t) = ToSet(s) \cup ToSet(One(m))
    BY <1>1, CatSet
  <2>4. QED
    BY <2>1, <2>2, <2>3
<1>3. Len(s) \in Nat /\ ToSet(s) = {s[i] : i \in 1 .. Len(s)} /\ ToSet(s) \subseteq Messages
  BY SetOfList
<1>4. /\ t \in Seq(Messages) /\ Len(t) = Len(s) + 1
      /\ \A i \in 1 .. Len(s) + 1 : i \in 1 .. Len(s) \/ i = Len(s) + 1
      /\ \A i \in 1 .. Len(s) : t[i] = s[i] /\ s[i] \in ToSet(s)
      /\ t[Len(s) + 1] = m
  BY <1>1, <1>2, <1>3
<1>5. ToSet(t) = ToSet(s) \cup {m}
  BY <1>1, <1>2
<1>6. ASSUME Distinct(s), m \notin ToSet(s)
      PROVE  Distinct(t)
  BY <1>4, <1>6 DEF Distinct
<1>7. ASSUME Rising(s), \A x \in ToSet(s) : x < m
      PROVE  Rising(t)
  <2> SUFFICES ASSUME NEW i \in 1 .. Len(t), NEW k \in 1 .. Len(t), i < k
               PROVE  t[i] < t[k]
    BY DEF Rising
  <2>1. i \in 1 .. Len(s)
    BY <1>3, <1>4
  <2>2. CASE k \in 1 .. Len(s)
    BY <1>4, <1>7, <2>1, <2>2 DEF Rising
  <2>3. CASE k = Len(s) + 1
    BY <1>4, <1>7, <2>1, <2>3
  <2>4. QED
    BY <1>4, <2>2, <2>3
<1>8. QED
  BY <1>1, <1>4, <1>5, <1>6, <1>7

LEMMA LinesUp ==
  ASSUME NEW S, NEW r \in Seq(S), NEW p \in Seq(S), NEW e \in Seq(S), NEW o \in Seq(S), NEW m \in S
  PROVE  /\ Lined(r, p, e, o) \in Seq(S)
         /\ ToSet(Lined(r, p, e, o)) = ((ToSet(r) \cup ToSet(p)) \cup ToSet(e)) \cup ToSet(o)
         /\ Lined(r, p, e, One(m)) = Cat(Lined(r, p, e, Nil), One(m))
         /\ Lined(r, p, Cat(e, One(m)), Nil) = Lined(r, p, e, One(m))
         /\ Lined(r, One(m), e, o) = Lined(r, Nil, Cat(One(m), e), o)
         /\ Lined(Cat(r, One(m)), Nil, e, o) = Lined(r, One(m), e, o)
         /\ Lined(r, p, Cat(One(m), e), o) = Cat(Cat(Cat(r, p), One(m)), Cat(e, o))
         /\ Lined(r, One(m), e, o) = Cat(Cat(r, One(m)), Cat(e, o))
         /\ Lined(r, Nil, e, o) = Cat(r, Cat(e, o))
<1>1. One(m) \in Seq(S) /\ Nil \in Seq(S)
  BY OneIsList, CatNil
<1>2. /\ Cat(r, p) \in Seq(S) /\ Cat(e, o) \in Seq(S) /\ Cat(e, One(m)) \in Seq(S)
      /\ Cat(r, One(m)) \in Seq(S) /\ Cat(One(m), e) \in Seq(S)
      /\ ToSet(Cat(r, p)) = ToSet(r) \cup ToSet(p)
      /\ ToSet(Cat(e, o)) = ToSet(e) \cup ToSet(o)
  <2>1. \A s, t \in Seq(S) : Cat(s, t) \in Seq(S)
    BY CatIsList
  <2>2. \A s, t \in Seq(S) : ToSet(Cat(s, t)) = ToSet(s) \cup ToSet(t)
    BY CatSet
  <2>3. QED
    BY <1>1, <2>1, <2>2
<1>3. /\ Cat(e, Nil) = e /\ Cat(r, Nil) = r /\ Cat(Cat(e, One(m)), Nil) = Cat(e, One(m))
      /\ Cat(Cat(r, One(m)), Nil) = Cat(r, One(m))
  BY <1>2, CatNil
<1>4. /\ Cat(Cat(r, p), Cat(e, o)) \in Seq(S)
      /\ ToSet(Cat(Cat(r, p), Cat(e, o))) = ToSet(Cat(r, p)) \cup ToSet(Cat(e, o))
  <2>1. Cat(Cat(r, p), Cat(e, o)) \in Seq(S)
    BY <1>2, CatIsList
  <2>2. ToSet(Cat(Cat(r, p), Cat(e, o))) = ToSet(Cat(r, p)) \cup ToSet(Cat(e, o))
    BY <1>2, CatSet
  <2>3. QED
    BY <2>1, <2>2
<1>5. Cat(Cat(One(m), e), o) = Cat(One(m), Cat(e, o))
  BY <1>1, CatAssociates
<1>6. Cat(r, Cat(One(m), Cat(e, o))) = Cat(Cat(r, One(m)), Cat(e, o))
  BY <1>1, <1>2, CatAssociates
<1>7. Cat(Cat(r, p), Cat(One(m), Cat(e, o))) = Cat(Cat(Cat(r, p), One(m)), Cat(e, o))
  BY <1>1, <1>2, CatAssociates
<1>8. Cat(Cat(r, p), Cat(e, One(m))) = Cat(Cat(Cat(r, p), e), One(m))
  BY <1>1, <1>2, CatAssociates
<1>9. QED
  BY <1>2, <1>3, <1>4, <1>5, <1>6, <1>7, <1>8 DEF Lined

LEMMA HeadFirst ==
  ASSUME NEW S, NEW s \in Seq(S), s # <<>>
  PROVE  /\ Head(s) \in S /\ Tail(s) \in Seq(S) /\ Len(Tail(s)) = Len(s) - 1
         /\ s = Cat(One(Head(s)), Tail(s))
<1> DEFINE h == Head(s)
           u == Tail(s)
           one == One(h)
           t == Cat(one, u)
<1>1. /\ h \in S /\ u \in Seq(S) /\ Len(u) = Len(s) - 1 /\ Len(s) \in Nat /\ Len(s) > 0 /\ h = s[1]
      /\ \A i \in 1 .. Len(u) : u[i] = s[i + 1]
  BY HeadTailProperties, LenProperties, EmptySeq
<1> HIDE DEF u, h
<1>2. one \in Seq(S) /\ Len(one) = 1 /\ one[1] = h
  BY <1>1, OneIsList
<1> HIDE DEF one
<1>3. /\ t \in Seq(S) /\ Len(t) = Len(one) + Len(u)
      /\ \A i \in 1 .. Len(one) + Len(u) : t[i] = IF i <= Len(one) THEN one[i] ELSE u[i - Len(one)]
  <2>1. t \in Seq(S) /\ Len(t) = Len(one) + Len(u)
    BY <1>1, <1>2, CatIsList
  <2>2. \A i \in 1 .. Len(one) + Len(u) : t[i] = IF i <= Len(one) THEN one[i] ELSE u[i - Len(one)]
    BY <1>1, <1>2, CatElements
  <2>3. QED
    BY <2>1, <2>2
<1> HIDE DEF t
<1>4. ASSUME NEW i \in 1 .. Len(t)
      PROVE  t[i] = s[i]
  <2>1. CASE i = 1
    BY <1>1, <1>2, <1>3, <2>1
  <2>2. CASE i # 1
    <3>1. i - 1 \in 1 .. Len(u) /\ ~(i <= 1) /\ (i - 1) + 1 = i
      BY <1>1, <1>2, <1>3, <2>2
    <3>2. t[i] = u[i - 1]
      BY <1>2, <1>3, <3>1
    <3>3. u[i - 1] = s[i]
      BY <1>1, <3>1
    <3>4. QED
      BY <3>2, <3>3
  <2>3. QED
    BY <2>1, <2>2
<1>5. Len(t) = Len(s)
  BY <1>1, <1>2, <1>3
<1>6. s = t
  BY <1>3, <1>4, <1>5, SeqEqual
<1>7. QED
  BY <1>1, <1>6 DEF t, one, u, h

LEMMA IfAnyIs ==
  ASSUME NEW m \in Nat \cup {Dead}
  PROVE  /\ IfAny(m) \in Seq(Messages)
         /\ m > 0 => m \in Messages /\ IfAny(m) = One(m)
         /\ ~(m > 0) => IfAny(m) = Nil
<1>1. CASE m > 0
  <2>1. m \in Messages
    BY <1>1 DEF Dead, Messages
  <2>2. One(m) \in Seq(Messages)
    BY <2>1, OneIsList
  <2>3. QED
    BY <1>1, <2>1, <2>2 DEF IfAny, One
<1>2. CASE ~(m > 0)
  <2>1. Nil \in Seq(Messages)
    <3>1. <<>> \in Seq(Messages)
      OBVIOUS
    <3>2. QED
      BY <3>1, CatNil DEF Nil
  <2>2. QED
    BY <1>2, <2>1 DEF IfAny, Nil
<1>3. QED
  BY <1>1, <1>2

LEMMA ExporterParts ==
  ASSUME ExporterTypeOK
  PROVE  /\ received \in Seq(Messages) /\ exports \in Seq(Messages)
         /\ IfAny(pending) \in Seq(Messages) /\ IfAny(offer.message) \in Seq(Messages)
         /\ pending > 0 => pending \in Messages /\ IfAny(pending) = One(pending)
         /\ pending = 0 => IfAny(pending) = Nil
         /\ offer.at = "idle" => IfAny(offer.message) = Nil
         /\ offer.at # "idle" => offer.message \in Messages /\ IfAny(offer.message) = One(offer.message)
<1>1. offer.message \in Nat /\ (offer.at = "idle" => offer.message = 0)
  BY DEF ExporterTypeOK, NoOffer
<1>2. pending \in Nat \cup {Dead} /\ ~(0 > 0)
  BY DEF ExporterTypeOK
<1>3. /\ IfAny(pending) \in Seq(Messages) /\ IfAny(offer.message) \in Seq(Messages)
  BY <1>1, <1>2, IfAnyIs
<1>4. /\ pending > 0 => pending \in Messages /\ IfAny(pending) = One(pending)
      /\ ~(pending > 0) => IfAny(pending) = Nil
  BY <1>2, IfAnyIs
<1>5. /\ offer.message > 0 => offer.message \in Messages /\ IfAny(offer.message) = One(offer.message)
      /\ ~(offer.message > 0) => IfAny(offer.message) = Nil
  BY <1>1, IfAnyIs
<1>6. QED
  BY <1>1, <1>2, <1>3, <1>4, <1>5 DEF ExporterTypeOK

(* Nothing comes to the stream or goes out of it.                            *)
LEMMA StreamKept ==
  ASSUME ScenesFit, UpdatesFit, keeps' = keeps, Stream' = Stream, scheduled' = scheduled,
         sequence' = sequence, wasted' = wasted,
         offer'.at # "idle" => offer.at # "idle" /\ offer'.message = offer.message
  PROVE  ScenesFit' /\ UpdatesFit'
<1>1. ScenesFit'
  BY DEF ScenesFit
<1>2. UpdatesFit'
  BY DEF UpdatesFit
<1>3. QED
  BY <1>1, <1>2

(* A message goes out of it, wasted or for another to come.                  *)
LEMMA StreamLoses ==
  ASSUME ScenesFit, UpdatesFit, keeps' = keeps, sequence' = sequence,
         NEW a \in Seq(Messages), NEW b \in Seq(Messages), NEW m \in Messages,
         Stream = Cat(Cat(a, One(m)), b), Stream' = Cat(a, b),
         \/ wasted' = wasted \cup {m} /\ scheduled' = scheduled
         \/ /\ wasted' = wasted /\ scheduled' = scheduled \ {m}
            /\ ~keeps => m # sequence,
         offer'.at # "idle" => offer.at # "idle" /\ offer'.message = offer.message
  PROVE  ScenesFit' /\ UpdatesFit'
<1>1. /\ ToSet(Stream) = ToSet(Stream') \cup {m}
      /\ Distinct(Stream) => Distinct(Stream') /\ m \notin ToSet(Stream')
      /\ Rising(Stream) => Rising(Stream')
  BY OneLess
<1>2. ScenesFit'
  BY <1>1 DEF ScenesFit
<1>3. UpdatesFit'
  BY <1>1 DEF UpdatesFit
<1>4. QED
  BY <1>2, <1>3

(* Its type along a step.                                                    *)
LEMMA ExporterTypeStep ==
  ASSUME ExporterAssumption, ExporterInv, ExporterNext
  PROVE  ExporterTypeOK' /\ (offer'.at = "retry" => Len(exports') < Capacity')
<1> USE DEF ExporterTypeOK, ExporterInv, NoOffer, Dead
<1>0. /\ Len(exports) \in Nat /\ Capacity \in Nat /\ Capacity > 0
      /\ keeps' = keeps => Capacity' = Capacity
      /\ exports # <<>> => Head(exports) \in Messages /\ Tail(exports) \in Seq(Messages)
                           /\ Len(Tail(exports)) = Len(exports) - 1
  <2>1. exports \in Seq(Messages)
    OBVIOUS
  <2>2. QED
    BY <2>1, HeadFirst, LenProperties DEF ExporterAssumption, Capacity
<1>a. pending > 0 => pending \in Messages
  BY DEF Messages
<1>1. ASSUME NEW s \in Scenes, OfferScene(s)
      PROVE  ExporterTypeOK' /\ (offer'.at = "retry" => Len(exports') < Capacity')
  BY <1>0, <1>1 DEF OfferScene, ExporterAssumption, bridgeVars
<1>2. ASSUME OfferUpdate
      PROVE  ExporterTypeOK' /\ (offer'.at = "retry" => Len(exports') < Capacity')
  BY <1>0, <1>2 DEF OfferUpdate, ExporterAssumption, bridgeVars
<1>3. ASSUME Put
      PROVE  ExporterTypeOK' /\ (offer'.at = "retry" => Len(exports') < Capacity')
  <2>1. CASE Len(exports) < Capacity
    <3>1. /\ exports' = Append(exports, offer.message) /\ offer' = NoOffer /\ offer.message \in Messages
          /\ UNCHANGED <<keeps, scheduled, sequence, pending, received, wasted>>
      BY <1>0, <1>3, <2>1 DEF Put, Messages, bridgeVars
    <3>2. exports' \in Seq(Messages) /\ Len(exports') = Len(exports) + 1
      BY <3>1, AppendProperties
    <3>3. QED
      BY <1>0, <2>1, <3>1, <3>2
  <2>2. CASE ~(Len(exports) < Capacity)
    BY <1>0, <1>3, <2>2 DEF Put, bridgeVars
  <2>3. QED
    BY <2>1, <2>2
<1>4. ASSUME Replace
      PROVE  ExporterTypeOK' /\ (offer'.at = "retry" => Len(exports') < Capacity')
  <2>1. CASE exports = <<>>
    <3>1. Len(exports) = 0
      BY <2>1
    <3>2. QED
      BY <1>0, <1>4, <2>1, <3>1 DEF Replace, bridgeVars
  <2>2. CASE exports # <<>>
    <3>1. /\ exports' = Tail(exports) /\ scheduled' = scheduled \ {Head(exports)}
          /\ offer' = [offer EXCEPT !.at = "retry"] /\ offer.at = "replace"
          /\ UNCHANGED <<keeps, sequence, pending, received, wasted>>
      BY <1>4, <2>2 DEF Replace, bridgeVars
    <3>2. exports' \in Seq(Messages) /\ Len(exports') < Capacity' /\ Len(exports') <= Capacity'
      BY <1>0, <2>2, <3>1
    <3>3. /\ offer' \in [message : Nat, at : {"idle", "put", "replace", "retry"}]
          /\ offer'.message = offer.message /\ offer'.at = "retry"
      BY <3>1
    <3>4. QED
      BY <3>1, <3>2, <3>3
  <2>3. QED
    BY <2>1, <2>2
<1>5. ASSUME TakeMessage
      PROVE  ExporterTypeOK' /\ (offer'.at = "retry" => Len(exports') < Capacity')
  BY <1>0, <1>5 DEF TakeMessage, publisherVars, bridgeVars, Messages
<1>6. ASSUME Connect
      PROVE  ExporterTypeOK' /\ (offer'.at = "retry" => Len(exports') < Capacity')
  BY <1>0, <1>a, <1>6 DEF Connect, GiveUpOn, publisherVars, bridgeVars
<1>7. ASSUME Send
      PROVE  ExporterTypeOK' /\ (offer'.at = "retry" => Len(exports') < Capacity')
  <2>1. pending \in Messages /\ received' = Append(received, pending) /\ pending' = 0
    BY <1>0, <1>7 DEF Send, Messages, Dead
  <2>2. received' \in Seq(Messages)
    BY <2>1, AppendProperties
  <2>3. QED
    BY <1>0, <1>7, <2>1, <2>2 DEF Send, publisherVars
<1>8. ASSUME SendBroken
      PROVE  ExporterTypeOK' /\ (offer'.at = "retry" => Len(exports') < Capacity')
  BY <1>0, <1>a, <1>8 DEF SendBroken, GiveUpOn, publisherVars, bridgeVars
<1>9. ASSUME SendRaises
      PROVE  ExporterTypeOK' /\ (offer'.at = "retry" => Len(exports') < Capacity')
  BY <1>0, <1>a, <1>9 DEF SendRaises, publisherVars, bridgeVars
<1>10. ASSUME BridgeGoes \/ BridgeComes
       PROVE  ExporterTypeOK' /\ (offer'.at = "retry" => Len(exports') < Capacity')
  <2>1. UNCHANGED <<keeps, publisherVars, exports, pending, received, wasted>>
    BY <1>10 DEF BridgeGoes, BridgeComes
  <2>2. QED
    BY <1>0, <2>1 DEF publisherVars
<1>11. QED
  BY <1>1, <1>2, <1>3, <1>4, <1>5, <1>6, <1>7, <1>8, <1>9, <1>10 DEF ExporterNext

LEMMA AppendIsCat ==
  ASSUME NEW S, NEW s \in Seq(S), NEW m \in S
  PROVE  Append(s, m) = Cat(s, One(m))
<1>1. Append(s, m) = s \o <<m>>
  BY AppendIsConcat
<1>2. QED
  BY <1>1 DEF Cat, One

(* What is scheduled, in hand, received and wasted along a step.             *)
LEMMA ExporterStreamStep ==
  ASSUME ExporterAssumption, ExporterInv, ExporterNext
  PROVE  ScenesFit' /\ UpdatesFit'
<1> DEFINE r == received
           p == IfAny(pending)
           e == exports
           o == IfAny(offer.message)
<1>1. /\ ExporterTypeOK /\ ScenesFit /\ UpdatesFit
      /\ offer.at = "retry" => Len(exports) < Capacity
  BY DEF ExporterInv
<1>2. /\ r \in Seq(Messages) /\ e \in Seq(Messages) /\ p \in Seq(Messages) /\ o \in Seq(Messages)
      /\ pending > 0 => pending \in Messages /\ p = One(pending)
      /\ pending = 0 => p = Nil
      /\ offer.at = "idle" => o = Nil
      /\ offer.at # "idle" => offer.message \in Messages /\ o = One(offer.message)
  BY <1>1, ExporterParts
<1>3. Stream = Lined(r, p, e, o)
  BY DEF Stream
<1>4. /\ IfAny(0) = Nil /\ IfAny(Dead) = Nil /\ Nil \in Seq(Messages)
      /\ \A m \in Messages : IfAny(m) = One(m) /\ One(m) \in Seq(Messages)
  <2>1. IfAny(0) = Nil /\ IfAny(Dead) = Nil
    BY DEF IfAny, Dead, Nil
  <2>2. ASSUME NEW m \in Messages
        PROVE  IfAny(m) = One(m) /\ One(m) \in Seq(Messages)
    <3>1. m \in Nat \cup {Dead} /\ m > 0
      BY DEF Messages
    <3>2. QED
      BY <3>1, IfAnyIs, OneIsList
  <2>3. Nil \in Seq(Messages)
    BY <1>2, CatNil
  <2>4. QED
    BY <2>1, <2>2, <2>3
<1> HIDE DEF p, o
<1>5. ASSUME keeps' = keeps, scheduled' = scheduled, sequence' = sequence, wasted' = wasted,
             Stream' = Stream,
             offer'.at # "idle" => offer.at # "idle" /\ offer'.message = offer.message
      PROVE  ScenesFit' /\ UpdatesFit'
  BY <1>1, <1>5, StreamKept
<1>6. ASSUME pending > 0, keeps' = keeps, scheduled' = scheduled, sequence' = sequence,
             wasted' = wasted \cup {pending}, offer' = offer, exports' = exports,
             received' = received, IfAny(pending') = Nil
      PROVE  ScenesFit' /\ UpdatesFit'
  <2>1. Stream' = Lined(r, Nil, e, o)
    BY <1>6 DEF Stream, o
  <2>2. pending \in Messages /\ Stream = Lined(r, One(pending), e, o)
    BY <1>2, <1>3, <1>6
  <2>3. Stream = Cat(Cat(r, One(pending)), Cat(e, o)) /\ Stream' = Cat(r, Cat(e, o))
    BY <1>2, <2>1, <2>2, LinesUp
  <2>4. Cat(e, o) \in Seq(Messages)
    BY <1>2, CatIsList
  <2>5. QED
    BY <1>1, <1>2, <1>6, <2>2, <2>3, <2>4, StreamLoses
<1>7. ASSUME NEW s \in Scenes, OfferScene(s)
      PROVE  ScenesFit' /\ UpdatesFit'
  <2>1. /\ keeps /\ keeps' = keeps /\ offer = NoOffer /\ s \notin scheduled
        /\ scheduled' = scheduled \cup {s} /\ offer' = [message |-> s, at |-> "put"]
        /\ UNCHANGED <<exports, pending, received, wasted>>
    BY <1>7 DEF OfferScene, bridgeVars
  <2>2. s \in Messages
    BY DEF ExporterAssumption, Messages
  <2>3. o = Nil /\ Stream' = Lined(r, p, e, One(s))
    BY <1>2, <1>4, <2>1, <2>2 DEF Stream, NoOffer, p
  <2>4. Stream' = Cat(Stream, One(s)) /\ Stream \in Seq(Messages)
    BY <1>2, <1>3, <2>2, <2>3, LinesUp
  <2>5. /\ ToSet(Stream') = ToSet(Stream) \cup {s}
        /\ Distinct(Stream) /\ s \notin ToSet(Stream) => Distinct(Stream')
    BY <2>2, <2>4, OneMore
  <2>6. ScenesFit'
    BY <1>1, <2>1, <2>5 DEF ScenesFit
  <2>7. QED
    BY <2>1, <2>6 DEF UpdatesFit
<1>8. ASSUME OfferUpdate
      PROVE  ScenesFit' /\ UpdatesFit'
  <2> DEFINE m == sequence + 1
  <2>1. /\ ~keeps /\ keeps' = keeps /\ offer = NoOffer /\ sequence' = m
        /\ offer' = [message |-> m, at |-> "put"]
        /\ UNCHANGED <<exports, pending, received, wasted>>
    BY <1>8 DEF OfferUpdate, bridgeVars
  <2>2. sequence \in Nat /\ m \in Messages /\ sequence < m
    BY <1>1 DEF ExporterTypeOK, Messages
  <2> HIDE DEF m
  <2>3. o = Nil /\ Stream' = Lined(r, p, e, One(m))
    BY <1>2, <1>4, <2>1, <2>2 DEF Stream, NoOffer, p
  <2>4. Stream' = Cat(Stream, One(m)) /\ Stream \in Seq(Messages)
    BY <1>2, <1>3, <2>2, <2>3, LinesUp
  <2>5. \A x \in ToSet(Stream) : x \in Nat /\ x <= sequence /\ x < m
    <3>1. \A x \in ToSet(Stream) : x <= sequence
      BY <1>1, <2>1 DEF UpdatesFit
    <3>2. ToSet(Stream) \subseteq Messages
      BY <2>4, SetOfList
    <3>3. QED
      BY <2>2, <3>1, <3>2 DEF Messages
  <2>6. /\ ToSet(Stream') = ToSet(Stream) \cup {m}
        /\ Rising(Stream) /\ (\A x \in ToSet(Stream) : x < m) => Rising(Stream')
    BY <2>2, <2>4, OneMore
  <2>7. Rising(Stream') /\ \A x \in ToSet(Stream') : x <= m
    <3>1. Rising(Stream)
      BY <1>1, <2>1 DEF UpdatesFit
    <3>2. m <= m /\ \A x \in ToSet(Stream) : x <= m
      BY <2>2, <2>5 DEF Messages
    <3>3. QED
      BY <2>5, <2>6, <3>1, <3>2
  <2>8. UpdatesFit'
    BY <2>1, <2>6, <2>7 DEF UpdatesFit
  <2>9. QED
    BY <2>1, <2>8 DEF ScenesFit
<1>9. ASSUME Put
      PROVE  ScenesFit' /\ UpdatesFit'
  <2>1. CASE Len(exports) < Capacity
    <3> DEFINE m == offer.message
    <3>1. /\ exports' = Append(exports, m) /\ offer' = NoOffer /\ offer.at # "idle"
          /\ UNCHANGED <<keeps, scheduled, sequence, pending, received, wasted>>
      BY <1>9, <2>1 DEF Put, bridgeVars
    <3>2. m \in Messages /\ o = One(m)
      BY <1>2, <3>1
    <3> HIDE DEF m
    <3>3. Append(e, m) = Cat(e, One(m))
      BY <1>2, <3>2, AppendIsCat
    <3>4. Stream' = Lined(r, p, Cat(e, One(m)), Nil)
      BY <1>4, <3>1, <3>3 DEF Stream, NoOffer, p
    <3>5. Stream' = Stream
      BY <1>2, <1>3, <3>2, <3>4, LinesUp
    <3>6. QED
      BY <1>5, <3>1, <3>5 DEF NoOffer
  <2>2. CASE ~(Len(exports) < Capacity)
    <3>1. /\ offer.at = "put" /\ offer' = [offer EXCEPT !.at = "replace"]
          /\ UNCHANGED <<keeps, scheduled, sequence, exports, pending, received, wasted>>
      BY <1>1, <1>9, <2>2 DEF Put, bridgeVars
    <3>2. offer'.message = offer.message /\ offer'.at = "replace"
      BY <1>1, <3>1 DEF ExporterTypeOK
    <3>3. Stream' = Stream
      BY <3>1, <3>2 DEF Stream
    <3>4. QED
      BY <1>5, <3>1, <3>2, <3>3
  <2>3. QED
    BY <2>1, <2>2
<1>10. ASSUME Replace
       PROVE  ScenesFit' /\ UpdatesFit'
  <2>1. /\ offer.at = "replace" /\ offer' = [offer EXCEPT !.at = "retry"]
        /\ UNCHANGED <<keeps, sequence, pending, received, wasted>>
    BY <1>10 DEF Replace, bridgeVars
  <2>2. offer'.message = offer.message /\ offer'.at = "retry" /\ offer.at # "idle"
    BY <1>1, <2>1 DEF ExporterTypeOK
  <2>3. CASE exports = <<>>
    <3>1. exports' = exports /\ scheduled' = scheduled
      BY <1>10, <2>3 DEF Replace
    <3>2. Stream' = Stream
      BY <2>1, <2>2, <3>1 DEF Stream
    <3>3. QED
      BY <1>5, <2>1, <2>2, <3>1, <3>2
  <2>4. CASE exports # <<>>
    <3> DEFINE h == Head(exports)
               t == Tail(exports)
               a == Cat(r, p)
               b == Cat(t, o)
    <3>1. exports' = t /\ scheduled' = scheduled \ {h}
      BY <1>10, <2>4 DEF Replace
    <3>2. h \in Messages /\ t \in Seq(Messages) /\ e = Cat(One(h), t)
      BY <1>2, <2>4, HeadFirst
    <3> HIDE DEF h, t
    <3>3. a \in Seq(Messages) /\ b \in Seq(Messages)
      BY <1>2, <3>2, CatIsList
    <3>4. Stream = Cat(Cat(a, One(h)), b)
      BY <1>2, <1>3, <3>2, LinesUp
    <3>5. Stream' = Cat(a, b)
      BY <2>1, <2>2, <3>1 DEF Stream, Lined, p, o
    <3>6. ASSUME ~keeps
          PROVE  h # sequence
      <4>1. Rising(Stream) /\ sequence = offer.message
        BY <1>1, <2>2, <3>6 DEF UpdatesFit
      <4>2. ToSet(b) = ToSet(t) \cup ToSet(o)
        BY <1>2, <3>2, CatSet
      <4>3. offer.message \in Messages /\ ToSet(o) = {offer.message}
        BY <1>2, <2>2, OneIsList
      <4> HIDE DEF a, b
      <4>4. \A x \in ToSet(b) : h < x
        BY <3>2, <3>3, <3>4, <3>5, <4>1, OneLess
      <4>5. h < sequence
        BY <4>1, <4>2, <4>3, <4>4
      <4>6. QED
        BY <3>2, <4>5 DEF Messages
    <3> HIDE DEF a, b
    <3>7. QED
      BY <1>1, <2>1, <2>2, <3>1, <3>2, <3>3, <3>4, <3>5, <3>6, StreamLoses
  <2>5. QED
    BY <2>3, <2>4
<1>11. ASSUME TakeMessage
       PROVE  ScenesFit' /\ UpdatesFit'
  <2> DEFINE h == Head(exports)
             t == Tail(exports)
  <2>1. /\ pending = 0 /\ exports # <<>> /\ pending' = h /\ exports' = t
        /\ UNCHANGED <<keeps, scheduled, sequence, offer, received, wasted>>
    BY <1>11 DEF TakeMessage, publisherVars, bridgeVars
  <2>2. h \in Messages /\ t \in Seq(Messages) /\ e = Cat(One(h), t)
    BY <1>2, <2>1, HeadFirst
  <2> HIDE DEF h, t
  <2>3. Stream' = Lined(r, One(h), t, o) /\ Stream = Lined(r, Nil, Cat(One(h), t), o)
    BY <1>2, <1>3, <1>4, <2>1, <2>2 DEF Stream, o
  <2>4. Lined(r, One(h), t, o) = Lined(r, Nil, Cat(One(h), t), o)
    <3>1. r \in Seq(Messages) /\ o \in Seq(Messages) /\ t \in Seq(Messages) /\ h \in Messages
      BY <1>2, <2>2
    <3>2. QED
      BY <3>1, LinesUp
  <2>5. QED
    BY <1>5, <2>1, <2>3, <2>4
<1>12. ASSUME Connect
       PROVE  ScenesFit' /\ UpdatesFit'
  <2>1. /\ pending > 0
        /\ UNCHANGED <<keeps, scheduled, sequence, offer, exports, received>>
    BY <1>12 DEF Connect, publisherVars, bridgeVars
  <2>2. CASE UNCHANGED <<pending, wasted>>
    <3>1. Stream' = Stream
      BY <2>1, <2>2 DEF Stream
    <3>2. QED
      BY <1>5, <2>1, <2>2, <3>1
  <2>3. CASE pending' = 0 /\ wasted' = wasted \cup {pending}
    BY <1>4, <1>6, <2>1, <2>3
  <2>4. QED
    BY <1>12, <2>2, <2>3 DEF Connect, GiveUpOn
<1>13. ASSUME Send
       PROVE  ScenesFit' /\ UpdatesFit'
  <2>1. /\ pending > 0 /\ received' = Append(received, pending) /\ pending' = 0
        /\ UNCHANGED <<keeps, scheduled, sequence, offer, exports, wasted>>
    BY <1>13 DEF Send, publisherVars
  <2>2. pending \in Messages /\ p = One(pending)
    BY <1>2, <2>1
  <2>3. Append(r, pending) = Cat(r, One(pending))
    BY <1>2, <2>2, AppendIsCat
  <2>4. Stream' = Lined(Cat(r, One(pending)), Nil, e, o)
    BY <1>4, <2>1, <2>3 DEF Stream, o
  <2>5. Stream' = Stream
    BY <1>2, <1>3, <2>2, <2>4, LinesUp
  <2>6. QED
    BY <1>5, <2>1, <2>5
<1>14. ASSUME SendBroken
       PROVE  ScenesFit' /\ UpdatesFit'
  <2>1. /\ pending > 0
        /\ UNCHANGED <<keeps, scheduled, sequence, offer, exports, received>>
    BY <1>14 DEF SendBroken, publisherVars, bridgeVars
  <2>2. CASE UNCHANGED <<pending, wasted>>
    <3>1. Stream' = Stream
      BY <2>1, <2>2 DEF Stream
    <3>2. QED
      BY <1>5, <2>1, <2>2, <3>1
  <2>3. CASE pending' = 0 /\ wasted' = wasted \cup {pending}
    BY <1>4, <1>6, <2>1, <2>3
  <2>4. QED
    BY <1>14, <2>2, <2>3 DEF SendBroken, GiveUpOn
<1>15. ASSUME SendRaises
       PROVE  ScenesFit' /\ UpdatesFit'
  <2>1. /\ pending > 0 /\ pending' = Dead /\ wasted' = wasted \cup {pending}
        /\ UNCHANGED <<keeps, scheduled, sequence, offer, exports, received>>
    BY <1>15 DEF SendRaises, publisherVars, bridgeVars
  <2>2. QED
    BY <1>4, <1>6, <2>1
<1>16. ASSUME BridgeGoes \/ BridgeComes
       PROVE  ScenesFit' /\ UpdatesFit'
  <2>1. UNCHANGED <<keeps, scheduled, sequence, offer, exports, pending, received, wasted>>
    BY <1>16 DEF BridgeGoes, BridgeComes, publisherVars
  <2>2. Stream' = Stream
    BY <2>1 DEF Stream
  <2>3. QED
    BY <1>5, <2>1, <2>2
<1>17. QED
  BY <1>7, <1>8, <1>9, <1>10, <1>11, <1>12, <1>13, <1>14, <1>15, <1>16 DEF ExporterNext

LEMMA ExporterStutter ==
  ASSUME ExporterInv, UNCHANGED exporterVars
  PROVE  ExporterInv'
<1>1. UNCHANGED <<keeps, scheduled, sequence, offer, exports, pending, received, wasted>>
  BY DEF exporterVars, publisherVars, bridgeVars
<1>2. Stream' = Stream /\ Capacity' = Capacity
  BY <1>1 DEF Stream, Capacity
<1>3. ScenesFit' /\ UpdatesFit'
  BY <1>1, <1>2 DEF ExporterInv, ScenesFit, UpdatesFit
<1>4. QED
  BY <1>1, <1>2, <1>3 DEF ExporterInv, ExporterTypeOK

LEMMA ExporterStart ==
  ASSUME ExporterAssumption, ExporterInit
  PROVE  ExporterInv
<1>1. /\ keeps \in BOOLEAN /\ scheduled = {} /\ sequence = 0 /\ offer = NoOffer /\ exports = <<>>
      /\ pending = 0 /\ received = <<>> /\ wasted = {}
  BY DEF ExporterInit
<1>2. ExporterTypeOK
  <2>1. exports \in Seq(Messages) /\ Len(exports) = 0 /\ received \in Seq(Messages)
    BY <1>1
  <2>2. Capacity \in Nat
    BY DEF Capacity, ExporterAssumption
  <2>3. QED
    BY <1>1, <2>1, <2>2 DEF ExporterTypeOK, NoOffer, Dead
<1>3. Stream \in Seq(Messages) /\ ToSet(Stream) = {}
  <2>1. /\ received = Nil /\ exports = Nil /\ IfAny(pending) = Nil /\ IfAny(offer.message) = Nil
    BY <1>1 DEF Nil, IfAny, NoOffer
  <2>2. Nil \in Seq(Messages) /\ ToSet(Nil) = {}
    <3>1. exports \in Seq(Messages)
      BY <1>2 DEF ExporterTypeOK
    <3>2. QED
      BY <3>1, CatNil
  <2>3. /\ Lined(Nil, Nil, Nil, Nil) \in Seq(Messages)
        /\ ToSet(Lined(Nil, Nil, Nil, Nil)) = ((ToSet(Nil) \cup ToSet(Nil)) \cup ToSet(Nil)) \cup ToSet(Nil)
    <3>1. 1 \in Messages
      BY DEF Messages
    <3>2. QED
      BY <2>2, <3>1, LinesUp
  <2>4. QED
    BY <2>1, <2>2, <2>3 DEF Stream
<1>4. Distinct(Stream) /\ Rising(Stream)
  <2>1. ToSet(Stream) = {Stream[i] : i \in 1 .. Len(Stream)}
    <3>1. Stream \in Seq(Messages)
      BY <1>3
    <3>2. QED
      BY ONLY <3>1, SetOfList
  <2>2. ASSUME NEW i \in 1 .. Len(Stream) PROVE FALSE
    <3>1. Stream[i] \in ToSet(Stream)
      BY <2>1
    <3>2. QED
      BY <1>3, <3>1
  <2>3. QED
    BY <2>2 DEF Distinct, Rising
<1>5. ScenesFit
  BY <1>1, <1>3, <1>4 DEF ScenesFit
<1>6. UpdatesFit
  BY <1>1, <1>3, <1>4 DEF UpdatesFit, NoOffer
<1>7. QED
  BY <1>1, <1>2, <1>5, <1>6 DEF ExporterInv, NoOffer

(* Whatever the event loop offers, the thread takes and sends and the bridge *)
(* does, the exporter keeps its account of every message.                    *)
THEOREM ExporterFits == ExporterSpec => []ExporterInv
<1>1. ExporterInit => ExporterInv
  BY ExporterAssumption, ExporterStart
<1>2. ExporterInv /\ [ExporterNext]_exporterVars => ExporterInv'
  <2> SUFFICES ASSUME ExporterInv, [ExporterNext]_exporterVars
               PROVE  ExporterInv'
    OBVIOUS
  <2>1. CASE ExporterNext
    <3>1. ExporterTypeOK' /\ (offer'.at = "retry" => Len(exports') < Capacity')
      BY <2>1, ExporterAssumption, ExporterTypeStep
    <3>2. ScenesFit' /\ UpdatesFit'
      BY <2>1, ExporterAssumption, ExporterStreamStep
    <3>3. QED
      BY <3>1, <3>2 DEF ExporterInv
  <2>2. CASE UNCHANGED exporterVars
    BY <2>2, ExporterStutter
  <2>3. QED
    BY <2>1, <2>2
<1>3. QED
  BY <1>1, <1>2, PTL DEF ExporterSpec

(* The second put finds room, a scheduled scene is on its way or was sent    *)
(* and is so once, and the updates of state are delivered in their order and *)
(* the newest is not given up for room (map_tcp.py and the other *_tcp.py):  *)
(* for every set of scenes, length of the queue, number of updates and of    *)
(* outages.                                                                  *)
THEOREM ExportsAreKept == ExporterSpec => []ExportsKept
<1>1. ExporterInv => ExportsKept
  <2> SUFFICES ASSUME ExporterInv
               PROVE  ExportsKept
    OBVIOUS
  <2>1. /\ ExporterTypeOK /\ ScenesFit /\ UpdatesFit
        /\ offer.at = "retry" => Len(exports) < Capacity
    BY DEF ExporterInv
  <2>2. /\ received \in Seq(Messages) /\ exports \in Seq(Messages)
        /\ IfAny(pending) \in Seq(Messages) /\ IfAny(offer.message) \in Seq(Messages)
    BY <2>1, ExporterParts
  <2>3. InHand = Cat(Cat(IfAny(pending), exports), IfAny(offer.message))
    BY DEF InHand, Cat
  <2>4. received \o InHand = Cat(received, InHand)
    BY DEF Cat
  <2>5. Cat(IfAny(pending), exports) \in Seq(Messages)
    BY <2>2, CatIsList
  <2>6. InHand \in Seq(Messages)
    BY <2>2, <2>3, <2>5, CatIsList
  <2>7. received \o InHand = Stream
    <3>1. /\ Cat(exports, IfAny(offer.message)) \in Seq(Messages)
      BY <2>2, CatIsList
    <3>2. InHand = Cat(IfAny(pending), Cat(exports, IfAny(offer.message)))
      BY <2>2, <2>3, CatAssociates
    <3>3. Cat(received, Cat(IfAny(pending), Cat(exports, IfAny(offer.message)))) = Stream
      BY <2>2, <3>1, CatAssociates DEF Stream, Lined
    <3>4. QED
      BY <2>4, <3>2, <3>3
  <2>8. ToSet(Stream) = ToSet(InHand) \cup ToSet(received)
    <3>1. ToSet(Cat(received, InHand)) = ToSet(received) \cup ToSet(InHand)
      BY <2>2, <2>6, CatSet
    <3>2. QED
      BY <2>4, <2>7, <3>1
  <2> DEFINE q == received \o InHand
  <2>9. q = Stream
    BY <2>7
  <2>10. ASSUME keeps
         PROVE  /\ scheduled = ToSet(InHand) \cup ToSet(received) \cup wasted
                /\ \A i, j \in 1 .. Len(q) : q[i] = q[j] => i = j
    <3> HIDE DEF q
    <3>1. scheduled = ToSet(Stream) \cup wasted /\ Distinct(q)
      BY <2>1, <2>9, <2>10 DEF ScenesFit
    <3>2. QED
      BY <2>8, <3>1 DEF Distinct
  <2>11. ASSUME ~keeps
         PROVE  /\ \A i, j \in 1 .. Len(q) : i < j => q[i] < q[j]
                /\ sequence > 0 => sequence \in ToSet(q) \cup wasted
    <3> HIDE DEF q
    <3>1. Rising(q) /\ (sequence > 0 => sequence \in ToSet(q) \cup wasted)
      BY <2>1, <2>9, <2>11 DEF UpdatesFit
    <3>2. QED
      BY <3>1 DEF Rising
  <2>12. QED
    BY <2>1, <2>10, <2>11 DEF ExportsKept
<1>2. QED
  BY <1>1, ExporterFits, PTL

-----------------------------------------------------------------------------
(* The chunks of the video model (VideoPrefetch)                             *)

\* The images of a chunk up to time b that were not handed over yet, from lo.
ImagesLeft(lo, b, sub) == {CameraAt(t, t \in sub) : t \in lo .. b}

\* The rollout before its first chunk.
ChunkAwaited ==
  /\ chunks = 0 /\ firstChunk = TRUE /\ delivered = {} /\ seen = {}
  /\ egoUntil = video.anchor + video.first
  /\ events = {PrefetchAt(video.anchor, video.anchor + 1, video.first),
               PolicyAt(video.anchor + video.first), StepAt(video.anchor + video.first), EndAt(EndTime)}

\* The rollout within the chunk that ends at b, whose images from lo are still
\* to come and which the driver gets of sub: the decision and the step at its
\* end are still to come, or the next ones are planned.
ChunkUnderWay(b, lo, sub, decision, commit) ==
  /\ chunks \in Nat \ {0} /\ firstChunk = FALSE
  /\ b \in Nat /\ video.anchor + video.first <= b /\ lo \in video.anchor + 1 .. b + 1
  /\ b \in sub /\ (video.count = 0 => video.anchor + 1 .. b \subseteq sub)
  /\ decision \in {b, b + video.control} /\ commit \in {b, b + video.control}
  /\ decision # b => lo = b + 1
  /\ events = ImagesLeft(lo, b, sub) \cup
       {PrefetchAt(b, b + 1, video.control), PolicyAt(decision), StepAt(commit), EndAt(EndTime)}
  /\ egoUntil = commit
  /\ delivered \subseteq video.anchor + 1 .. lo - 1
  /\ video.count = 0 => delivered = video.anchor + 1 .. lo - 1
  /\ lo = b + 1 => b \in delivered
  /\ lo > video.anchor + 1 => lastFrame = lo - 1

DecidedInTime ==
  \A d \in seen :
    /\ d.last = d.at /\ d.at \in d.frames
    /\ \A t \in d.frames : t <= d.at
    /\ video.count = 0 => d.frames = video.anchor + 1 .. d.at

VideoInv ==
  /\ video \in VideoConfig /\ DecidedInTime
  /\ phase # "running" => seen = {}
  /\ phase = "running" =>
       /\ video.control = video.regular
       /\ \/ ChunkAwaited
          \/ \E b, lo, decision, commit \in Nat, sub \in SUBSET Nat : ChunkUnderWay(b, lo, sub, decision, commit)

LEMMA EventFields ==
  ASSUME NEW t, NEW b, NEW c, NEW n
  PROVE  /\ CameraAt(t, b).at = t /\ CameraAt(t, b).priority = 10 /\ CameraAt(t, b).size = 0
         /\ PolicyAt(t).at = t /\ PolicyAt(t).priority = 20 /\ PolicyAt(t).size = 0
         /\ EndAt(t).at = t /\ EndAt(t).priority = 30 /\ EndAt(t).size = 0
         /\ StepAt(t).at = t /\ StepAt(t).priority = 80 /\ StepAt(t).size = 0
         /\ PrefetchAt(t, c, n).at = t /\ PrefetchAt(t, c, n).priority = 90
         /\ PrefetchAt(t, c, n).start = c /\ PrefetchAt(t, c, n).size = n
BY DEF CameraAt, PolicyAt, EndAt, StepAt, PrefetchAt

LEMMA VideoRanges ==
  ASSUME video \in VideoConfig
  PROVE  /\ video.anchor \in Nat /\ video.control \in Nat \ {0} /\ video.first \in Nat \ {0}
         /\ video.regular \in Nat \ {0} /\ video.count \in Nat /\ video.spacing \in Nat /\ EndTime \in Nat
BY VideoAssumption DEF VideoConfig

\* _build_forwarding_mask: the last image of a chunk is always forwarded, and
\* every one without subsampling.
LEMMA LastIsForwarded ==
  ASSUME video \in VideoConfig, NEW lo \in Nat, NEW b \in Nat, lo <= b
  PROVE  b \in Forwarded(lo .. b) /\ (video.count = 0 => Forwarded(lo .. b) = lo .. b)
<1> DEFINE chunk == lo .. b
<1>1. Max(chunk) = b
  <2>1. b \in chunk /\ \A t \in chunk : b >= t
    OBVIOUS
  <2>2. \A x \in chunk : (\A t \in chunk : x >= t) => x = b
    BY <2>1
  <2> QED BY <2>1, <2>2 DEF Max
<1>2. CASE video.count = 0 \/ video.spacing = 0
  BY <1>1, <1>2 DEF Forwarded
<1>3. CASE ~(video.count = 0 \/ video.spacing = 0)
  <2> DEFINE Away(k, t) == IF t < Max(chunk) - k * video.spacing THEN Max(chunk) - k * video.spacing - t
                           ELSE t - (Max(chunk) - k * video.spacing)
             Near(k)    == {t \in chunk : \A u \in chunk : Away(k, t) <= Away(k, u)}
  <2>1. Forwarded(chunk) = {Max(Near(k)) : k \in 0 .. video.count - 1}
    BY <1>3 DEF Forwarded
  <2>2. 0 \in 0 .. video.count - 1 /\ 0 * video.spacing = 0
    BY <1>3, VideoRanges
  <2>3. \A t \in chunk : Away(0, t) = b - t
    BY <1>1, <2>2
  <2>4. Near(0) = {b}
    <3>1. b \in chunk /\ \A t \in chunk : t \in Int /\ t <= b
      OBVIOUS
    <3> HIDE DEF chunk, Away
    <3>2. b \in Near(0)
      BY <2>3, <3>1
    <3>3. \A t \in Near(0) : t = b
      BY <2>3, <3>1
    <3> QED BY <3>2, <3>3
  <2>5. Max({b}) = b
    BY DEF Max
  <2> HIDE DEF Near
  <2>6. b \in Forwarded(chunk)
    BY <2>1, <2>2, <2>4, <2>5
  <2> QED BY <1>3, <2>6
<1> QED BY <1>2, <1>3

LEMMA VideoStart == VideoInit => VideoInv
BY VideoAssumption DEF VideoInit, VideoInv, DecidedInTime

\* The events of a chunk under way.
LEMMA ChunkEvents ==
  ASSUME NEW b, NEW lo, NEW sub, NEW decision, NEW commit, ChunkUnderWay(b, lo, sub, decision, commit),
         NEW e \in events
  PROVE  \/ e \in ImagesLeft(lo, b, sub) \/ e = PrefetchAt(b, b + 1, video.control)
         \/ e = PolicyAt(decision) \/ e = StepAt(commit) \/ e = EndAt(EndTime)
BY DEF ChunkUnderWay

LEMMA ImageFields ==
  ASSUME NEW lo, NEW b, NEW sub, NEW e \in ImagesLeft(lo, b, sub)
  PROVE  e.at \in lo .. b /\ e = CameraAt(e.at, e.at \in sub) /\ e.priority = 10 /\ e.size = 0
<1>1. PICK t \in lo .. b : e = CameraAt(t, t \in sub)
  BY DEF ImagesLeft
<1> QED BY <1>1, EventFields

\* Which event can be next: the oldest image; without one, the decision at the
\* end of the chunk; after it the step; after both, the next chunk.
LEMMA NextInChunk ==
  ASSUME video \in VideoConfig, NEW b, NEW lo, NEW sub, NEW decision, NEW commit,
         ChunkUnderWay(b, lo, sub, decision, commit), NEW e, IsNext(e)
  PROVE  /\ e.priority = 10 => e = CameraAt(lo, lo \in sub) /\ lo <= b
         /\ e.priority = 20 => e = PolicyAt(b) /\ decision = b /\ lo = b + 1
         /\ e.priority = 80 => e = StepAt(b) /\ commit = b /\ lo = b + 1
         /\ e.size > 0 => /\ e = PrefetchAt(b, b + 1, video.control)
                          /\ decision = b + video.control /\ commit = b + video.control /\ lo = b + 1
<1> USE VideoRanges
<1>1. e \in events /\ \A f \in events : e.at < f.at \/ (e.at = f.at /\ e.priority <= f.priority)
  BY DEF IsNext
<1>2. /\ b \in Nat /\ lo \in video.anchor + 1 .. b + 1
      /\ decision \in {b, b + video.control} /\ commit \in {b, b + video.control}
      /\ decision # b => lo = b + 1
  BY DEF ChunkUnderWay
<1>3. /\ PrefetchAt(b, b + 1, video.control) \in events /\ PolicyAt(decision) \in events
      /\ StepAt(commit) \in events
  BY DEF ChunkUnderWay
<1>4. lo <= b => CameraAt(lo, lo \in sub) \in events
  <2> SUFFICES ASSUME lo <= b PROVE CameraAt(lo, lo \in sub) \in events
    OBVIOUS
  <2>1. lo \in lo .. b
    BY <1>2
  <2> QED BY <2>1 DEF ChunkUnderWay, ImagesLeft
<1>5. \/ e \in ImagesLeft(lo, b, sub) \/ e = PrefetchAt(b, b + 1, video.control)
      \/ e = PolicyAt(decision) \/ e = StepAt(commit) \/ e = EndAt(EndTime)
  BY <1>1, ChunkEvents
<1>6. lo <= b => e.at < lo \/ (e.at = lo /\ e.priority <= 10)
  BY <1>1, <1>4, EventFields
<1>7. e.at < b \/ (e.at = b /\ e.priority <= 90)
  BY <1>1, <1>3, EventFields
<1>8. e.at < decision \/ (e.at = decision /\ e.priority <= 20)
  BY <1>1, <1>3, EventFields
<1>9. e.at < commit \/ (e.at = commit /\ e.priority <= 80)
  BY <1>1, <1>3, EventFields
<1>10. CASE e \in ImagesLeft(lo, b, sub)
  <2>1. e.at \in lo .. b /\ e = CameraAt(e.at, e.at \in sub) /\ e.priority = 10 /\ e.size = 0
    BY <1>10, ImageFields
  <2>2. lo <= b /\ e.at = lo
    BY <1>2, <1>6, <2>1
  <2> QED BY <2>1, <2>2
<1>11. CASE e = PrefetchAt(b, b + 1, video.control)
  <2>1. e.at = b /\ e.priority = 90 /\ e.size = video.control
    BY <1>11, EventFields
  <2>2. decision = b + video.control /\ commit = b + video.control
    BY <1>2, <1>8, <1>9, <2>1
  <2> QED BY <1>2, <1>11, <2>1, <2>2
<1>12. CASE e = PolicyAt(decision)
  <2>1. e.at = decision /\ e.priority = 20 /\ e.size = 0
    BY <1>12, EventFields
  <2>2. decision = b
    BY <1>2, <1>7, <2>1
  <2>3. lo = b + 1
    BY <1>2, <1>6, <2>1, <2>2
  <2> QED BY <1>12, <2>1, <2>2, <2>3
<1>13. CASE e = StepAt(commit)
  <2>1. e.at = commit /\ e.priority = 80 /\ e.size = 0
    BY <1>13, EventFields
  <2>2. commit = b
    BY <1>2, <1>7, <2>1
  <2>3. lo = b + 1
    BY <1>2, <1>6, <2>1, <2>2
  <2> QED BY <1>13, <2>1, <2>2, <2>3
<1>14. CASE e = EndAt(EndTime)
  BY <1>14, EventFields
<1> QED BY <1>5, <1>10, <1>11, <1>12, <1>13, <1>14

\* Before the first chunk, it is the first event.
LEMMA FirstChunkIsNext ==
  ASSUME video \in VideoConfig, ChunkAwaited, NEW e, IsNext(e)
  PROVE  \/ e = PrefetchAt(video.anchor, video.anchor + 1, video.first)
         \/ e = EndAt(EndTime)
<1> USE VideoRanges
<1>1. /\ e \in events /\ PrefetchAt(video.anchor, video.anchor + 1, video.first) \in events
      /\ \A f \in events : e.at < f.at \/ (e.at = f.at /\ e.priority <= f.priority)
  BY DEF IsNext, ChunkAwaited
<1>2. e.at < video.anchor \/ e.at = video.anchor
  BY <1>1, EventFields
<1>3. e # PolicyAt(video.anchor + video.first) /\ e # StepAt(video.anchor + video.first)
  <2>1. /\ PolicyAt(video.anchor + video.first).at = video.anchor + video.first
        /\ StepAt(video.anchor + video.first).at = video.anchor + video.first
    BY EventFields
  <2>2. ~(video.anchor + video.first < video.anchor \/ video.anchor + video.first = video.anchor)
    OBVIOUS
  <2> QED BY <1>2, <2>1, <2>2
<1> QED BY <1>1, <1>3 DEF ChunkAwaited

LEMMA BeginVideoStep ==
  ASSUME VideoInv, BeginVideo PROVE VideoInv'
<1>1. video' = video /\ video \in VideoConfig /\ phase = "none" /\ seen = {}
  BY DEF VideoInv, BeginVideo
<1>2. CASE Aligned
  <2>1. /\ phase' = "running" /\ seen' = {} /\ video'.control = video'.regular
        /\ firstChunk' = TRUE /\ chunks' = 0 /\ delivered' = {}
        /\ egoUntil' = video.anchor + video.first
        /\ events' = {PrefetchAt(video.anchor, video.anchor + 1, video.first),
                      PolicyAt(video.anchor + video.first), StepAt(video.anchor + video.first), EndAt(EndTime)}
    BY <1>1, <1>2 DEF BeginVideo, Aligned, FirstPolicy
  <2>2. ChunkAwaited'
    BY <1>1, <2>1 DEF ChunkAwaited
  <2> QED BY <1>1, <2>1, <2>2 DEF VideoInv, DecidedInTime
<1>3. CASE ~Aligned
  BY <1>1, <1>3 DEF BeginVideo, VideoInv, DecidedInTime
<1> QED BY <1>2, <1>3

LEMMA EndVideoStep ==
  ASSUME VideoInv, EndVideo PROVE VideoInv'
<1>1. phase' # "running" /\ seen' = {} /\ video' \in VideoConfig
  BY VideoAssumption DEF EndVideo
<1> QED BY <1>1 DEF VideoInv, DecidedInTime

\* A chunk was rendered: its images come, and the next chunk at its end, where
\* a decision and a step are due.
LEMMA ChunkComes ==
  ASSUME VideoInv, phase = "running", NEW e \in events, Prefetch(e), NEW b \in Nat,
         e.start + e.size - 1 = b, e.start + e.size = b + 1, e.start \in video.anchor + 1 .. b,
         video.anchor + video.first <= b,
         events \ {e} = {PolicyAt(b), StepAt(b), EndAt(EndTime)},
         egoUntil = b, chunks \in Nat, delivered \subseteq video.anchor + 1 .. e.start - 1,
         video.count = 0 => delivered = video.anchor + 1 .. e.start - 1,
         e.start > video.anchor + 1 => lastFrame = e.start - 1
  PROVE  VideoInv'
<1> USE VideoRanges
<1>1. /\ UNCHANGED <<video, phase, egoUntil, delivered, lastFrame, seen>>
      /\ chunks' = chunks + 1 /\ firstChunk' = FALSE
      /\ video \in VideoConfig /\ video.control = video.regular /\ DecidedInTime
  BY DEF Prefetch, RenderChunk, VideoInv
<1>2. PICK lo : lo = e.start
  OBVIOUS
<1>3. PICK sub : sub = (Forwarded(lo .. b) \cap Nat) \cup (video.anchor + 1 .. lo - 1)
  OBVIOUS
<1>4. events' = (events \ {e}) \cup {CameraAt(t, t \in Forwarded(lo .. b)) : t \in lo .. b}
                  \cup {PrefetchAt(b, b + 1, video.regular)}
  BY <1>2 DEF Prefetch, NextPrefetch
<1>5. lo \in Nat /\ lo <= b /\ lo \in video.anchor + 1 .. b
  BY <1>1, <1>2
<1>6. b \in sub /\ (video.count = 0 => video.anchor + 1 .. b \subseteq sub)
  <2>1. b \in Forwarded(lo .. b) /\ (video.count = 0 => Forwarded(lo .. b) = lo .. b)
    BY <1>1, <1>5, LastIsForwarded
  <2>2. video.anchor + 1 .. b \subseteq (lo .. b) \cup (video.anchor + 1 .. lo - 1)
    BY <1>1, <1>5
  <2>3. lo .. b \subseteq Nat /\ b \in Nat
    BY <1>5
  <2> QED BY <1>3, <2>1, <2>2, <2>3
<1>7. {CameraAt(t, t \in Forwarded(lo .. b)) : t \in lo .. b} = ImagesLeft(lo, b, sub)
  <2>1. \A t \in lo .. b : (t \in Forwarded(lo .. b)) = (t \in sub)
    <3>1. \A t \in lo .. b : t \in Nat /\ t \notin video.anchor + 1 .. lo - 1
      BY <1>1, <1>5
    <3> QED BY <1>3, <3>1
  <2>2. \A t \in lo .. b : CameraAt(t, t \in Forwarded(lo .. b)) = CameraAt(t, t \in sub)
    BY <2>1
  <2> QED BY <2>2 DEF ImagesLeft
<1>8. events' = ImagesLeft(lo, b, sub) \cup
                  {PrefetchAt(b, b + 1, video.control), PolicyAt(b), StepAt(b), EndAt(EndTime)}
  BY <1>1, <1>4, <1>7
<1>9. ChunkUnderWay(b, lo, sub, b, b)'
  <2>1. lo # b + 1 /\ lo \in video.anchor + 1 .. b + 1
    BY <1>1, <1>5
  <2>2. chunks' \in Nat \ {0}
    BY <1>1
  <2>3. /\ delivered \subseteq video.anchor + 1 .. lo - 1
        /\ video.count = 0 => delivered = video.anchor + 1 .. lo - 1
        /\ lo > video.anchor + 1 => lastFrame = lo - 1
    BY <1>2
  <2>4. video' = video /\ egoUntil' = b /\ firstChunk' = FALSE /\ delivered' = delivered /\ lastFrame' = lastFrame
    BY <1>1
  <2> QED BY <1>6, <1>8, <2>1, <2>2, <2>3, <2>4 DEF ChunkUnderWay
<1>10. DecidedInTime'
  BY <1>1 DEF DecidedInTime
<1>11. video' \in VideoConfig /\ phase' = "running" /\ video'.control = video'.regular
  BY <1>1
<1>12. \E c, l, decision, commit \in Nat, s \in SUBSET Nat : ChunkUnderWay(c, l, s, decision, commit)'
  <2>1. video.anchor + 1 .. lo - 1 \subseteq Nat
    BY <1>1, <1>5
  <2>2. sub \in SUBSET Nat
    BY <1>3, <2>1
  <2> QED BY <1>5, <1>9, <2>2
<1> QED BY <1>10, <1>11, <1>12 DEF VideoInv

LEMMA PrefetchStep ==
  ASSUME VideoInv, phase = "running", NEW e \in events, Prefetch(e) PROVE VideoInv'
<1> USE VideoRanges
<1>1. IsNext(e) /\ e.size > 0 /\ video \in VideoConfig /\ video.control = video.regular
  BY DEF Prefetch, VideoInv
<1>2. CASE ChunkAwaited
  <2>1. e = PrefetchAt(video.anchor, video.anchor + 1, video.first)
    <3>1. EndAt(EndTime).size = 0 /\ ~(0 > 0)
      BY EventFields
    <3> QED BY <1>1, <1>2, <3>1, FirstChunkIsNext
  <2>2. PICK b : b = video.anchor + video.first
    OBVIOUS
  <2>3. e.start = video.anchor + 1 /\ e.size = video.first /\ e.at = video.anchor
    BY <2>1, EventFields
  <2>4. /\ e.start + e.size - 1 = b /\ e.start + e.size = b + 1 /\ e.start \in video.anchor + 1 .. b
        /\ b \in Nat /\ video.anchor + video.first <= b
    BY <1>1, <2>2, <2>3
  <2>5. e # PolicyAt(b) /\ e # StepAt(b) /\ e # EndAt(EndTime)
    BY <1>1, EventFields
  <2>6. events \ {e} = {PolicyAt(b), StepAt(b), EndAt(EndTime)}
    BY <1>2, <2>1, <2>2, <2>5 DEF ChunkAwaited
  <2>7. /\ egoUntil = b /\ chunks \in Nat /\ delivered = {}
        /\ ~(e.start > video.anchor + 1) /\ video.anchor + 1 .. e.start - 1 = {}
    BY <1>1, <1>2, <2>2, <2>3 DEF ChunkAwaited
  <2> QED BY <2>4, <2>6, <2>7, ChunkComes
<1>3. ASSUME NEW d \in Nat, NEW lo \in Nat, NEW decision \in Nat, NEW commit \in Nat, NEW sub,
             ChunkUnderWay(d, lo, sub, decision, commit)
      PROVE  VideoInv'
  <2>1. /\ e = PrefetchAt(d, d + 1, video.control) /\ lo = d + 1
        /\ decision = d + video.control /\ commit = d + video.control
    BY <1>1, <1>3, NextInChunk
  <2>2. PICK b : b = d + video.control
    OBVIOUS
  <2>3. e.start = d + 1 /\ e.size = video.control /\ e.at = d
    BY <2>1, EventFields
  <2>4. video.anchor + video.first <= d
    BY <1>3 DEF ChunkUnderWay
  <2>5. /\ e.start + e.size - 1 = b /\ e.start + e.size = b + 1 /\ e.start \in video.anchor + 1 .. b
        /\ b \in Nat /\ video.anchor + video.first <= b
    BY <1>1, <2>2, <2>3, <2>4
  <2>6. e # PolicyAt(b) /\ e # StepAt(b) /\ e # EndAt(EndTime)
    BY <1>1, EventFields
  <2>7. ImagesLeft(lo, d, sub) = {}
    <3>1. lo .. d = {}
      BY <2>1
    <3> QED BY <3>1 DEF ImagesLeft
  <2>8. events \ {e} = {PolicyAt(b), StepAt(b), EndAt(EndTime)}
    BY <1>3, <2>1, <2>2, <2>6, <2>7 DEF ChunkUnderWay
  <2>9. /\ egoUntil = b /\ chunks \in Nat /\ delivered \subseteq video.anchor + 1 .. e.start - 1
        /\ video.count = 0 => delivered = video.anchor + 1 .. e.start - 1
        /\ e.start > video.anchor + 1 => lastFrame = e.start - 1
    BY <1>3, <2>1, <2>2, <2>3 DEF ChunkUnderWay
  <2> QED BY <2>5, <2>8, <2>9, ChunkComes
<1> QED BY <1>2, <1>3 DEF VideoInv

\* The images come in their order, and the driver gets the forwarded ones.
LEMMA FrameStep ==
  ASSUME VideoInv, phase = "running", NEW e \in events, Frame(e) PROVE VideoInv'
<1> USE VideoRanges
<1>1. /\ UNCHANGED <<video, phase, firstChunk, chunks, egoUntil, seen>>
      /\ IsNext(e) /\ e.priority = 10 /\ lastFrame' = e.at /\ events' = events \ {e}
      /\ delivered' = IF e.submit THEN delivered \cup {e.at} ELSE delivered
      /\ video \in VideoConfig /\ video.control = video.regular /\ DecidedInTime
  BY DEF Frame, VideoInv
<1>2. ~ChunkAwaited
  <2>1. /\ PrefetchAt(video.anchor, video.anchor + 1, video.first).priority = 90
        /\ EndAt(EndTime).priority = 30
    BY EventFields
  <2> QED BY <1>1, <2>1, FirstChunkIsNext
<1>3. PICK b \in Nat, lo \in Nat, decision \in Nat, commit \in Nat, sub \in SUBSET Nat :
        ChunkUnderWay(b, lo, sub, decision, commit)
  BY <1>2 DEF VideoInv
<1>4. e = CameraAt(lo, lo \in sub) /\ lo <= b /\ e.at = lo
  <2>1. e = CameraAt(lo, lo \in sub) /\ lo <= b
    BY <1>1, <1>3, NextInChunk
  <2> QED BY <2>1, EventFields
<1>5. delivered' = IF lo \in sub THEN delivered \cup {lo} ELSE delivered
  <2>1. CASE lo \in sub
    <3>1. e = CameraAt(lo, TRUE)
      BY <1>4, <2>1
    <3>2. e.submit = TRUE
      BY <3>1 DEF CameraAt
    <3> QED BY <1>1, <1>4, <2>1, <3>2
  <2>2. CASE lo \notin sub
    <3>0. (lo \in sub) = FALSE
      BY <2>2
    <3>1. e = CameraAt(lo, FALSE)
      BY <1>4, <3>0
    <3>2. e.submit = FALSE
      BY <3>1 DEF CameraAt
    <3> QED BY <1>1, <1>4, <2>2, <3>2
  <2> QED BY <2>1, <2>2
<1>6. events' = ImagesLeft(lo + 1, b, sub) \cup
                  {PrefetchAt(b, b + 1, video.control), PolicyAt(decision), StepAt(commit), EndAt(EndTime)}
  <2> DEFINE rest == {PrefetchAt(b, b + 1, video.control), PolicyAt(decision), StepAt(commit), EndAt(EndTime)}
  <2>1. events = ImagesLeft(lo, b, sub) \cup rest
    BY <1>3 DEF ChunkUnderWay
  <2>2. e \notin rest
    <3>1. \A x \in rest : x.priority # 10
      BY EventFields
    <3> QED BY <1>1, <3>1
  <2>3. ImagesLeft(lo, b, sub) \ {e} = ImagesLeft(lo + 1, b, sub)
    <3>1. lo .. b = {lo} \cup (lo + 1 .. b)
      BY <1>4
    <3>2. ImagesLeft(lo, b, sub) = {e} \cup ImagesLeft(lo + 1, b, sub)
      BY <1>4, <3>1 DEF ImagesLeft
    <3>3. e \notin ImagesLeft(lo + 1, b, sub)
      <4>1. \A x \in ImagesLeft(lo + 1, b, sub) : x.at \in lo + 1 .. b
        BY ImageFields
      <4> QED BY <1>4, <4>1
    <3> QED BY <3>2, <3>3
  <2> HIDE DEF rest
  <2>4. events' = ImagesLeft(lo + 1, b, sub) \cup rest
    BY <1>1, <2>1, <2>2, <2>3
  <2> QED BY <2>4 DEF rest
<1>7. /\ lo \in video.anchor + 1 .. b /\ decision = b /\ b \in sub
      /\ video.count = 0 => video.anchor + 1 .. b \subseteq sub
      /\ delivered \subseteq video.anchor + 1 .. lo - 1
      /\ video.count = 0 => delivered = video.anchor + 1 .. lo - 1
  BY <1>3, <1>4 DEF ChunkUnderWay
<1>8. video.anchor + 1 .. lo = (video.anchor + 1 .. lo - 1) \cup {lo} /\ lo = (lo + 1) - 1
  BY <1>1, <1>7
<1>9. /\ delivered' \subseteq video.anchor + 1 .. lo
      /\ video.count = 0 => delivered' = video.anchor + 1 .. lo
      /\ lo + 1 = b + 1 => b \in delivered'
  <2>1. delivered' \subseteq video.anchor + 1 .. lo
    BY <1>5, <1>7, <1>8
  <2>2. video.count = 0 => delivered' = video.anchor + 1 .. lo
    <3>1. video.count = 0 => lo \in sub
      BY <1>7
    <3> QED BY <1>5, <1>7, <1>8, <3>1
  <2>3. lo + 1 = b + 1 => b \in delivered'
    <3>1. lo + 1 = b + 1 => lo = b
      OBVIOUS
    <3> QED BY <1>5, <1>7, <3>1
  <2> QED BY <2>1, <2>2, <2>3
<1>10. ChunkUnderWay(b, lo + 1, sub, decision, commit)'
  <2>1. lo + 1 \in video.anchor + 1 .. b + 1 /\ lo + 1 > video.anchor + 1
    BY <1>1, <1>7
  <2>2. /\ video' = video /\ egoUntil' = egoUntil /\ firstChunk' = firstChunk /\ chunks' = chunks
        /\ lastFrame' = lo
    BY <1>1, <1>4
  <2> QED BY <1>3, <1>6, <1>7, <1>8, <1>9, <2>1, <2>2 DEF ChunkUnderWay
<1>11. \E c, l, d, m \in Nat, s \in SUBSET Nat : ChunkUnderWay(c, l, s, d, m)'
  <2>1. lo + 1 \in Nat
    OBVIOUS
  <2> QED BY <1>10, <2>1
<1> QED BY <1>1, <1>11 DEF VideoInv, DecidedInTime

\* A decision is taken at the end of a chunk all of whose images came.
LEMMA DecideStep ==
  ASSUME VideoInv, phase = "running", NEW e \in events, Decide(e) PROVE VideoInv'
<1> USE VideoRanges
<1>1. /\ UNCHANGED <<video, phase, firstChunk, chunks, egoUntil, delivered, lastFrame>>
      /\ IsNext(e) /\ e.priority = 20
      /\ seen' = seen \cup {[at |-> e.at, frames |-> delivered, last |-> lastFrame]}
      /\ events' = (events \ {e}) \cup {PolicyAt(e.at + video.control)}
      /\ video \in VideoConfig /\ video.control = video.regular /\ DecidedInTime
  BY DEF Decide, VideoInv
<1>2. ~ChunkAwaited
  <2>1. /\ PrefetchAt(video.anchor, video.anchor + 1, video.first).priority = 90
        /\ EndAt(EndTime).priority = 30
    BY EventFields
  <2> QED BY <1>1, <2>1, FirstChunkIsNext
<1>3. PICK b \in Nat, lo \in Nat, decision \in Nat, commit \in Nat, sub \in SUBSET Nat :
        ChunkUnderWay(b, lo, sub, decision, commit)
  BY <1>2 DEF VideoInv
<1>4. e = PolicyAt(b) /\ decision = b /\ lo = b + 1 /\ e.at = b
  <2>1. e = PolicyAt(b) /\ decision = b /\ lo = b + 1
    BY <1>1, <1>3, NextInChunk
  <2> QED BY <2>1, EventFields
<1>5. /\ video.anchor + video.first <= b /\ b \in delivered /\ lo - 1 = b
      /\ delivered \subseteq video.anchor + 1 .. b
      /\ video.count = 0 => delivered = video.anchor + 1 .. b
      /\ lastFrame = b
  <2>1. lo - 1 = b /\ lo > video.anchor + 1
    BY <1>1, <1>3, <1>4 DEF ChunkUnderWay
  <2> QED BY <1>3, <1>4, <2>1 DEF ChunkUnderWay
<1>6. DecidedInTime'
  <2> DEFINE d == [at |-> b, frames |-> delivered, last |-> lastFrame]
  <2>1. seen' = seen \cup {d}
    BY <1>1, <1>4
  <2>2. /\ d.last = d.at /\ d.at \in d.frames /\ \A t \in d.frames : t <= d.at
        /\ video.count = 0 => d.frames = video.anchor + 1 .. d.at
    BY <1>1, <1>5
  <2>3. video' = video
    BY <1>1
  <2> HIDE DEF d
  <2> QED BY <1>1, <2>1, <2>2, <2>3 DEF DecidedInTime
<1>7. ImagesLeft(lo, b, sub) = {}
  <2>1. lo .. b = {}
    BY <1>4
  <2> QED BY <2>1 DEF ImagesLeft
<1>8. events' = {PrefetchAt(b, b + 1, video.control), PolicyAt(b + video.control), StepAt(commit), EndAt(EndTime)}
  <2>1. events = {PrefetchAt(b, b + 1, video.control), e, StepAt(commit), EndAt(EndTime)}
    BY <1>3, <1>4, <1>7 DEF ChunkUnderWay
  <2>2. /\ PrefetchAt(b, b + 1, video.control).priority # 20 /\ StepAt(commit).priority # 20
        /\ EndAt(EndTime).priority # 20
    BY EventFields
  <2> QED BY <1>1, <1>4, <2>1, <2>2
<1>9. ChunkUnderWay(b, lo, sub, b + video.control, commit)'
  <2>1. PICK next : next = b + video.control
    OBVIOUS
  <2>2. ChunkUnderWay(b, lo, sub, next, commit)'
    <3>1. /\ video' = video /\ egoUntil' = egoUntil /\ firstChunk' = firstChunk /\ chunks' = chunks
          /\ lastFrame' = lastFrame /\ delivered' = delivered
      BY <1>1
    <3> QED BY <1>3, <1>4, <1>7, <1>8, <2>1, <3>1 DEF ChunkUnderWay
  <2>3. video' = video
    BY <1>1
  <2> QED BY <2>1, <2>2, <2>3
<1>10. \E c, l, d, m \in Nat, s \in SUBSET Nat : ChunkUnderWay(c, l, s, d, m)'
  <2>1. PICK next \in Nat : next = b + video.control
    BY <1>1
  <2>2. video' = video
    BY <1>1
  <2> QED BY <1>9, <2>1, <2>2
<1> QED BY <1>1, <1>6, <1>10 DEF VideoInv

\* The step commits the poses of the chunk that is asked for next.
LEMMA CommitStep ==
  ASSUME VideoInv, phase = "running", NEW e \in events, Commit(e) PROVE VideoInv'
<1> USE VideoRanges
<1>1. /\ UNCHANGED <<video, phase, firstChunk, chunks, delivered, lastFrame, seen>>
      /\ IsNext(e) /\ e.priority = 80 /\ egoUntil' = e.at + video.control
      /\ events' = (events \ {e}) \cup {StepAt(e.at + video.control)}
      /\ video \in VideoConfig /\ video.control = video.regular /\ DecidedInTime
  BY DEF Commit, VideoInv
<1>2. ~ChunkAwaited
  <2>1. /\ PrefetchAt(video.anchor, video.anchor + 1, video.first).priority = 90
        /\ EndAt(EndTime).priority = 30
    BY EventFields
  <2> QED BY <1>1, <2>1, FirstChunkIsNext
<1>3. PICK b \in Nat, lo \in Nat, decision \in Nat, commit \in Nat, sub \in SUBSET Nat :
        ChunkUnderWay(b, lo, sub, decision, commit)
  BY <1>2 DEF VideoInv
<1>4. e = StepAt(b) /\ commit = b /\ lo = b + 1 /\ e.at = b
  <2>1. e = StepAt(b) /\ commit = b /\ lo = b + 1
    BY <1>1, <1>3, NextInChunk
  <2> QED BY <2>1, EventFields
<1>5. ImagesLeft(lo, b, sub) = {}
  <2>1. lo .. b = {}
    BY <1>4
  <2> QED BY <2>1 DEF ImagesLeft
<1>6. PICK next \in Nat : next = b + video.control
  BY <1>1
<1>7. events' = {PrefetchAt(b, b + 1, video.control), PolicyAt(decision), StepAt(next), EndAt(EndTime)}
  <2>1. events = {PrefetchAt(b, b + 1, video.control), PolicyAt(decision), e, EndAt(EndTime)}
    BY <1>3, <1>4, <1>5 DEF ChunkUnderWay
  <2>2. /\ PrefetchAt(b, b + 1, video.control).priority # 80 /\ PolicyAt(decision).priority # 80
        /\ EndAt(EndTime).priority # 80
    BY EventFields
  <2> QED BY <1>1, <1>4, <1>6, <2>1, <2>2
<1>8. ChunkUnderWay(b, lo, sub, decision, next)'
  <2>1. /\ video' = video /\ egoUntil' = next /\ firstChunk' = firstChunk /\ chunks' = chunks
        /\ lastFrame' = lastFrame /\ delivered' = delivered
    BY <1>1, <1>4, <1>6
  <2> QED BY <1>3, <1>5, <1>6, <1>7, <2>1 DEF ChunkUnderWay
<1> QED BY <1>1, <1>8 DEF VideoInv, DecidedInTime

LEMMA VideoStep ==
  VideoInv /\ [VideoNext]_videoVars => VideoInv'
<1> SUFFICES ASSUME VideoInv, [VideoNext]_videoVars PROVE VideoInv'
  OBVIOUS
<1>1. ASSUME NEW e \in events, Prefetch(e) \/ Frame(e) \/ Decide(e) \/ Commit(e) PROVE VideoInv'
  <2>1. phase = "running"
    BY <1>1 DEF Prefetch, Frame, Decide, Commit, IsNext
  <2> QED BY <1>1, <2>1, PrefetchStep, FrameStep, DecideStep, CommitStep
<1>2. CASE UNCHANGED videoVars
  <2>1. /\ video' = video /\ phase' = phase /\ seen' = seen /\ DecidedInTime'
        /\ ChunkAwaited => ChunkAwaited'
    BY <1>2 DEF videoVars, VideoInv, DecidedInTime, ChunkAwaited
  <2>2. ASSUME NEW b, NEW lo, NEW sub, NEW d, NEW m, ChunkUnderWay(b, lo, sub, d, m)
        PROVE  ChunkUnderWay(b, lo, sub, d, m)'
    BY <1>2, <2>2 DEF videoVars, ChunkUnderWay
  <2> QED BY <2>1, <2>2 DEF VideoInv
<1> QED BY <1>1, <1>2, BeginVideoStep, EndVideoStep DEF VideoNext

\* With the alignment that is validated, chunks, images, decisions and steps
\* fall together so that no decision misses a frame and no chunk needs a pose
\* that was not committed, for every cadence and subsampling.
THEOREM VideoKeepsTime == VideoSpec => []VideoFramesInTime
<1>1. VideoInv => VideoFramesInTime
  <2> SUFFICES ASSUME VideoInv PROVE VideoFramesInTime
    OBVIOUS
  <2>1. ASSUME phase = "running", NEW e \in events, IsNext(e), e.size > 0
        PROVE  /\ e.start + e.size - 1 <= egoUntil
               /\ e.size = (IF chunks = 0 THEN video.first ELSE video.regular)
               /\ e.size = ChunkSize
    <3>1. video \in VideoConfig /\ video.control = video.regular
      BY <2>1 DEF VideoInv
    <3>2. CASE ChunkAwaited
      <4>1. e = PrefetchAt(video.anchor, video.anchor + 1, video.first)
        <5>1. EndAt(EndTime).size = 0 /\ ~(0 > 0)
          BY EventFields
        <5> QED BY <2>1, <3>1, <3>2, <5>1, FirstChunkIsNext
      <4> QED BY <3>1, <3>2, <4>1, EventFields, VideoRanges DEF ChunkAwaited, ChunkSize
    <3>3. ASSUME NEW d \in Nat, NEW lo \in Nat, NEW decision \in Nat, NEW commit \in Nat, NEW sub,
                 ChunkUnderWay(d, lo, sub, decision, commit)
          PROVE  /\ e.start + e.size - 1 <= egoUntil
                 /\ e.size = (IF chunks = 0 THEN video.first ELSE video.regular)
                 /\ e.size = ChunkSize
      <4>1. e = PrefetchAt(d, d + 1, video.control) /\ commit = d + video.control
        BY <2>1, <3>1, <3>3, NextInChunk
      <4>2. e.start = d + 1 /\ e.size = video.control
        BY <4>1, EventFields
      <4>3. egoUntil = commit /\ chunks # 0 /\ firstChunk = FALSE
        BY <3>3 DEF ChunkUnderWay
      <4>4. ChunkSize = video.regular
        BY <4>3 DEF ChunkSize
      <4>5. e.start + e.size - 1 = d + video.control /\ d + video.control \in Nat
        BY <3>1, <4>2, VideoRanges
      <4> QED BY <3>1, <4>1, <4>2, <4>3, <4>4, <4>5
    <3> QED BY <2>1, <3>2, <3>3 DEF VideoInv
  <2> QED BY <2>1 DEF VideoFramesInTime, VideoInv, DecidedInTime
<1> QED BY VideoStart, VideoStep, <1>1, PTL DEF VideoSpec

----------------------------------------------------------------------------
(* The ground (Grounding)                                                    *)

GroundSpots == {"ego", EgoActor} \cup Actors
GroundPoses == [spot : GroundSpots, z : Int, tilt : Int]

BackendOf(scene) == [scene |-> scene, mesh |-> Under[scene]]
SceneBackends == {BackendOf(s) : s \in DOMAIN Under}
OwnBackend(r) == BackendOf(Courses[r].scene)

\* u is p put on the ground g, or p itself where that will not do.
Lands(g, p, u) ==
  \/ /\ u = [spot |-> p.spot, z |-> g.z, tilt |-> g.tilt]
     /\ g.z - p.z \in -MaxLift .. MaxLift /\ g.tilt - p.tilt <= MaxTilt
  \/ /\ u = p
     /\ g.hits < 3 \/ g.z - p.z \notin -MaxLift .. MaxLift \/ g.tilt - p.tilt > MaxTilt

KeptFits(r, W, e) == \E w \in W : w.step = e.step /\ w.id = e.id /\ KeptFrom(r, e, w.pose)

Entry(k, id, p) == [step |-> k, id |-> id, pose |-> p]

\* What is kept before step n, for the poses W asked about.
KeepsFit(r, n, W, K) ==
  /\ \A e \in K : e.step \in Nat /\ e.step < n /\ KeptFits(r, W, e)
  /\ \A d, e \in K : d.step = e.step /\ d.id = e.id => d = e
  /\ \A k \in 1..(n - 1) : IsForced(r, k) => IdsAt(K, k) = {"ego"} \cup Existing(k)

\* Objects of the step k, each once, and all those recorded if it is forced.
NamesFit(r, k, names) ==
  /\ \A i, j \in 1..Len(names) : names[i] = names[j] => i = j
  /\ IsForced(r, k) => {names[i] : i \in 1..Len(names)} = Existing(k)

CourseState ==
  [step : Nat \ {0}, phase : {"ego", "ego_asked", "traffic", "traffic_asked"},
   corrected : GroundPoses \cup {<<>>}, names : Seq(GroundSpots \ {"ego"}), sent : Seq(GroundPoses),
   answer : [ego : GroundPoses, others : Seq(GroundPoses)] \cup {<<>>}]

EgoAskedFits(r, x, W) ==
  /\ Courses[r].mode # "none" /\ ~Courses[r].skip /\ ~IsForced(r, x.step)
  /\ x.sent = <<>>
  /\ x.answer # <<>> =>
       \E w \in W : /\ w = Entry(x.step, "ego", w.pose) /\ w.pose \in GroundPoses
                    /\ x.answer.ego = UpdatePose(OwnBackend(r), w.pose)

TrafficAskedFits(r, x, W) ==
  /\ Courses[r].mode = "all_actors" /\ ~Courses[r].skip
  /\ IsForced(r, x.step) \/ ~Courses[r].trafficSkip
  /\ NamesFit(r, x.step, x.names) /\ Len(x.sent) = Len(x.names)
  /\ \A i \in 1..Len(x.names) : Entry(x.step, x.names[i], x.sent[i]) \in W
  /\ x.answer # <<>> =>
       /\ Len(x.answer.others) = Len(x.sent)
       /\ \A i \in 1..Len(x.sent) : x.answer.others[i] = UpdatePose(OwnBackend(r), x.sent[i])

RolloutFits(r, x, W, K) ==
  /\ x \in CourseState /\ KeepsFit(r, x.step, W, K)
  /\ x.phase = "ego" => x.answer = <<>>
  /\ x.phase = "ego_asked" => EgoAskedFits(r, x, W)
  /\ x.phase \in {"traffic", "traffic_asked"} =>
       x.corrected \in GroundPoses /\ KeptFits(r, W, Entry(x.step, "ego", x.corrected))
  /\ x.phase = "traffic" => x.answer = <<>>
  /\ x.phase = "traffic_asked" => TrafficAskedFits(r, x, W)

\* A request on its way is that of a rollout which awaits its answer.
IsAwaiting(x) == x.phase \in {"ego_asked", "traffic_asked"} /\ x.answer = <<>>
Awaits(q, x, W) ==
  /\ IsAwaiting(x) /\ q.others = x.sent
  /\ x.phase = "ego_asked" => Entry(x.step, "ego", q.ego) \in W

GroundRequests == [from : Sims, ego : GroundPoses, others : Seq(GroundPoses)]

RequestsFit(l, c, W) ==
  /\ l \in Seq(GroundRequests)
  /\ \A i \in 1..Len(l) : Awaits(l[i], c[l[i].from], W[l[i].from])
  /\ \A i, j \in 1..Len(l) : l[i].from = l[j].from => i = j

GroundInv ==
  /\ meshes \in Seq(SceneBackends) /\ Len(meshes) \in 0..BackendCacheSize
  /\ RequestsFit(requests, course, wanted)
  /\ course = [r \in Sims |-> course[r]] /\ wanted = [r \in Sims |-> wanted[r]]
  /\ kept = [r \in Sims |-> kept[r]]
  /\ \A r \in Sims : RolloutFits(r, course[r], wanted[r], kept[r])

(* What the constants are.                                                   *)
LEMMA GroundConstants ==
  /\ BackendCacheSize \in Nat \ {0} /\ MaxLift \in Nat /\ MaxTilt \in Nat
  /\ IsFiniteSet(Actors) /\ EgoActor \notin Actors \cup {"ego"} /\ "ego" \notin Actors
  /\ SimPoses \subseteq [z : Int, tilt : Int]
  /\ \A o \in Actors : Tracks[o] \in [from : Int, until : Int, z : Int, tilt : Int]
  /\ \A s \in DOMAIN Under, spot \in GroundSpots : Under[s][spot] \in [hits : Nat, z : Int, tilt : Int]
  /\ \A r \in Sims : /\ Courses[r].scene \in DOMAIN Under /\ Courses[r].force \in Nat
                     /\ OwnBackend(r) \in SceneBackends
                     /\ OwnBackend(r).mesh = Under[Courses[r].scene]
<1>1. \A r \in Sims : Courses[r].scene \in DOMAIN Under /\ Courses[r].force \in Nat
  BY GroundingAssumption DEF Sims
<1>2. \A s \in DOMAIN Under, spot \in GroundSpots : Under[s][spot] \in [hits : Nat, z : Int, tilt : Int]
  BY GroundingAssumption DEF GroundSpots
<1> QED BY <1>1, <1>2, GroundingAssumption DEF OwnBackend, BackendOf, SceneBackends

(* Easing a height onto itself changes nothing.                              *)
LEMMA EaseStays ==
  ASSUME NEW a \in Int, NEW k \in Nat, NEW f \in Nat \ {0}
  PROVE  a + ((a - a) * k) \div f = a
<1>1. (a - a) * k = 0
  OBVIOUS
<1>2. 0 \div f = 0
  OBVIOUS
<1> QED BY <1>1, <1>2

LEMMA MagnitudeWithin ==
  /\ \A n \in Int : Magnitude(n) <= MaxLift <=> n \in -MaxLift .. MaxLift
  /\ \A n \in Int : Magnitude(Max({n, 0})) <= MaxTilt <=> n <= MaxTilt
<1>1. \A n \in Int : Magnitude(n) <= MaxLift <=> n \in -MaxLift .. MaxLift
  BY GroundConstants DEF Magnitude
<1>2. \A n \in Int : Max({n, 0}) = IF n < 0 THEN 0 ELSE n
  BY DEF Max
<1>3. \A n \in Int : Magnitude(IF n < 0 THEN 0 ELSE n) <= MaxTilt <=> n <= MaxTilt
  BY GroundConstants DEF Magnitude
<1> QED BY <1>1, <1>2, <1>3

(* A pose is put on the ground under it, or stays as it was.                 *)
LEMMA PoseLands ==
  ASSUME NEW r \in Sims, NEW p \in GroundPoses
  PROVE  /\ UpdatePose(OwnBackend(r), p) \in GroundPoses
         /\ Lands(GroundOf(r, p), p, UpdatePose(OwnBackend(r), p))
<1>1. PICK g : g = GroundOf(r, p)
  OBVIOUS
<1>2. g \in [hits : Nat, z : Int, tilt : Int]
  BY <1>1, GroundConstants DEF GroundOf, GroundPoses
<1>3. UpdatePose(OwnBackend(r), p) = IF Plausible(g, p) THEN Stand(p.spot, g) ELSE p
  BY <1>1, GroundConstants DEF UpdatePose, GroundOf
<1>4. Stand(p.spot, g) = [spot |-> p.spot, z |-> g.z, tilt |-> g.tilt]
  BY DEF Stand
<1>5. g.z - p.z \in Int /\ g.tilt - p.tilt \in Int /\ g.hits \in Nat
  BY <1>2 DEF GroundPoses
<1>6. Plausible(g, p) <=> g.hits >= 3 /\ g.z - p.z \in -MaxLift .. MaxLift /\ g.tilt - p.tilt <= MaxTilt
  BY <1>5, MagnitudeWithin DEF Plausible
<1>7. CASE Plausible(g, p)
  <2>1. UpdatePose(OwnBackend(r), p) = [spot |-> p.spot, z |-> g.z, tilt |-> g.tilt]
    BY <1>3, <1>4, <1>7
  <2>2. UpdatePose(OwnBackend(r), p) \in GroundPoses
    BY <1>2, <2>1 DEF GroundPoses
  <2> QED BY <1>1, <1>6, <1>7, <2>1, <2>2 DEF Lands
<1>8. CASE ~Plausible(g, p)
  <2>1. UpdatePose(OwnBackend(r), p) = p
    BY <1>3, <1>8
  <2>2. g.hits < 3 \/ g.z - p.z \notin -MaxLift .. MaxLift \/ g.tilt - p.tilt > MaxTilt
    BY <1>5, <1>6, <1>8, GroundConstants
  <2> QED BY <1>1, <2>1, <2>2 DEF Lands
<1> QED BY <1>7, <1>8

(* The ego's pose of a step: put on the ground where physics has a say, and  *)
(* as it was elsewhere.                                                      *)
LEMMA EgoKept ==
  ASSUME NEW r \in Sims, NEW k \in Nat, NEW p \in GroundPoses, NEW q,
         \/ /\ Courses[r].mode # "none" /\ ~Courses[r].skip /\ ~IsForced(r, k)
            /\ q = UpdatePose(OwnBackend(r), p)
         \/ /\ Courses[r].mode = "none" \/ Courses[r].skip \/ IsForced(r, k)
            /\ q = p
  PROVE  q \in GroundPoses /\ KeptFrom(r, Entry(k, "ego", q), p)
<1>1. PICK e : e = Entry(k, "ego", q)
  OBVIOUS
<1>2. e.step = k /\ e.id = "ego" /\ e.pose = q
  BY <1>1 DEF Entry
<1>3. CASE Courses[r].mode # "none" /\ ~Courses[r].skip /\ ~IsForced(r, k) /\ q = UpdatePose(OwnBackend(r), p)
  <2>1. q \in GroundPoses /\ Lands(GroundOf(r, p), p, q)
    BY <1>3, PoseLands
  <2>2. Applied(r, e)
    BY <1>2, <1>3 DEF Applied
  <2>3. KeptFrom(r, e, p)
    BY <1>2, <1>3, <2>1, <2>2 DEF KeptFrom, Lands, Way, GroundPoses
  <2> QED BY <1>1, <2>1, <2>3
<1>4. CASE (Courses[r].mode = "none" \/ Courses[r].skip \/ IsForced(r, k)) /\ q = p
  <2>1. ~Applied(r, e)
    BY <1>2, <1>4 DEF Applied
  <2>2. KeptFrom(r, e, p)
    BY <1>2, <1>4, <2>1 DEF KeptFrom
  <2> QED BY <1>1, <1>4, <2>2
<1> QED BY <1>3, <1>4

(* The pose of an object: eased onto the ground in a forced step, put on it  *)
(* in a free one, and as it was where physics has no say.                    *)
LEMMA ObjectKept ==
  ASSUME NEW r \in Sims, NEW k \in Nat \ {0}, NEW p \in GroundPoses, NEW o \in GroundSpots \ {"ego"},
         NEW u, u = UpdatePose(OwnBackend(r), p), Courses[r].mode = "all_actors", ~Courses[r].skip,
         IsForced(r, k) \/ ~Courses[r].trafficSkip,
         NEW q, q = IF IsForced(r, k)
                    THEN [spot |-> p.spot, z |-> Way(r, k, p.z, u.z), tilt |-> Way(r, k, p.tilt, u.tilt)]
                    ELSE u
  PROVE  KeptFrom(r, Entry(k, o, q), p)
<1>1. PICK e, g : e = Entry(k, o, q) /\ g = GroundOf(r, p)
  OBVIOUS
<1>2. e.step = k /\ e.id = o /\ e.pose = q /\ o # "ego"
  BY <1>1 DEF Entry
<1>3. Applied(r, e)
  BY <1>2 DEF Applied
<1>4. Lands(g, p, u)
  BY <1>1, PoseLands
<1>5. CASE ~IsForced(r, k)
  <2>1. q = u
    BY <1>5
  <2> QED BY <1>1, <1>2, <1>3, <1>4, <1>5, <2>1 DEF KeptFrom, Lands, Way, GroundPoses
<1>6. CASE IsForced(r, k)
  <2>1. PICK y, t : y = Way(r, k, p.z, u.z) /\ t = Way(r, k, p.tilt, u.tilt)
    OBVIOUS
  <2>2. q = [spot |-> p.spot, z |-> y, tilt |-> t]
    BY <1>6, <2>1
  <2>3. CASE /\ u = [spot |-> p.spot, z |-> g.z, tilt |-> g.tilt]
             /\ g.z - p.z \in -MaxLift .. MaxLift /\ g.tilt - p.tilt <= MaxTilt
    <3>1. y = Way(r, k, p.z, g.z) /\ t = Way(r, k, p.tilt, g.tilt)
      BY <2>1, <2>3
    <3>2. q.z = y /\ q.tilt = t /\ q.spot = p.spot
      BY <2>2
    <3> QED BY <1>1, <1>2, <1>3, <2>3, <3>1, <3>2 DEF KeptFrom
  <2>4. CASE /\ u = p
             /\ g.hits < 3 \/ g.z - p.z \notin -MaxLift .. MaxLift \/ g.tilt - p.tilt > MaxTilt
    <3>1. Courses[r].force \in Nat \ {0}
      BY <1>6, GroundConstants DEF IsForced
    <3>2. p.z \in Int /\ p.tilt \in Int /\ p = [spot |-> p.spot, z |-> p.z, tilt |-> p.tilt]
      BY DEF GroundPoses
    <3>3. y = p.z + ((p.z - p.z) * k) \div Courses[r].force
      BY <1>6, <2>1, <2>4 DEF Way
    <3>4. t = p.tilt + ((p.tilt - p.tilt) * k) \div Courses[r].force
      BY <1>6, <2>1, <2>4 DEF Way
    <3>5. y = p.z
      BY <3>1, <3>2, <3>3, EaseStays
    <3>6. t = p.tilt
      BY <3>1, <3>2, <3>4, EaseStays
    <3>7. q = p
      BY <2>2, <3>2, <3>5, <3>6
    <3> QED BY <1>1, <1>2, <1>3, <2>4, <3>7 DEF KeptFrom
  <2> QED BY <1>4, <2>3, <2>4 DEF Lands
<1> QED BY <1>5, <1>6

(* Where physics has no say, the pose is kept that was asked about.          *)
LEMMA ObjectLeft ==
  ASSUME NEW r \in Sims, NEW k \in Nat \ {0}, NEW p \in GroundPoses, NEW o \in GroundSpots \ {"ego"},
         \/ Courses[r].mode # "all_actors" \/ Courses[r].skip
         \/ Courses[r].trafficSkip /\ ~IsForced(r, k)
  PROVE  KeptFrom(r, Entry(k, o, p), p)
<1>1. PICK e : e = Entry(k, o, p)
  OBVIOUS
<1>2. e.step = k /\ e.id = o /\ e.pose = p /\ o # "ego"
  BY <1>1 DEF Entry
<1>3. ~Applied(r, e)
  BY <1>2 DEF Applied
<1> QED BY <1>1, <1>2, <1>3 DEF KeptFrom

(* What was fit to keep stays so while more is asked about.                  *)
LEMMA KeepsStay ==
  ASSUME NEW r \in Sims, NEW n, NEW W, NEW U, W \subseteq U
  PROVE  /\ \A e : KeptFits(r, W, e) => KeptFits(r, U, e)
         /\ \A K : KeepsFit(r, n, W, K) => KeepsFit(r, n, U, K)
<1>1. ASSUME NEW e, KeptFits(r, W, e) PROVE KeptFits(r, U, e)
  <2>1. PICK w \in W : w.step = e.step /\ w.id = e.id /\ KeptFrom(r, e, w.pose)
    BY <1>1 DEF KeptFits
  <2> QED BY <2>1 DEF KeptFits
<1> QED BY <1>1 DEF KeepsFit

(* A finite set is listed by SetToSeq, each element once.                    *)
LEMMA ListingOf ==
  ASSUME NEW S, IsFiniteSet(S)
  PROVE  /\ SetToSeq(S) \in Seq(S)
         /\ \A i, k \in 1..Len(SetToSeq(S)) : SetToSeq(S)[i] = SetToSeq(S)[k] => i = k
         /\ {SetToSeq(S)[i] : i \in 1..Len(SetToSeq(S))} = S
<1> DEFINE n == Cardinality(S)
           l == SetToSeq(S)
           L == {l[i] : i \in 1..n}
<1>1. n \in Nat /\ \E f \in [1..n -> S] : IsInjective(f)
  BY FS_CardinalityType DEF ExistsBijection, Bijection, Injection
<1>2. l \in [1..n -> S] /\ IsInjective(l)
  BY <1>1 DEF SetToSeq
<1> HIDE DEF l, n
<1>3. l \in Seq(S) /\ Len(l) = n /\ DOMAIN l = 1..n
  BY <1>1, <1>2
<1>4. l \in Bijection(1..n, L)
  BY <1>2 DEF Bijection, Injection, Surjection, IsInjective
<1>5. ExistsBijection(1..n, L)
  BY <1>4 DEF ExistsBijection
<1>6. Cardinality(L) = n
  BY <1>1, <1>5, FS_CountingElements
<1>7. L \in SUBSET S
  BY <1>2
<1>8. L = S
  BY <1>6, <1>7, FS_Subset DEF n
<1> QED BY <1>2, <1>3, <1>8 DEF l, IsInjective

(* The step of one rollout, which has asked for nothing yet or got its       *)
(* answer: it sends the requests in new, one or none.                        *)
LEMMA GroundMoves ==
  ASSUME GroundInv, NEW r \in Sims, NEW x, NEW W, NEW K, ~IsAwaiting(course[r]),
         course' = [course EXCEPT ![r] = x], wanted' = [wanted EXCEPT ![r] = W],
         kept' = [kept EXCEPT ![r] = K], meshes' = meshes, RolloutFits(r, x, W, K),
         \/ requests' = requests
         \/ \E q \in GroundRequests : q.from = r /\ Awaits(q, x, W) /\ requests' = Append(requests, q)
  PROVE  GroundInv'
<1>1. /\ course' = [s \in Sims |-> course'[s]] /\ wanted' = [s \in Sims |-> wanted'[s]]
      /\ kept' = [s \in Sims |-> kept'[s]]
      /\ course'[r] = x /\ wanted'[r] = W /\ kept'[r] = K
      /\ \A s \in Sims \ {r} : course'[s] = course[s] /\ wanted'[s] = wanted[s] /\ kept'[s] = kept[s]
  BY DEF GroundInv
<1>2. \A s \in Sims : RolloutFits(s, course'[s], wanted'[s], kept'[s])
  BY <1>1 DEF GroundInv
<1>3. /\ requests \in Seq(GroundRequests) /\ Len(requests) \in Nat
      /\ \A i \in 1..Len(requests) : /\ requests[i] \in GroundRequests /\ requests[i].from \in Sims
                                     /\ requests[i].from # r
                                     /\ Awaits(requests[i], course'[requests[i].from], wanted'[requests[i].from])
      /\ \A i, j \in 1..Len(requests) : requests[i].from = requests[j].from => i = j
  <2>1. RequestsFit(requests, course, wanted)
    BY DEF GroundInv
  <2>2. requests \in Seq(GroundRequests) /\ Len(requests) \in Nat
        /\ \A i \in 1..Len(requests) : requests[i] \in GroundRequests
    BY <2>1, LenProperties, ElementOfSeq DEF RequestsFit
  <2>3. \A i \in 1..Len(requests) : requests[i].from \in Sims
    BY <2>2 DEF GroundRequests
  <2>4. \A i \in 1..Len(requests) : requests[i].from # r
    BY <2>1 DEF RequestsFit, Awaits
  <2> QED BY <1>1, <2>1, <2>2, <2>3, <2>4 DEF RequestsFit
<1>4. RequestsFit(requests', course', wanted')
  <2>1. CASE requests' = requests
    BY <1>3, <2>1 DEF RequestsFit
  <2>2. ASSUME NEW q \in GroundRequests, q.from = r, Awaits(q, x, W), requests' = Append(requests, q)
        PROVE  RequestsFit(requests', course', wanted')
    <3>1. PICK l, n, m : l = requests' /\ n = Len(requests) /\ m = requests
      OBVIOUS
    <3>2. /\ l \in Seq(GroundRequests) /\ Len(l) = n + 1 /\ n \in Nat
          /\ \A i \in 1..n : l[i] = m[i] /\ l[n + 1] = q
      BY <1>3, <2>2, <3>1, AppendProperties
    <3>3. l[n + 1] = q
      BY <1>3, <2>2, <3>1, AppendProperties
    <3>4. \A i \in 1..(n + 1) : i \in 1..n \/ i = n + 1
      BY <3>2
    <3>5. /\ \A i \in 1..n : m[i].from # r /\ Awaits(m[i], course'[m[i].from], wanted'[m[i].from])
          /\ \A i, j \in 1..n : m[i].from = m[j].from => i = j
      BY <1>3, <3>1
    <3>6. \A i \in 1..(n + 1) : Awaits(l[i], course'[l[i].from], wanted'[l[i].from])
      BY <1>1, <2>2, <3>2, <3>3, <3>4, <3>5
    <3>7. \A i, j \in 1..(n + 1) : l[i].from = l[j].from => i = j
      BY <2>2, <3>2, <3>3, <3>4, <3>5
    <3> QED BY <3>1, <3>2, <3>6, <3>7 DEF RequestsFit
  <2> QED BY <2>1, <2>2
<1>5. meshes' \in Seq(SceneBackends) /\ Len(meshes') \in 0..BackendCacheSize
  BY DEF GroundInv
<1> QED BY <1>1, <1>2, <1>4, <1>5 DEF GroundInv

(* The server's cache has backends of scenes only, and serves a request with *)
(* the one of its own scene.                                                 *)
LEMMA CacheKeepsScenes ==
  ASSUME GroundInv, NEW s \in DOMAIN Under
  PROVE  /\ Backend(s) = BackendOf(s)
         /\ AfterUse(Backend(s)) \in Seq(SceneBackends)
         /\ Len(AfterUse(Backend(s))) \in 0..BackendCacheSize
<1>1. PICK l, n, c : l = meshes /\ n = Len(meshes) /\ c = BackendCacheSize
  OBVIOUS
<1>2. /\ l \in Seq(SceneBackends) /\ n \in Nat /\ n = Len(l) /\ n <= c /\ c \in Nat \ {0}
      /\ DOMAIN l = 1..n /\ \A i \in 1..n : l[i] \in SceneBackends
  BY <1>1, LenProperties, ElementOfSeq, GroundConstants DEF GroundInv
<1>3. \A b \in SceneBackends : b = BackendOf(b.scene)
  BY DEF SceneBackends, BackendOf
<1>4. ToSet(l) \subseteq SceneBackends
  BY <1>2 DEF ToSet
<1>5. Backend(s) = BackendOf(s)
  <2>1. CASE \E b \in ToSet(l) : b.scene = s
    <3>1. Backend(s) \in ToSet(l) /\ Backend(s).scene = s
      BY <1>1, <2>1 DEF Backend
    <3> QED BY <1>3, <1>4, <3>1
  <2>2. CASE ~\E b \in ToSet(l) : b.scene = s
    BY <1>1, <2>2 DEF Backend, BackendOf
  <2> QED BY <2>1, <2>2
<1>6. PICK b : b = BackendOf(s)
  OBVIOUS
<1>7. b \in SceneBackends
  BY <1>6 DEF SceneBackends
<1>8. PICK held : held = {i \in 1..n : l[i].scene = b.scene}
  OBVIOUS
<1>9. AfterUse(b) = Append(IF held # {} THEN RemoveAt(l, CHOOSE i \in held : TRUE)
                           ELSE IF n = c THEN Tail(l) ELSE l, b)
  BY <1>1, <1>2, <1>8 DEF AfterUse
<1>10. \A i \in 1..n : RemoveAt(l, i) \in Seq(SceneBackends) /\ Len(RemoveAt(l, i)) = n - 1
  <2> SUFFICES ASSUME NEW i \in 1..n PROVE RemoveAt(l, i) \in Seq(SceneBackends) /\ Len(RemoveAt(l, i)) = n - 1
    OBVIOUS
  <2>1. PICK u, v : u = SubSeq(l, 1, i - 1) /\ v = SubSeq(l, i + 1, n)
    OBVIOUS
  <2>2. u \in Seq(SceneBackends) /\ Len(u) = i - 1
    BY <1>2, <2>1, SubSeqProperties
  <2>3. v \in Seq(SceneBackends) /\ Len(v) = n - i
    BY <1>2, <2>1, SubSeqProperties
  <2>4. RemoveAt(l, i) = u \o v
    BY <1>2, <2>1 DEF RemoveAt
  <2>5. u \o v \in Seq(SceneBackends) /\ Len(u \o v) = Len(u) + Len(v)
    BY <2>2, <2>3, ConcatProperties
  <2>6. (i - 1) + (n - i) = n - 1
    BY <1>2
  <2> QED BY <2>2, <2>3, <2>4, <2>5, <2>6
<1>11. n = c => Tail(l) \in Seq(SceneBackends) /\ Len(Tail(l)) = n - 1
  BY <1>2, HeadTailProperties, EmptySeq
<1>12. PICK m : m = IF held # {} THEN RemoveAt(l, CHOOSE i \in held : TRUE)
                    ELSE IF n = c THEN Tail(l) ELSE l
  OBVIOUS
<1>13. m \in Seq(SceneBackends) /\ Len(m) \in 0..(c - 1)
  <2>1. CASE held # {}
    <3>1. PICK i \in 1..n : i = CHOOSE j \in held : TRUE
      BY <1>8, <2>1
    <3>2. m = RemoveAt(l, i)
      BY <1>12, <2>1, <3>1
    <3> QED BY <1>2, <1>10, <3>1, <3>2
  <2>2. CASE held = {} /\ n = c
    BY <1>2, <1>11, <1>12, <2>2
  <2>3. CASE held = {} /\ n # c
    BY <1>2, <1>12, <2>3
  <2> QED BY <2>1, <2>2, <2>3
<1>14. AfterUse(b) \in Seq(SceneBackends) /\ Len(AfterUse(b)) = Len(m) + 1
  BY <1>7, <1>9, <1>12, <1>13, AppendProperties
<1>15. Len(AfterUse(b)) \in 0..BackendCacheSize
  BY <1>1, <1>2, <1>13, <1>14
<1> QED BY <1>5, <1>6, <1>14, <1>15

(* The server answers the first request with the ground of its scene.        *)
LEMMA AnswerIs ==
  ASSUME NEW r \in Sims, NEW q \in GroundRequests, NEW b, b = OwnBackend(r), NEW a,
         a = [ego    |-> UpdatePose(b, q.ego),
              others |-> [k \in DOMAIN q.others |-> UpdatePose(b, q.others[k])]]
  PROVE  /\ a \in [ego : GroundPoses, others : Seq(GroundPoses)]
         /\ a.ego = UpdatePose(b, q.ego) /\ Len(a.others) = Len(q.others)
         /\ \A i \in 1..Len(q.others) : a.others[i] = UpdatePose(b, q.others[i])
<1>1. PICK l, n : l = q.others /\ n = Len(l)
  OBVIOUS
<1>2. l \in Seq(GroundPoses) /\ n \in Nat /\ DOMAIN l = 1..n /\ q.ego \in GroundPoses
  BY <1>1, LenProperties DEF GroundRequests
<1>3. \A i \in 1..n : l[i] \in GroundPoses
  BY <1>1, <1>2, ElementOfSeq
<1>4. PICK m : m = [k \in 1..n |-> UpdatePose(b, l[k])]
  OBVIOUS
<1>5. a = [ego |-> UpdatePose(b, q.ego), others |-> m]
  BY <1>1, <1>2, <1>4
<1>6. \A i \in 1..n : m[i] = UpdatePose(b, l[i]) /\ m[i] \in GroundPoses
  BY <1>3, <1>4, PoseLands
<1>7. m \in Seq(GroundPoses) /\ Len(m) = n
  BY <1>2, <1>4, <1>6
<1>8. UpdatePose(b, q.ego) \in GroundPoses
  BY <1>2, PoseLands
<1> QED BY <1>1, <1>5, <1>6, <1>7, <1>8

LEMMA IntersectStep ==
  ASSUME GroundInv, Intersect
  PROVE  GroundInv'
<1>1. PICK q : q = Head(requests)
  OBVIOUS
<1>2. PICK b : b = Backend(Courses[q.from].scene)
  OBVIOUS
<1>3. PICK a : a = [ego    |-> UpdatePose(b, q.ego),
                    others |-> [k \in DOMAIN q.others |-> UpdatePose(b, q.others[k])]]
  OBVIOUS
<1>4. /\ requests # <<>> /\ requests' = Tail(requests) /\ meshes' = AfterUse(b)
      /\ course' = [course EXCEPT ![q.from].answer = a] /\ wanted' = wanted /\ kept' = kept
  BY Zenon, <1>1, <1>2, <1>3 DEF Intersect
<1>5. PICK l, n : l = requests /\ n = Len(l)
  OBVIOUS
<1>6. /\ l \in Seq(GroundRequests) /\ n \in Nat \ {0} /\ l # <<>>
      /\ \A i \in 1..n : l[i] \in GroundRequests /\ l[i].from \in Sims
      /\ \A i \in 1..n : Awaits(l[i], course[l[i].from], wanted[l[i].from])
      /\ \A i, j \in 1..n : l[i].from = l[j].from => i = j
  <2>1. RequestsFit(l, course, wanted)
    BY <1>5 DEF GroundInv
  <2>2. l \in Seq(GroundRequests) /\ n \in Nat \ {0} /\ \A i \in 1..n : l[i] \in GroundRequests
    BY <1>4, <1>5, <2>1, EmptySeq, ElementOfSeq DEF RequestsFit
  <2>3. \A i \in 1..n : l[i].from \in Sims
    BY <2>2 DEF GroundRequests
  <2> QED BY <1>4, <1>5, <2>1, <2>2, <2>3 DEF RequestsFit
<1>7. q = l[1] /\ 1 \in 1..n
  BY <1>1, <1>5, <1>6
<1>8. PICK r : r = q.from
  OBVIOUS
<1>9. r \in Sims /\ q \in GroundRequests /\ Awaits(q, course[r], wanted[r])
  BY <1>6, <1>7, <1>8
<1>10. b = OwnBackend(r) /\ meshes' \in Seq(SceneBackends) /\ Len(meshes') \in 0..BackendCacheSize
  BY <1>2, <1>4, <1>8, <1>9, GroundConstants, CacheKeepsScenes DEF OwnBackend
<1>11. /\ a \in [ego : GroundPoses, others : Seq(GroundPoses)]
       /\ a.ego = UpdatePose(b, q.ego) /\ Len(a.others) = Len(q.others)
       /\ \A i \in 1..Len(q.others) : a.others[i] = UpdatePose(b, q.others[i])
  BY <1>3, <1>9, <1>10, AnswerIs
<1>12. PICK x, y : x = course[r] /\ y = [x EXCEPT !.answer = a]
  OBVIOUS
<1>13. course' = [course EXCEPT ![r] = y]
  BY <1>4, <1>8, <1>12
<1>14. /\ course' = [s \in Sims |-> course'[s]] /\ course'[r] = y
       /\ \A s \in Sims \ {r} : course'[s] = course[s]
  BY <1>9, <1>13 DEF GroundInv
<1>15. x \in CourseState /\ RolloutFits(r, x, wanted[r], kept[r])
  BY <1>9, <1>12 DEF GroundInv, RolloutFits
<1>16. /\ y \in CourseState /\ y.answer = a /\ y.step = x.step /\ y.phase = x.phase
       /\ y.corrected = x.corrected /\ y.names = x.names /\ y.sent = x.sent
  BY <1>11, <1>12, <1>15 DEF CourseState
<1>17. RolloutFits(r, y, wanted[r], kept[r])
  <2>1. x.phase \in {"ego_asked", "traffic_asked"} /\ x.sent = q.others
        /\ (x.phase = "ego_asked" => Entry(x.step, "ego", q.ego) \in wanted[r])
    BY <1>9, <1>12 DEF Awaits, IsAwaiting
  <2>2. KeepsFit(r, y.step, wanted[r], kept[r])
    BY <1>15, <1>16 DEF RolloutFits
  <2>3. ASSUME x.phase = "ego_asked" PROVE EgoAskedFits(r, y, wanted[r])
    <3>1. EgoAskedFits(r, x, wanted[r])
      BY <1>15, <2>3 DEF RolloutFits
    <3>2. q.ego \in GroundPoses
      BY <1>9 DEF GroundRequests
    <3>3. PICK w \in wanted[r] : w = Entry(x.step, "ego", q.ego)
      BY <2>1, <2>3
    <3>4. w.pose = q.ego
      BY <3>3 DEF Entry
    <3>5. /\ w = Entry(y.step, "ego", w.pose) /\ w.pose \in GroundPoses
          /\ y.answer.ego = UpdatePose(OwnBackend(r), w.pose)
      BY <1>10, <1>11, <1>16, <3>2, <3>3, <3>4
    <3> QED BY <1>16, <3>1, <3>5 DEF EgoAskedFits
  <2>4. ASSUME x.phase = "traffic_asked" PROVE TrafficAskedFits(r, y, wanted[r])
    <3>1. TrafficAskedFits(r, x, wanted[r])
      BY <1>15, <2>4 DEF RolloutFits
    <3> QED BY <1>10, <1>11, <1>16, <2>1, <3>1 DEF TrafficAskedFits
  <2>5. y.phase = "traffic_asked" =>
          y.corrected \in GroundPoses /\ KeptFits(r, wanted[r], Entry(y.step, "ego", y.corrected))
    BY <1>15, <1>16 DEF RolloutFits
  <2> QED BY <1>16, <2>1, <2>2, <2>3, <2>4, <2>5 DEF RolloutFits
<1>18. \A s \in Sims : RolloutFits(s, course'[s], wanted'[s], kept'[s])
  BY <1>4, <1>14, <1>17 DEF GroundInv
<1>19. RequestsFit(requests', course', wanted')
  <2>1. PICK m : m = requests'
    OBVIOUS
  <2>2. m \in Seq(GroundRequests) /\ Len(m) = n - 1 /\ \A i \in 1..(n - 1) : m[i] = l[i + 1]
    BY <1>4, <1>5, <1>6, <2>1, HeadTailProperties
  <2>3. \A i \in 1..(n - 1) : i + 1 \in 1..n /\ i + 1 # 1
    BY <1>6
  <2>4. \A i \in 1..(n - 1) : m[i].from \in Sims \ {r}
    BY <1>6, <1>7, <1>8, <2>2, <2>3
  <2>5. \A i \in 1..(n - 1) : Awaits(m[i], course'[m[i].from], wanted'[m[i].from])
    <3> SUFFICES ASSUME NEW i \in 1..(n - 1)
                 PROVE  Awaits(m[i], course'[m[i].from], wanted'[m[i].from])
      OBVIOUS
    <3>1. PICK k \in 1..n : k = i + 1
      BY <2>3
    <3>2. m[i] = l[k]
      BY <2>2, <3>1
    <3>3. Awaits(l[k], course[l[k].from], wanted[l[k].from])
      BY Zenon, <1>6
    <3>4. course'[m[i].from] = course[m[i].from]
      BY Zenon, <1>14, <2>4
    <3> QED BY Zenon, <1>4, <3>2, <3>3, <3>4
  <2>6. \A i, j \in 1..(n - 1) : m[i].from = m[j].from => i = j
    <3> SUFFICES ASSUME NEW i \in 1..(n - 1), NEW j \in 1..(n - 1), m[i].from = m[j].from PROVE i = j
      OBVIOUS
    <3>1. PICK k \in 1..n, o \in 1..n : k = i + 1 /\ o = j + 1
      BY <2>3
    <3>2. m[i] = l[k] /\ m[j] = l[o]
      BY <2>2, <3>1
    <3>3. k = o
      BY Zenon, <1>6, <3>2
    <3> QED BY <1>6, <3>1, <3>3
  <2> QED BY <2>1, <2>2, <2>5, <2>6 DEF RequestsFit
<1> QED BY <1>4, <1>10, <1>14, <1>18, <1>19 DEF GroundInv

(* The ego's pose of a step.                                                 *)
LEMMA EgoStep ==
  ASSUME GroundInv, NEW r \in Sims, PhysicsOfEgo(r)
  PROVE  GroundInv'
<1>1. PICK x, k, W : x = course[r] /\ k = x.step /\ W = wanted[r]
  OBVIOUS
<1>2. /\ x \in CourseState /\ RolloutFits(r, x, W, kept[r]) /\ k \in Nat \ {0}
      /\ x.phase = "ego" /\ x.answer = <<>> /\ ~IsAwaiting(x)
  BY <1>1 DEF GroundInv, RolloutFits, CourseState, PhysicsOfEgo, IsAwaiting
<1>3. PICK v \in SimPoses :
        LET ego == Stand("ego", v) IN
        /\ wanted' = [wanted EXCEPT ![r] = @ \cup {[step |-> course[r].step, id |-> "ego", pose |-> ego]}]
        /\ IF IsForced(r, course[r].step) \/ Courses[r].mode = "none" \/ Courses[r].skip
           THEN /\ course' = [course EXCEPT ![r] =
                     [course[r] EXCEPT !.phase = "traffic", !.corrected = ego]]
                /\ UNCHANGED requests
           ELSE Ask(r, ego, <<>>, <<>>, "ego_asked")
  BY Zenon DEF PhysicsOfEgo
<1>4. meshes' = meshes /\ kept' = kept
  BY Zenon DEF PhysicsOfEgo
<1>5. PICK p : p = Stand("ego", v)
  OBVIOUS
<1>6. p \in GroundPoses
  BY <1>5, GroundConstants DEF Stand, GroundPoses, GroundSpots
<1>7. PICK U : U = W \cup {Entry(k, "ego", p)}
  OBVIOUS
<1>8. wanted' = [wanted EXCEPT ![r] = U]
  BY Zenon, <1>1, <1>3, <1>5, <1>7 DEF Entry
<1>9. kept' = [kept EXCEPT ![r] = kept[r]]
  BY <1>4 DEF GroundInv
<1>10. W \subseteq U /\ Entry(k, "ego", p) \in U
  BY <1>7
<1>11. KeepsFit(r, k, U, kept[r])
  BY <1>1, <1>2, <1>10, KeepsStay DEF RolloutFits
<1>12. CASE IsForced(r, k) \/ Courses[r].mode = "none" \/ Courses[r].skip
  <2>1. PICK y : y = [x EXCEPT !.phase = "traffic", !.corrected = p]
    OBVIOUS
  <2>2. course' = [course EXCEPT ![r] = y] /\ requests' = requests
    BY Zenon, <1>1, <1>3, <1>5, <1>12, <2>1
  <2>3. y \in CourseState /\ y.phase = "traffic" /\ y.corrected = p /\ y.step = k /\ y.answer = <<>>
    BY <1>1, <1>2, <1>6, <2>1 DEF CourseState
  <2>4. KeptFrom(r, Entry(k, "ego", p), p)
    BY <1>2, <1>6, <1>12, EgoKept
  <2>5. KeptFits(r, U, Entry(k, "ego", p))
    BY <1>10, <2>4 DEF KeptFits, Entry
  <2>6. RolloutFits(r, y, U, kept[r])
    BY <1>6, <1>11, <2>3, <2>5 DEF RolloutFits
  <2> QED BY <1>1, <1>2, <1>4, <1>8, <1>9, <2>2, <2>6, GroundMoves
<1>13. CASE ~(IsForced(r, k) \/ Courses[r].mode = "none" \/ Courses[r].skip)
  <2>1. Ask(r, p, <<>>, <<>>, "ego_asked")
    BY Zenon, <1>1, <1>3, <1>5, <1>13
  <2>2. PICK y : y = [x EXCEPT !.phase = "ego_asked", !.names = <<>>, !.sent = <<>>]
    OBVIOUS
  <2>3. PICK q : q = [from |-> r, ego |-> p, others |-> <<>>]
    OBVIOUS
  <2>4. course' = [course EXCEPT ![r] = y] /\ requests' = Append(requests, q)
    BY Zenon, <1>1, <2>1, <2>2, <2>3 DEF Ask
  <2>5. <<>> \in Seq(GroundSpots \ {"ego"}) /\ <<>> \in Seq(GroundPoses)
    BY EmptySeq
  <2>6. /\ y \in CourseState /\ y.phase = "ego_asked" /\ y.step = k /\ y.answer = <<>> /\ y.sent = <<>>
    BY <1>1, <1>2, <2>2, <2>5 DEF CourseState
  <2>7. q \in GroundRequests /\ q.from = r /\ q.ego = p /\ q.others = <<>>
    BY <1>6, <2>3, <2>5 DEF GroundRequests
  <2>8. EgoAskedFits(r, y, U)
    BY <1>13, <2>6 DEF EgoAskedFits
  <2>9. RolloutFits(r, y, U, kept[r])
    BY <1>11, <2>6, <2>8 DEF RolloutFits
  <2>10. Awaits(q, y, U)
    BY <1>10, <2>6, <2>7 DEF Awaits, IsAwaiting
  <2> QED BY <1>1, <1>2, <1>4, <1>8, <1>9, <2>4, <2>7, <2>9, <2>10, GroundMoves
<1> QED BY <1>12, <1>13

LEMMA EgoCorrectedStep ==
  ASSUME GroundInv, NEW r \in Sims, EgoCorrected(r)
  PROVE  GroundInv'
<1>1. PICK x, k, W : x = course[r] /\ k = x.step /\ W = wanted[r]
  OBVIOUS
<1>2. /\ x \in CourseState /\ RolloutFits(r, x, W, kept[r]) /\ k \in Nat \ {0}
      /\ x.phase = "ego_asked" /\ x.answer # <<>> /\ ~IsAwaiting(x) /\ EgoAskedFits(r, x, W)
  BY <1>1 DEF GroundInv, RolloutFits, CourseState, EgoCorrected, IsAwaiting
<1>3. PICK p \in GroundPoses : Entry(k, "ego", p) \in W /\ x.answer.ego = UpdatePose(OwnBackend(r), p)
  <2>1. PICK w \in W : /\ w = Entry(k, "ego", w.pose) /\ w.pose \in GroundPoses
                       /\ x.answer.ego = UpdatePose(OwnBackend(r), w.pose)
    BY <1>1, <1>2 DEF EgoAskedFits
  <2>2. Entry(k, "ego", w.pose) \in W
    BY Zenon, <2>1
  <2> QED BY <2>1, <2>2
<1>4. PICK u : u = x.answer.ego
  OBVIOUS
<1>5. PICK y : y = [x EXCEPT !.phase = "traffic", !.answer = <<>>, !.corrected = u]
  OBVIOUS
<1>6. course' = [course EXCEPT ![r] = y] /\ meshes' = meshes /\ requests' = requests
      /\ wanted' = wanted /\ kept' = kept
  BY Zenon, <1>1, <1>4, <1>5 DEF EgoCorrected
<1>7. kept' = [kept EXCEPT ![r] = kept[r]] /\ wanted' = [wanted EXCEPT ![r] = W]
  BY <1>1, <1>6 DEF GroundInv
<1>8. u \in GroundPoses /\ KeptFrom(r, Entry(k, "ego", u), p)
  BY <1>1, <1>2, <1>3, <1>4, EgoKept DEF EgoAskedFits
<1>9. KeptFits(r, W, Entry(k, "ego", u))
  BY <1>3, <1>8 DEF KeptFits, Entry
<1>10. y \in CourseState /\ y.phase = "traffic" /\ y.corrected = u /\ y.step = k /\ y.answer = <<>>
  BY <1>1, <1>2, <1>5, <1>8 DEF CourseState
<1>11. RolloutFits(r, y, W, kept[r])
  BY <1>1, <1>2, <1>8, <1>9, <1>10 DEF RolloutFits
<1> QED BY <1>1, <1>2, <1>6, <1>7, <1>11, GroundMoves

(* A step is committed: the ego's pose and one of each object.               *)
LEMMA StepKept ==
  ASSUME GroundInv, NEW r \in Sims, NEW x, x = course[r], NEW k, k = x.step,
         x.phase \in {"traffic", "traffic_asked"}, ~IsAwaiting(x),
         NEW names \in Seq(GroundSpots \ {"ego"}), NamesFit(r, k, names), NEW placed,
         NEW W, wanted[r] \subseteq W,
         \A i \in 1..Len(names) : KeptFits(r, W, Entry(k, names[i], placed[i])),
         KeepStep(r, names, placed), NextStep(r), wanted' = [wanted EXCEPT ![r] = W],
         meshes' = meshes, requests' = requests
  PROVE  GroundInv'
<1>1. PICK n, K : n = Len(names) /\ K = kept[r]
  OBVIOUS
<1>2. PICK c : c = Entry(k, "ego", x.corrected)
  OBVIOUS
<1>3. PICK N : N = {Entry(k, names[i], placed[i]) : i \in {j \in 1..n : names[j] # EgoActor}}
  OBVIOUS
<1>4. PICK L : L = (K \cup {c}) \cup N
  OBVIOUS
<1>5. n \in Nat /\ DOMAIN names = 1..n /\ \A i \in 1..n : names[i] \in GroundSpots \ {"ego"}
  BY <1>1, LenProperties, ElementOfSeq
<1>6. kept' = [kept EXCEPT ![r] = L]
  <2>1. kept' = [kept EXCEPT ![r] = @ \cup {c} \cup {Entry(k, names[i], placed[i]) :
                                                        i \in {j \in DOMAIN names : names[j] # EgoActor}}]
    BY Zenon, <1>2 DEF KeepStep, Entry
  <2> QED BY Zenon, <1>1, <1>3, <1>4, <1>5, <2>1
<1>7. RolloutFits(r, x, wanted[r], K) /\ k \in Nat \ {0}
  BY <1>1 DEF GroundInv, RolloutFits, CourseState
<1>8. KeptFits(r, W, c) /\ KeepsFit(r, k, W, K)
  BY <1>2, <1>7, KeepsStay DEF RolloutFits
<1>9. PICK y : y = [step |-> k + 1, phase |-> "ego", corrected |-> <<>>, names |-> <<>>, sent |-> <<>>,
                    answer |-> <<>>]
  OBVIOUS
<1>10. course' = [course EXCEPT ![r] = y]
  BY <1>9 DEF NextStep
<1>11. y \in CourseState /\ y.phase = "ego" /\ y.step = k + 1 /\ y.answer = <<>>
  <2>1. <<>> \in Seq(GroundSpots \ {"ego"}) /\ <<>> \in Seq(GroundPoses) /\ k + 1 \in Nat \ {0}
    BY <1>7, EmptySeq
  <2> QED BY <1>9, <2>1 DEF CourseState
<1>12. \A e \in N : \E i \in 1..n : e = Entry(k, names[i], placed[i]) /\ names[i] # EgoActor
  BY <1>3
<1>13. c.step = k /\ c.id = "ego" /\ \A e \in N : e.step = k /\ e.id # "ego"
  <2>1. c.step = k /\ c.id = "ego"
    BY <1>2 DEF Entry
  <2>2. ASSUME NEW e \in N PROVE e.step = k /\ e.id # "ego"
    <3>1. PICK i \in 1..n : e = Entry(k, names[i], placed[i])
      BY <1>12
    <3>2. e.step = k /\ e.id = names[i]
      BY <3>1 DEF Entry
    <3> QED BY <1>5, <3>2
  <2> QED BY <2>1, <2>2
<1>14. \A e \in K : e.step \in Nat /\ e.step < k /\ KeptFits(r, W, e)
  BY <1>8 DEF KeepsFit
<1>15. \A e \in L : e.step \in Nat /\ e.step < k + 1 /\ KeptFits(r, W, e)
  <2>1. \A e \in K : e.step \in Nat /\ e.step < k + 1 /\ KeptFits(r, W, e)
    BY <1>7, <1>14
  <2>2. \A e \in N : KeptFits(r, W, e)
    BY <1>1, <1>12
  <2>3. \A e \in N : e.step \in Nat /\ e.step < k + 1
    BY <1>7, <1>13
  <2>4. c.step \in Nat /\ c.step < k + 1
    BY <1>7, <1>13
  <2> QED BY <1>4, <1>8, <2>1, <2>2, <2>3, <2>4
<1>16. \A d, e \in L : d.step = e.step /\ d.id = e.id => d = e
  <2>1. \A d, e \in K : d.step = e.step /\ d.id = e.id => d = e
    BY <1>8 DEF KeepsFit
  <2>2. \A e \in K : e.step # k
    BY <1>7, <1>14
  <2>3. ASSUME NEW d \in N, NEW e \in N, d.id = e.id PROVE d = e
    <3>1. PICK i \in 1..n : d = Entry(k, names[i], placed[i])
      BY <1>12
    <3>2. PICK j \in 1..n : e = Entry(k, names[j], placed[j])
      BY <1>12
    <3>3. names[i] = names[j]
      BY <2>3, <3>1, <3>2 DEF Entry
    <3>4. i = j
      BY <1>1, <3>3 DEF NamesFit
    <3> QED BY <3>1, <3>2, <3>4
  <2> QED BY <1>4, <1>13, <2>1, <2>2, <2>3
<1>17. \A j \in 1..k : IsForced(r, j) => IdsAt(L, j) = {"ego"} \cup Existing(j)
  <2> SUFFICES ASSUME NEW j \in 1..k, IsForced(r, j) PROVE IdsAt(L, j) = {"ego"} \cup Existing(j)
    OBVIOUS
  <2>1. CASE j # k
    <3>1. {d \in L : d.step = j} = {d \in K : d.step = j}
      BY <1>4, <1>13, <2>1
    <3>2. j \in 1..(k - 1)
      BY <1>7, <2>1
    <3>3. IdsAt(L, j) = IdsAt(K, j)
      BY Zenon, <3>1 DEF IdsAt
    <3> QED BY <1>8, <3>2, <3>3 DEF KeepsFit
  <2>2. CASE j = k
    <3>1. {d \in L : d.step = j} = {c} \cup N
      BY <1>4, <1>7, <1>13, <1>14, <2>2
    <3>2. IdsAt(L, j) = {"ego"} \cup {e.id : e \in N}
      BY <1>13, <3>1 DEF IdsAt
    <3>3. {names[i] : i \in 1..n} = Existing(k)
      BY <1>1, <2>2 DEF NamesFit
    <3>4. EgoActor \notin Existing(k)
      BY GroundConstants DEF Existing
    <3>5. {e.id : e \in N} = Existing(k)
      <4>1. ASSUME NEW e \in N PROVE e.id \in Existing(k)
        <5>1. PICK i \in 1..n : e = Entry(k, names[i], placed[i])
          BY <1>12
        <5> QED BY <3>3, <5>1 DEF Entry
      <4>2. ASSUME NEW o \in Existing(k) PROVE \E e \in N : e.id = o
        <5>1. PICK i \in 1..n : o = names[i]
          BY <3>3
        <5>2. Entry(k, names[i], placed[i]) \in N
          BY <1>3, <3>4, <5>1
        <5> QED BY <5>1, <5>2 DEF Entry
      <4> QED BY <4>1, <4>2
    <3> QED BY <2>2, <3>2, <3>5
  <2> QED BY <2>1, <2>2
<1>18. KeepsFit(r, k + 1, W, L)
  <2>1. (k + 1) - 1 = k
    BY <1>7
  <2> QED BY <1>15, <1>16, <1>17, <2>1 DEF KeepsFit
<1>19. RolloutFits(r, y, W, L)
  BY <1>11, <1>18 DEF RolloutFits
<1> QED BY <1>6, <1>10, <1>19, GroundMoves

(* The objects of a step: they are all asked about, or kept as they are.     *)
LEMMA TrafficStep ==
  ASSUME GroundInv, NEW r \in Sims, course[r].phase = "traffic",
         NEW names \in Seq(GroundSpots \ {"ego"}), NamesFit(r, course[r].step, names),
         NEW placed \in Seq(GroundPoses), Len(placed) = Len(names), PhysicsOfTraffic(r, names, placed)
  PROVE  GroundInv'
<1>1. PICK x, k, n : x = course[r] /\ k = x.step /\ n = Len(names)
  OBVIOUS
<1>2. /\ x \in CourseState /\ RolloutFits(r, x, wanted[r], kept[r]) /\ k \in Nat \ {0}
      /\ x.phase = "traffic" /\ x.answer = <<>> /\ ~IsAwaiting(x)
  BY <1>1 DEF GroundInv, RolloutFits, CourseState, IsAwaiting
<1>3. n \in Nat /\ DOMAIN names = 1..n /\ \A i \in 1..n : names[i] \in GroundSpots \ {"ego"} /\ placed[i] \in GroundPoses
  BY <1>1, LenProperties, ElementOfSeq
<1>4. PICK W : W = wanted[r] \cup {Entry(k, names[i], placed[i]) : i \in 1..n}
  OBVIOUS
<1>5. wanted' = [wanted EXCEPT ![r] = W]
  <2>1. wanted' = [wanted EXCEPT ![r] = @ \cup {Entry(k, names[i], placed[i]) : i \in DOMAIN names}]
    BY Zenon, <1>1 DEF PhysicsOfTraffic, Entry
  <2> QED BY Zenon, <1>3, <1>4, <2>1
<1>6. wanted[r] \subseteq W /\ \A i \in 1..n : Entry(k, names[i], placed[i]) \in W
  BY <1>4
<1>7. meshes' = meshes
  BY Zenon DEF PhysicsOfTraffic
<1>8. PICK asks : asks = /\ Courses[r].mode = "all_actors" /\ names # <<>>
                         /\ ~(Courses[r].skip \/ (Courses[r].trafficSkip /\ ~IsForced(r, k)))
  OBVIOUS
<1>9. CASE asks
  <2>1. Ask(r, x.corrected, names, placed, "traffic_asked") /\ kept' = kept
    BY Zenon, <1>1, <1>8, <1>9 DEF PhysicsOfTraffic
  <2>2. PICK y : y = [x EXCEPT !.phase = "traffic_asked", !.names = names, !.sent = placed]
    OBVIOUS
  <2>3. PICK q : q = [from |-> r, ego |-> x.corrected, others |-> placed]
    OBVIOUS
  <2>4. course' = [course EXCEPT ![r] = y] /\ requests' = Append(requests, q)
    BY Zenon, <1>1, <2>1, <2>2, <2>3 DEF Ask
  <2>5. kept' = [kept EXCEPT ![r] = kept[r]]
    BY <2>1 DEF GroundInv
  <2>6. /\ y \in CourseState /\ y.phase = "traffic_asked" /\ y.step = k /\ y.answer = <<>>
        /\ y.names = names /\ y.sent = placed /\ y.corrected = x.corrected
    BY <1>1, <1>2, <2>2 DEF CourseState
  <2>7. KeptFits(r, wanted[r], Entry(k, "ego", x.corrected))
    BY <1>1, <1>2 DEF RolloutFits
  <2>8. x.corrected \in GroundPoses
    BY <1>2 DEF RolloutFits
  <2>9. q \in GroundRequests /\ q.from = r /\ q.others = placed
    BY <2>3, <2>8 DEF GroundRequests
  <2>10. TrafficAskedFits(r, y, W)
    BY <1>1, <1>6, <1>8, <1>9, <2>6 DEF TrafficAskedFits
  <2>11. KeptFits(r, W, Entry(k, "ego", x.corrected)) /\ KeepsFit(r, k, W, kept[r])
    BY <1>1, <1>2, <1>6, <2>7, KeepsStay DEF RolloutFits
  <2>12. RolloutFits(r, y, W, kept[r])
    BY <2>6, <2>8, <2>10, <2>11 DEF RolloutFits
  <2>13. Awaits(q, y, W)
    BY <2>6, <2>9 DEF Awaits, IsAwaiting
  <2> QED BY <1>1, <1>2, <1>5, <1>7, <2>4, <2>5, <2>9, <2>12, <2>13, GroundMoves
<1>10. CASE ~asks
  <2>1. KeepStep(r, names, placed) /\ NextStep(r) /\ requests' = requests
    BY Zenon, <1>1, <1>8, <1>10 DEF PhysicsOfTraffic
  <2>2. ASSUME NEW i \in 1..n PROVE KeptFits(r, W, Entry(k, names[i], placed[i]))
    <3>1. \/ Courses[r].mode # "all_actors" \/ Courses[r].skip
          \/ Courses[r].trafficSkip /\ ~IsForced(r, k)
      BY <1>1, <1>3, <1>8, <1>10, EmptySeq
    <3>2. KeptFrom(r, Entry(k, names[i], placed[i]), placed[i])
      BY <1>2, <1>3, <3>1, ObjectLeft
    <3> QED BY <1>6, <3>2 DEF KeptFits, Entry
  <2> QED BY <1>1, <1>2, <1>5, <1>6, <1>7, <2>1, <2>2, StepKept
<1> QED BY <1>9, <1>10

LEMMA RunTrafficStep ==
  ASSUME GroundInv, NEW r \in Sims, RunTraffic(r)
  PROVE  GroundInv'
<1>1. PICK k : k = course[r].step
  OBVIOUS
<1>2. course[r].phase = "traffic"
  BY Zenon DEF RunTraffic
<1>3. CASE IsForced(r, k)
  <2>1. PICK l, n : l = RecordedAt(k) /\ n = Len(l)
    OBVIOUS
  <2>2. Existing(k) \subseteq Actors /\ IsFiniteSet(Existing(k))
    BY GroundConstants, FS_Subset DEF Existing
  <2>3. /\ l \in Seq(Existing(k)) /\ \A i, j \in 1..n : l[i] = l[j] => i = j
        /\ {l[i] : i \in 1..n} = Existing(k)
    <3>1. l = SetToSeq(Existing(k))
      BY <2>1 DEF RecordedAt
    <3> QED BY <2>1, <2>2, <3>1, ListingOf
  <2>4. n \in Nat /\ DOMAIN l = 1..n /\ \A i \in 1..n : l[i] \in Existing(k)
    BY <2>1, <2>3, LenProperties, ElementOfSeq
  <2>5. l \in Seq(GroundSpots \ {"ego"})
    <3>1. Existing(k) \subseteq GroundSpots \ {"ego"}
      BY <2>2, GroundConstants DEF GroundSpots
    <3> QED BY <2>3, <3>1, SeqMonotonic
  <2>6. PICK m : m = [i \in 1..n |-> Stand(l[i], Tracks[l[i]])]
    OBVIOUS
  <2>7. PhysicsOfTraffic(r, l, m)
    <3>1. PhysicsOfTraffic(r, l, [i \in DOMAIN l |-> Stand(l[i], Tracks[l[i]])])
      BY Zenon, <1>1, <1>3, <2>1 DEF RunTraffic
    <3> QED BY <2>4, <2>6, <3>1
  <2>8. \A i \in 1..n : Stand(l[i], Tracks[l[i]]) \in GroundPoses
    BY <2>2, <2>4, GroundConstants DEF Stand, GroundPoses, GroundSpots
  <2>9. m \in Seq(GroundPoses) /\ Len(m) = n
    BY <2>4, <2>6, <2>8
  <2>10. NamesFit(r, k, l)
    BY <2>1, <2>3 DEF NamesFit
  <2> QED BY <1>1, <1>2, <2>1, <2>5, <2>7, <2>9, <2>10, TrafficStep
<1>4. CASE ~IsForced(r, k)
  <2>1. PICK ids \in SUBSET (Actors \cup {EgoActor}) : \E p \in SimPoses :
          LET names == SetToSeq(ids)
          IN  PhysicsOfTraffic(r, names, [i \in DOMAIN names |-> Stand(names[i], p)])
    BY Zenon, <1>1, <1>4 DEF RunTraffic
  <2>2. PICK p \in SimPoses :
          PhysicsOfTraffic(r, SetToSeq(ids), [i \in DOMAIN SetToSeq(ids) |-> Stand(SetToSeq(ids)[i], p)])
    BY Zenon, <2>1
  <2>3. PICK l, n : l = SetToSeq(ids) /\ n = Len(l)
    OBVIOUS
  <2>4. IsFiniteSet(ids)
    <3>1. IsFiniteSet(Actors \cup {EgoActor})
      BY GroundConstants, FS_AddElement
    <3> QED BY <3>1, FS_Subset
  <2>5. l \in Seq(ids) /\ \A i, j \in 1..n : l[i] = l[j] => i = j
    BY <2>3, <2>4, ListingOf
  <2>6. n \in Nat /\ DOMAIN l = 1..n /\ \A i \in 1..n : l[i] \in ids
    BY <2>3, <2>5, LenProperties, ElementOfSeq
  <2>7. ids \subseteq GroundSpots \ {"ego"}
    BY GroundConstants DEF GroundSpots
  <2>8. l \in Seq(GroundSpots \ {"ego"})
    BY <2>5, <2>7, SeqMonotonic
  <2>9. PICK m : m = [i \in 1..n |-> Stand(l[i], p)]
    OBVIOUS
  <2>10. PhysicsOfTraffic(r, l, m)
    BY <2>2, <2>3, <2>6, <2>9
  <2>11. \A i \in 1..n : Stand(l[i], p) \in GroundPoses
    BY <2>6, <2>7, GroundConstants DEF Stand, GroundPoses
  <2>12. m \in Seq(GroundPoses) /\ Len(m) = n
    BY <2>6, <2>9, <2>11
  <2>13. NamesFit(r, k, l)
    BY <1>4, <2>3, <2>5 DEF NamesFit
  <2> QED BY <1>1, <1>2, <2>3, <2>8, <2>10, <2>12, <2>13, TrafficStep
<1> QED BY <1>3, <1>4

LEMMA TrafficCorrectedStep ==
  ASSUME GroundInv, NEW r \in Sims, TrafficCorrected(r)
  PROVE  GroundInv'
<1>1. PICK x, k, W : x = course[r] /\ k = x.step /\ W = wanted[r]
  OBVIOUS
<1>2. /\ x \in CourseState /\ RolloutFits(r, x, W, kept[r]) /\ k \in Nat \ {0}
      /\ x.phase = "traffic_asked" /\ x.answer # <<>> /\ ~IsAwaiting(x) /\ TrafficAskedFits(r, x, W)
  BY <1>1 DEF GroundInv, RolloutFits, CourseState, TrafficCorrected, IsAwaiting
<1>3. PICK l, n, s, o : l = x.names /\ n = Len(l) /\ s = x.sent /\ o = x.answer.others
  OBVIOUS
<1>4. /\ l \in Seq(GroundSpots \ {"ego"}) /\ s \in Seq(GroundPoses) /\ o \in Seq(GroundPoses)
      /\ NamesFit(r, k, l) /\ Len(s) = n /\ Len(o) = n
      /\ \A i \in 1..n : Entry(k, l[i], s[i]) \in W /\ o[i] = UpdatePose(OwnBackend(r), s[i])
  BY <1>1, <1>2, <1>3 DEF CourseState, TrafficAskedFits
<1>5. n \in Nat /\ DOMAIN o = 1..n
      /\ \A i \in 1..n : l[i] \in GroundSpots \ {"ego"} /\ s[i] \in GroundPoses
  BY <1>3, <1>4, LenProperties, ElementOfSeq
<1>6. PICK m : m = Corrections(r)
  OBVIOUS
<1>7. KeepStep(r, l, m) /\ NextStep(r) /\ requests' = requests /\ meshes' = meshes /\ wanted' = wanted
  BY Zenon, <1>1, <1>3, <1>6 DEF TrafficCorrected
<1>8. wanted' = [wanted EXCEPT ![r] = W]
  BY <1>1, <1>7 DEF GroundInv
<1>9. ASSUME NEW i \in 1..n PROVE KeptFits(r, W, Entry(k, l[i], m[i]))
  <2>1. PICK p, u, q : p = s[i] /\ u = o[i] /\ q = m[i]
    OBVIOUS
  <2>2. p \in GroundPoses /\ l[i] \in GroundSpots \ {"ego"} /\ u = UpdatePose(OwnBackend(r), p)
    BY <1>4, <1>5, <2>1
  <2>3. IsForced(r, k) => m = [j \in 1..n |-> EasedOnto(r, s[j], o[j])]
    BY Zenon, <1>1, <1>3, <1>5, <1>6 DEF Corrections
  <2>4. ~IsForced(r, k) => m = o
    BY Zenon, <1>1, <1>3, <1>6 DEF Corrections
  <2>5. IsForced(r, k) => EasedOnto(r, p, u) = [spot |-> p.spot, z |-> Way(r, k, p.z, u.z),
                                                tilt |-> Way(r, k, p.tilt, u.tilt)]
    BY <1>1 DEF EasedOnto, Way
  <2>6. q = IF IsForced(r, k)
            THEN [spot |-> p.spot, z |-> Way(r, k, p.z, u.z), tilt |-> Way(r, k, p.tilt, u.tilt)]
            ELSE u
    BY <2>1, <2>3, <2>4, <2>5
  <2>7. /\ Courses[r].mode = "all_actors" /\ ~Courses[r].skip
        /\ IsForced(r, k) \/ ~Courses[r].trafficSkip
    BY <1>1, <1>2 DEF TrafficAskedFits
  <2>8. KeptFrom(r, Entry(k, l[i], q), p)
    BY <1>2, <2>2, <2>6, <2>7, ObjectKept
  <2> QED BY <1>4, <2>1, <2>8 DEF KeptFits, Entry
<1> QED BY <1>1, <1>2, <1>3, <1>4, <1>7, <1>8, <1>9, StepKept

(* The first state, and each step.                                           *)
LEMMA GroundStart == GroundingInit => GroundInv
<1> SUFFICES ASSUME GroundingInit PROVE GroundInv
  OBVIOUS
<1>1. PICK y : y = [step |-> 1, phase |-> "ego", corrected |-> <<>>, names |-> <<>>, sent |-> <<>>,
                    answer |-> <<>>]
  OBVIOUS
<1>2. /\ course = [r \in Sims |-> y] /\ requests = <<>> /\ meshes = <<>>
      /\ wanted = [r \in Sims |-> {}] /\ kept = [r \in Sims |-> {}]
  BY <1>1 DEF GroundingInit
<1>3. y \in CourseState /\ y.phase = "ego" /\ y.step = 1 /\ y.answer = <<>>
  <2>1. <<>> \in Seq(GroundSpots \ {"ego"}) /\ <<>> \in Seq(GroundPoses)
    BY EmptySeq
  <2> QED BY <1>1, <2>1 DEF CourseState
<1>4. \A r \in Sims : RolloutFits(r, y, {}, {})
  BY <1>3 DEF RolloutFits, KeepsFit
<1>5. RequestsFit(requests, course, wanted)
  <2>1. <<>> \in Seq(GroundRequests) /\ Len(<<>>) = 0
    BY EmptySeq
  <2> QED BY <1>2, <2>1 DEF RequestsFit
<1>6. meshes \in Seq(SceneBackends) /\ Len(meshes) \in 0..BackendCacheSize
  BY <1>2, EmptySeq, GroundConstants
<1> QED BY <1>2, <1>4, <1>5, <1>6 DEF GroundInv

LEMMA GroundSteps == GroundInv /\ [GroundingNext]_groundingVars => GroundInv'
<1> SUFFICES ASSUME GroundInv, [GroundingNext]_groundingVars PROVE GroundInv'
  OBVIOUS
<1>1. CASE UNCHANGED groundingVars
  BY <1>1 DEF groundingVars, GroundInv
<1>2. CASE Intersect
  BY <1>2, IntersectStep
<1>3. ASSUME NEW r \in Sims, PhysicsOfEgo(r) PROVE GroundInv'
  BY <1>3, EgoStep
<1>4. ASSUME NEW r \in Sims, EgoCorrected(r) PROVE GroundInv'
  BY <1>4, EgoCorrectedStep
<1>5. ASSUME NEW r \in Sims, RunTraffic(r) PROVE GroundInv'
  BY <1>5, RunTrafficStep
<1>6. ASSUME NEW r \in Sims, TrafficCorrected(r) PROVE GroundInv'
  BY <1>6, TrafficCorrectedStep
<1> QED BY Zenon, <1>1, <1>2, <1>3, <1>4, <1>5, <1>6 DEF GroundingNext

(* What a rollout keeps is grounded.                                         *)
LEMMA GroundHolds == GroundInv => GroundedOnScene
<1> SUFFICES ASSUME GroundInv PROVE GroundedOnScene
  OBVIOUS
<1>1. Len(meshes) <= BackendCacheSize
  BY GroundConstants DEF GroundInv
<1>2. ASSUME NEW r \in Sims
      PROVE  /\ \A d, e \in kept[r] : d.step = e.step /\ d.id = e.id => d = e
             /\ \A e \in kept[r] : KeptFits(r, wanted[r], e)
             /\ \A k \in 1 .. course[r].step - 1 : IsForced(r, k) =>
                  IdsAt(kept[r], k) = {"ego"} \cup Existing(k)
  <2>1. KeepsFit(r, course[r].step, wanted[r], kept[r])
    BY DEF GroundInv, RolloutFits
  <2> QED BY <2>1 DEF KeepsFit
<1> QED BY Zenon, <1>1, <1>2 DEF GroundedOnScene, KeptFits

(* However the requests of rollouts with different scenes interleave at the  *)
(* physics server and its cache, every pose a rollout keeps is on the ground *)
(* of its own scene, or as it was where physics has no say or would move it  *)
(* too far (GroundedOnScene; events/physics.py, src/physics/.../server.py).  *)
THEOREM PosesAreGrounded == GroundingSpec => []GroundedOnScene
<1>1. GroundingSpec => []GroundInv
  BY GroundStart, GroundSteps, PTL DEF GroundingSpec
<1> QED BY <1>1, GroundHolds, PTL
-----------------------------------------------------------------------------
(* The traffic session as the runtime's step asks it (ActorTracks)           *)

Sources == {"log", "ego", "held", "model", "stuck", "frozen"}
Samples == [t : Int, from : Sources]

(* A trajectory has a first and a last time.                                 *)
Spanned(S) == S \in SUBSET Samples /\ \E lo, hi \in Int : \A x \in S : lo <= x.t /\ x.t <= hi

LEMMA LeastOfInts ==
  ASSUME NEW S \in SUBSET Int, S # {}, NEW lo \in Int, \A x \in S : lo <= x
  PROVE  Min(S) \in S /\ \A x \in S : Min(S) <= x
<1> DEFINE D == {x - lo : x \in S}
<1>1. D \in SUBSET Nat /\ D # {}
  <2>1. \A x \in S : x - lo \in Nat
    OBVIOUS
  <2> QED
    BY <2>1
<1>2. Min(D) \in D /\ \A k \in D : Min(D) <= k
  BY <1>1, SmallestExists
<1>3. PICK m \in S : Min(D) = m - lo
  BY <1>2
<1>4. \A x \in S : m <= x
  <2>1. ASSUME NEW x \in S PROVE m <= x
    <3>1. x - lo \in D /\ x \in Int /\ m \in Int
      OBVIOUS
    <3>2. m - lo <= x - lo
      BY <1>2, <1>3, <3>1
    <3>3. QED
      BY <3>1, <3>2
  <2>2. QED
    BY <2>1
<1>5. Min(S) = m
  BY <1>4, SmallestIs
<1>6. QED
  BY <1>4, <1>5

LEMMA GreatestOfInts ==
  ASSUME NEW S \in SUBSET Int, S # {}, NEW hi \in Int, \A x \in S : x <= hi
  PROVE  Max(S) \in S /\ \A x \in S : x <= Max(S)
<1> DEFINE D == {hi - x : x \in S}
<1>1. D \in SUBSET Nat /\ D # {}
  OBVIOUS
<1>2. Min(D) \in D /\ \A k \in D : Min(D) <= k
  BY <1>1, SmallestExists
<1>3. PICK m \in S : Min(D) = hi - m
  BY <1>2
<1>4. \A x \in S : x <= m
  <2>1. ASSUME NEW x \in S PROVE x <= m
    <3>1. hi - x \in D /\ x \in Int /\ m \in Int
      OBVIOUS
    <3>2. hi - m <= hi - x
      BY <1>2, <1>3, <3>1
    <3>3. QED
      BY <3>1, <3>2
  <2>2. QED
    BY <2>1
<1>5. Max(S) = m
  BY <1>4, GreatestIs
<1>6. QED
  BY <1>4, <1>5

(* The first and the last sample are samples.                                *)
LEMMA FirstSample ==
  ASSUME NEW S, Spanned(S), S # {}
  PROVE  /\ Earliest(S) \in Int /\ \A x \in S : Earliest(S) <= x.t
         /\ \E x \in S : x.t = Earliest(S)
<1> DEFINE T == {x.t : x \in S}
<1>1. PICK lo, hi \in Int : \A x \in S : lo <= x.t /\ x.t <= hi
  BY DEF Spanned
<1>2. T \in SUBSET Int /\ T # {} /\ \A t \in T : lo <= t
  BY <1>1 DEF Spanned, Samples
<1>3. Min(T) \in T /\ \A t \in T : Min(T) <= t
  BY <1>2, LeastOfInts
<1>4. Earliest(S) = Min(T)
  BY DEF Earliest
<1> QED
  BY <1>2, <1>3, <1>4

LEMMA LastSample ==
  ASSUME NEW S, Spanned(S), S # {}
  PROVE  /\ Latest(S) \in Int /\ \A x \in S : x.t <= Latest(S)
         /\ \E x \in S : x.t = Latest(S)
<1> DEFINE T == {x.t : x \in S}
<1>1. PICK lo, hi \in Int : \A x \in S : lo <= x.t /\ x.t <= hi
  BY DEF Spanned
<1>2. T \in SUBSET Int /\ T # {} /\ \A t \in T : t <= hi
  BY <1>1 DEF Spanned, Samples
<1>3. Max(T) \in T /\ \A t \in T : t <= Max(T)
  BY <1>2, GreatestOfInts
<1>4. Latest(S) = Max(T)
  BY DEF Latest
<1> QED
  BY <1>2, <1>3, <1>4

(* A part of a trajectory is one, and two make one.                          *)
LEMMA SpannedParts ==
  ASSUME NEW S, Spanned(S), NEW T \in SUBSET S
  PROVE  Spanned(T)
<1>1. PICK lo, hi \in Int : \A x \in S : lo <= x.t /\ x.t <= hi
  BY DEF Spanned
<1>2. \A x \in T : lo <= x.t /\ x.t <= hi
  BY <1>1
<1> QED
  BY <1>2 DEF Spanned

LEMMA SpannedUnion ==
  ASSUME NEW S, Spanned(S), NEW T, Spanned(T)
  PROVE  Spanned(S \cup T)
<1>1. PICK lo, hi \in Int : \A x \in S : lo <= x.t /\ x.t <= hi
  BY DEF Spanned
<1>2. PICK least, most \in Int : \A x \in T : least <= x.t /\ x.t <= most
  BY DEF Spanned
<1> DEFINE a == IF lo < least THEN lo ELSE least
           b == IF hi > most THEN hi ELSE most
<1>3. a \in Int /\ b \in Int /\ a <= lo /\ a <= least /\ hi <= b /\ most <= b
  OBVIOUS
<1> HIDE DEF a, b
<1>4. ASSUME NEW x \in S \cup T PROVE a <= x.t /\ x.t <= b
  <2>1. x.t \in Int
    BY DEF Spanned, Samples
  <2> QED
    BY <1>1, <1>2, <1>3, <2>1
<1> QED
  BY <1>3, <1>4 DEF Spanned

(* What interpolation returns is for the time asked for, and there is some   *)
(* between any two samples.                                                  *)
LEMMA InterpolatedAt ==
  ASSUME NEW S, Spanned(S), NEW t \in Int
  PROVE  /\ At(S, t) \in SUBSET Samples /\ \A x \in At(S, t) : x.t = t
         /\ \A y, z \in S : y.t <= t /\ t <= z.t => At(S, t) # {}
<1> DEFINE later == {x.t : x \in {y \in S : y.t >= t}}
           next  == Min(later)
           found == {[x EXCEPT !.t = t] : x \in {y \in S : y.t = next}}
<1>1. found \in SUBSET Samples /\ \A x \in found : x.t = t
  BY DEF Spanned, Samples
<1>2. At(S, t) \in {{}, found}
  BY DEF At
<1>3. ASSUME NEW y \in S, NEW z \in S, y.t <= t, t <= z.t
      PROVE  At(S, t) # {}
  <2>1. Earliest(S) \in Int /\ Earliest(S) <= y.t /\ Latest(S) \in Int /\ z.t <= Latest(S)
    BY FirstSample, LastSample
  <2>2. y.t \in Int /\ z.t \in Int
    BY DEF Spanned, Samples
  <2>3. At(S, t) = found
    <3>1. ~(t < Earliest(S)) /\ ~(t > Latest(S)) /\ S # {}
      BY <1>3, <2>1, <2>2
    <3> QED
      BY <3>1 DEF At
  <2>4. later \in SUBSET Int /\ z.t \in later /\ \A k \in later : t <= k
    BY <1>3 DEF Spanned, Samples
  <2> HIDE DEF later
  <2>5. next \in later
    BY <2>4, LeastOfInts
  <2>6. \E x \in S : x.t = next
    BY <2>5 DEF later
  <2> QED
    BY <2>3, <2>6
<1> HIDE DEF found
<1> QED
  BY <1>1, <1>2, <1>3

LEMMA InterpolatedSpans ==
  ASSUME NEW S, Spanned(S), NEW t \in Int
  PROVE  Spanned(At(S, t))
<1>1. At(S, t) \in SUBSET Samples /\ \A x \in At(S, t) : t <= x.t /\ x.t <= t
  BY InterpolatedAt
<1> QED
  BY <1>1 DEF Spanned

(* Merging keeps what is before all of the new samples, and these.           *)
LEMMA MergeKeeps ==
  ASSUME NEW old, Spanned(old), NEW new, Spanned(new)
  PROVE  /\ Spanned(Merge(old, new)) /\ new \subseteq Merge(old, new)
         /\ \A x \in Merge(old, new) : x \in new \/ (x \in old /\ \A y \in new : x.t < y.t)
         /\ \A x \in old : (\A y \in new : x.t < y.t) => x \in Merge(old, new)
<1>1. CASE new = {}
  BY <1>1 DEF Merge
<1>2. CASE new # {}
  <2>1. /\ Earliest(new) \in Int /\ \A y \in new : Earliest(new) <= y.t
        /\ \E y \in new : y.t = Earliest(new)
    BY <1>2, FirstSample
  <2>2. Merge(old, new) = {x \in old : x.t < Earliest(new)} \cup new
    BY <1>2 DEF Merge
  <2>3. Spanned({x \in old : x.t < Earliest(new)})
    BY SpannedParts
  <2>4. Spanned(Merge(old, new))
    BY <2>2, <2>3, SpannedUnion
  <2>5. \A x \in old : x.t \in Int
    BY DEF Spanned, Samples
  <2>6. \A y \in new : y.t \in Int
    BY DEF Spanned, Samples
  <2>7. ASSUME NEW x \in Merge(old, new) PROVE x \in new \/ (x \in old /\ \A y \in new : x.t < y.t)
    BY <2>1, <2>2, <2>5, <2>6, <2>7
  <2>8. ASSUME NEW x \in old, \A y \in new : x.t < y.t PROVE x \in Merge(old, new)
    BY <2>1, <2>2, <2>8
  <2> QED
    BY <2>2, <2>4, <2>7, <2>8
<1> QED
  BY <1>1, <1>2

(* If all new samples are after a time, nothing changes up to it.            *)
LEMMA MergeAfter ==
  ASSUME NEW old, Spanned(old), NEW new, Spanned(new), NEW h \in Int, \A y \in new : h < y.t
  PROVE  {x \in Merge(old, new) : x.t <= h} = {x \in old : x.t <= h}
<1>1. \A x \in old \cup new : x.t \in Int
  BY DEF Spanned, Samples
<1>2. ASSUME NEW x \in Merge(old, new), x.t <= h PROVE x \in old
  BY <1>1, <1>2, MergeKeeps
<1>3. ASSUME NEW x \in old, x.t <= h PROVE x \in Merge(old, new)
  <2>1. \A y \in new : x.t < y.t
    BY <1>1, <1>3
  <2> QED
    BY <2>1, MergeKeeps
<1> QED
  BY <1>2, <1>3

(* Rounding up to whole steps.                                               *)
LEMMA RoundedUp ==
  ASSUME NEW a \in Nat, NEW d \in Nat \ {0}
  PROVE  /\ (a + d - 1) \div d \in Nat /\ a <= ((a + d - 1) \div d) * d
         /\ a > 0 => (a + d - 1) \div d > 0
<1> DEFINE q == (a + d - 1) \div d
           r == (a + d - 1) % d
<1>1. q \in Int /\ r \in 0 .. d - 1 /\ a + d - 1 = d * q + r
  OBVIOUS
<1> HIDE DEF q, r
<1>2. d * q = q * d /\ q * d \in Int
  BY <1>1
<1>3. a <= q * d
  BY <1>1, <1>2
<1>4. q < 0 => q * d < 0
  BY <1>1
<1>5. q = 0 => q * d = 0
  BY <1>1
<1>6. q \in Nat /\ (a > 0 => q > 0)
  BY <1>1, <1>2, <1>3, <1>4, <1>5
<1> QED
  BY <1>3, <1>6 DEF q

LEMMA MoreSteps ==
  ASSUME NEW d \in Nat \ {0}, NEW k \in Int, NEW l \in Int
  PROVE  /\ k * d \in Int /\ l * d \in Int
         /\ k < l => k * d < l * d
         /\ k <= l => k * d <= l * d
<1>1. k * d \in Int /\ l * d \in Int
  OBVIOUS
<1>2. (l - k) * d = l * d - k * d
  OBVIOUS
<1>3. l - k > 0 => (l - k) * d > 0
  OBVIOUS
<1>4. k < l => k * d < l * d
  BY <1>1, <1>2, <1>3
<1> QED
  BY <1>1, <1>4

(* The times of a number of steps after the end of a window.                 *)
Grid(end, n) == {end + k * Dt : k \in 1 .. n}

LEMMA GridCounts ==
  ASSUME NEW end \in Int, NEW n \in Nat
  PROVE  IsFiniteSet(Grid(end, n)) /\ Cardinality(Grid(end, n)) = n
<1> DEFINE f == [k \in 1 .. n |-> end + k * Dt]
<1>1. Dt \in Nat \ {0}
  BY TrafficAssumption
<1>2. \A k \in 1 .. n : f[k] \in Grid(end, n)
  BY DEF Grid
<1>3. f \in [1 .. n -> Grid(end, n)]
  BY <1>2
<1>4. ASSUME NEW k \in 1 .. n, NEW l \in 1 .. n, f[k] = f[l] PROVE k = l
  <2>1. k \in Int /\ l \in Int /\ k * Dt \in Int /\ l * Dt \in Int
    BY <1>1
  <2>2. end + k * Dt = end + l * Dt
    BY <1>4
  <2>3. k * Dt = l * Dt
    BY <2>1, <2>2
  <2>4. (k < l => k * Dt < l * Dt) /\ (l < k => l * Dt < k * Dt)
    BY <1>1, <2>1, MoreSteps
  <2> QED
    BY <2>1, <2>3, <2>4
<1>5. ASSUME NEW t \in Grid(end, n) PROVE \E k \in 1 .. n : f[k] = t
  BY DEF Grid
<1> HIDE DEF f
<1>6. f \in Bijection(1 .. n, Grid(end, n))
  BY <1>3, <1>4, <1>5 DEF Bijection, Injection, Surjection, IsInjective
<1>7. ExistsBijection(1 .. n, Grid(end, n))
  BY <1>6 DEF ExistsBijection
<1>8. Cardinality(Grid(end, n)) = n
  BY <1>7, FS_CountingElements
<1>9. IsFiniteSet(Grid(end, n))
  BY <1>7, FS_NatBijection
<1> QED
  BY <1>8, <1>9

LEMMA GridSpans ==
  ASSUME NEW end \in Int, NEW n \in Nat
  PROVE  \A t \in Grid(end, n) : t \in Int /\ end < t /\ t <= end + n * Dt
<1>1. Dt \in Nat \ {0}
  BY TrafficAssumption
<1>2. ASSUME NEW k \in 1 .. n
      PROVE  end + k * Dt \in Int /\ end < end + k * Dt /\ end + k * Dt <= end + n * Dt
  <2>1. 0 * Dt < k * Dt /\ k * Dt <= n * Dt /\ k * Dt \in Int /\ n * Dt \in Int
    BY <1>1, MoreSteps
  <2>2. 0 * Dt = 0
    BY <1>1
  <2> QED
    BY <2>1, <2>2
<1> QED
  BY <1>2 DEF Grid

(* What is forecast for a query past the window covers it; for one that is   *)
(* not, nothing is.                                                          *)
ForecastFits(end, query, n) ==
  /\ ForecastTimes(end, query) = Grid(end, n)
  /\ query > end => n > 0 /\ query <= end + n * Dt /\ FutureTimes(end, query) # {}
  /\ query <= end => n = 0 /\ FutureTimes(end, query) = {}

LEMMA ForecastCovers ==
  ASSUME NEW end \in Int, NEW query \in Int
  PROVE  \E n \in Nat : ForecastFits(end, query, n)
<1>0. Dt \in Nat \ {0} /\ MinFutureSteps \in Nat \ {0} /\ TokenStride \in Nat \ {0}
  BY TrafficAssumption
<1> DEFINE m == IF query <= end THEN 0 ELSE (query - end + Dt - 1) \div Dt
           needed == IF m < MinFutureSteps THEN MinFutureSteps ELSE m
           given == ((needed + TokenStride - 1) \div TokenStride) * TokenStride
           n == IF m = 0 THEN 0 ELSE given
<1>1. m \in Nat /\ (query > end => m > 0 /\ query - end <= m * Dt) /\ (query <= end => m = 0)
  <2>1. CASE query <= end
    BY <2>1
  <2>2. CASE query > end
    <3>1. query - end \in Nat /\ query - end > 0
      BY <2>2
    <3>2. m = (query - end + Dt - 1) \div Dt
      BY <2>2
    <3> HIDE DEF m
    <3>3. m \in Nat /\ query - end <= m * Dt /\ m > 0
      BY <1>0, <3>1, <3>2, RoundedUp
    <3> QED
      BY <2>2, <3>3
  <2> QED
    BY <2>1, <2>2
<1>2. FutureTimes(end, query) = Grid(end, m)
  BY DEF FutureTimes, Grid
<1>3. Cardinality(FutureTimes(end, query)) = m
  BY <1>1, <1>2, GridCounts
<1>4. ForecastTimes(end, query) = Grid(end, n)
  BY <1>3 DEF ForecastTimes, Grid
<1> HIDE DEF m
<1>5. needed \in Nat /\ m <= needed /\ needed > 0
  BY <1>0, <1>1
<1> HIDE DEF needed
<1>6. given \in Nat /\ needed <= given
  BY <1>0, <1>5, RoundedUp
<1> HIDE DEF given
<1>7. n \in Nat
  BY <1>6
<1>8. ASSUME query > end PROVE n > 0 /\ query <= end + n * Dt /\ FutureTimes(end, query) # {}
  <2>1. m > 0 /\ n = given /\ m <= n /\ n \in Int /\ m \in Int
    BY <1>1, <1>5, <1>6, <1>8
  <2>2. m * Dt <= n * Dt /\ m * Dt \in Int /\ n * Dt \in Int
    BY <1>0, <2>1, MoreSteps
  <2>3. query <= end + n * Dt
    BY <1>1, <1>8, <2>2
  <2>4. 1 \in 1 .. m
    BY <2>1
  <2>5. FutureTimes(end, query) # {}
    BY <1>2, <2>4 DEF Grid
  <2> QED
    BY <2>1, <2>3, <2>5
<1>9. ASSUME query <= end PROVE n = 0 /\ FutureTimes(end, query) = {}
  <2>1. m = 0
    BY <1>1, <1>9
  <2>2. Grid(end, 0) = {}
    BY DEF Grid
  <2> QED
    BY <1>2, <2>1, <2>2
<1> HIDE DEF n
<1> QED
  BY <1>4, <1>7, <1>8, <1>9 DEF ForecastFits

(* A window ends at its end, and has what the trajectory has there.          *)
LEMMA WindowFits ==
  ASSUME NEW o \in Agents, NEW trajectories, Spanned(trajectories[o]), NEW end \in Int
  PROVE  /\ Spanned(Window(trajectories, end)[o])
         /\ \A x \in Window(trajectories, end)[o] : x.t <= end
         /\ (\E x \in trajectories[o] : x.t = end) => \E x \in Window(trajectories, end)[o] : x.t = end
<1> DEFINE Steps == 0 .. HistorySteps - 1
           Seen(k) == At(trajectories[o], end - k * Dt)
           Shown(k) == IF Seen(k) = {} /\ o \in StaticAgents /\ trajectories[o] # {}
                       THEN {[t |-> end - k * Dt, from |-> "log"]} ELSE Seen(k)
           W == UNION {Shown(k) : k \in Steps}
           lo == end - (HistorySteps - 1) * Dt
<1>0. Dt \in Nat \ {0} /\ HistorySteps \in Nat \ {0}
  BY TrafficAssumption
<1>1. Window(trajectories, end)[o] = W
  BY DEF Window, Things
<1>2. lo \in Int
  BY <1>0
<1>3. ASSUME NEW k \in Steps
      PROVE  end - k * Dt \in Int /\ lo <= end - k * Dt /\ end - k * Dt <= end
  <2>1. k \in Int /\ 0 <= k /\ k <= HistorySteps - 1 /\ HistorySteps - 1 \in Int
    BY <1>0
  <2>2. /\ 0 * Dt <= k * Dt /\ k * Dt <= (HistorySteps - 1) * Dt
        /\ k * Dt \in Int /\ (HistorySteps - 1) * Dt \in Int
    BY <1>0, <2>1, MoreSteps
  <2>3. 0 * Dt = 0
    BY <1>0
  <2> QED
    BY <2>2, <2>3
<1>4. ASSUME NEW k \in Steps
      PROVE  Shown(k) \in SUBSET Samples /\ \A x \in Shown(k) : x.t = end - k * Dt
  <2>1. Seen(k) \in SUBSET Samples /\ \A x \in Seen(k) : x.t = end - k * Dt
    BY <1>3, InterpolatedAt
  <2>2. [t |-> end - k * Dt, from |-> "log"] \in Samples
    BY <1>3 DEF Samples, Sources
  <2> QED
    BY <2>1, <2>2
<1> HIDE DEF Shown, lo
<1>5. \A x \in W : x \in Samples /\ lo <= x.t /\ x.t <= end
  BY <1>3, <1>4
<1>6. Spanned(W)
  BY <1>2, <1>5 DEF Spanned
<1>7. ASSUME NEW y \in trajectories[o], y.t = end PROVE \E x \in W : x.t = end
  <2>1. 0 \in Steps /\ end - 0 * Dt = end
    BY <1>0
  <2>2. y.t <= end /\ end <= y.t
    BY <1>7
  <2>3. At(trajectories[o], end) # {}
    BY <2>2, InterpolatedAt
  <2>4. Shown(0) # {}
    BY <2>1, <2>3 DEF Shown
  <2> HIDE DEF Steps
  <2>5. PICK x : x \in Shown(0)
    BY <2>4
  <2>6. x \in W /\ x.t = end
    BY <1>4, <2>1, <2>5
  <2> QED
    BY <2>6
<1> HIDE DEF W
<1> QED
  BY <1>1, <1>5, <1>6, <1>7

(* The network draws only on the grid, and nothing of what was never seen.   *)
LEMMA DrawnOnGrid ==
  ASSUME NEW o \in Agents, NEW window, NEW end \in Int, NEW query \in Int
  PROVE  /\ \A x \in NetworkSamples(o, window, end, query) :
              x \in [t : ForecastTimes(end, query), from : {"model", "stuck"}]
         /\ window = {} => NetworkSamples(o, window, end, query) = {}
<1>0. TokenStride \in Nat \ {0} /\ HistorySteps \in Nat \ {0}
  BY TrafficAssumption
<1>1. PICK n \in Nat : ForecastTimes(end, query) = Grid(end, n)
  BY ForecastCovers DEF ForecastFits
<1>2. Cardinality(ForecastTimes(end, query)) = n
  BY <1>1, GridCounts
<1>3. ASSUME NEW x \in NetworkSamples(o, window, end, query)
      PROVE  \E s \in 1 .. n \div TokenStride : StrideValid(o, s, window, end) /\ x \in DrawnIn(o, s, end)
  BY <1>2 DEF NetworkSamples
<1>4. ASSUME NEW s \in 1 .. n \div TokenStride, NEW x \in DrawnIn(o, s, end)
      PROVE  x \in [t : ForecastTimes(end, query), from : {"model", "stuck"}]
  <2>1. n \div TokenStride \in Nat /\ (n \div TokenStride) * TokenStride <= n
    BY <1>0
  <2> DEFINE q == n \div TokenStride
  <2> HIDE DEF q
  <2>2. q \in Nat /\ q * TokenStride <= n /\ s \in 1 .. q
    BY <2>1 DEF q
  <2>3. s * TokenStride <= q * TokenStride /\ s * TokenStride \in Int /\ q * TokenStride \in Int
    BY <1>0, <2>2, MoreSteps
  <2>4. 0 * TokenStride <= (s - 1) * TokenStride /\ (s - 1) * TokenStride \in Int
    BY <1>0, <2>2, MoreSteps
  <2>5. 0 * TokenStride = 0
    BY <1>0
  <2>6. PICK k \in (s - 1) * TokenStride + 1 .. s * TokenStride : x = [t |-> end + k * Dt, from |-> Motion(o)]
    BY DEF DrawnIn
  <2>7. k \in 1 .. n
    BY <2>2, <2>3, <2>4, <2>5, <2>6
  <2>8. end + k * Dt \in Grid(end, n)
    BY <2>7 DEF Grid
  <2>9. Motion(o) \in {"model", "stuck"}
    BY DEF Motion
  <2> QED
    BY <1>1, <2>6, <2>8, <2>9
<1>5. ASSUME window = {} PROVE NetworkSamples(o, window, end, query) = {}
  <2>1. StepsOf(window, end) = {}
    BY <1>5 DEF StepsOf
  <2>2. TokensOf(o, window, end) = {}
    BY <2>1 DEF TokensOf, Backfilled, Extrapolated, Tokens
  <2>3. ~Frozen(o, window, end)
    BY <2>1 DEF Frozen
  <2>4. \A s : ~StrideValid(o, s, window, end)
    BY <2>2, <2>3 DEF StrideValid
  <2> QED
    BY <1>3, <2>4
<1> QED
  BY <1>3, <1>4, <1>5

(* What is predicted is on the grid and none of it logged; what is there at  *)
(* the end of its window is predicted for all of the grid, and what was      *)
(* never seen for none.                                                      *)
LEMMA PredictionsFit ==
  ASSUME NEW o \in Agents, NEW window, NEW end \in Int, NEW query \in Int
  PROVE  /\ \A x \in Predictions(o, window, end, query) :
              x \in [t : ForecastTimes(end, query), from : {"model", "stuck", "frozen"}]
         /\ (\E x \in window : x.t = end) =>
              \A t \in ForecastTimes(end, query) : \E x \in Predictions(o, window, end, query) : x.t = t
         /\ window = {} => Predictions(o, window, end, query) = {}
<1> DEFINE there == \E x \in window : x.t = end
           still == {[t |-> t, from |-> "frozen"] : t \in ForecastTimes(end, query)}
           drawn == NetworkSamples(o, window, end, query)
           stays == o \in StaticAgents \/ (there /\ Cardinality(window) < MinValidSteps)
           P     == Predictions(o, window, end, query)
<1>1. P = IF stays THEN IF there THEN still ELSE {} ELSE CarriedOn(there, drawn, still)
  BY DEF Predictions
<1>2. \A x \in still : x \in [t : ForecastTimes(end, query), from : {"model", "stuck", "frozen"}]
  OBVIOUS
<1>3. \A t \in ForecastTimes(end, query) : \E x \in still : x.t = t
  <2>1. ASSUME NEW t \in ForecastTimes(end, query) PROVE \E x \in still : x.t = t
    <3>1. [t |-> t, from |-> "frozen"] \in still
      OBVIOUS
    <3> QED
      BY <3>1
  <2> QED
    BY <2>1
<1>4. /\ \A x \in drawn : x \in [t : ForecastTimes(end, query), from : {"model", "stuck"}]
      /\ window = {} => drawn = {}
  BY DrawnOnGrid
<1>5. \A x \in drawn : x \in [t : ForecastTimes(end, query), from : {"model", "stuck", "frozen"}]
  BY <1>4
<1> HIDE DEF still, drawn, stays, P
<1>6. CarriedOn(there, drawn, still) =
        drawn \cup {x \in still : (\A y \in drawn : y.t # x.t) /\ (there \/ \E y \in drawn : y.t < x.t)}
  BY DEF CarriedOn
<1>7. \A x \in P : x \in [t : ForecastTimes(end, query), from : {"model", "stuck", "frozen"}]
  BY <1>1, <1>2, <1>5, <1>6
<1>8. ASSUME there, NEW t \in ForecastTimes(end, query) PROVE \E x \in P : x.t = t
  <2>1. PICK x \in still : x.t = t
    BY <1>3
  <2>2. CASE stays
    BY <1>1, <1>8, <2>1, <2>2
  <2>3. CASE ~stays
    <3>1. P = CarriedOn(there, drawn, still)
      BY <1>1, <2>3
    <3>2. CASE \E y \in drawn : y.t = t
      BY <1>6, <3>1, <3>2
    <3>3. CASE ~ \E y \in drawn : y.t = t
      <4>1. x \in CarriedOn(there, drawn, still)
        BY <1>6, <1>8, <2>1, <3>3
      <4> QED
        BY <2>1, <3>1, <4>1
    <3> QED
      BY <3>2, <3>3
  <2> QED
    BY <2>2, <2>3
<1>9. ASSUME window = {} PROVE P = {}
  <2>1. ~there /\ drawn = {}
    BY <1>4, <1>9
  <2>2. CarriedOn(there, drawn, still) = {}
    BY <1>6, <2>1
  <2> QED
    BY <1>1, <2>1, <2>2
<1> QED
  BY <1>7, <1>8, <1>9 DEF P

(* What a query makes of an agent, whose trajectory was T and is M, when A   *)
(* is answered: nothing up to the handover changes, and if there is an       *)
(* answer to a query past the window, it is for the query's time and leaves  *)
(* nothing of the log after it; who was there at the window's end has one.   *)
AgentMovedOn(T, M, A, end, query, h) ==
  /\ Spanned(M) /\ Spanned(A) /\ {x \in M : x.t <= h} = {x \in T : x.t <= h}
  /\ \A x \in A : x.t >= query
  /\ query > end =>
       /\ A # {} => /\ \E x \in A : x.t = query
                    /\ \E x \in M : x.t = query
                    /\ \A x \in M : x.t > query => x.from # "log"
       /\ (\E x \in T : x.t = end) => A # {}

LEMMA PredictionMovesOn ==
  ASSUME NEW o \in Agents, NEW trajectories, Spanned(trajectories[o]),
         NEW now \in Int, NEW query \in Int, handover \in Int, query > handover
  PROVE  LET end == HistoryEnd(now, query)
             s   == Simulated(o, trajectories, now, query)
             A   == Answers(o, s, end, query)
         IN  AgentMovedOn(trajectories[o], Merge(MergedSteps(trajectories[o], s, end, query), A), A,
                          end, query, handover)
<1> DEFINE T == trajectories[o]
           end == HistoryEnd(now, query)
           W == Window(trajectories, end)[o]
           P == Predictions(o, W, end, query)
           s == Simulated(o, trajectories, now, query)
           A == Answers(o, s, end, query)
           F == {x \in s : x.t \in ForecastTimes(end, query)}
           M == Merge(Merge(T, F), A)
<1>1. end \in Int /\ handover <= end
  BY DEF HistoryEnd
<1>2. s = W \cup P
  BY DEF Simulated, Continued
<1>3. MergedSteps(T, s, end, query) = Merge(T, F)
  BY DEF MergedSteps
<1> HIDE DEF end
<1>4. PICK n \in Nat : ForecastFits(end, query, n)
  BY <1>1, ForecastCovers
<1>5. \A t \in ForecastTimes(end, query) : t \in Int /\ end < t /\ t <= end + n * Dt
  BY <1>1, <1>4, GridSpans DEF ForecastFits
<1>6. Spanned(W) /\ (\A x \in W : x.t <= end) /\ ((\E x \in T : x.t = end) => \E x \in W : x.t = end)
  BY <1>1, WindowFits
<1>7. /\ \A x \in P : x \in [t : ForecastTimes(end, query), from : {"model", "stuck", "frozen"}]
      /\ (\E x \in W : x.t = end) => \A t \in ForecastTimes(end, query) : \E x \in P : x.t = t
      /\ W = {} => P = {}
  BY <1>1, PredictionsFit
<1> HIDE DEF W, P, s
<1>8. Spanned(P)
  <2>1. Dt \in Nat
    BY TrafficAssumption
  <2>2. end + n * Dt \in Int
    BY <1>1, <2>1
  <2>3. \A x \in P : x \in Samples /\ end <= x.t /\ x.t <= end + n * Dt
    BY <1>1, <1>5, <1>7 DEF Samples, Sources
  <2> QED
    BY <1>1, <2>2, <2>3 DEF Spanned
<1>9. Spanned(s)
  BY <1>2, <1>6, <1>8, SpannedUnion
<1>10. Spanned(F)
  BY <1>9, SpannedParts
<1>11. \A x \in s : x.t \in Int
  BY <1>9 DEF Spanned, Samples
<1>12. /\ At(s, query) \in SUBSET Samples /\ \A x \in At(s, query) : x.t = query
       /\ \A y, z \in s : y.t <= query /\ query <= z.t => At(s, query) # {}
  BY <1>9, InterpolatedAt
<1> DEFINE L == IF o \in StaticAgents THEN {} ELSE {x \in s : x.t > query /\ x.t \in ForecastTimes(end, query)}
<1>13. A = At(s, query) \cup L
  BY DEF Answers
<1>14. L \in SUBSET s /\ \A x \in L : x.t > query /\ x.t \in ForecastTimes(end, query)
  OBVIOUS
<1> HIDE DEF A, L
<1>15. Spanned(A)
  <2>1. Spanned(L)
    BY <1>9, <1>14, SpannedParts
  <2>2. Spanned(At(s, query))
    BY <1>12 DEF Spanned
  <2> QED
    BY <1>13, <2>1, <2>2, SpannedUnion
<1>16. \A x \in A : x.t >= query
  BY <1>11, <1>12, <1>13, <1>14
<1>17. \A x \in F : handover < x.t
  BY <1>1, <1>5
<1>18. \A x \in A : handover < x.t
  BY <1>11, <1>12, <1>13, <1>14
<1> HIDE DEF F
<1>19. Spanned(Merge(T, F)) /\ {x \in Merge(T, F) : x.t <= handover} = {x \in T : x.t <= handover}
  <2>1. Spanned(T) /\ handover \in Int
    OBVIOUS
  <2>2. Spanned(Merge(T, F))
    BY ONLY <1>10, <2>1, MergeKeeps
  <2>3. {x \in Merge(T, F) : x.t <= handover} = {x \in T : x.t <= handover}
    BY ONLY <1>10, <1>17, <2>1, MergeAfter
  <2> QED
    BY <2>2, <2>3
<1>20. Spanned(M) /\ {x \in M : x.t <= handover} = {x \in Merge(T, F) : x.t <= handover}
  <2>1. Spanned(Merge(T, F)) /\ handover \in Int
    BY <1>19
  <2>2. Spanned(Merge(Merge(T, F), A))
    BY ONLY <1>15, <2>1, MergeKeeps
  <2>3. {x \in Merge(Merge(T, F), A) : x.t <= handover} = {x \in Merge(T, F) : x.t <= handover}
    BY ONLY <1>15, <1>18, <2>1, MergeAfter
  <2> QED
    BY <2>2, <2>3
<1>21. ASSUME query > end, A # {}
       PROVE  /\ \E x \in A : x.t = query
              /\ \E x \in M : x.t = query
              /\ \A x \in M : x.t > query => x.from # "log"
  <2>1. At(s, query) # {}
    <3>1. SUFFICES ASSUME NEW x \in L PROVE At(s, query) # {}
      BY <1>13, <1>21
    <3>2. x \in s /\ x.t > query /\ x.t \in Int
      BY <1>11, <1>14
    <3>3. x \notin W
      BY <1>1, <1>6, <1>21, <3>2
    <3>4. PICK y : y \in W
      BY <1>2, <1>7, <3>2, <3>3
    <3>5. y \in s /\ y.t <= end /\ y.t \in Int
      BY <1>2, <1>6, <1>11, <3>4
    <3>6. y.t <= query /\ query <= x.t
      BY <1>1, <1>21, <3>2, <3>5
    <3> QED
      BY <1>12, <3>2, <3>5, <3>6
  <2>2. PICK a \in A : a.t = query
    BY <1>12, <1>13, <2>1
  <2>3. a \in M
    BY <1>15, <1>19, MergeKeeps
  <2>4. ASSUME NEW x \in M, x.t > query PROVE x.from # "log"
    <3>1. x \in A \/ (x \in Merge(T, F) /\ \A y \in A : x.t < y.t)
      BY <1>15, <1>19, MergeKeeps
    <3>2. x.t \in Int
      BY <1>20 DEF Spanned, Samples
    <3>3. x \in A
      <4>1. ~(x.t < a.t)
        BY <2>2, <2>4, <3>2
      <4> QED
        BY <3>1, <4>1
    <3>4. x \notin At(s, query)
      BY <1>12, <2>4
    <3>5. x \in s /\ x \notin W
      BY <1>1, <1>6, <1>13, <1>14, <1>21, <2>4, <3>2, <3>3, <3>4
    <3>6. x.from \in {"model", "stuck", "frozen"}
      BY <1>2, <1>7, <3>5
    <3> QED
      BY <3>6
  <2> QED
    BY <2>2, <2>3, <2>4
<1>22. ASSUME query > end, \E x \in T : x.t = end PROVE A # {}
  <2>1. PICK y \in W : y.t = end
    BY <1>6, <1>22
  <2>2. n > 0 /\ query <= end + n * Dt /\ ForecastTimes(end, query) = Grid(end, n)
    BY <1>4, <1>22 DEF ForecastFits
  <2>3. end + n * Dt \in Grid(end, n)
    <3>1. n \in 1 .. n
      BY <2>2
    <3> QED
      BY <3>1 DEF Grid
  <2>4. PICK z \in P : z.t = end + n * Dt
    BY <1>7, <2>1, <2>2, <2>3
  <2>5. y \in s /\ z \in s /\ y.t <= query /\ query <= z.t
    BY <1>1, <1>2, <1>22, <2>1, <2>2, <2>4
  <2> QED
    BY <1>12, <1>13, <2>5
<1> HIDE DEF M
<1>23. AgentMovedOn(T, M, A, end, query, handover)
  BY <1>15, <1>16, <1>19, <1>20, <1>21, <1>22 DEF AgentMovedOn
<1> QED
  BY <1>3, <1>23 DEF M, A, end, s
-----------------------------------------------------------------------------
(* The values of the session and of what drives it.                          *)
TakeoverTypeOK ==
  /\ session \in BOOLEAN /\ skipped \in BOOLEAN
  /\ handover \in Nat /\ lead \in Nat /\ step \in Nat \ {0} /\ current \in Nat /\ asked \in Nat
  /\ closed \in [Things -> SUBSET Samples] /\ predicted \in SUBSET Agents
  /\ \A o \in Agents : Spanned(closed[o]) /\ Spanned(response[o])

(* TakesOver, and what it rests on: who was predicted has a sample for the   *)
(* last query, which is where the next window ends and is past the handover. *)
TakeoverInv ==
  /\ TakeoverTypeOK /\ TakesOver
  /\ skipped => ~session
  /\ predicted # {} => asked > handover /\ ~skipped
  /\ asked > 0 /\ ~skipped => current = asked
  /\ session => \A o \in predicted : \E x \in closed[o] : x.t = asked

(* A finite set of numbers has a bound.                                      *)
LEMMA FiniteBounds ==
  ASSUME NEW S \in SUBSET Nat, IsFiniteSet(S)
  PROVE  \E hi \in Nat : \A x \in S : x <= hi
<1>1. PICK n \in Nat : ExistsBijection(1 .. n, S)
  BY FS_NatBijection
<1>2. PICK f : f \in Bijection(1 .. n, S)
  BY <1>1 DEF ExistsBijection
<1>3. f \in [1 .. n -> S] /\ \A x \in S : \E i \in 1 .. n : f[i] = x
  BY <1>2 DEF Bijection, Injection, Surjection
<1> DEFINE Bound(k, hi) == \A i \in 1 .. k : f[i] <= hi
           bad == {k \in 0 .. n : \A hi \in Nat : ~Bound(k, hi)}
<1>4. n \notin bad
  <2> SUFFICES ASSUME n \in bad PROVE FALSE
    OBVIOUS
  <2>1. bad \in SUBSET Nat /\ bad # {}
    OBVIOUS
  <2>2. Min(bad) \in bad /\ \A k \in bad : Min(bad) <= k
    BY <2>1, SmallestExists
  <2>3. PICK k \in bad : \A l \in bad : k <= l
    BY <2>2
  <2>4. k # 0
    <3>1. Bound(0, 0) /\ 0 \in Nat
      OBVIOUS
    <3>2. \A hi \in Nat : ~Bound(k, hi)
      OBVIOUS
    <3> HIDE DEF bad, Bound
    <3> QED
      BY <3>1, <3>2
  <2>5. k - 1 \in 0 .. n /\ k - 1 \notin bad /\ k \in 1 .. n
    <3>1. k \in 0 .. n
      OBVIOUS
    <3> HIDE DEF bad
    <3>2. ~(k <= k - 1)
      BY <3>1
    <3> QED
      BY <2>3, <2>4, <3>1, <3>2
  <2>6. PICK hi \in Nat : Bound(k - 1, hi)
    BY <2>5
  <2>7. f[k] \in Nat
    BY <1>3, <2>5
  <2> DEFINE more == IF f[k] > hi THEN f[k] ELSE hi
  <2>8. more \in Nat /\ f[k] <= more /\ hi <= more
    BY <2>7
  <2> HIDE DEF more
  <2>9. ASSUME NEW i \in 1 .. k PROVE f[i] <= more
    <3>1. CASE i = k
      BY <2>8, <3>1
    <3>2. CASE i # k
      <4>1. i \in 1 .. k - 1 /\ i \in 1 .. n
        BY <2>5, <3>2
      <4>2. f[i] <= hi /\ f[i] \in Nat
        BY <1>3, <2>6, <4>1
      <4> QED
        BY <2>8, <4>2
    <3> QED
      BY <3>1, <3>2
  <2>10. Bound(k, more)
    BY <2>9
  <2> QED
    BY <2>8, <2>10
<1>5. PICK hi \in Nat : Bound(n, hi)
  BY <1>4
<1>6. ASSUME NEW x \in S PROVE x <= hi
  BY <1>3, <1>5
<1> QED
  BY <1>6

LEMMA TrafficConstants ==
  /\ Dt \in Nat \ {0} /\ HistorySteps \in Nat \ {0} /\ Min(Logs[Ego]) \in Nat /\ InitialTime \in Nat
  /\ Logged \in [Things -> SUBSET Samples] /\ \A o \in Agents : Spanned(Logged[o])
<1>1. /\ Dt \in Nat \ {0} /\ HistorySteps \in Nat \ {0} /\ Logs[Ego] \in SUBSET Nat /\ Logs[Ego] # {}
      /\ Logs \in [Things -> SUBSET Nat]
  BY TrafficAssumption DEF Things
<1>2. Min(Logs[Ego]) \in Nat
  BY <1>1, SmallestExists
<1>3. (HistorySteps - 1) * Dt \in Nat
  BY <1>1
<1>4. InitialTime \in Nat
  BY <1>2, <1>3 DEF InitialTime
<1>5. \A o \in Things : Logged[o] \in SUBSET Samples
  BY <1>1 DEF Logged, Samples, Sources
<1>6. Logged \in [Things -> SUBSET Samples]
  BY <1>5 DEF Logged
<1>7. ASSUME NEW o \in Agents PROVE Spanned(Logged[o])
  <2>1. IsFiniteSet(Logs[o]) /\ Logs[o] \in SUBSET Nat /\ o \in Things
    BY <1>1, TrafficAssumption DEF Things
  <2>2. PICK hi \in Nat : \A t \in Logs[o] : t <= hi
    BY <2>1, FiniteBounds
  <2>3. \A x \in Logged[o] : 0 <= x.t /\ x.t <= hi
    BY <2>1, <2>2 DEF Logged
  <2>4. Logged[o] \in SUBSET Samples /\ 0 \in Int /\ hi \in Int
    BY <1>5, <2>1
  <2> QED
    BY <2>3, <2>4 DEF Spanned
<1> QED
  BY <1>1, <1>2, <1>4, <1>6, <1>7

LEMMA ActorsStart == ActorsInit => TakeoverInv
<1> SUFFICES ASSUME ActorsInit PROVE TakeoverInv
  OBVIOUS
<1>1. /\ session = FALSE /\ lead \in Leads /\ step \in ControlSteps /\ current = 0 /\ asked = 0
      /\ handover \in {Min(Logs[Ego]) + force + step : force \in Forces}
      /\ closed = [o \in Things |-> {}] /\ response = [o \in Agents |-> {}] /\ predicted = {}
      /\ skipped \in BOOLEAN
  BY DEF ActorsInit, TrafficInit
<1>2. Leads \subseteq Nat /\ Forces \subseteq Nat /\ ControlSteps \subseteq Nat \ {0}
  BY TrafficAssumption
<1>3. lead \in Nat /\ step \in Nat \ {0} /\ handover \in Nat
  BY <1>1, <1>2, TrafficConstants
<1>4. Spanned({})
  BY DEF Spanned
<1>5. closed \in [Things -> SUBSET Samples] /\ \A o \in Agents : Spanned(closed[o])
  BY <1>1, <1>4 DEF Things
<1>6. TakeoverTypeOK
  BY <1>1, <1>3, <1>4, <1>5 DEF TakeoverTypeOK
<1>7. TakesOver
  BY <1>1 DEF TakesOver
<1> QED
  BY <1>1, <1>6, <1>7 DEF TakeoverInv

(* A step that leaves all of this alone.                                     *)
LEMMA TakeoverUntouched ==
  ASSUME TakeoverInv, UNCHANGED <<session, skipped, handover, lead, step, current, asked, closed, response, predicted>>
  PROVE  TakeoverInv'
BY DEF TakeoverInv, TakeoverTypeOK, TakesOver

LEMMA NextQueryIs ==
  ASSUME TakeoverInv
  PROVE  NextQuery \in Nat /\ NextQuery > 0 /\ (asked > 0 => NextQuery > asked)
BY TrafficConstants DEF NextQuery, TakeoverInv, TakeoverTypeOK

(* The ego's pose is merged into no agent's trajectory.                      *)
LEMMA EgoAlone ==
  ASSUME TakeoverTypeOK, NEW query \in Int
  PROVE  /\ WithEgo(closed, query) \in [Things -> SUBSET Samples]
         /\ \A o \in Agents : WithEgo(closed, query)[o] = closed[o]
<1>1. Ego \notin Agents /\ Ego \in Things
  BY TrafficAssumption DEF Things
<1> DEFINE new == {[t |-> query, from |-> "ego"]}
<1>2. closed \in [Things -> SUBSET Samples] /\ new \in SUBSET Samples
  BY DEF TakeoverTypeOK, Samples, Sources
<1>3. Merge(closed[Ego], new) \in SUBSET Samples
  BY <1>1, <1>2 DEF Merge
<1>4. WithEgo(closed, query) = [closed EXCEPT ![Ego] = Merge(closed[Ego], new)]
  BY DEF WithEgo
<1> HIDE DEF new
<1>5. \A o \in Agents : o # Ego /\ o \in Things
  BY <1>1 DEF Things
<1> QED
  BY <1>1, <1>2, <1>3, <1>4, <1>5

LEMMA StartTrafficStep ==
  ASSUME TakeoverInv, StartTraffic, ~skipped, UNCHANGED skipped
  PROVE  TakeoverInv'
<1>1. /\ asked = 0 /\ session' = TRUE /\ current' = InitialTime /\ closed' = Logged /\ skipped' = FALSE
      /\ UNCHANGED <<handover, lead, step, asked, response, predicted>>
  BY DEF StartTraffic, TakeoverInv, TakeoverTypeOK
<1>2. predicted = {}
  BY <1>1 DEF TakeoverInv, TakeoverTypeOK
<1>3. TakeoverTypeOK'
  BY <1>1, TrafficConstants DEF TakeoverInv, TakeoverTypeOK
<1>4. TakesOver'
  BY <1>1, <1>2 DEF TakeoverInv, TakesOver
<1> QED
  BY <1>1, <1>2, <1>3, <1>4 DEF TakeoverInv, TakeoverTypeOK

LEMMA CloseTrafficStep ==
  ASSUME TakeoverInv, CloseTraffic, UNCHANGED skipped
  PROVE  TakeoverInv'
<1>1. session' = FALSE /\ UNCHANGED <<handover, lead, step, current, closed, asked, response, predicted, skipped>>
  BY DEF CloseTraffic
<1>2. TakeoverTypeOK'
  BY <1>1 DEF TakeoverInv, TakeoverTypeOK
<1>3. TakesOver'
  BY <1>1 DEF TakeoverInv, TakesOver
<1> QED
  BY <1>1, <1>2, <1>3 DEF TakeoverInv

(* A step after which only the ego's pose is new.                            *)
LEMMA FailedQueryStep ==
  ASSUME TakeoverInv, SimulateFails, UNCHANGED skipped
  PROVE  TakeoverInv'
<1>1. /\ closed' = WithEgo(closed, NextQuery)
      /\ UNCHANGED <<session, handover, lead, step, current, asked, response, predicted, skipped>>
  BY DEF SimulateFails
<1>2. closed' \in [Things -> SUBSET Samples] /\ \A o \in Agents : closed'[o] = closed[o]
  BY <1>1, NextQueryIs, EgoAlone DEF TakeoverInv
<1>3. TakeoverTypeOK'
  BY <1>1, <1>2 DEF TakeoverInv, TakeoverTypeOK
<1>4. TakesOver'
  BY <1>1, <1>2 DEF TakeoverInv, TakeoverTypeOK, TakesOver
<1>5. session => \A o \in predicted : \E x \in closed'[o] : x.t = asked
  BY <1>2 DEF TakeoverInv, TakeoverTypeOK
<1> QED
  BY <1>1, <1>3, <1>4, <1>5 DEF TakeoverInv

LEMMA SkipTrafficStep ==
  ASSUME TakeoverInv, SkipTraffic, UNCHANGED skipped
  PROVE  TakeoverInv'
<1>1. /\ skipped /\ response' = [o \in Agents |-> At(Logged[o], NextQuery)] /\ asked' = NextQuery
      /\ UNCHANGED <<session, handover, lead, step, current, closed, predicted, skipped>>
  BY DEF SkipTraffic
<1>2. ~session /\ predicted = {} /\ NextQuery \in Nat
  BY <1>1, NextQueryIs DEF TakeoverInv, TakeoverTypeOK
<1>3. \A o \in Agents : Spanned(response'[o]) /\ \A x \in response'[o] : x.t = NextQuery
  BY <1>1, <1>2, InterpolatedAt, InterpolatedSpans, TrafficConstants
<1>4. TakeoverTypeOK'
  BY <1>1, <1>2, <1>3 DEF TakeoverInv, TakeoverTypeOK
<1>5. \A o \in Agents : \A x \in response'[o] : x.t >= asked'
  BY <1>1, <1>2, <1>3
<1>6. TakesOver'
  BY <1>1, <1>2, <1>5 DEF TakesOver
<1> QED
  BY <1>1, <1>2, <1>4, <1>6 DEF TakeoverInv

(* A query up to the handover: the log answers, and nobody was predicted.    *)
LEMMA ReplayStep ==
  ASSUME TakeoverInv, session, ~skipped, UNCHANGED skipped, Replay(NextQuery),
         current' = NextQuery, asked' = NextQuery, UNCHANGED <<session, handover, lead, step>>
  PROVE  TakeoverInv'
<1> DEFINE q == NextQuery
<1>1. /\ q <= handover /\ closed' = WithEgo(closed, q) /\ predicted' = predicted
      /\ response' = [o \in Agents |-> At(Window(closed', q)[o], q)]
  BY DEF Replay
<1>2. q \in Nat /\ (asked > 0 => q > asked)
  BY NextQueryIs
<1> HIDE DEF q
<1>3. handover \in Nat /\ asked \in Nat
  BY DEF TakeoverInv, TakeoverTypeOK
<1>4. predicted = {}
  BY <1>1, <1>2, <1>3 DEF TakeoverInv
<1>5. closed' \in [Things -> SUBSET Samples] /\ \A o \in Agents : closed'[o] = closed[o]
  BY <1>1, <1>2, EgoAlone DEF TakeoverInv
<1>6. \A o \in Agents : Spanned(closed'[o])
  BY <1>5 DEF TakeoverInv, TakeoverTypeOK
<1>7. ASSUME NEW o \in Agents PROVE Spanned(response'[o]) /\ \A x \in response'[o] : x.t >= q
  <2>1. Spanned(Window(closed', q)[o])
    BY <1>2, <1>6, WindowFits
  <2>2. Spanned(At(Window(closed', q)[o], q)) /\ \A x \in At(Window(closed', q)[o], q) : x.t = q
    BY <1>2, <2>1, InterpolatedAt, InterpolatedSpans
  <2> QED
    BY <1>1, <1>2, <2>2
<1>8. session' = session /\ skipped' = skipped /\ handover' = handover /\ lead' = lead /\ step' = step
      /\ current' = q /\ asked' = q
  BY DEF q
<1>9. TakeoverTypeOK'
  BY <1>1, <1>2, <1>5, <1>6, <1>7, <1>8 DEF TakeoverInv, TakeoverTypeOK
<1>10. TakesOver'
  BY <1>1, <1>4, <1>5, <1>7, <1>8 DEF TakeoverInv, TakesOver
<1> QED
  BY <1>1, <1>4, <1>8, <1>9, <1>10 DEF TakeoverInv

(* A query past the handover.                                                *)
LEMMA PredictStep ==
  ASSUME TakeoverInv, session, ~skipped, UNCHANGED skipped, Predict(NextQuery),
         current' = NextQuery, asked' = NextQuery, UNCHANGED <<session, handover, lead, step>>
  PROVE  TakeoverInv'
<1> DEFINE q == NextQuery
           end == HistoryEnd(current, q)
           before == WithEgo(closed, q)
<1>1. /\ q > handover /\ closed' = AfterPrediction(before, current, q)
      /\ response' = Responses(before, current, q)
      /\ predicted' = predicted \cup {o \in Agents : Asks(q) /\ response'[o] # {}}
  BY DEF Predict
<1>2. q \in Nat /\ q > 0 /\ (asked > 0 => q > asked)
  BY NextQueryIs
<1>3. session' = session /\ skipped' = skipped /\ handover' = handover /\ lead' = lead /\ step' = step
      /\ current' = q /\ asked' = q
  OBVIOUS
<1> HIDE DEF q
<1>4. handover \in Nat /\ asked \in Nat /\ current \in Nat
  BY DEF TakeoverInv, TakeoverTypeOK
<1>5. before \in [Things -> SUBSET Samples] /\ \A o \in Agents : before[o] = closed[o]
  BY <1>2, EgoAlone DEF TakeoverInv
<1> HIDE DEF before
<1>6. \A o \in Agents : Spanned(closed[o]) /\ o \in Things /\ o # Ego
  BY TrafficAssumption DEF TakeoverInv, TakeoverTypeOK, Things
<1>7. end \in Int
  BY <1>2, <1>4 DEF HistoryEnd
<1>8. Asks(q) <=> q > end
  <2>1. Asks(q) <=> FutureTimes(end, q) # {}
    BY DEF Asks
  <2> HIDE DEF end
  <2>2. PICK n \in Nat : ForecastFits(end, q, n)
    BY <1>2, <1>7, ForecastCovers
  <2> QED
    BY <1>2, <1>7, <2>1, <2>2 DEF ForecastFits
<1>9. ASSUME NEW o \in Agents
      PROVE  AgentMovedOn(closed[o], closed'[o], response'[o], end, q, handover)
  <2> DEFINE s == Simulated(o, before, current, q)
             A == Answers(o, s, end, q)
  <2>1. response'[o] = A
    BY <1>1 DEF Responses
  <2>2. closed'[o] = Merge(MergedSteps(before[o], s, end, q), A)
    BY <1>1, <1>6 DEF AfterPrediction
  <2>3. Spanned(before[o]) /\ before[o] = closed[o]
    BY <1>5, <1>6
  <2>4. AgentMovedOn(before[o], Merge(MergedSteps(before[o], s, end, q), A), A, end, q, handover)
    BY <1>1, <1>2, <1>4, <2>3, PredictionMovesOn
  <2> HIDE DEF s, A
  <2> QED
    BY <2>1, <2>2, <2>3, <2>4
<1>10. \A o \in Things : closed'[o] \in SUBSET Samples
  <2>1. \A o \in Agents : closed'[o] \in SUBSET Samples
    BY <1>9 DEF AgentMovedOn, Spanned
  <2>2. closed'[Ego] = Merge(before[Ego], EgoFuture(before[Ego], end, q)) /\ Ego \in Things
    BY <1>1 DEF AfterPrediction, Things
  <2> HIDE DEF end
  <2>3. EgoFuture(before[Ego], end, q) \in SUBSET Samples
    <3>1. PICK m \in Int : FutureTimes(end, q) = Grid(end, m)
      <4> DEFINE m == IF q <= end THEN 0 ELSE (q - end + Dt - 1) \div Dt
      <4>1. m \in Int
        <5>1. Dt \in Nat \ {0}
          BY TrafficConstants
        <5> QED
          BY <1>2, <1>7, <5>1
      <4>2. FutureTimes(end, q) = Grid(end, m)
        BY DEF FutureTimes, Grid
      <4> QED
        BY <4>1, <4>2
    <3>2. Dt \in Nat
      BY TrafficConstants
    <3>3. ASSUME NEW k \in 1 .. m PROVE end + k * Dt \in Int
      BY <1>7, <3>2
    <3>4. \A t \in FutureTimes(end, q) : t \in Int
      BY <3>1, <3>3 DEF Grid
    <3> QED
      BY <3>4 DEF EgoFuture, Samples, Sources
  <2>4. before[Ego] \in SUBSET Samples
    BY <1>5, <2>2
  <2>5. closed'[Ego] \in SUBSET Samples
    BY <2>2, <2>3, <2>4 DEF Merge
  <2> QED
    BY <2>1, <2>5 DEF Things
<1>11. closed' = [o \in Things |-> closed'[o]]
  BY <1>1 DEF AfterPrediction
<1>12. closed' \in [Things -> SUBSET Samples]
  BY <1>10, <1>11
<1>13. predicted # {} => current = asked /\ asked > handover /\ end = current /\ q > end
  <2>1. predicted # {} => current = asked /\ asked > handover
    BY <1>4 DEF TakeoverInv
  <2> QED
    BY <1>2, <1>4, <2>1 DEF HistoryEnd
<1> HIDE DEF end
<1>14. ASSUME NEW o \in predicted' PROVE o \in Agents /\ q > end /\ response'[o] # {}
  <2>1. CASE o \in predicted
    <3>1. o \in Agents /\ end = asked /\ q > end
      BY <1>13, <2>1 DEF TakeoverInv, TakeoverTypeOK
    <3>2. \E x \in closed[o] : x.t = end
      BY <2>1, <3>1 DEF TakeoverInv
    <3>3. response'[o] # {}
      BY <1>9, <3>1, <3>2 DEF AgentMovedOn
    <3> QED
      BY <3>1, <3>3
  <2>2. CASE o \notin predicted
    BY <1>1, <1>8, <2>2
  <2> QED
    BY <2>1, <2>2
<1>15. \A o \in predicted' : /\ \E x \in response'[o] : x.t = q
                             /\ \E x \in closed'[o] : x.t = q
                             /\ \A x \in closed'[o] : x.t > q => x.from # "log"
  BY <1>9, <1>14 DEF AgentMovedOn
<1>16. \A o \in Agents : /\ Spanned(closed'[o]) /\ Spanned(response'[o])
                         /\ {x \in closed'[o] : x.t <= handover} = {x \in closed[o] : x.t <= handover}
                         /\ \A x \in response'[o] : x.t >= q
  BY <1>9 DEF AgentMovedOn
<1>17. TakeoverTypeOK'
  <2>1. predicted' \in SUBSET Agents
    BY <1>14
  <2> QED
    BY <1>2, <1>3, <1>12, <1>16, <2>1 DEF TakeoverInv, TakeoverTypeOK
<1>18. TakesOver'
  <2>1. \A o \in Agents : {x \in closed'[o] : x.t <= handover} = {x \in Logged[o] : x.t <= handover}
    BY <1>16 DEF TakeoverInv, TakesOver
  <2> QED
    BY <1>3, <1>15, <1>16, <2>1 DEF TakesOver
<1> QED
  BY <1>1, <1>3, <1>15, <1>17, <1>18 DEF TakeoverInv

LEMMA TakeoverStep == TakeoverInv /\ [ActorsNext]_<<trafficVars, actorVars>> => TakeoverInv'
<1> SUFFICES ASSUME TakeoverInv, [ActorsNext]_<<trafficVars, actorVars>>
             PROVE  TakeoverInv'
  OBVIOUS
<1>1. CASE SessionOfService
  <2>1. ~skipped /\ UNCHANGED skipped /\ (StartTraffic \/ CloseTraffic \/ SimulateFails)
    BY <1>1 DEF SessionOfService, actorVars
  <2> QED
    BY <2>1, StartTrafficStep, CloseTrafficStep, FailedQueryStep
<1>2. CASE InitialStep
  BY <1>2, TakeoverUntouched DEF InitialStep, trafficVars
<1>3. CASE AskTraffic
  <2>1. UNCHANGED skipped /\ (SkipTraffic \/ (~skipped /\ SimulateNext))
    BY <1>3 DEF AskTraffic
  <2>2. ASSUME ~skipped, SimulateNext PROVE TakeoverInv'
    <3>1. /\ session /\ (Replay(NextQuery) \/ Predict(NextQuery))
          /\ current' = NextQuery /\ asked' = NextQuery /\ UNCHANGED <<session, handover, lead, step>>
      BY <2>2 DEF SimulateNext, Simulate
    <3> QED
      BY <2>1, <2>2, <3>1, ReplayStep, PredictStep
  <2> QED
    BY <2>1, <2>2, SkipTrafficStep
<1>4. CASE RunPhysics
  <2>1. UNCHANGED trafficVars /\ UNCHANGED skipped
    BY <1>4 DEF RunPhysics
  <2> QED
    BY <2>1, TakeoverUntouched DEF trafficVars
<1>5. CASE RunStep
  <2>1. UNCHANGED trafficVars /\ UNCHANGED skipped
    BY <1>5 DEF RunStep
  <2> QED
    BY <2>1, TakeoverUntouched DEF trafficVars
<1>6. CASE UNCHANGED <<trafficVars, actorVars>>
  BY <1>6, TakeoverUntouched DEF trafficVars, actorVars
<1> QED
  BY <1>1, <1>2, <1>3, <1>4, <1>5, <1>6 DEF ActorsNext

(* For any logs, grid, control step and handover, whatever the network       *)
(* draws: the prediction takes over from the log without a jump, and whoever *)
(* it has moved once is in every answer after that.                          *)
THEOREM TrafficTakesOver == ActorsSpec => []TakesOver
<1>1. TakeoverInv => TakesOver
  BY DEF TakeoverInv
<1> QED
  BY ActorsStart, TakeoverStep, <1>1, PTL DEF ActorsSpec
-----------------------------------------------------------------------------
(* What the network is shown (TrafficSession)                                *)

(* What a query past the window asks of the ego is on the grid.              *)
LEMMA FutureOnGrid ==
  ASSUME NEW end \in Int, NEW query \in Int
  PROVE  \E m \in Nat : FutureTimes(end, query) = Grid(end, m)
<1> DEFINE m == IF query <= end THEN 0 ELSE (query - end + Dt - 1) \div Dt
<1>0. Dt \in Nat \ {0}
  BY TrafficConstants
<1>1. m \in Nat
  <2>1. CASE query <= end
    BY <2>1
  <2>2. CASE query > end
    <3>1. query - end \in Nat
      BY <2>2
    <3>2. m = (query - end + Dt - 1) \div Dt
      BY <2>2
    <3> QED
      BY <1>0, <3>1, <3>2, RoundedUp
  <2> QED
    BY <2>1, <2>2
<1>2. FutureTimes(end, query) = Grid(end, m)
  BY DEF FutureTimes, Grid
<1> QED
  BY <1>1, <1>2

(* Outside its range a trajectory has no pose.                               *)
LEMMA AtWithin ==
  ASSUME NEW S, Spanned(S), NEW t \in Int, At(S, t) # {}
  PROVE  \E y, z \in S : y.t <= t /\ t <= z.t
<1>1. S # {} /\ ~(t < Earliest(S)) /\ ~(t > Latest(S))
  BY DEF At
<1>2. PICK y \in S : y.t = Earliest(S)
  BY <1>1, FirstSample
<1>3. PICK z \in S : z.t = Latest(S)
  BY <1>1, LastSample
<1>4. Earliest(S) \in Int /\ Latest(S) \in Int
  BY <1>1, FirstSample, LastSample
<1> QED
  BY <1>1, <1>2, <1>3, <1>4

(* The ego's track in the session starts with its first pose.                *)
EgoStarts(S) == Spanned(S) /\ \E x \in S : x.t = Min(Logs[Ego])

(* Before a prediction the ego's pose at the query is merged: the track goes *)
(* on to it and no further.                                                  *)
LEMMA EgoMerged ==
  ASSUME TakeoverTypeOK, EgoStarts(closed[Ego]), NEW query \in Int, Min(Logs[Ego]) < query
  PROVE  LET S == WithEgo(closed, query)[Ego]
         IN  /\ EgoStarts(S) /\ \A x \in S : x.t <= query
             /\ \A t \in Int : Min(Logs[Ego]) <= t /\ t <= query => At(S, t) # {}
             /\ \A t \in Int : t > query => At(S, t) = {}
<1> DEFINE pose == [t |-> query, from |-> "ego"]
           S == WithEgo(closed, query)[Ego]
<1>1. Ego \in Things /\ closed \in [Things -> SUBSET Samples]
  BY DEF Things, TakeoverTypeOK
<1>2. S = Merge(closed[Ego], {pose})
  BY <1>1 DEF WithEgo
<1>3. Spanned({pose})
  BY DEF Spanned, Samples, Sources
<1>4. Spanned(closed[Ego])
  BY DEF EgoStarts
<1> HIDE DEF S
<1>5. /\ Spanned(S) /\ pose \in S
      /\ \A x \in S : x = pose \/ (x \in closed[Ego] /\ x.t < query)
      /\ \A x \in closed[Ego] : x.t < query => x \in S
  <2> DEFINE old == closed[Ego]
             new == {pose}
  <2>1. pose.t = query
    OBVIOUS
  <2> HIDE DEF pose, old
  <2>2. Spanned(old) /\ Spanned(new) /\ S = Merge(old, new)
    BY <1>2, <1>3, <1>4 DEF old
  <2>3. \A y \in new : y = pose
    OBVIOUS
  <2>4. pose \in new
    OBVIOUS
  <2> HIDE DEF new
  <2>5. /\ Spanned(Merge(old, new)) /\ new \subseteq Merge(old, new)
        /\ \A x \in Merge(old, new) : x \in new \/ (x \in old /\ \A y \in new : x.t < y.t)
        /\ \A x \in old : (\A y \in new : x.t < y.t) => x \in Merge(old, new)
    BY <2>2, MergeKeeps
  <2> QED
    BY <2>1, <2>2, <2>3, <2>4, <2>5 DEF old
<1>6. PICK first \in closed[Ego] : first.t = Min(Logs[Ego])
  BY DEF EgoStarts
<1>7. first \in S /\ pose.t = query
  BY <1>5, <1>6
<1>8. ASSUME NEW x \in S PROVE x.t \in Int /\ x.t <= query
  BY <1>5, <1>8 DEF Spanned, Samples
<1>9. EgoStarts(S)
  BY <1>5, <1>6, <1>7 DEF EgoStarts
<1>10. ASSUME NEW t \in Int, Min(Logs[Ego]) <= t, t <= query PROVE At(S, t) # {}
  BY <1>5, <1>6, <1>7, <1>10, InterpolatedAt
<1>11. ASSUME NEW t \in Int, t > query PROVE At(S, t) = {}
  <2> SUFFICES ASSUME At(S, t) # {} PROVE FALSE
    OBVIOUS
  <2>1. PICK z \in S : t <= z.t
    BY <1>5, AtWithin
  <2> QED
    BY <1>8, <1>11, <2>1
<1> QED
  BY <1>8, <1>9, <1>10, <1>11 DEF S

(* The ego's steps are merged after that, and the track still starts there.  *)
LEMMA EgoFollows ==
  ASSUME NEW S, EgoStarts(S), NEW end \in Int, NEW query \in Int, Min(Logs[Ego]) <= end
  PROVE  EgoStarts(Merge(S, EgoFuture(S, end, query)))
<1> DEFINE F == EgoFuture(S, end, query)
<1>0. Dt \in Nat \ {0} /\ Min(Logs[Ego]) \in Nat
  BY TrafficConstants
<1>1. PICK m \in Nat : FutureTimes(end, query) = Grid(end, m)
  BY FutureOnGrid
<1>2. \A t \in FutureTimes(end, query) : t \in Int /\ end < t /\ t <= end + m * Dt
  BY <1>1, GridSpans
<1>3. \A x \in F : x \in Samples /\ end < x.t /\ x.t <= end + m * Dt
  BY <1>2 DEF EgoFuture, Samples, Sources
<1> HIDE DEF F
<1>4. end + m * Dt \in Int
  BY <1>0
<1>5. \A x \in F : end <= x.t
  BY <1>3 DEF Samples
<1>6. Spanned(F)
  BY <1>3, <1>4, <1>5 DEF Spanned
<1>7. PICK first \in S : first.t = Min(Logs[Ego])
  BY DEF EgoStarts
<1>8. \A y \in F : first.t < y.t
  BY <1>0, <1>3, <1>7 DEF Samples
<1>9. Spanned(S)
  BY DEF EgoStarts
<1>10. Spanned(Merge(S, F)) /\ first \in Merge(S, F)
  BY <1>6, <1>8, <1>9, MergeKeeps
<1> QED
  BY <1>7, <1>10 DEF EgoStarts, F

(* What the network is shown of the ego for a query past its window.         *)
LEMMA EgoShownFits ==
  ASSUME NEW S, NEW trajectories, trajectories[Ego] = S, EgoStarts(S),
         NEW end \in Int, NEW query \in Int, Min(Logs[Ego]) <= end, end < query,
         \A t \in Int : Min(Logs[Ego]) <= t /\ t <= query => At(S, t) # {},
         \A t \in Int : t > query => At(S, t) = {}
  PROVE  /\ \A x \in EgoShown(trajectories, end, query) :
              /\ x.t \in Int /\ (x.t > query => x.from # "log")
              /\ x.from = "origin" => x.t < Min(Logs[Ego])
         /\ \E x \in EgoWindow(trajectories, end) : x.t = end /\ x.from # "origin"
<1> DEFINE Steps == 0 .. HistorySteps - 1
           W(k) == LET x == At(S, end - k * Dt) IN IF x = {} THEN {[t |-> end - k * Dt, from |-> "origin"]} ELSE x
<1>0. Dt \in Nat \ {0} /\ HistorySteps \in Nat \ {0} /\ Min(Logs[Ego]) \in Nat
  BY TrafficConstants
<1>1. EgoWindow(trajectories, end) = UNION {W(k) : k \in Steps}
  BY DEF EgoWindow
<1>2. ASSUME NEW k \in Steps, NEW x \in W(k)
      PROVE  /\ x.t = end - k * Dt /\ x.t \in Int /\ x.t <= end
             /\ x.from = "origin" => x.t < Min(Logs[Ego])
  <2>1. k \in Int /\ k * Dt \in Int /\ 0 * Dt <= k * Dt /\ 0 * Dt = 0
    <3>1. k \in Int /\ 0 <= k
      BY <1>0
    <3> QED
      BY <1>0, <3>1, MoreSteps
  <2>2. end - k * Dt \in Int /\ end - k * Dt <= end
    BY <2>1
  <2> DEFINE t == end - k * Dt
  <2> HIDE DEF t
  <2>3. t \in Int /\ t <= end
    BY <2>2 DEF t
  <2>4. W(k) = IF At(S, t) = {} THEN {[t |-> t, from |-> "origin"]} ELSE At(S, t)
    BY DEF t
  <2>5. CASE At(S, t) = {}
    <3>1. x = [t |-> t, from |-> "origin"]
      BY <2>4, <2>5
    <3>2. ~(Min(Logs[Ego]) <= t /\ t <= query)
      BY <2>3, <2>5
    <3> QED
      BY <1>0, <2>3, <3>1, <3>2 DEF t
  <2>6. CASE At(S, t) # {}
    <3>1. x \in At(S, t)
      BY <2>4, <2>6
    <3>2. x \in Samples /\ x.t = t
      BY <2>3, <3>1, InterpolatedAt DEF EgoStarts
    <3> QED
      BY <2>3, <3>2 DEF Samples, Sources, t
  <2> QED
    BY <2>5, <2>6
<1>3. PICK m \in Nat : FutureTimes(end, query) = Grid(end, m)
  BY FutureOnGrid
<1>4. PICK n \in Nat : ForecastTimes(end, query) = Grid(end, n)
  BY ForecastCovers DEF ForecastFits
<1>5. \A t \in FutureTimes(end, query) \cup ForecastTimes(end, query) : t \in Int
  BY <1>3, <1>4, GridSpans
<1>6. ASSUME NEW x \in EgoFuture(S, end, query)
      PROVE  x.t \in Int /\ (x.t > query => x.from = "held") /\ x.from # "origin"
  <2>1. PICK t \in FutureTimes(end, query) :
          x = [t |-> t, from |-> IF t <= query THEN "ego" ELSE IF At(S, t) # {} THEN "log" ELSE "held"]
    BY DEF EgoFuture
  <2> QED
    BY <1>5, <2>1
<1>7. ASSUME NEW x \in EgoShown(trajectories, end, query)
      PROVE  /\ x.t \in Int /\ (x.t > query => x.from # "log")
             /\ x.from = "origin" => x.t < Min(Logs[Ego])
  <2> DEFINE strides == {t \in ForecastTimes(end, query) : ((t - end) \div Dt) % TokenStride = 0}
  <2>1. \/ x \in EgoWindow(trajectories, end) \/ x \in EgoFuture(S, end, query)
        \/ x \in {[t |-> t, from |-> "held"] : t \in strides \ FutureTimes(end, query)}
    BY DEF EgoShown
  <2>2. CASE x \in EgoWindow(trajectories, end)
    <3>1. PICK k \in Steps : x \in W(k)
      BY <1>1, <2>2
    <3>2. x.t \in Int /\ x.t <= end /\ (x.from = "origin" => x.t < Min(Logs[Ego]))
      BY <1>2, <3>1
    <3> QED
      BY <3>2
  <2>3. CASE x \in EgoFuture(S, end, query)
    BY <1>6, <2>3
  <2>4. CASE x \in {[t |-> t, from |-> "held"] : t \in strides \ FutureTimes(end, query)}
    BY <1>5, <2>4
  <2> QED
    BY <2>1, <2>2, <2>3, <2>4
<1>8. \E x \in EgoWindow(trajectories, end) : x.t = end /\ x.from # "origin"
  <2>1. 0 \in Steps /\ end - 0 * Dt = end
    BY <1>0
  <2>2. At(S, end) # {}
    <3>1. end <= query
      OBVIOUS
    <3> QED
      BY <3>1
  <2>3. W(0) = At(S, end)
    BY <2>1, <2>2
  <2>4. PICK x : x \in At(S, end)
    BY <2>2
  <2>5. x \in Samples /\ x.t = end
    BY <2>4, InterpolatedAt DEF EgoStarts
  <2>6. x \in EgoWindow(trajectories, end)
    BY <1>1, <2>1, <2>3, <2>4
  <2> QED
    BY <2>5, <2>6 DEF Samples, Sources
<1> QED
  BY <1>7, <1>8

(* The map of a scene is finite.                                             *)
LEMMA ImagesFinite ==
  ASSUME NEW S, IsFiniteSet(S), NEW T, NEW f \in [S -> T], \A y \in T : \E x \in S : f[x] = y
  PROVE  IsFiniteSet(T)
<1>1. f \in Surjection(S, T)
  BY DEF Surjection
<1> QED
  BY <1>1, FS_Surjection

LEMMA PiecesFinite ==
  ASSUME NEW line \in Lines
  PROVE  IsFiniteSet(PiecesOf(line))
<1> DEFINE length == line.until - line.from
           many == length \div LineStride + 1
           few == [k \in 1 .. many |-> line.from + (k - 1) * LineStride]
           v == Vertices(line)
           J == {j \in 1 .. Len(v) - 2 : j % 2 = 1 \/ j = Len(v) - 2}
           L == LayersOf(line.what)
           T == Triples(v)
<1>0. LineStride \in Nat \ {0} /\ line.what \in LineKinds /\ line.from \in Int /\ line.until \in Int
      /\ line.from < line.until
  BY TrafficAssumption
<1>1. many \in Nat
  <2>1. length \in Nat
    BY <1>0
  <2> HIDE DEF length
  <2> QED
    BY <1>0, <2>1
<1>2. v = few \o (IF length % LineStride = 0 THEN <<>> ELSE <<line.until>>)
  BY DEF Vertices
<1> HIDE DEF length, many, v
<1>3. few \in Seq(Int)
  <2>1. \A k \in 1 .. many : line.from + (k - 1) * LineStride \in Int
    BY <1>0
  <2>2. few \in [1 .. many -> Int]
    BY <2>1
  <2> QED
    BY <1>1, <2>2
<1> HIDE DEF few
<1>4. Len(v) \in Nat
  <2>1. v \in Seq(Int)
    BY <1>0, <1>2, <1>3
  <2> QED
    BY <2>1
<1>5. IsFiniteSet(J)
  <2>1. IsFiniteSet(1 .. Len(v) - 2)
    BY <1>4, FS_Interval
  <2> QED
    BY <2>1, FS_Subset
<1>6. IsFiniteSet(T)
  <2> DEFINE f == [j \in J |-> {v[j], v[j + 1], v[j + 2]}]
  <2>1. T = {{v[j], v[j + 1], v[j + 2]} : j \in J}
    BY DEF Triples
  <2> HIDE DEF T, J
  <2>2. f \in [J -> T] /\ \A y \in T : \E x \in J : f[x] = y
    BY <2>1
  <2> HIDE DEF f
  <2> QED
    BY <1>5, <2>2, ImagesFinite
<1>7. IsFiniteSet(L)
  <2>1. L \subseteq {"lane_centers", "lane_boundaries", "lane_lines", "road_boundaries", "wait_lines",
                     "crosswalks", "intersection_areas", "road_islands"}
    BY <1>0 DEF LayersOf, LineKinds
  <2> DEFINE f == [k \in 1 .. 8 |-> CASE k = 1 -> "lane_centers" [] k = 2 -> "lane_boundaries"
                      [] k = 3 -> "lane_lines" [] k = 4 -> "road_boundaries" [] k = 5 -> "wait_lines"
                      [] k = 6 -> "crosswalks" [] k = 7 -> "intersection_areas" [] OTHER -> "road_islands"]
             all == {"lane_centers", "lane_boundaries", "lane_lines", "road_boundaries", "wait_lines",
                     "crosswalks", "intersection_areas", "road_islands"}
  <2>2. f \in [1 .. 8 -> all]
    OBVIOUS
  <2>3. f[1] = "lane_centers" /\ f[2] = "lane_boundaries" /\ f[3] = "lane_lines" /\ f[4] = "road_boundaries"
        /\ f[5] = "wait_lines" /\ f[6] = "crosswalks" /\ f[7] = "intersection_areas" /\ f[8] = "road_islands"
    OBVIOUS
  <2> HIDE DEF f
  <2>4. \A y \in all : \E x \in 1 .. 8 : f[x] = y
    BY <2>3
  <2>5. IsFiniteSet(1 .. 8)
    <3>1. 1 \in Int /\ 8 \in Int
      OBVIOUS
    <3> QED
      BY ONLY <3>1, FS_Interval
  <2> HIDE DEF all
  <2>6. IsFiniteSet(all)
    BY <2>2, <2>4, <2>5, ImagesFinite
  <2> QED
    BY <2>1, <2>6, FS_Subset DEF all
<1> HIDE DEF T, L
<1>8. IsFiniteSet(L \X T)
  BY <1>6, <1>7, FS_Product
<1> DEFINE P == PiecesOf(line)
           g == [pair \in L \X T |-> [layer |-> pair[1], points |-> pair[2]]]
<1>9. P = {[layer |-> l, points |-> t] : l \in L, t \in T}
  BY DEF PiecesOf, L, T, v
<1> HIDE DEF P
<1>10. g \in [L \X T -> P]
  BY <1>9
<1>11. ASSUME NEW y \in P PROVE \E x \in L \X T : g[x] = y
  <2>1. PICK l \in L, t \in T : y = [layer |-> l, points |-> t]
    BY <1>9
  <2>2. <<l, t>> \in L \X T /\ g[<<l, t>>] = y
    BY <2>1
  <2> QED
    BY <2>2
<1> HIDE DEF g
<1> QED
  BY <1>8, <1>10, <1>11, ImagesFinite DEF P

LEMMA SceneMapFinite == IsFiniteSet(NearStart)
<1> DEFINE all == {PiecesOf(line) : line \in Lines}
           f == [line \in Lines |-> PiecesOf(line)]
<1>1. f \in [Lines -> all] /\ \A y \in all : \E x \in Lines : f[x] = y
  OBVIOUS
<1>2. IsFiniteSet(Lines) /\ \A T \in all : IsFiniteSet(T)
  BY TrafficAssumption, PiecesFinite
<1>3. SceneMap = UNION all /\ NearStart \subseteq SceneMap
  BY DEF SceneMap, NearStart
<1> HIDE DEF all, f
<1>4. IsFiniteSet(all)
  BY <1>1, <1>2, ImagesFinite
<1>5. IsFiniteSet(SceneMap)
  BY <1>2, <1>3, <1>4, FS_UNION
<1> QED
  BY <1>3, <1>5, FS_Subset

(* A map that is cut has all of a class that is not too much.                *)
HasAll(pieces) ==
  \A class \in LayerClasses : Cardinality(OfClass(class)) <= MapLimits[class] => OfClass(class) \subseteq pieces

LEMMA CutHasAll ==
  ASSUME NEW pieces \in CutMaps
  PROVE  HasAll(pieces)
<1>1. PICK a \in CutsOf("lane"), b \in CutsOf("boundary"), c \in CutsOf("other") : pieces = a \cup b \cup c
  BY DEF CutMaps
<1>2. ASSUME NEW class \in LayerClasses, NEW some \in CutsOf(class),
             Cardinality(OfClass(class)) <= MapLimits[class]
      PROVE  some = OfClass(class)
  <2> DEFINE n == Cardinality(OfClass(class))
             m == MapLimits[class]
  <2>1. IsFiniteSet(OfClass(class))
    BY SceneMapFinite, FS_Subset DEF OfClass
  <2>2. some \in SUBSET OfClass(class) /\ Cardinality(some) = Min({m, n})
    BY DEF CutsOf, kSubset
  <2>3. n \in Nat /\ m \in Nat
    BY <2>1, FS_CardinalityType, TrafficAssumption
  <2>4. Min({m, n}) = n
    <3>0. n <= m
      BY <1>2
    <3> HIDE DEF n, m
    <3>1. n \in {m, n} /\ \A k \in {m, n} : n <= k
      BY <2>3, <3>0
    <3>2. {m, n} \in SUBSET Int /\ n \in Int
      BY <2>3
    <3> QED
      BY <3>1, <3>2, SmallestIs
  <2> QED
    BY <2>1, <2>2, <2>4, FS_Subset
<1>3. ASSUME NEW class \in LayerClasses, Cardinality(OfClass(class)) <= MapLimits[class]
      PROVE  OfClass(class) \subseteq pieces
  <2>1. CASE class = "lane"
    BY <1>1, <1>2, <1>3, <2>1
  <2>2. CASE class = "boundary"
    BY <1>1, <1>2, <1>3, <2>2
  <2>3. CASE class = "other"
    BY <1>1, <1>2, <1>3, <2>3
  <2> QED
    BY <2>1, <2>2, <2>3 DEF LayerClasses
<1> QED
  BY <1>3 DEF HasAll

(* The tokens of a window: the last one needs the window's last step, and    *)
(* has all that it needs if no step is missing from the first one on.        *)
LEMMA LastToken ==
  ASSUME NEW steps \in SUBSET (0 .. HistorySteps - 1)
  PROVE  LET last == (HistorySteps - 1) \div TokenStride
         IN  /\ last \in Tokens(Extrapolated(steps)) => HistorySteps - 1 \in steps
             /\ HistorySteps - 1 \in steps /\ (\A k \in steps : k .. HistorySteps - 1 \subseteq steps) =>
                  last \in Tokens(Extrapolated(steps))
<1> DEFINE h == HistorySteps - 1
           d == TokenStride
           last == h \div d
           e == Extrapolated(steps)
           first == Min(steps)
           back == IF first = h /\ first % d = 0 THEN d ELSE first % d
<1>0. h \in Nat \ {0} /\ d \in Nat \ {0} /\ h % d = 0
  BY TrafficAssumption, WindowAssumption
<1>1. e = IF steps = {} THEN {} ELSE steps \cup (first - back .. first - 1)
  BY DEF Extrapolated
<1>2. ASSUME NEW k PROVE k \in Tokens(e) <=> k \in 1 .. last /\ {(k - 1) * d, k * d} \subseteq e
  BY DEF Tokens
<1>3. steps \in SUBSET (0 .. h)
  OBVIOUS
<1> HIDE DEF h, d, e
<1>4. last \in Int /\ h = d * last + (h % d)
  BY <1>0
<1>5. h = last * d /\ last \in Nat \ {0} /\ (last - 1) * d = h - d
  <2> HIDE DEF last
  <2>1. h = d * last
    BY <1>0, <1>4
  <2>2. d * last = last * d /\ (last - 1) * d = last * d - d
    BY <1>0, <1>4
  <2>3. last < 0 => last * d < 0
    BY <1>0, <1>4
  <2>4. last = 0 => last * d = 0
    BY <1>0
  <2> QED
    BY <1>0, <1>4, <2>1, <2>2, <2>3, <2>4
<1> HIDE DEF last
<1>6. steps # {} => first \in steps /\ first \in 0 .. h /\ \A k \in steps : first <= k
  <2>1. steps \in SUBSET Nat
    BY <1>0, <1>3
  <2> QED
    BY <1>3, <2>1, SmallestExists
<1>7. ASSUME last \in Tokens(e) PROVE h \in steps
  <2>1. h \in e
    BY <1>2, <1>5, <1>7
  <2>2. steps # {}
    BY <1>1, <2>1
  <2>3. first \in Int /\ first <= h
    BY <1>6, <2>2
  <2>4. h \in first - back .. first - 1 => h <= first - 1
    BY <1>0
  <2> HIDE DEF first, back
  <2>5. h \notin first - back .. first - 1
    BY <1>0, <2>3, <2>4
  <2> QED
    BY <1>1, <2>1, <2>2, <2>5
<1>8. ASSUME h \in steps, \A k \in steps : k .. h \subseteq steps
      PROVE  last \in Tokens(e)
  <2>1. steps # {}
    BY <1>8
  <2>2. first \in steps /\ first \in Int /\ 0 <= first /\ first <= h /\ first .. h \subseteq steps
    BY <1>0, <1>6, <1>8, <2>1
  <2>3. e = steps \cup (first - back .. first - 1)
    BY <1>1, <2>1
  <2> HIDE DEF first
  <2>4. h - d \in e
    <3>1. CASE first <= h - d
      <4>1. h - d \in first .. h
        BY <1>0, <2>2, <3>1
      <4> QED
        BY <2>2, <2>3, <4>1
    <3>2. CASE first > h - d
      <4>1. back = first - (h - d)
        <5>1. CASE first = h
          BY <1>0, <5>1
        <5>2. CASE first # h
          <6> DEFINE q == first \div d
                     r == first % d
          <6>1. q \in Int /\ r \in 0 .. d - 1 /\ first = d * q + r
            BY <1>0, <2>2
          <6> HIDE DEF q, r
          <6>2. d * q = q * d /\ q * d \in Int
            BY <1>0, <6>1
          <6>3. q = last - 1
            <7>1. last <= q => last * d <= q * d
              BY <1>0, <1>5, <6>1, MoreSteps
            <7>2. q < last - 1 => (q + 1) * d <= (last - 1) * d
              BY <1>0, <1>5, <6>1, MoreSteps
            <7>3. (q + 1) * d = q * d + d
              BY <1>0, <6>1
            <7>4. ~(last <= q)
              BY <1>0, <1>5, <2>2, <5>2, <6>1, <6>2, <7>1
            <7>5. ~(q < last - 1)
              BY <1>0, <1>5, <2>2, <3>2, <6>1, <6>2, <7>2, <7>3
            <7> QED
              BY <1>5, <6>1, <7>4, <7>5
          <6>4. r = first - (h - d)
            BY <1>0, <1>5, <2>2, <6>1, <6>2, <6>3
          <6> QED
            BY <5>2, <6>4 DEF r
        <5> QED
          BY <5>1, <5>2
      <4> HIDE DEF back
      <4>2. h - d \in first - back .. first - 1
        BY <1>0, <2>2, <3>2, <4>1
      <4> QED
        BY <2>3, <4>2
    <3> QED
      BY <1>0, <2>2, <3>1, <3>2
  <2>5. last \in 1 .. last
    BY <1>5
  <2>6. h \in e
    BY <1>8, <2>3
  <2>7. {(last - 1) * d, last * d} \subseteq e
    BY <1>5, <2>4, <2>6
  <2> QED
    BY <1>2, <2>5, <2>7
<1> QED
  BY <1>7, <1>8 DEF h, d, e, last

(* The samples of a trajectory on the grid of a window.                      *)
SamplesOf(S, end) == UNION {At(S, end - k * Dt) : k \in 0 .. HistorySteps - 1}

(* The window of an agent that moves: it has what its trajectory has at the  *)
(* times of the grid.                                                        *)
LEMMA MovingWindow ==
  ASSUME NEW o \in Agents \ StaticAgents, NEW trajectories, Spanned(trajectories[o]), NEW end \in Int
  PROVE  LET T == trajectories[o]
             W == Window(trajectories, end)[o]
         IN  /\ W = SamplesOf(T, end)
             /\ \A k \in 0 .. HistorySteps - 1 :
                  k \in StepsOf(W, end) <=> At(T, end - (HistorySteps - 1 - k) * Dt) # {}
<1> DEFINE T == trajectories[o]
           W == Window(trajectories, end)[o]
           h == HistorySteps - 1
<1>0. Dt \in Nat \ {0} /\ h \in Nat
  BY TrafficConstants
<1>1. W = UNION {At(T, end - k * Dt) : k \in 0 .. h}
  <2>1. o \in Things /\ o \notin StaticAgents
    BY DEF Things
  <2>2. W = UNION {LET x == At(T, end - k * Dt)
                   IN  IF x = {} /\ o \in StaticAgents /\ T # {}
                       THEN {[t |-> end - k * Dt, from |-> "log"]} ELSE x : k \in 0 .. h}
    BY <2>1 DEF Window
  <2> HIDE DEF W, T, h
  <2> QED
    BY <2>1, <2>2
<1> HIDE DEF W
<1>2. \A k : k \in StepsOf(W, end) <=> k \in 0 .. h /\ \E x \in W : x.t = end - (h - k) * Dt
  BY DEF StepsOf
<1> HIDE DEF h, T
<1>3. Spanned(T)
  BY DEF T
<1>4. ASSUME NEW k \in 0 .. h PROVE end - k * Dt \in Int /\ h - k \in 0 .. h /\ k \in Int
  BY <1>0
<1>5. ASSUME NEW k \in 0 .. h, At(T, end - (h - k) * Dt) # {} PROVE k \in StepsOf(W, end)
  <2> DEFINE t == end - (h - k) * Dt
  <2>1. t \in Int /\ h - k \in 0 .. h
    BY <1>4
  <2>2. PICK x : x \in At(T, t)
    BY <1>5
  <2>3. x \in W
    BY <1>1, <2>1, <2>2
  <2> HIDE DEF t
  <2>4. x.t = t
    BY <1>3, <2>1, <2>2, InterpolatedAt
  <2> QED
    BY <1>2, <2>3, <2>4 DEF t
<1>6. ASSUME NEW k \in StepsOf(W, end) PROVE At(T, end - (h - k) * Dt) # {}
  <2>1. PICK x \in W : x.t = end - (h - k) * Dt
    BY <1>2
  <2>2. PICK j \in 0 .. h : x \in At(T, end - j * Dt)
    BY <1>1
  <2>3. x.t = end - j * Dt
    BY <1>3, <1>4, <2>2, InterpolatedAt
  <2>4. k \in 0 .. h
    BY <1>2
  <2>5. At(T, x.t) # {}
    BY <2>2, <2>3
  <2> QED
    BY <2>1, <2>5
<1> QED
  BY <1>1, <1>5, <1>6 DEF T, W, h, SamplesOf

(* Nothing is missing between two samples of a trajectory.                   *)
LEMMA NoGaps ==
  ASSUME NEW S, Spanned(S), NEW a \in Int, At(S, a) # {}, NEW b \in Int, At(S, b) # {},
         NEW t \in Int, a <= t, t <= b
  PROVE  At(S, t) # {}
<1>1. PICK y \in S : y.t <= a
  BY AtWithin
<1>2. PICK z \in S : b <= z.t
  BY AtWithin
<1>3. y.t \in Int /\ z.t \in Int
  BY DEF Spanned, Samples
<1>4. y.t <= t /\ t <= z.t
  BY <1>1, <1>2, <1>3
<1> QED
  BY <1>4, InterpolatedAt

(* An agent that was seen often enough has that many samples in its window.  *)
LEMMA WindowCounts ==
  ASSUME NEW S, Spanned(S), NEW end \in Int, NEW n \in 1 .. HistorySteps,
         \A k \in 0 .. n - 1 : At(S, end - k * Dt) # {}
  PROVE  ~(Cardinality(SamplesOf(S, end)) < n)
<1> DEFINE W == UNION {At(S, end - k * Dt) : k \in 0 .. HistorySteps - 1}
           times == {end - k * Dt : k \in 0 .. HistorySteps - 1}
           all == {[t |-> t, from |-> s] : t \in times, s \in Sources}
<1>0. Dt \in Nat \ {0} /\ HistorySteps \in Nat \ {0} /\ n \in Nat /\ n <= HistorySteps
  BY TrafficConstants
<1>1. ASSUME NEW k \in 0 .. HistorySteps - 1 PROVE end - k * Dt \in Int
  BY <1>0
<1>2. ASSUME NEW k \in 0 .. HistorySteps - 1, NEW x \in At(S, end - k * Dt)
      PROVE  x \in Samples /\ x.t = end - k * Dt
  BY <1>1, InterpolatedAt
<1>3. IsFiniteSet(all)
  <2>1. IsFiniteSet(times)
    <3> DEFINE f == [k \in 0 .. HistorySteps - 1 |-> end - k * Dt]
    <3>1. f \in [0 .. HistorySteps - 1 -> times] /\ \A y \in times : \E x \in 0 .. HistorySteps - 1 : f[x] = y
      OBVIOUS
    <3>2. IsFiniteSet(0 .. HistorySteps - 1)
      BY <1>0, FS_Interval
    <3> HIDE DEF f, times
    <3> QED
      BY <3>1, <3>2, ImagesFinite
  <2>2. IsFiniteSet(Sources)
    <3> DEFINE f == [k \in 1 .. 6 |-> CASE k = 1 -> "log" [] k = 2 -> "ego" [] k = 3 -> "held"
                        [] k = 4 -> "model" [] k = 5 -> "stuck" [] OTHER -> "frozen"]
    <3>1. f \in [1 .. 6 -> Sources]
      BY DEF Sources
    <3>2. f[1] = "log" /\ f[2] = "ego" /\ f[3] = "held" /\ f[4] = "model" /\ f[5] = "stuck" /\ f[6] = "frozen"
      OBVIOUS
    <3> HIDE DEF f
    <3>3. \A y \in Sources : \E x \in 1 .. 6 : f[x] = y
      BY <3>2 DEF Sources
    <3>4. IsFiniteSet(1 .. 6)
      <4>1. 1 \in Int /\ 6 \in Int
        OBVIOUS
      <4> QED
        BY ONLY <4>1, FS_Interval
    <3> QED
      BY <3>1, <3>3, <3>4, ImagesFinite
  <2> HIDE DEF times
  <2>3. IsFiniteSet(times \X Sources)
    BY <2>1, <2>2, FS_Product
  <2> DEFINE g == [pair \in times \X Sources |-> [t |-> pair[1], from |-> pair[2]]]
  <2>4. g \in [times \X Sources -> all]
    OBVIOUS
  <2>5. ASSUME NEW y \in all PROVE \E x \in times \X Sources : g[x] = y
    <3>1. PICK t \in times, s \in Sources : y = [t |-> t, from |-> s]
      OBVIOUS
    <3>2. <<t, s>> \in times \X Sources /\ g[<<t, s>>] = y
      BY <3>1
    <3> QED
      BY <3>2
  <2> HIDE DEF g, all
  <2> QED
    BY <2>3, <2>4, <2>5, ImagesFinite
<1>4. W \subseteq all
  <2>1. ASSUME NEW x \in W PROVE x \in all
    <3>1. PICK k \in 0 .. HistorySteps - 1 : x \in At(S, end - k * Dt)
      BY <2>1
    <3>2. x \in Samples /\ x.t = end - k * Dt
      BY <1>2, <3>1
    <3>3. x = [t |-> x.t, from |-> x.from] /\ x.from \in Sources /\ x.t \in times
      BY <3>2 DEF Samples
    <3> HIDE DEF times
    <3> QED
      BY <3>3
  <2> QED
    BY <2>1
<1>5. IsFiniteSet(W)
  BY <1>3, <1>4, FS_Subset
<1> DEFINE pick == [k \in 0 .. n - 1 |-> CHOOSE x \in At(S, end - k * Dt) : TRUE]
<1>6. ASSUME NEW k \in 0 .. n - 1
      PROVE  k \in 0 .. HistorySteps - 1 /\ pick[k] \in At(S, end - k * Dt) /\ pick[k] \in W
  <2>1. k \in 0 .. HistorySteps - 1
    BY <1>0
  <2>2. pick[k] \in At(S, end - k * Dt)
    OBVIOUS
  <2> QED
    BY <2>1, <2>2
<1> HIDE DEF pick, W
<1>7. ASSUME NEW k \in 0 .. n - 1, NEW l \in 0 .. n - 1, pick[k] = pick[l] PROVE k = l
  <2>1. end - k * Dt = end - l * Dt
    BY <1>2, <1>6, <1>7
  <2>2. k \in Int /\ l \in Int /\ k * Dt \in Int /\ l * Dt \in Int
    BY <1>0
  <2>3. (k < l => k * Dt < l * Dt) /\ (l < k => l * Dt < k * Dt)
    BY <1>0, <2>2, MoreSteps
  <2> QED
    BY <2>1, <2>2, <2>3
<1>8. pick \in [0 .. n - 1 -> W]
  <2>1. pick = [k \in 0 .. n - 1 |-> pick[k]]
    BY DEF pick
  <2> QED
    BY <1>6, <2>1
<1>9. pick \in Injection(0 .. n - 1, W)
  BY <1>7, <1>8 DEF Injection, IsInjective
<1>10. Cardinality(0 .. n - 1) <= Cardinality(W)
  BY <1>5, <1>9, FS_Injection
<1>11. Cardinality(0 .. n - 1) = n
  BY <1>0, FS_Interval
<1>12. Cardinality(W) \in Nat
  BY <1>5, FS_CardinalityType
<1> QED
  BY <1>0, <1>10, <1>11, <1>12 DEF W, SamplesOf

(* The network draws whole strides.                                          *)
LEMMA WholeStrides ==
  ASSUME NEW end \in Int, NEW query \in Int
  PROVE  \E c \in Nat : ForecastTimes(end, query) = Grid(end, c * TokenStride)
<1> DEFINE n == Cardinality(FutureTimes(end, query))
           wanted1 == IF n < MinFutureSteps THEN MinFutureSteps ELSE n
           c == IF n = 0 THEN 0 ELSE (wanted1 + TokenStride - 1) \div TokenStride
<1>0. MinFutureSteps \in Nat \ {0} /\ TokenStride \in Nat \ {0}
  BY TrafficAssumption
<1>1. n \in Nat
  <2>1. PICK m \in Nat : FutureTimes(end, query) = Grid(end, m)
    BY FutureOnGrid
  <2> QED
    BY <2>1, GridCounts
<1>2. ForecastTimes(end, query) =
        {end + k * Dt : k \in 1 .. IF n = 0 THEN 0 ELSE ((wanted1 + TokenStride - 1) \div TokenStride) * TokenStride}
  BY DEF ForecastTimes
<1> HIDE DEF n
<1>3. wanted1 \in Nat
  BY <1>0, <1>1
<1> HIDE DEF wanted1
<1>4. (wanted1 + TokenStride - 1) \div TokenStride \in Nat
  BY <1>0, <1>3, RoundedUp
<1>5. c \in Nat
  BY <1>4
<1>6. c * TokenStride = IF n = 0 THEN 0 ELSE ((wanted1 + TokenStride - 1) \div TokenStride) * TokenStride
  BY <1>0
<1> HIDE DEF c
<1>7. ForecastTimes(end, query) = Grid(end, c * TokenStride)
  BY <1>2, <1>6 DEF Grid
<1> QED
  BY <1>5, <1>7

(* An agent that moves is drawn, in all of the strides, if its last token is *)
(* valid, and not at all if it is not.                                       *)
LEMMA DrawnOrNot ==
  ASSUME NEW o \in Agents \ StaticAgents, NEW window, NEW end \in Int, NEW query \in Int
  PROVE  LET valid == (HistorySteps - 1) \div TokenStride \in Tokens(Extrapolated(StepsOf(window, end)))
             drawn == NetworkSamples(o, window, end, query)
         IN  /\ valid => \A t \in ForecastTimes(end, query) : \E x \in drawn : x.t = t
             /\ ~valid => drawn = {}
             /\ SessionClass(o) # "others" => \A x \in drawn : x.from = "model"
<1> DEFINE valid == (HistorySteps - 1) \div TokenStride \in Tokens(Extrapolated(StepsOf(window, end)))
           drawn == NetworkSamples(o, window, end, query)
           d == TokenStride
<1>0. d \in Nat \ {0} /\ Dt \in Nat \ {0}
  BY TrafficAssumption, TrafficConstants
<1>1. ASSUME NEW s PROVE StrideValid(o, s, window, end) <=> valid
  BY DEF StrideValid, TokensOf, Backfilled, Frozen
<1> HIDE DEF valid
<1>2. PICK c \in Nat : ForecastTimes(end, query) = Grid(end, c * d)
  BY WholeStrides
<1>3. Cardinality(ForecastTimes(end, query)) \div d = c
  <2>1. c * d \in Nat
    BY <1>0
  <2>2. Cardinality(Grid(end, c * d)) = c * d
    BY <2>1, GridCounts
  <2> DEFINE q == (c * d) \div d
             r == (c * d) % d
  <2>3. q \in Int /\ r \in 0 .. d - 1 /\ c * d = d * q + r
    BY <1>0, <2>1
  <2> HIDE DEF q, r
  <2>4. d * q = q * d /\ q * d \in Int /\ c * d \in Int
    BY <1>0, <2>3
  <2>5. (c < q => (c + 1) * d <= q * d) /\ (q < c => (q + 1) * d <= c * d)
    BY <1>0, <2>3, MoreSteps
  <2>6. (c + 1) * d = c * d + d /\ (q + 1) * d = q * d + d
    BY <1>0, <2>3
  <2>7. q = c
    BY <1>0, <2>3, <2>4, <2>5, <2>6
  <2> QED
    BY <1>2, <2>2, <2>7 DEF q
<1>4. drawn = UNION {DrawnIn(o, s, end) : s \in {k \in 1 .. c : valid}}
  BY <1>1, <1>3 DEF NetworkSamples
<1> HIDE DEF drawn
<1>5. ASSUME ~valid PROVE drawn = {}
  BY <1>4, <1>5
<1>6. ASSUME SessionClass(o) # "others", NEW x \in drawn PROVE x.from = "model"
  <2>1. PICK s : x \in DrawnIn(o, s, end)
    BY <1>4
  <2>2. x.from = Motion(o)
    BY <2>1 DEF DrawnIn
  <2>3. SessionClass(o) \in {"car", "pedestrian", "cyclist", "truck"}
    <3> DEFINE class(label) == ClassOf(label)
    <3>1. \A label : ClassOf(label) \in {"car", "pedestrian", "cyclist", "truck", "others"}
      BY DEF ClassOf
    <3>2. SessionClass(o) \in {"car", "pedestrian", "cyclist", "truck", "others"}
      BY <3>1 DEF SessionClass
    <3> QED
      BY <1>6, <3>2
  <2>4. Motion(o) = "model"
    BY <2>3 DEF Motion, HasMotions, TypeOf
  <2> QED
    BY <2>2, <2>4
<1>7. ASSUME valid, NEW t \in ForecastTimes(end, query) PROVE \E x \in drawn : x.t = t
  <2>1. PICK j \in 1 .. c * d : t = end + j * Dt
    BY <1>2 DEF Grid
  <2> DEFINE q == (j - 1) \div d
             r == (j - 1) % d
  <2>2. c * d \in Nat /\ j \in Nat /\ 1 <= j /\ j <= c * d
    BY <1>0, <2>1
  <2>3. q \in Int /\ r \in 0 .. d - 1 /\ j - 1 = d * q + r
    BY <1>0, <2>2
  <2> HIDE DEF q, r
  <2>4. d * q = q * d /\ q * d \in Int /\ (q + 1) * d = q * d + d /\ 0 * d = 0
    BY <1>0, <2>3
  <2>5. (q < 0 => (q + 1) * d <= 0 * d) /\ (c <= q => c * d <= q * d)
    BY <1>0, <2>3, MoreSteps
  <2>6. q + 1 \in 1 .. c
    BY <1>0, <2>2, <2>3, <2>4, <2>5
  <2>7. j \in (q + 1 - 1) * d + 1 .. (q + 1) * d
    <3>1. q + 1 - 1 = q
      BY <2>3
    <3>2. j \in q * d + 1 .. (q + 1) * d
      BY <1>0, <2>2, <2>3, <2>4
    <3> QED
      BY <3>1, <3>2
  <2>8. [t |-> end + j * Dt, from |-> Motion(o)] \in DrawnIn(o, q + 1, end)
    <3> DEFINE s == q + 1
    <3>4. s - 1 = q /\ s * d = (q + 1) * d
      BY <2>3
    <3> HIDE DEF s
    <3>1. j \in (s - 1) * d + 1 .. s * d
      BY <1>0, <2>2, <2>3, <2>4, <3>4
    <3>2. DrawnIn(o, s, end) =
            {[t |-> end + k * Dt, from |-> Motion(o)] : k \in (s - 1) * d + 1 .. s * d}
      BY DEF DrawnIn
    <3>3. [t |-> end + j * Dt, from |-> Motion(o)] \in DrawnIn(o, s, end)
      BY <3>1, <3>2
    <3> QED
      BY <3>3 DEF s
  <2> DEFINE x == [t |-> end + j * Dt, from |-> Motion(o)]
  <2>9. x \in drawn
    BY <1>4, <1>7, <2>6, <2>8
  <2>10. x.t = t
    BY <2>1
  <2> HIDE DEF x
  <2> QED
    BY <2>9, <2>10
<1> QED
  BY <1>5, <1>6, <1>7 DEF valid, drawn

(* What interpolation returns comes from where the next sample does.         *)
LEMMA FromLater ==
  ASSUME NEW S, Spanned(S), NEW t \in Int, NEW x \in At(S, t)
  PROVE  \E y \in S : y.t >= t /\ x.from = y.from
<1> DEFINE later == {z.t : z \in {y \in S : y.t >= t}}
           next  == Min(later)
<1>1. At(S, t) = {[z EXCEPT !.t = t] : z \in {y \in S : y.t = next}}
  BY DEF At
<1>2. PICK y \in S : t <= y.t
  BY AtWithin
<1>3. later \in SUBSET Int /\ y.t \in later /\ \A k \in later : t <= k
  BY <1>2 DEF Spanned, Samples
<1> HIDE DEF later
<1>4. next \in later
  BY <1>3, LeastOfInts
<1>5. next >= t
  BY <1>3, <1>4
<1> HIDE DEF next
<1>6. PICK z \in S : z.t = next /\ x = [z EXCEPT !.t = t]
  BY <1>1
<1>7. z \in Samples
  BY DEF Spanned
<1>8. x.from = z.from
  BY <1>6, <1>7 DEF Samples
<1> QED
  BY <1>5, <1>6, <1>8

(* Of an agent that moves and was seen often enough only the network's       *)
(* drawing is answered.                                                      *)
LEMMA SeenIsDrawn ==
  ASSUME NEW o \in Agents \ StaticAgents, NEW trajectories, Spanned(trajectories[o]),
         NEW now \in Int, NEW query \in Int, handover \in Int, SessionClass(o) # "others",
         LET end == HistoryEnd(now, query)
         IN  /\ query > end
             /\ Answers(o, Simulated(o, trajectories, now, query), end, query) # {}
             /\ \E first \in trajectories[o] : first.t + (MinValidSteps - 1) * Dt <= end
  PROVE  \A x \in Answers(o, Simulated(o, trajectories, now, query), HistoryEnd(now, query), query) :
            x.from = "model"
<1> DEFINE T == trajectories[o]
           end == HistoryEnd(now, query)
           W == Window(trajectories, end)[o]
           P == Predictions(o, W, end, query)
           s == Simulated(o, trajectories, now, query)
           A == Answers(o, s, end, query)
           drawn == NetworkSamples(o, W, end, query)
           there == \E x \in W : x.t = end
           h == HistorySteps - 1
           steps == StepsOf(W, end)
           last == h \div TokenStride
<1>1. end \in Int
  BY DEF HistoryEnd
<1>2. s = W \cup P
  BY DEF Simulated, Continued
<1>3. query > end /\ A # {} /\ \E first \in T : first.t + (MinValidSteps - 1) * Dt <= end
  OBVIOUS
<1>4. A = At(s, query) \cup {x \in s : x.t > query /\ x.t \in ForecastTimes(end, query)}
  BY DEF Answers
<1>5. P = IF there /\ Cardinality(W) < MinValidSteps
          THEN {[t |-> t, from |-> "frozen"] : t \in ForecastTimes(end, query)}
          ELSE CarriedOn(there, drawn, {[t |-> t, from |-> "frozen"] : t \in ForecastTimes(end, query)})
  BY DEF Predictions
<1> HIDE DEF end, A, s, P
<1>6. /\ W = SamplesOf(T, end)
      /\ \A k \in 0 .. h : k \in steps <=> At(T, end - (h - k) * Dt) # {}
  BY <1>1, MovingWindow
<1>7. steps \in SUBSET (0 .. h)
  BY DEF StepsOf
<1>8. \A x \in W : x.t <= end
  BY <1>1, WindowFits
<1>9. /\ last \in Tokens(Extrapolated(steps)) => \A t \in ForecastTimes(end, query) : \E x \in drawn : x.t = t
      /\ last \notin Tokens(Extrapolated(steps)) => drawn = {}
      /\ \A x \in drawn : x.from = "model"
  BY <1>1, DrawnOrNot
<1>10. /\ last \in Tokens(Extrapolated(steps)) => h \in steps
       /\ h \in steps /\ (\A k \in steps : k .. h \subseteq steps) => last \in Tokens(Extrapolated(steps))
  BY <1>7, LastToken
<1>11. Spanned(T) /\ Dt \in Nat \ {0} /\ h \in Nat /\ MinValidSteps \in 1 .. h + 1
  BY TrafficConstants, WindowAssumption
<1>12. h \in steps <=> there
  <2>1. h \in 0 .. h /\ end - (h - h) * Dt = end
    BY <1>1, <1>11
  <2>2. steps = {k \in 0 .. h : \E x \in W : x.t = end - (h - k) * Dt}
    BY DEF StepsOf
  <2> HIDE DEF steps, h, W
  <2> QED
    BY <2>1, <2>2
<1>13. Spanned(W)
  BY <1>1, WindowFits
<1> HIDE DEF W, drawn, T, steps, last, h
<1>14. there
  <2> SUFFICES ASSUME ~there PROVE FALSE
    OBVIOUS
  <2>1. drawn = {}
    BY <1>9, <1>10, <1>12
  <2>2. P = {}
    BY <1>5, <2>1 DEF CarriedOn
  <2>3. s = W
    BY <1>2, <2>2
  <2>4. \A x \in s : ~(x.t >= query)
    BY <1>1, <1>3, <1>8, <1>13, <2>3 DEF Spanned, Samples
  <2>5. At(s, query) = {}
    <3> SUFFICES ASSUME At(s, query) # {} PROVE FALSE
      OBVIOUS
    <3>1. PICK z \in s : query <= z.t
      BY <1>13, <2>3, AtWithin
    <3> QED
      BY <1>13, <2>3, <2>4, <3>1 DEF Spanned, Samples
  <2>6. \A x \in s : ~(x.t > query)
    BY <1>13, <2>3, <2>4 DEF Spanned, Samples
  <2> QED
    BY <1>3, <1>4, <2>5, <2>6
<1>15. At(T, end) # {}
  <2>1. h \in steps /\ h \in 0 .. h
    BY <1>11, <1>12, <1>14
  <2>2. end - (h - h) * Dt = end
    BY <1>1, <1>11
  <2> QED
    BY <1>6, <2>1, <2>2
<1>16. last \in Tokens(Extrapolated(steps))
  <2>1. ASSUME NEW k \in steps, NEW l \in k .. h PROVE l \in steps
    <3>1. k \in 0 .. h /\ l \in 0 .. h /\ k <= l /\ k \in Int /\ l \in Int
      BY <1>7, <1>11
    <3>2. /\ (h - k) * Dt \in Int /\ (h - l) * Dt \in Int
          /\ (h - l) * Dt <= (h - k) * Dt /\ 0 * Dt <= (h - l) * Dt /\ 0 * Dt = 0
      <4>1. h - k \in Int /\ h - l \in Int /\ h - l <= h - k /\ 0 <= h - l
        BY <1>11, <3>1
      <4> HIDE DEF h
      <4> QED
        BY <1>11, <4>1, MoreSteps
    <3> DEFINE a == end - (h - k) * Dt
               t == end - (h - l) * Dt
    <3>3. a \in Int /\ t \in Int /\ a <= t /\ t <= end
      BY <1>1, <3>2
    <3>4. At(T, a) # {}
      BY <1>6, <3>1
    <3> HIDE DEF a, t
    <3>5. At(T, t) # {}
      BY <1>1, <1>11, <1>15, <3>3, <3>4, NoGaps
    <3> QED
      BY <1>6, <3>1, <3>5 DEF t
  <2>2. \A k \in steps : k .. h \subseteq steps
    BY <2>1
  <2> QED
    BY <1>10, <1>12, <1>14, <2>2
<1>17. ~(Cardinality(W) < MinValidSteps)
  <2>1. PICK first \in T : first.t + (MinValidSteps - 1) * Dt <= end
    BY <1>3
  <2>2. PICK z \in T : end <= z.t
    BY <1>1, <1>11, <1>15, AtWithin
  <2>3. first.t \in Int /\ z.t \in Int
    BY <1>11 DEF Spanned, Samples
  <2>4. ASSUME NEW k \in 0 .. MinValidSteps - 1 PROVE At(T, end - k * Dt) # {}
    <3>1. k \in Int /\ 0 <= k /\ k <= MinValidSteps - 1 /\ MinValidSteps - 1 \in Int
      BY <1>11
    <3>2. /\ k * Dt \in Int /\ (MinValidSteps - 1) * Dt \in Int /\ 0 * Dt <= k * Dt /\ 0 * Dt = 0
          /\ k * Dt <= (MinValidSteps - 1) * Dt
      BY <1>11, <3>1, MoreSteps
    <3> DEFINE t == end - k * Dt
    <3>3. t \in Int /\ first.t <= t /\ t <= z.t
      BY <1>1, <2>1, <2>2, <2>3, <3>2
    <3> HIDE DEF t
    <3>4. At(T, t) # {}
      BY <1>11, <3>3, InterpolatedAt
    <3> QED
      BY <3>4 DEF t
  <2>5. MinValidSteps \in 1 .. HistorySteps
    BY WindowAssumption
  <2> QED
    BY <1>1, <1>6, <1>11, <2>4, <2>5, WindowCounts
<1>18. P = drawn
  <2>1. \A t \in ForecastTimes(end, query) : \E x \in drawn : x.t = t
    BY <1>9, <1>16
  <2>2. P = CarriedOn(there, drawn, {[t |-> t, from |-> "frozen"] : t \in ForecastTimes(end, query)})
    BY <1>5, <1>17
  <2> QED
    BY <2>1, <2>2 DEF CarriedOn
<1>19. \A x \in s : x.t > end => x.from = "model"
  <2>1. \A x \in W : ~(x.t > end)
    BY <1>1, <1>8, <1>13 DEF Spanned, Samples
  <2> QED
    BY <1>2, <1>9, <1>18, <2>1
<1>20. Spanned(s) /\ \A x \in s : x.t \in Int
  <2>1. PICK n \in Nat : ForecastTimes(end, query) = Grid(end, n)
    BY <1>1, ForecastCovers DEF ForecastFits
  <2>2. end + n * Dt \in Int
    BY <1>1, <1>11
  <2>3. \A x \in drawn : x \in [t : ForecastTimes(end, query), from : {"model", "stuck"}]
    BY <1>1, DrawnOnGrid DEF drawn
  <2>4. \A t \in ForecastTimes(end, query) : t \in Int /\ end < t /\ t <= end + n * Dt
    BY <1>1, <2>1, GridSpans
  <2>5. \A x \in drawn : x \in Samples /\ end <= x.t /\ x.t <= end + n * Dt
    BY <1>1, <2>3, <2>4 DEF Samples, Sources
  <2>6. Spanned(drawn)
    BY <1>1, <2>2, <2>5 DEF Spanned
  <2>7. Spanned(s)
    BY <1>2, <1>13, <1>18, <2>6, SpannedUnion
  <2> QED
    BY <2>7 DEF Spanned, Samples
<1>21. ASSUME NEW x \in A PROVE x.from = "model"
  <2>1. CASE x \in At(s, query)
    <3>1. PICK y \in s : y.t >= query /\ x.from = y.from
      BY <1>20, <2>1, FromLater
    <3> QED
      BY <1>1, <1>3, <1>19, <1>20, <3>1
  <2>2. CASE x \in s /\ x.t > query
    BY <1>1, <1>3, <1>19, <1>20, <2>2
  <2> QED
    BY <1>4, <2>1, <2>2
<1> QED
  BY <1>21 DEF A, s, end
-----------------------------------------------------------------------------
(* What the session has to show: the ego's track from its first pose, and    *)
(* all of the map that was not too much; what was shown stays true.          *)
NetworkInv ==
  /\ Min(Logs[Ego]) < handover /\ Min(Logs[Ego]) < NextQuery
  /\ session => EgoStarts(closed[Ego]) /\ Min(Logs[Ego]) <= current /\ HasAll(chart)
  /\ netInput.ego # {} => /\ MapIsShown /\ EgoIsShown /\ DrawnIfSeen
                          /\ \A x \in netInput.ego : x.t \in Int
                          /\ asked > handover /\ ~skipped

LEMMA NetworkStart == ActorsInit => NetworkInv
<1> SUFFICES ASSUME ActorsInit PROVE NetworkInv
  OBVIOUS
<1>1. /\ session = FALSE /\ lead \in Leads /\ step \in ControlSteps /\ asked = 0
      /\ handover \in {Min(Logs[Ego]) + force + step : force \in Forces}
      /\ netInput = [end |-> 0, map |-> {}, ego |-> {}]
  BY DEF ActorsInit, TrafficInit
<1>2. Leads \subseteq Nat /\ Forces \subseteq Nat /\ ControlSteps \subseteq Nat \ {0}
  BY TrafficAssumption
<1>3. Min(Logs[Ego]) < handover /\ Min(Logs[Ego]) < NextQuery
  BY <1>1, <1>2, TrafficConstants DEF NextQuery
<1> QED
  BY <1>1, <1>3 DEF NetworkInv

(* The map of the session depends on the drive only.                         *)
LEMMA MapStays ==
  ASSUME pace' = pace
  PROVE  /\ \A class : OfClass(class)' = OfClass(class)
         /\ \A pieces : HasAll(pieces)' = HasAll(pieces)
<1>1. \A x : EgoPlace(x)' = EgoPlace(x)
  BY DEF EgoPlace
<1>2. StartPlaces' = StartPlaces
  BY <1>1 DEF StartPlaces
<1>3. NearStart' = NearStart
  BY <1>2 DEF NearStart
<1>4. \A class : OfClass(class)' = OfClass(class)
  BY <1>3 DEF OfClass
<1> QED
  BY <1>4 DEF HasAll

LEMMA NetworkUntouched ==
  ASSUME NetworkInv, UNCHANGED <<session, skipped, handover, lead, step, current, asked, closed, response, pace,
                                 chart, netInput>>
  PROVE  NetworkInv'
<1>1. NextQuery' = NextQuery
  BY DEF NextQuery
<1>2. netInput.ego # {} => MapIsShown' /\ EgoIsShown' /\ DrawnIfSeen'
  <2>1. MapIsShown' = MapIsShown
    BY MapStays DEF MapIsShown
  <2>2. EgoIsShown' = EgoIsShown /\ DrawnIfSeen' = DrawnIfSeen
    BY DEF EgoIsShown, DrawnIfSeen
  <2> QED
    BY <2>1, <2>2 DEF NetworkInv
<1>3. HasAll(chart)' = HasAll(chart)
  BY MapStays
<1> QED
  BY <1>1, <1>2, <1>3 DEF NetworkInv

LEMMA NetworkSession ==
  ASSUME TakeoverInv, NetworkInv, StartTraffic \/ CloseTraffic \/ SimulateFails, ~skipped, UNCHANGED skipped
  PROVE  NetworkInv'
<1>1. /\ UNCHANGED <<handover, lead, step, asked, response, pace, netInput, skipped>>
  BY DEF StartTraffic, CloseTraffic, SimulateFails
<1>2. NextQuery' = NextQuery
  BY <1>1 DEF NextQuery
<1>3. asked > 0 => asked # 0
  BY DEF TakeoverInv, TakeoverTypeOK
<1>4. netInput.ego # {} => UNCHANGED closed \/ \A o \in Agents : closed'[o] = closed[o]
  <2>1. CASE StartTraffic
    <3>1. asked = 0 /\ handover \in Nat
      BY <2>1 DEF StartTraffic, TakeoverInv, TakeoverTypeOK
    <3> QED
      BY <3>1 DEF NetworkInv
  <2>2. CASE CloseTraffic
    BY <2>2 DEF CloseTraffic
  <2>3. CASE SimulateFails
    BY <2>3, NextQueryIs, EgoAlone DEF SimulateFails, TakeoverInv
  <2> QED
    BY <2>1, <2>2, <2>3
<1>5. netInput.ego # {} => MapIsShown' /\ EgoIsShown' /\ DrawnIfSeen'
  <2>1. MapIsShown' = MapIsShown
    BY <1>1, MapStays DEF MapIsShown
  <2>2. EgoIsShown' = EgoIsShown
    BY <1>1 DEF EgoIsShown
  <2>3. netInput.ego # {} => DrawnIfSeen' = DrawnIfSeen
    BY <1>1, <1>4 DEF DrawnIfSeen
  <2> QED
    BY <2>1, <2>2, <2>3 DEF NetworkInv
<1>6. session' => EgoStarts(closed'[Ego]) /\ Min(Logs[Ego]) <= current' /\ HasAll(chart)'
  <2>1. CASE StartTraffic
    <3>1. current' = InitialTime /\ closed' = Logged /\ chart' \in CutMaps
      BY <2>1 DEF StartTraffic
    <3>2. EgoStarts(Logged[Ego])
      <4>1. Logs[Ego] \in SUBSET Nat /\ Logs[Ego] # {} /\ IsFiniteSet(Logs[Ego]) /\ Ego \in Things
        BY TrafficAssumption DEF Things
      <4>2. PICK hi \in Nat : \A t \in Logs[Ego] : t <= hi
        BY <4>1, FiniteBounds
      <4>3. Logged[Ego] = {[t |-> t, from |-> "log"] : t \in Logs[Ego]}
        BY <4>1 DEF Logged
      <4>4. \A x \in Logged[Ego] : x \in Samples /\ 0 <= x.t /\ x.t <= hi
        BY <4>1, <4>2, <4>3 DEF Samples, Sources
      <4>5. Spanned(Logged[Ego])
        <5>1. 0 \in Int /\ hi \in Int
          OBVIOUS
        <5> QED
          BY <4>4, <5>1 DEF Spanned
      <4>6. Min(Logs[Ego]) \in Logs[Ego]
        BY <4>1, SmallestExists
      <4>7. \E x \in Logged[Ego] : x.t = Min(Logs[Ego])
        <5> DEFINE x == [t |-> Min(Logs[Ego]), from |-> "log"]
        <5>1. x \in Logged[Ego] /\ x.t = Min(Logs[Ego])
          BY <4>3, <4>6
        <5> HIDE DEF x
        <5> QED
          BY <5>1
      <4> QED
        BY <4>5, <4>7 DEF EgoStarts
    <3>3. Min(Logs[Ego]) <= InitialTime
      <4>1. HistorySteps - 1 \in Nat /\ Dt \in Nat
        BY TrafficConstants
      <4>2. (HistorySteps - 1) * Dt \in Nat
        BY <4>1
      <4> QED
        BY <4>2, TrafficConstants DEF InitialTime
    <3>4. HasAll(chart')
      BY <3>1, CutHasAll
    <3>5. HasAll(chart)'
      BY <1>1, <3>4, MapStays
    <3> QED
      BY <3>1, <3>2, <3>3, <3>5
  <2>2. CASE CloseTraffic
    BY <2>2 DEF CloseTraffic
  <2>3. CASE SimulateFails
    <3>1. session /\ closed' = WithEgo(closed, NextQuery) /\ current' = current /\ chart' = chart
      BY <2>3 DEF SimulateFails
    <3>2. EgoStarts(closed'[Ego])
      BY <3>1, NextQueryIs, EgoMerged DEF NetworkInv, TakeoverInv
    <3>3. HasAll(chart)' = HasAll(chart)
      BY <1>1, <3>1, MapStays
    <3> QED
      BY <3>1, <3>2, <3>3 DEF NetworkInv
  <2> QED
    BY <2>1, <2>2, <2>3
<1> QED
  BY <1>1, <1>2, <1>5, <1>6 DEF NetworkInv

(* The next query comes after this one.                                      *)
LEMMA QueriesGoOn ==
  ASSUME TakeoverInv, NetworkInv, asked' = NextQuery, UNCHANGED <<lead, step>>
  PROVE  /\ Min(Logs[Ego]) < NextQuery' /\ NextQuery \in Nat /\ asked <= NextQuery /\ asked \in Nat
<1>1. asked' \in Nat /\ asked' > 0 /\ step \in Nat \ {0} /\ Min(Logs[Ego]) < asked' /\ step' = step
  BY NextQueryIs DEF TakeoverInv, TakeoverTypeOK, NetworkInv
<1>2. NextQuery' = asked' + step'
  BY <1>1 DEF NextQuery
<1>3. asked \in Nat /\ asked <= NextQuery
  BY NextQueryIs DEF TakeoverInv, TakeoverTypeOK
<1> QED
  BY <1>1, <1>2, <1>3, TrafficConstants

LEMMA NetworkSkipped ==
  ASSUME TakeoverInv, NetworkInv, SkipTraffic, UNCHANGED skipped
  PROVE  NetworkInv'
<1>1. skipped /\ asked' = NextQuery /\ UNCHANGED <<session, handover, lead, step, netInput>>
  BY DEF SkipTraffic
<1>2. ~session /\ netInput.ego = {}
  BY <1>1 DEF TakeoverInv, NetworkInv
<1>3. Min(Logs[Ego]) < NextQuery'
  BY <1>1, QueriesGoOn
<1> QED
  BY <1>1, <1>2, <1>3 DEF NetworkInv

LEMMA NetworkReplays ==
  ASSUME TakeoverInv, NetworkInv, session, ~skipped, Replay(NextQuery), current' = NextQuery, asked' = NextQuery,
         UNCHANGED <<session, skipped, handover, lead, step, pace>>
  PROVE  NetworkInv'
<1>1. NextQuery <= handover /\ closed' = WithEgo(closed, NextQuery) /\ UNCHANGED <<chart, netInput>>
  BY DEF Replay
<1>2. Min(Logs[Ego]) < NextQuery' /\ NextQuery \in Nat /\ asked <= NextQuery /\ asked \in Nat
  BY QueriesGoOn
<1>3. netInput.ego = {}
  BY <1>1, <1>2 DEF NetworkInv, TakeoverInv, TakeoverTypeOK
<1>4. EgoStarts(closed'[Ego])
  BY <1>1, <1>2, EgoMerged DEF NetworkInv, TakeoverInv
<1>5. HasAll(chart)' = HasAll(chart)
  BY <1>1, MapStays
<1>6. Min(Logs[Ego]) <= current'
  BY <1>2, TrafficConstants DEF NetworkInv
<1> QED
  BY <1>1, <1>2, <1>3, <1>4, <1>5, <1>6 DEF NetworkInv

LEMMA NetworkPredicts ==
  ASSUME TakeoverInv, NetworkInv, session, ~skipped, Predict(NextQuery), current' = NextQuery, asked' = NextQuery,
         UNCHANGED <<session, skipped, handover, lead, step, pace>>
  PROVE  NetworkInv'
<1> DEFINE q == NextQuery
           end == HistoryEnd(current, q)
           before == WithEgo(closed, q)
           track == before[Ego]
<1>1. /\ q > handover /\ closed' = AfterPrediction(before, current, q) /\ response' = Responses(before, current, q)
      /\ netInput' = IF Asks(q) THEN ShownFor(before, q) ELSE netInput
      /\ chart' = chart
  BY DEF Predict, FiltersCopy
<1>2. Min(Logs[Ego]) < NextQuery' /\ q \in Nat /\ asked <= q /\ asked \in Nat /\ Min(Logs[Ego]) < q
  BY QueriesGoOn DEF NetworkInv
<1>3. Asks(q) <=> FutureTimes(end, q) # {}
  BY DEF Asks
<1>4. ShownFor(before, q) =
        [end |-> end,
         map |-> UNION {Filtered(chart, EgoPlace(x)) : x \in {y \in EgoWindow(before, end) : y.t = end}},
         ego |-> EgoShown(before, end, q)]
  BY DEF ShownFor
<1>5. /\ session' = session /\ skipped' = skipped /\ handover' = handover /\ lead' = lead /\ step' = step /\ pace' = pace
      /\ current' = q /\ asked' = q
  OBVIOUS
<1>6. asked > 0 => q > asked
  BY NextQueryIs
<1> HIDE DEF q
<1>7. /\ handover \in Nat /\ current \in Nat /\ Min(Logs[Ego]) \in Nat /\ Min(Logs[Ego]) < handover
      /\ Min(Logs[Ego]) <= current /\ EgoStarts(closed[Ego]) /\ HasAll(chart)
  BY TrafficConstants DEF TakeoverInv, TakeoverTypeOK, NetworkInv
<1>8. end \in Int /\ Min(Logs[Ego]) <= end
  BY <1>2, <1>7 DEF HistoryEnd
<1>9. /\ EgoStarts(track)
      /\ \A t \in Int : Min(Logs[Ego]) <= t /\ t <= q => At(track, t) # {}
      /\ \A t \in Int : t > q => At(track, t) = {}
  BY <1>2, <1>7, EgoMerged DEF TakeoverInv
<1>10. \A o \in Agents : before[o] = closed[o] /\ Spanned(closed[o]) /\ o \in Things /\ o # Ego
  BY <1>2, EgoAlone, TrafficAssumption DEF TakeoverInv, TakeoverTypeOK, Things
<1>11. closed'[Ego] = Merge(track, EgoFuture(track, end, q))
  BY <1>1 DEF AfterPrediction, Things
<1>12. ASSUME NEW o \in Agents
       PROVE  LET s == Simulated(o, before, current, q)
                  A == Answers(o, s, end, q)
              IN  response'[o] = A /\ closed'[o] = Merge(MergedSteps(before[o], s, end, q), A)
  BY <1>1, <1>10, <1>12 DEF Responses, AfterPrediction
<1> HIDE DEF before
<1>13. ASSUME NEW o \in Agents
       PROVE  LET s == Simulated(o, before, current, q)
                  A == Answers(o, s, end, q)
              IN  AgentMovedOn(before[o], Merge(MergedSteps(before[o], s, end, q), A), A, end, q, handover)
  BY <1>1, <1>2, <1>7, <1>10, PredictionMovesOn
<1> HIDE DEF end
<1>14. Asks(q) <=> q > end
  <2>1. PICK n \in Nat : ForecastFits(end, q, n)
    BY <1>2, <1>8, ForecastCovers
  <2> QED
    BY <1>2, <1>3, <1>8, <2>1 DEF ForecastFits
<1>15. EgoStarts(closed'[Ego])
  BY <1>2, <1>8, <1>9, <1>11, EgoFollows
<1>16. CASE Asks(q)
  <2>1. netInput' = ShownFor(before, q) /\ end < q
    BY <1>1, <1>2, <1>8, <1>14, <1>16
  <2>2. /\ \A x \in EgoShown(before, end, q) :
              /\ x.t \in Int /\ (x.t > q => x.from # "log")
              /\ x.from = "origin" => x.t < Min(Logs[Ego])
        /\ \E x \in EgoWindow(before, end) : x.t = end /\ x.from # "origin"
    BY <1>2, <1>8, <1>9, <2>1, EgoShownFits
  <2>3. EgoIsShown' /\ \A x \in netInput'.ego : x.t \in Int
    BY <1>4, <1>5, <2>1, <2>2 DEF EgoIsShown
  <2>4. MapIsShown'
    <3>1. PICK x \in EgoWindow(before, end) : x.t = end /\ x.from # "origin"
      BY <2>2
    <3>2. EgoPlace(x) = pace * end
      BY <3>1 DEF EgoPlace
    <3>3. Filtered(chart, pace * end) \subseteq netInput'.map
      BY <1>4, <2>1, <3>1, <3>2
    <3>4. ASSUME NEW class \in LayerClasses, Cardinality(OfClass(class)) <= MapLimits[class]
          PROVE  Filtered(OfClass(class), pace * end) \subseteq netInput'.map
      <4>1. OfClass(class) \subseteq chart
        BY <1>7, <3>4 DEF HasAll
      <4>2. Filtered(OfClass(class), pace * end) \subseteq Filtered(chart, pace * end)
        BY <4>1 DEF Filtered
      <4> QED
        BY <3>3, <4>2
    <3>5. netInput'.end = end /\ pace' = pace
      BY <1>4, <1>5, <2>1
    <3> QED
      BY <3>4, <3>5, MapStays DEF MapIsShown
  <2>5. DrawnIfSeen'
    <3> SUFFICES ASSUME NEW o \in Agents \ StaticAgents, response'[o] # {}, SessionClass(o) # "others",
                        Earliest(closed'[o]) + (MinValidSteps - 1) * Dt <= netInput'.end
                 PROVE  \A x \in response'[o] : x.from = "model"
      BY DEF DrawnIfSeen
    <3> DEFINE s == Simulated(o, before, current, q)
               A == Answers(o, s, end, q)
               F == {x \in s : x.t \in ForecastTimes(end, q)}
               T == before[o]
    <3>1. response'[o] = A /\ closed'[o] = Merge(Merge(T, F), A)
      BY <1>12 DEF MergedSteps, end
    <3>2. AgentMovedOn(T, closed'[o], A, end, q, handover)
      BY <1>12, <1>13, <3>1 DEF end
    <3>3. Spanned(T) /\ Dt \in Nat \ {0} /\ MinValidSteps \in Nat \ {0} /\ T = closed[o]
      BY <1>10, TrafficConstants, WindowAssumption
    <3>4. netInput'.end = end
      BY <1>4, <2>1
    <3> HIDE DEF s, A, T
    <3>5. Spanned(closed'[o]) /\ Spanned(A) /\ closed'[o] # {} /\ \A x \in A : x.t >= q
      BY <2>1, <3>1, <3>2 DEF AgentMovedOn
    <3>6. PICK first \in closed'[o] : first.t = Earliest(closed'[o])
      BY <3>5, FirstSample
    <3>7. first.t \in Int /\ first.t + (MinValidSteps - 1) * Dt <= end
      BY <3>4, <3>5, <3>6 DEF Spanned, Samples
    <3>8. first.t <= end
      <4>1. (MinValidSteps - 1) * Dt \in Nat
        <5>1. MinValidSteps - 1 \in Nat
          BY <3>3
        <5> QED
          BY <3>3, <5>1
      <4> QED
        BY <1>8, <3>7, <4>1
    <3>9. first \notin A
      BY <1>2, <1>8, <2>1, <3>5, <3>7, <3>8
    <3>10. first \notin F
      <4>1. PICK n \in Nat : ForecastTimes(end, q) = Grid(end, n)
        BY <1>2, <1>8, ForecastCovers DEF ForecastFits
      <4>2. \A t \in ForecastTimes(end, q) : t \in Int /\ end < t
        BY <1>8, <4>1, GridSpans
      <4> QED
        BY <1>8, <3>7, <3>8, <4>2
    <3> HIDE DEF F
    <3>11. first \in T
      BY <3>1, <3>6, <3>9, <3>10 DEF Merge
    <3>12. \A x \in A : x.from = "model"
      BY <1>2, <1>7, <2>1, <3>1, <3>3, <3>7, <3>11, SeenIsDrawn DEF A, s, T, end
    <3> QED
      BY <3>1, <3>12
  <2> QED
    BY <1>1, <1>2, <1>5, <1>7, <1>15, <2>3, <2>4, <2>5, MapStays DEF NetworkInv
<1>17. CASE ~Asks(q)
  <2>1. netInput' = netInput
    BY <1>1, <1>17
  <2>2. netInput.ego = {}
    <3> SUFFICES ASSUME netInput.ego # {} PROVE FALSE
      OBVIOUS
    <3>1. asked > handover
      BY DEF NetworkInv
    <3>2. current = asked /\ q > asked
      BY <1>2, <1>6, <1>7, <3>1 DEF TakeoverInv
    <3>3. end = current
      BY <1>2, <1>7, <3>1, <3>2 DEF end, HistoryEnd
    <3> QED
      BY <1>14, <1>17, <3>2, <3>3
  <2> QED
    BY <1>1, <1>2, <1>5, <1>7, <1>15, <2>1, <2>2, MapStays DEF NetworkInv
<1> QED
  BY <1>16, <1>17

LEMMA NetworkStep == TakeoverInv /\ NetworkInv /\ [ActorsNext]_<<trafficVars, actorVars>> => NetworkInv'
<1> SUFFICES ASSUME TakeoverInv, NetworkInv, [ActorsNext]_<<trafficVars, actorVars>>
             PROVE  NetworkInv'
  OBVIOUS
<1>1. CASE SessionOfService
  <2>1. ~skipped /\ UNCHANGED skipped /\ (StartTraffic \/ CloseTraffic \/ SimulateFails)
    BY <1>1 DEF SessionOfService, actorVars
  <2> QED
    BY <2>1, NetworkSession
<1>2. CASE AskTraffic
  <2>1. UNCHANGED skipped /\ (SkipTraffic \/ (~skipped /\ SimulateNext))
    BY <1>2 DEF AskTraffic
  <2>2. ASSUME ~skipped, SimulateNext PROVE NetworkInv'
    <3>1. /\ session /\ (Replay(NextQuery) \/ Predict(NextQuery))
          /\ current' = NextQuery /\ asked' = NextQuery /\ UNCHANGED <<session, handover, lead, step, pace>>
      BY <2>2 DEF SimulateNext, Simulate
    <3> QED
      BY <2>1, <2>2, <3>1, NetworkReplays, NetworkPredicts
  <2> QED
    BY <2>1, <2>2, NetworkSkipped
<1>3. CASE InitialStep \/ RunPhysics \/ RunStep \/ UNCHANGED <<trafficVars, actorVars>>
  <2>1. UNCHANGED trafficVars /\ UNCHANGED skipped
    BY <1>3 DEF InitialStep, RunPhysics, RunStep, actorVars
  <2> QED
    BY <2>1, NetworkUntouched DEF trafficVars
<1> QED
  BY <1>1, <1>2, <1>3 DEF ActorsNext

(* For any logs, map, grid and control step: the network is shown all of the *)
(* session's map near the ego that was not too much, never the ego's logged  *)
(* future or an origin in place of its pose, and draws every agent that was  *)
(* seen often enough.                                                        *)
THEOREM NetworkSees == ActorsSpec => []NetworkShown
<1>1. NetworkInv => NetworkShown
  BY DEF NetworkInv, NetworkShown
<1> QED
  BY ActorsStart, TakeoverStep, NetworkStart, NetworkStep, <1>1, PTL DEF ActorsSpec

(* A rest below the divisor is what division leaves.                         *)
LEMMA RestIs ==
  ASSUME NEW d \in Nat \ {0}, NEW a \in Int, a % d = 0, NEW r \in 0 .. d - 1
  PROVE  (a + r) % d = r
<1>1. PICK p \in Int : a = p * d
  BY Quotients
<1> DEFINE q == (a + r) \div d
           m == (a + r) % d
<1>2. q \in Int /\ m \in 0 .. d - 1 /\ a + r = d * q + m
  OBVIOUS
<1> HIDE DEF q, m
<1>3. d * q = q * d /\ q * d \in Int /\ p * d \in Int
  BY <1>1, <1>2
<1>4. q = p
  <2>1. CASE q < p
    <3>1. (q + 1) * d <= p * d /\ (q + 1) * d = q * d + d
      BY <1>1, <1>2, <2>1, MoreSteps
    <3> QED
      BY <1>1, <1>2, <1>3, <3>1
  <2>2. CASE p < q
    <3>1. (p + 1) * d <= q * d /\ (p + 1) * d = p * d + d
      BY <1>1, <1>2, <2>2, MoreSteps
    <3> QED
      BY <1>1, <1>2, <1>3, <3>1
  <2> QED
    BY <1>1, <1>2, <2>1, <2>2
<1>5. m = r
  BY <1>1, <1>2, <1>3, <1>4
<1> QED
  BY <1>5 DEF m

(* Interpolation takes the first sample that is not before the time.         *)
LEMMA FromNext ==
  ASSUME NEW S, Spanned(S), NEW t \in Int, NEW x \in At(S, t)
  PROVE  \E y \in S : y.t >= t /\ x.from = y.from /\ \A z \in S : z.t >= t => y.t <= z.t
<1> DEFINE later == {z.t : z \in {y \in S : y.t >= t}}
           next  == Min(later)
<1>1. At(S, t) = {[z EXCEPT !.t = t] : z \in {y \in S : y.t = next}}
  BY DEF At
<1>2. PICK y \in S : t <= y.t
  BY AtWithin
<1>3. /\ later \in SUBSET Int /\ y.t \in later /\ \A k \in later : t <= k
      /\ \A z \in S : z.t >= t => z.t \in later
  BY <1>2 DEF Spanned, Samples
<1> HIDE DEF later
<1>4. next \in later /\ \A k \in later : next <= k
  BY <1>3, LeastOfInts
<1>5. next >= t
  BY <1>3, <1>4
<1> HIDE DEF next
<1>6. PICK z \in S : z.t = next /\ x = [z EXCEPT !.t = t]
  BY <1>1
<1>7. z \in Samples
  BY DEF Spanned
<1>8. x.from = z.from
  BY <1>6, <1>7 DEF Samples
<1> QED
  BY <1>3, <1>4, <1>5, <1>6, <1>8

(* A pose that was held comes within a step of the grid after one that is on *)
(* the grid of a time.                                                       *)
HeldFits(S, then) ==
  \A x \in S : x.from = "held" => \E y \in S : y.t < x.t /\ x.t < y.t + Dt /\ (then - y.t) % Dt = 0

(* From the first query on, the ego is where the runtime said.               *)
SaidSince(S) == \A x \in S : x.t >= FirstQuery => x.from \in {"ego", "held"}

(* So the grid of that time never meets what was held.                       *)
LEMMA NoneHeld ==
  ASSUME NEW S, Spanned(S), NEW then \in Int, HeldFits(S, then), SaidSince(S), FirstQuery \in Int,
         NEW t \in Int, (then - t) % Dt = 0, NEW x \in At(S, t)
  PROVE  x.from # "held" /\ (x.t >= FirstQuery => x.from = "ego")
<1>0. Dt \in Nat \ {0}
  BY TrafficConstants
<1>1. PICK y \in S : y.t >= t /\ x.from = y.from /\ \A z \in S : z.t >= t => y.t <= z.t
  BY FromNext
<1>2. x.t = t /\ \A z \in S : z.t \in Int
  BY InterpolatedAt DEF Spanned, Samples
<1>3. y.from # "held"
  <2> SUFFICES ASSUME y.from = "held" PROVE FALSE
    OBVIOUS
  <2>1. PICK z \in S : z.t < y.t /\ y.t < z.t + Dt /\ (then - z.t) % Dt = 0
    BY DEF HeldFits
  <2>2. z.t < t
    BY <1>1, <1>2, <2>1
  <2> DEFINE a == then - z.t
             b == then - t
             c == t - z.t
  <2>3. a \in Int /\ b \in Int /\ c \in Int /\ a = b + c /\ b % Dt = 0 /\ a % Dt = 0 /\ 0 < c
    BY <1>2, <2>1, <2>2
  <2>4. c < Dt
    BY <1>0, <1>1, <1>2, <2>1
  <2> HIDE DEF a, b, c
  <2>5. c % Dt = 0
    BY <1>0, <2>3, Multiples
  <2> QED
    BY <1>0, <2>3, <2>4, <2>5, MultiplesApart
<1>4. x.t >= FirstQuery => y.from \in {"ego", "held"}
  BY <1>1, <1>2 DEF SaidSince
<1> QED
  BY <1>1, <1>3, <1>4

(* The ego's pose at a query drops what was at the query or after it.        *)
EgoUpTo(S, old, query) ==
  /\ Spanned(S) /\ [t |-> query, from |-> "ego"] \in S
  /\ \A x \in S : x = [t |-> query, from |-> "ego"] \/ (x \in old /\ x.t < query)
  /\ \A x \in old : x.t < query => x \in S

LEMMA EgoPosed ==
  ASSUME TakeoverTypeOK, Spanned(closed[Ego]), NEW query \in Int
  PROVE  EgoUpTo(WithEgo(closed, query)[Ego], closed[Ego], query)
<1> DEFINE pose == [t |-> query, from |-> "ego"]
           S == WithEgo(closed, query)[Ego]
           old == closed[Ego]
           new == {pose}
<1>1. Ego \in Things /\ closed \in [Things -> SUBSET Samples]
  BY DEF Things, TakeoverTypeOK
<1>2. S = Merge(old, new)
  BY <1>1 DEF WithEgo
<1>3. Spanned(new) /\ pose.t = query
  BY DEF Spanned, Samples, Sources
<1> HIDE DEF S, old, pose
<1>4. Spanned(old) /\ (\A y \in new : y = pose) /\ pose \in new
  BY DEF old
<1> HIDE DEF new
<1>5. /\ Spanned(Merge(old, new)) /\ new \subseteq Merge(old, new)
      /\ \A x \in Merge(old, new) : x \in new \/ (x \in old /\ \A y \in new : x.t < y.t)
      /\ \A x \in old : (\A y \in new : x.t < y.t) => x \in Merge(old, new)
  BY <1>3, <1>4, MergeKeeps
<1>6. /\ Spanned(S) /\ pose \in S
      /\ \A x \in S : x = pose \/ (x \in old /\ x.t < query)
      /\ \A x \in old : x.t < query => x \in S
  BY <1>2, <1>3, <1>4, <1>5
<1> QED
  BY <1>6 DEF EgoUpTo, pose, S, old

(* A multiple of the grid later, what was held is where it was on it.        *)
LEMMA HeldPosed ==
  ASSUME NEW S, NEW old, Spanned(old), NEW query \in Int, EgoUpTo(S, old, query),
         NEW then \in Int, HeldFits(old, then), (query - then) % Dt = 0,
         FirstQuery \in Int, SaidSince(old)
  PROVE  HeldFits(S, query) /\ SaidSince(S)
<1>0. Dt \in Nat \ {0}
  BY TrafficConstants
<1>1. SaidSince(S)
  BY DEF EgoUpTo, SaidSince
<1>2. ASSUME NEW x \in S, x.from = "held"
      PROVE  \E y \in S : y.t < x.t /\ x.t < y.t + Dt /\ (query - y.t) % Dt = 0
  <2>1. x \in old /\ x.t < query
    BY <1>2 DEF EgoUpTo
  <2>2. PICK y \in old : y.t < x.t /\ x.t < y.t + Dt /\ (then - y.t) % Dt = 0
    BY <1>2, <2>1 DEF HeldFits
  <2>3. y.t \in Int /\ x.t \in Int
    BY <2>1 DEF Spanned, Samples
  <2>4. y \in S
    BY <2>1, <2>2, <2>3 DEF EgoUpTo
  <2> DEFINE a == query - y.t
             b == query - then
             c == then - y.t
  <2>5. a \in Int /\ b \in Int /\ c \in Int /\ a = b + c /\ b % Dt = 0 /\ c % Dt = 0
    BY <2>2, <2>3
  <2> HIDE DEF a, b, c
  <2>6. a % Dt = 0
    BY <1>0, <2>5, Multiples
  <2> QED
    BY <2>2, <2>4, <2>6 DEF a
<1> QED
  BY <1>1, <1>2 DEF HeldFits

(* Before the first query nothing was held and all of the log is before it.  *)
LEMMA FirstPosed ==
  ASSUME NEW S, NEW old, EgoUpTo(S, old, FirstQuery), FirstQuery \in Int,
         \A x \in old : x.from = "log" /\ x.t \in Int
  PROVE  HeldFits(S, FirstQuery) /\ SaidSince(S)
<1>1. \A x \in S : x.from # "held" /\ (x.t >= FirstQuery => x.from = "ego")
  BY DEF EgoUpTo
<1> QED
  BY <1>1 DEF HeldFits, SaidSince

(* Rounding up to whole steps adds less than one.                            *)
LEMMA RoundedTight ==
  ASSUME NEW a \in Nat, NEW d \in Nat \ {0}
  PROVE  ((a + d - 1) \div d) * d < a + d
<1> DEFINE q == (a + d - 1) \div d
           r == (a + d - 1) % d
<1>1. q \in Int /\ r \in 0 .. d - 1 /\ a + d - 1 = d * q + r
  OBVIOUS
<1> HIDE DEF q, r
<1>2. d * q = q * d /\ q * d \in Int
  BY <1>1
<1> QED
  BY <1>1, <1>2 DEF q

(* A window ends a whole number of steps before a query, or less than one.   *)
EndsOnGrid(end, query) == query - end < Dt \/ (query - end) % Dt = 0

(* The steps that cover a query go past it only if it is within the first.   *)
LEMMA FutureFits ==
  ASSUME NEW end \in Int, NEW query \in Int, end < query, EndsOnGrid(end, query), NEW t \in FutureTimes(end, query)
  PROVE  t \in Int /\ end + Dt <= t /\ (t > query => t < query + Dt /\ query < end + Dt)
<1> DEFINE a == query - end
           m == (a + Dt - 1) \div Dt
<1>0. Dt \in Nat \ {0}
  BY TrafficConstants
<1>1. a \in Nat /\ ~(query <= end)
  OBVIOUS
<1>2. FutureTimes(end, query) = {end + k * Dt : k \in 1 .. m}
  BY <1>1 DEF FutureTimes
<1> HIDE DEF a
<1>3. m \in Nat /\ m * Dt < a + Dt
  BY <1>0, <1>1, RoundedUp, RoundedTight
<1> HIDE DEF m
<1>4. PICK k \in 1 .. m : t = end + k * Dt
  BY <1>2
<1>5. k \in Int /\ m \in Int /\ 1 <= k /\ k <= m
  BY <1>3
<1>6. k * Dt \in Int /\ m * Dt \in Int /\ 1 * Dt <= k * Dt /\ k * Dt <= m * Dt
  BY <1>0, <1>5, MoreSteps
<1>7. t \in Int /\ end + Dt <= t /\ t < query + Dt
  BY <1>0, <1>3, <1>4, <1>6 DEF a
<1>8. ASSUME t > query PROVE query < end + Dt
  <2>1. CASE query - end < Dt
    BY <1>0, <2>1
  <2>2. CASE (query - end) % Dt = 0
    <3> DEFINE b == k * Dt
               c == b - a
    <3>1. b % Dt = 0 /\ b \in Int
      BY <1>0, <1>5, <1>6, Quotients
    <3>2. a % Dt = 0 /\ a \in Int
      BY <2>2 DEF a
    <3>3. c \in Int /\ b = a + c /\ 0 < c /\ c < Dt
      BY <1>0, <1>4, <1>6, <1>7, <1>8, <3>2 DEF a
    <3> HIDE DEF b, c
    <3>4. c % Dt = 0
      BY <1>0, <3>1, <3>2, <3>3, Multiples
    <3> QED
      BY <1>0, <3>3, <3>4, MultiplesApart
  <2> QED
    BY <2>1, <2>2 DEF EndsOnGrid
<1> QED
  BY <1>7, <1>8

(* With the steps of the ego after the window merged, this stays so.         *)
LEMMA HeldFollows ==
  ASSUME NEW S, NEW old, NEW end \in Int, NEW query \in Int, EgoUpTo(S, old, query),
         \A t \in Int : t > query => At(S, t) = {},
         end < query => EndsOnGrid(end, query),
         FirstQuery \in Int, HeldFits(S, query), SaidSince(S)
  PROVE  LET M == Merge(S, EgoFuture(S, end, query)) IN HeldFits(M, query) /\ SaidSince(M)
<1> DEFINE F == EgoFuture(S, end, query)
           M == Merge(S, F)
           pose == [t |-> query, from |-> "ego"]
<1>0. Dt \in Nat \ {0} /\ Spanned(S)
  BY TrafficConstants DEF EgoUpTo
<1>1. CASE query <= end
  <2>1. FutureTimes(end, query) = {}
    BY <1>1, ForecastCovers DEF ForecastFits
  <2>2. F = {}
    BY <2>1 DEF EgoFuture
  <2>3. M = S
    BY <2>2 DEF Merge
  <2> QED
    BY <2>3
<1>2. CASE end < query
  <2>1. ASSUME NEW x \in F
        PROVE  /\ x \in Samples /\ end + Dt <= x.t /\ x.t <= query + Dt
               /\ x.from = IF x.t <= query THEN "ego" ELSE "held"
               /\ x.t > query => x.t < query + Dt /\ query < end + Dt
    <3>1. PICK t \in FutureTimes(end, query) :
            x = [t |-> t, from |-> IF t <= query THEN "ego" ELSE IF At(S, t) # {} THEN "log" ELSE "held"]
      BY DEF EgoFuture
    <3>2. t \in Int /\ end + Dt <= t /\ (t > query => t < query + Dt /\ query < end + Dt)
      BY <1>2, FutureFits
    <3>3. t > query => At(S, t) = {}
      BY <3>2
    <3>4. x = [t |-> t, from |-> IF t <= query THEN "ego" ELSE "held"]
      BY <3>1, <3>2, <3>3
    <3>5. x.t = t /\ x.from = IF t <= query THEN "ego" ELSE "held"
      BY <3>4
    <3>6. x \in Samples
      BY <3>2, <3>4 DEF Samples, Sources
    <3> QED
      BY <1>0, <3>2, <3>5, <3>6
  <2> HIDE DEF F
  <2>2. Spanned(F)
    <3>1. end + Dt \in Int /\ query + Dt \in Int
      BY <1>0
    <3> QED
      BY <2>1, <3>1 DEF Spanned
  <2>3. /\ F \subseteq M
        /\ \A x \in M : x \in F \/ (x \in S /\ \A y \in F : x.t < y.t)
        /\ \A x \in S : (\A y \in F : x.t < y.t) => x \in M
    BY <1>0, <2>2, MergeKeeps
  <2>4. \A x \in S \cup F : x.t \in Int
    BY <1>0, <2>2 DEF Spanned, Samples
  <2> HIDE DEF M
  <2>5. SaidSince(M)
    BY <2>1, <2>3 DEF SaidSince
  <2>6. ASSUME NEW x \in M, x.from = "held"
        PROVE  \E y \in M : y.t < x.t /\ x.t < y.t + Dt /\ (query - y.t) % Dt = 0
    <3>1. CASE x \in F
      <4>1. x.t > query /\ x.t < query + Dt /\ query < end + Dt
        BY <2>1, <2>4, <2>6, <3>1
      <4>2. pose \in S /\ pose.t = query
        BY DEF EgoUpTo
      <4> HIDE DEF pose
      <4>3. pose \in M
        BY <1>0, <2>1, <2>3, <2>4, <4>1, <4>2
      <4>4. (query - pose.t) % Dt = 0
        <5>1. query - pose.t = 0
          BY <4>2
        <5> QED
          BY <1>0, <5>1, TrivialMultiples
      <4> QED
        BY <4>1, <4>2, <4>3, <4>4
    <3>2. CASE x \in S /\ \A y \in F : x.t < y.t
      <4>1. PICK y \in S : y.t < x.t /\ x.t < y.t + Dt /\ (query - y.t) % Dt = 0
        BY <2>6, <3>2 DEF HeldFits
      <4>2. \A z \in F : y.t < z.t
        BY <2>4, <3>2, <4>1
      <4> QED
        BY <2>3, <4>1, <4>2
    <3> QED
      BY <2>3, <3>1, <3>2
  <2> QED
    BY <2>5, <2>6 DEF HeldFits, M, F
<1> QED
  BY <1>1, <1>2

(* Where the queries and the grid fall together: of what is held in the ego's *)
(* track each pose comes right after one on the grid of the last query, and   *)
(* from the first query on there is only what the runtime said beside it.     *)
GridInv ==
  /\ asked > 0 => asked >= FirstQuery /\ (asked - FirstQuery) % step = 0
  /\ session /\ ~failed =>
       /\ asked = 0 => current = InitialTime /\ closed[Ego] = Logged[Ego]
       /\ asked > 0 /\ QueriesOnGrid => HeldFits(closed[Ego], asked) /\ SaidSince(closed[Ego])

LEMMA FirstQueryIs ==
  ASSUME TakeoverInv
  PROVE  FirstQuery \in Nat /\ FirstQuery > 0 /\ NextQuery = IF asked = 0 THEN FirstQuery ELSE asked + step
BY TrafficConstants DEF FirstQuery, NextQuery, TakeoverInv, TakeoverTypeOK

(* Every query is whole steps after the first.                               *)
LEMMA QueriesInSteps ==
  ASSUME TakeoverInv, GridInv
  PROVE  NextQuery \in Nat /\ NextQuery > 0 /\ NextQuery >= FirstQuery /\ (NextQuery - FirstQuery) % step = 0
<1>1. step \in Nat \ {0} /\ asked \in Nat /\ FirstQuery \in Nat /\ FirstQuery > 0
  BY FirstQueryIs DEF TakeoverInv, TakeoverTypeOK
<1>2. CASE asked = 0
  <2>1. NextQuery = FirstQuery /\ NextQuery - FirstQuery = 0
    BY <1>1, <1>2, FirstQueryIs
  <2> QED
    BY <1>1, <2>1, TrivialMultiples
<1>3. CASE asked # 0
  <2>1. NextQuery = asked + step /\ asked >= FirstQuery /\ (asked - FirstQuery) % step = 0
    BY <1>1, <1>3, FirstQueryIs DEF GridInv
  <2>2. (asked + step - FirstQuery) % step = 0
    BY <1>1, <2>1, NextStepEnds
  <2> QED
    BY <1>1, <2>1, <2>2
<1> QED
  BY <1>2, <1>3

(* The window of a query past the handover ends on the grid of the query.    *)
LEMMA WindowOnGrid ==
  ASSUME TakeoverInv, GridInv, session, ~skipped, ~failed, QueriesOnGrid,
         HistoryEnd(current, NextQuery) < NextQuery
  PROVE  EndsOnGrid(HistoryEnd(current, NextQuery), NextQuery)
<1> DEFINE q == NextQuery
           end == HistoryEnd(current, q)
           F == FirstQuery
<1>1. /\ step \in Nat \ {0} /\ asked \in Nat /\ F \in Nat /\ current \in Nat /\ handover \in Nat
      /\ q = (IF asked = 0 THEN F ELSE asked + step) /\ InitialTime \in Nat /\ Dt \in Nat \ {0}
  BY FirstQueryIs, TrafficConstants DEF TakeoverInv, TakeoverTypeOK
<1>2. /\ step % Dt = 0 /\ (F > InitialTime => OnGrid(InitialTime))
      /\ handover > InitialTime \/ handover > F => OnGrid(handover)
  BY DEF QueriesOnGrid
<1>3. end = (IF current < handover /\ handover < q THEN handover ELSE current)
  BY DEF HistoryEnd
<1>4. ASSUME NEW e \in Nat, OnGrid(e), ToQuery(e) = q - e PROVE EndsOnGrid(e, q)
  BY <1>4 DEF OnGrid, EndsOnGrid
<1>5. asked = 0 => current = InitialTime
  BY DEF GridInv
<1>6. asked # 0 => asked >= F /\ (asked - F) % step = 0 /\ current = asked
  BY <1>1 DEF GridInv, TakeoverInv
<1> HIDE DEF q, F
<1>7. CASE asked = 0
  <2>1. end \in Nat /\ end < F /\ OnGrid(end) /\ q = F
    BY <1>1, <1>2, <1>3, <1>5, <1>7 DEF q
  <2> HIDE DEF end
  <2>2. ToQuery(end) = q - end
    BY <1>1, <2>1 DEF ToQuery, F
  <2> QED
    BY <1>4, <2>1, <2>2 DEF end, q
<1>8. CASE asked # 0
  <2>1. CASE current < handover /\ handover < q
    <3>1. end = handover /\ q = asked + step /\ F < handover /\ OnGrid(handover) /\ current = asked
      BY <1>1, <1>2, <1>3, <1>6, <1>8, <2>1
    <3> DEFINE a == asked - F
               r == handover - asked
    <3>2. a \in Int /\ a % step = 0 /\ r \in 0 .. step - 1 /\ handover - F = a + r
      BY <1>1, <1>6, <1>8, <2>1, <3>1
    <3> HIDE DEF a, r
    <3>3. (a + r) % step = r
      BY <1>1, <3>2, RestIs
    <3>4. ToQuery(handover) = step - ((handover - F) % step)
      BY <1>1, <3>1 DEF ToQuery, F
    <3>5. ToQuery(handover) = step - r
      BY <3>2, <3>3, <3>4
    <3>6. ToQuery(handover) = q - handover
      BY <1>1, <3>1, <3>5 DEF r
    <3> QED
      BY <1>1, <1>4, <3>1, <3>6 DEF end, q
  <2>2. CASE ~(current < handover /\ handover < q)
    <3>1. end = asked /\ q = asked + step
      BY <1>1, <1>3, <1>6, <1>8, <2>2
    <3>2. q - end = step
      BY <1>1, <3>1
    <3> QED
      BY <1>2, <3>2 DEF EndsOnGrid, end, q
  <2> QED
    BY <2>1, <2>2
<1> QED
  BY <1>7, <1>8

(* With the ego's pose at a query merged, its track is as it is to be.       *)
LEMMA GridPosed ==
  ASSUME TakeoverInv, NetworkInv, GridInv, session, ~skipped, ~failed, QueriesOnGrid
  PROVE  LET S == WithEgo(closed, NextQuery)[Ego]
         IN  EgoUpTo(S, closed[Ego], NextQuery) /\ HeldFits(S, NextQuery) /\ SaidSince(S)
<1> DEFINE q == NextQuery
           S == WithEgo(closed, q)[Ego]
           old == closed[Ego]
<1>1. /\ step \in Nat \ {0} /\ asked \in Nat /\ FirstQuery \in Nat /\ q \in Nat
      /\ q = IF asked = 0 THEN FirstQuery ELSE asked + step
  BY FirstQueryIs, QueriesInSteps DEF TakeoverInv, TakeoverTypeOK
<1> HIDE DEF q
<1>2. Spanned(old)
  BY DEF NetworkInv, EgoStarts
<1>3. EgoUpTo(S, old, q)
  BY <1>1, <1>2, EgoPosed DEF TakeoverInv
<1>4. CASE asked = 0
  <2>1. old = Logged[Ego] /\ q = FirstQuery
    BY <1>1, <1>4 DEF GridInv
  <2>2. \A x \in old : x.from = "log"
    BY <2>1 DEF Logged, Things
  <2> HIDE DEF S, old
  <2>3. \A x \in old : x.t \in Int
    BY <1>2 DEF Spanned, Samples
  <2> QED
    BY <1>1, <1>3, <2>1, <2>2, <2>3, FirstPosed DEF S, old, q
<1>5. CASE asked # 0
  <2>1. HeldFits(old, asked) /\ SaidSince(old) /\ step % Dt = 0
    BY <1>1, <1>5 DEF GridInv, QueriesOnGrid
  <2> HIDE DEF S, old
  <2>2. q - asked = step
    BY <1>1, <1>5
  <2>3. HeldFits(S, q) /\ SaidSince(S)
    BY <1>1, <1>2, <1>3, <2>1, <2>2, HeldPosed
  <2> QED
    BY <1>3, <2>3 DEF S, old, q
<1> QED
  BY <1>4, <1>5

LEMMA GridStart == ActorsInit => GridInv
BY DEF ActorsInit, TrafficInit, GridInv

(* After an answer of the service.                                           *)
LEMMA GridAnswered ==
  ASSUME TakeoverInv, NetworkInv, GridInv, session, ~skipped, ~failed, Replay(NextQuery) \/ Predict(NextQuery),
         current' = NextQuery, asked' = NextQuery, UNCHANGED <<session, handover, lead, step, failed>>
  PROVE  GridInv'
<1> DEFINE q == NextQuery
           S == WithEgo(closed, q)[Ego]
           end == HistoryEnd(current, q)
<1>1. /\ q \in Nat /\ q > 0 /\ q >= FirstQuery /\ (q - FirstQuery) % step = 0 /\ FirstQuery \in Nat
      /\ handover \in Nat /\ current \in Nat
  BY QueriesInSteps, FirstQueryIs DEF TakeoverInv, TakeoverTypeOK
<1>2. FirstQuery' = FirstQuery /\ QueriesOnGrid' = QueriesOnGrid
  BY DEF FirstQuery, QueriesOnGrid, OnGrid, ToQuery
<1>3. asked' >= FirstQuery' /\ (asked' - FirstQuery') % step' = 0 /\ asked' # 0
  BY <1>1, <1>2
<1>4. ASSUME QueriesOnGrid PROVE HeldFits(closed'[Ego], q) /\ SaidSince(closed'[Ego])
  <2>1. EgoUpTo(S, closed[Ego], q) /\ HeldFits(S, q) /\ SaidSince(S)
    BY <1>4, GridPosed
  <2>2. CASE Replay(q)
    <3>1. closed'[Ego] = S
      BY <2>2 DEF Replay
    <3> QED
      BY <2>1, <3>1
  <2>3. CASE Predict(q)
    <3>1. closed'[Ego] = Merge(S, EgoFuture(S, end, q))
      BY <2>3 DEF Predict, AfterPrediction, Things
    <3>2. end < q => EndsOnGrid(end, q)
      BY <1>4, WindowOnGrid
    <3>3. \A t \in Int : t > q => At(S, t) = {}
      <4>1. EgoStarts(closed[Ego]) /\ Min(Logs[Ego]) < q
        BY DEF NetworkInv
      <4> QED
        BY <1>1, <4>1, EgoMerged DEF TakeoverInv
    <3>4. end \in Int
      BY <1>1 DEF HistoryEnd
    <3> HIDE DEF S, end, q
    <3> QED
      BY <1>1, <2>1, <3>1, <3>2, <3>3, <3>4, HeldFollows
  <2> QED
    BY <2>2, <2>3
<1>5. SaidSince(closed'[Ego]) => SaidSince(closed[Ego])'
  BY <1>2 DEF SaidSince
<1>6. HeldFits(closed'[Ego], q) => HeldFits(closed[Ego], asked)'
  BY DEF HeldFits
<1> QED
  BY <1>2, <1>3, <1>4, <1>5, <1>6 DEF GridInv

LEMMA GridStep == TakeoverInv /\ NetworkInv /\ GridInv /\ [ActorsNext]_<<trafficVars, actorVars>> => GridInv'
<1> SUFFICES ASSUME TakeoverInv, NetworkInv, GridInv, [ActorsNext]_<<trafficVars, actorVars>>
             PROVE  GridInv'
  OBVIOUS
<1>1. ASSUME UNCHANGED <<handover, lead, step>>
      PROVE  /\ FirstQuery' = FirstQuery /\ QueriesOnGrid' = QueriesOnGrid
             /\ UNCHANGED closed => SaidSince(closed[Ego])' = SaidSince(closed[Ego])
  <2>1. FirstQuery' = FirstQuery /\ QueriesOnGrid' = QueriesOnGrid
    BY <1>1 DEF FirstQuery, QueriesOnGrid, OnGrid, ToQuery
  <2> QED
    BY <2>1 DEF SaidSince
<1>2. CASE UNCHANGED trafficVars
  <2>1. UNCHANGED <<session, handover, lead, step, current, closed, asked, failed>>
    BY <1>2 DEF trafficVars
  <2>2. HeldFits(closed[Ego], asked)' = HeldFits(closed[Ego], asked)
    BY <2>1 DEF HeldFits
  <2> QED
    BY <1>1, <2>1, <2>2 DEF GridInv
<1>3. CASE SessionOfService
  <2>1. UNCHANGED <<handover, lead, step, asked>> /\ (StartTraffic \/ CloseTraffic \/ SimulateFails)
    BY <1>3 DEF SessionOfService, StartTraffic, CloseTraffic, SimulateFails
  <2>2. asked' > 0 => asked' >= FirstQuery' /\ (asked' - FirstQuery') % step' = 0
    BY <1>1, <2>1 DEF GridInv
  <2>3. CASE StartTraffic
    BY <2>2, <2>3 DEF StartTraffic, GridInv
  <2>4. CASE CloseTraffic \/ SimulateFails
    BY <2>2, <2>4 DEF CloseTraffic, SimulateFails, GridInv
  <2> QED
    BY <2>1, <2>3, <2>4
<1>4. CASE AskTraffic
  <2>1. CASE SkipTraffic
    <3>1. asked' = NextQuery /\ ~session /\ UNCHANGED <<session, handover, lead, step>>
      BY <2>1 DEF SkipTraffic, TakeoverInv
    <3> QED
      BY <1>1, <3>1, QueriesInSteps DEF GridInv
  <2>2. CASE ~skipped /\ SimulateNext
    <3>1. /\ session /\ ~failed /\ (Replay(NextQuery) \/ Predict(NextQuery))
          /\ current' = NextQuery /\ asked' = NextQuery /\ UNCHANGED <<session, handover, lead, step, failed>>
      BY <2>2 DEF SimulateNext, Simulate
    <3> QED
      BY <2>2, <3>1, GridAnswered
  <2> QED
    BY <1>4, <2>1, <2>2 DEF AskTraffic
<1>5. CASE InitialStep \/ RunPhysics \/ RunStep
  <2>1. UNCHANGED trafficVars
    BY <1>5 DEF InitialStep, RunPhysics, RunStep
  <2> QED
    BY <1>2, <2>1
<1>6. CASE UNCHANGED <<trafficVars, actorVars>>
  BY <1>2, <1>6
<1> QED
  BY <1>3, <1>4, <1>5, <1>6 DEF ActorsNext

(* For any logs, map, grid, control step and handover, what TrafficConsistent *)
(* says of the traffic service: with what the network is shown (NetworkSees), *)
(* where the queries fall on the grid of the windows no pose of the ego that  *)
(* was held is in a window, nor from the first query on any but the runtime's.*)
THEOREM TrafficStaysConsistent == ActorsSpec => []TrafficConsistent
<1>1. TakeoverInv /\ NetworkInv /\ GridInv => TrafficConsistent
  <2> SUFFICES ASSUME TakeoverInv, NetworkInv, GridInv PROVE TrafficConsistent
    OBVIOUS
  <2>1. NetworkShown
    BY DEF NetworkInv, NetworkShown
  <2>2. ASSUME session, asked > 0, QueriesOnGrid, ~failed, NEW x \in Window(closed, current)[Ego]
        PROVE  x.from # "held" /\ (x.t >= FirstQuery => x.from = "ego")
    <3>1. Ego \in Things /\ Ego \notin StaticAgents
      BY TrafficAssumption DEF Things
    <3>2. current = asked /\ asked \in Nat /\ FirstQuery \in Nat /\ asked # 0
      BY <2>2, FirstQueryIs DEF TakeoverInv, TakeoverTypeOK
    <3>3. HeldFits(closed[Ego], asked) /\ SaidSince(closed[Ego])
      BY <2>2 DEF GridInv
    <3>4. Spanned(closed[Ego])
      BY <2>2 DEF NetworkInv, EgoStarts
    <3>5. PICK k \in 0 .. HistorySteps - 1 : x \in At(closed[Ego], current - k * Dt)
      BY <2>2, <3>1 DEF Window
    <3> DEFINE t == current - k * Dt
    <3>6. Dt \in Nat \ {0} /\ k \in Int /\ k * Dt \in Int
      BY TrafficConstants
    <3>7. t \in Int /\ asked - t = k * Dt
      BY <3>2, <3>6
    <3>8. (asked - t) % Dt = 0
      BY <3>6, <3>7, Quotients
    <3> HIDE DEF t
    <3>9. x \in At(closed[Ego], t)
      BY <3>5 DEF t
    <3> QED
      BY <3>2, <3>3, <3>4, <3>7, <3>8, <3>9, NoneHeld
  <2> QED
    BY <2>1, <2>2 DEF TrafficConsistent
<1> QED
  BY ActorsStart, TakeoverStep, NetworkStart, NetworkStep, GridStart, GridStep, <1>1, PTL DEF ActorsSpec
-----------------------------------------------------------------------------
(* The runtime's tracks and the log (ActorTracks)                            *)

(* The tracks reach this time, and the step that is due begins there.        *)
CommittedUntil == (IF due \in {"initial", "traffic"} THEN NextQuery ELSE asked) - step

(* What is accumulated is for the end of the step that is due.               *)
ActorsFit ==
  /\ due \in {"initial", "traffic", "physics", "step"}
  /\ due = "initial" => asked = 0
  /\ due \in {"physics", "step"} => asked > 0
  /\ accumulated \in [Agents -> SUBSET Samples]
  /\ \A o \in Agents : \A x \in accumulated[o] : due = "step" /\ x.t = asked

(* No track goes past what is committed, and the ego's covers all of it.     *)
TracksFit ==
  /\ CommittedUntil \in Int /\ Min(Logs[Ego]) <= CommittedUntil
  /\ tracks \in [Things -> SUBSET Samples]
  /\ \A o \in Things : \A x \in tracks[o] : Min(Logs[Ego]) <= x.t /\ x.t <= CommittedUntil
  /\ \E x \in tracks[Ego] : x.t = Min(Logs[Ego])
  /\ \E x \in tracks[Ego] : x.t = CommittedUntil
  /\ loggedTimes \in SUBSET (Min(Logs[Ego]) .. CommittedUntil)

TracksInv == ActorsFit /\ TracksFit /\ CommitsSucceed /\ LogIsKept /\ NobodyAppears(Ego)

(* What is cut from a recording is within the range, and up to its ends if   *)
(* they were recorded.                                                       *)
LEMMA ClippedFits ==
  ASSUME NEW S, Spanned(S), NEW a \in Int, NEW b \in Int, a < b
  PROVE  /\ ClippedTo(S, a, b) \in SUBSET Samples
         /\ \A x \in ClippedTo(S, a, b) : a <= x.t /\ x.t < b
         /\ (\E y \in S : y.t = a) /\ (\E z \in S : b <= z.t) =>
              (\E x \in ClippedTo(S, a, b) : x.t = a) /\ (\E x \in ClippedTo(S, a, b) : x.t = b - 1)
<1>1. CASE S = {} \/ Earliest(S) >= b \/ Latest(S) < a
  <2>1. ClippedTo(S, a, b) = {}
    BY <1>1 DEF ClippedTo
  <2>2. ASSUME NEW y \in S, y.t = a, NEW z \in S, b <= z.t PROVE FALSE
    <3>1. Earliest(S) \in Int /\ Latest(S) \in Int /\ Earliest(S) <= a /\ z.t <= Latest(S) /\ z.t \in Int
      BY <2>2, FirstSample, LastSample DEF Spanned, Samples
    <3> QED
      BY <1>1, <2>2, <3>1
  <2> QED
    BY <2>1, <2>2
<1>2. CASE ~(S = {} \/ Earliest(S) >= b \/ Latest(S) < a)
  <2>1. PICK e, l \in Int : e = Earliest(S) /\ l = Latest(S)
    BY <1>2, FirstSample, LastSample
  <2>2. e < b /\ a <= l
    BY <1>2, <2>1
  <2>3. PICK first : first = Max({a, e})
    OBVIOUS
  <2>4. PICK last : last = Min({b - 1, l})
    OBVIOUS
  <2>5. first \in {a, e} /\ a <= first /\ e <= first
    <3>1. {a, e} \in SUBSET Int /\ {a, e} # {} /\ \E hi \in Int : \A x \in {a, e} : x <= hi
      <4>1. a <= a /\ e <= e /\ (a <= e \/ e <= a)
        OBVIOUS
      <4> QED
        BY <4>1
    <3>2. Max({a, e}) \in {a, e} /\ \A x \in {a, e} : x <= Max({a, e})
      BY <3>1, GreatestOfInts
    <3> QED
      BY <2>3, <3>2
  <2>6. last \in {b - 1, l} /\ last <= b - 1 /\ last <= l
    <3>1. {b - 1, l} \in SUBSET Int /\ {b - 1, l} # {} /\ \E lo \in Int : \A x \in {b - 1, l} : lo <= x
      <4>1. b - 1 \in Int /\ b - 1 <= b - 1 /\ l <= l /\ (b - 1 <= l \/ l <= b - 1)
        OBVIOUS
      <4> QED
        BY <4>1
    <3>2. Min({b - 1, l}) \in {b - 1, l} /\ \A x \in {b - 1, l} : Min({b - 1, l}) <= x
      BY <3>1, LeastOfInts
    <3> QED
      BY <2>4, <3>2
  <2>7. first \in Int /\ last \in Int /\ a <= first /\ first < b /\ a <= last /\ last < b
    BY <2>2, <2>5, <2>6
  <2> DEFINE mid == {x \in S : first < x.t /\ x.t < last}
  <2>8. ClippedTo(S, a, b) = At(S, first) \cup mid \cup At(S, last)
    BY <1>2, <2>1, <2>3, <2>4 DEF ClippedTo
  <2>9. mid \in SUBSET Samples /\ \A x \in mid : x.t \in Int /\ first < x.t /\ x.t < last
    BY DEF Spanned, Samples
  <2> HIDE DEF mid
  <2>10. /\ At(S, first) \in SUBSET Samples /\ \A x \in At(S, first) : x.t = first
         /\ At(S, last) \in SUBSET Samples /\ \A x \in At(S, last) : x.t = last
    BY <2>7, InterpolatedAt
  <2>11. ClippedTo(S, a, b) \in SUBSET Samples
    BY <2>8, <2>9, <2>10
  <2>12. \A x \in ClippedTo(S, a, b) : a <= x.t /\ x.t < b
    BY <2>7, <2>8, <2>9, <2>10
  <2>13. ASSUME NEW y \in S, y.t = a, NEW z \in S, b <= z.t
         PROVE  (\E x \in ClippedTo(S, a, b) : x.t = a) /\ (\E x \in ClippedTo(S, a, b) : x.t = b - 1)
    <3>1. e <= a /\ z.t <= l /\ z.t \in Int
      BY <2>1, <2>13, FirstSample, LastSample DEF Spanned, Samples
    <3>2. first = a /\ last = b - 1
      BY <2>5, <2>6, <2>13, <3>1
    <3>3. At(S, first) # {} /\ At(S, last) # {}
      BY <2>7, <2>13, <3>1, <3>2, InterpolatedAt
    <3> QED
      BY <2>8, <2>10, <3>2, <3>3
  <2> QED
    BY <2>11, <2>12, <2>13
<1> QED
  BY <1>1, <1>2

(* Samples after all that a track has change nothing within it.              *)
LEMMA ExtendedAfter ==
  ASSUME NEW S, Spanned(S), NEW T, Spanned(T), \A x \in S, y \in T : x.t < y.t,
         NEW t \in Int, At(S, t) # {}
  PROVE  At(S \cup T, t) = At(S, t)
<1> DEFINE U == S \cup T
           later(R) == {x.t : x \in {y \in R : y.t >= t}}
           found(R) == {[x EXCEPT !.t = t] : x \in {y \in R : y.t = Min(later(R))}}
<1>1. S # {} /\ ~(t < Earliest(S)) /\ ~(t > Latest(S)) /\ At(S, t) = found(S)
  BY DEF At
<1>2. PICK y \in S, z \in S : y.t <= t /\ t <= z.t /\ y.t \in Int /\ z.t \in Int
  <2>1. PICK y \in S, z \in S : y.t = Earliest(S) /\ z.t = Latest(S)
    BY <1>1, FirstSample, LastSample
  <2>2. y.t \in Int /\ z.t \in Int
    BY DEF Spanned, Samples
  <2> QED
    BY <1>1, <2>1, <2>2
<1>3. Spanned(U)
  BY SpannedUnion
<1>4. At(U, t) = found(U)
  <2>1. Earliest(U) \in Int /\ Earliest(U) <= y.t /\ Latest(U) \in Int /\ z.t <= Latest(U)
    BY <1>2, <1>3, FirstSample, LastSample
  <2>2. ~(t < Earliest(U)) /\ ~(t > Latest(U)) /\ U # {}
    BY <1>2, <2>1
  <2> QED
    BY <2>2 DEF At
<1>5. /\ \A k \in later(S) : t <= k /\ k \in Int /\ \E x \in S : x.t = k
      /\ \A k \in later(U) : t <= k /\ k \in Int /\ \E x \in U : x.t = k
      /\ \A x \in S : x.t >= t => x.t \in later(S)
      /\ \A x \in U : x.t >= t => x.t \in later(U)
  BY <1>3 DEF Spanned, Samples
<1>6. z.t \in later(S) /\ z.t \in later(U)
  BY <1>2, <1>5
<1> HIDE DEF later
<1>7. Min(later(S)) \in later(S) /\ \A k \in later(S) : Min(later(S)) <= k
  <2>1. later(S) \in SUBSET Int /\ later(S) # {} /\ \A k \in later(S) : t <= k
    BY <1>5, <1>6
  <2> QED
    BY <2>1, LeastOfInts
<1>8. Min(later(U)) \in later(U) /\ \A k \in later(U) : Min(later(U)) <= k
  <2>1. later(U) \in SUBSET Int /\ later(U) # {} /\ \A k \in later(U) : t <= k
    BY <1>5, <1>6
  <2> QED
    BY <2>1, LeastOfInts
<1>9. PICK n, m \in Int : n = Min(later(S)) /\ m = Min(later(U))
  BY <1>5, <1>7, <1>8
<1>10. n <= z.t /\ m <= z.t /\ \A x \in T : z.t < x.t /\ x.t \in Int
  BY <1>6, <1>7, <1>8, <1>9 DEF Spanned, Samples
<1>11. n = m
  <2>1. PICK x \in S : x.t = n
    BY <1>5, <1>7, <1>9
  <2>2. n \in later(U)
    BY <1>5, <1>7, <1>9, <2>1
  <2>3. PICK w \in U : w.t = m
    BY <1>5, <1>8, <1>9
  <2>4. w \in S
    BY <1>2, <1>10, <2>3
  <2>5. m \in later(S)
    BY <1>5, <1>8, <1>9, <2>3, <2>4
  <2> QED
    BY <1>7, <1>8, <1>9, <2>2, <2>5
<1>12. {x \in S : x.t = n} = {x \in U : x.t = n}
  BY <1>2, <1>9, <1>10
<1>13. found(S) = {[x EXCEPT !.t = t] : x \in {w \in S : w.t = n}} /\ found(U) = {[x EXCEPT !.t = t] : x \in {w \in U : w.t = m}}
  BY <1>9
<1> QED
  BY <1>1, <1>4, <1>11, <1>12, <1>13

(* Who is told of, and when.                                                 *)
LEMMA PosesAre ==
  ASSUME NEW shown, NEW times, NEW p
  PROVE  p \in PosesAt(shown, times) <=>
           \E o \in Things, t \in times : \E x \in At(shown[o], t) : p = [o |-> o, pose |-> x]
BY DEF PosesAt

(* The log is told of every instant within the ego's track.                  *)
LEMMA LogSucceeds ==
  ASSUME NEW shown, Spanned(shown[Ego]), NEW lo \in Int, NEW hi \in Int,
         \E x \in shown[Ego] : x.t = lo, \E x \in shown[Ego] : x.t = hi,
         NEW times \in SUBSET (lo .. hi), times # {}, LogActors(shown, times)
  PROVE  /\ outcome' = outcome /\ logged' = logged \cup PosesAt(shown, times)
         /\ loggedTimes' = loggedTimes \cup times
<1>1. /\ shown[Ego] # {} /\ Earliest(shown[Ego]) \in Int /\ Earliest(shown[Ego]) <= lo
      /\ Latest(shown[Ego]) \in Int /\ hi <= Latest(shown[Ego])
  BY FirstSample, LastSample
<1>2. times \in SUBSET Int /\ \A t \in times : lo <= t /\ t <= hi
  OBVIOUS
<1>3. Min(times) \in times /\ Max(times) \in times
  <2>1. Min(times) \in times
    BY <1>2, LeastOfInts
  <2>2. Max(times) \in times
    BY <1>2, GreatestOfInts
  <2> QED
    BY <2>1, <2>2
<1>4. \A t \in times : Covers(shown[Ego], t)
  BY <1>1, <1>2 DEF Covers
<1> QED
  BY <1>3, <1>4 DEF LogActors

(* What the log says stays true when tracks only grow past what it was told  *)
(* of, and the ego was there at every instant of that.                       *)
LEMMA LogStaysTrue ==
  ASSUME LogIsKept, NobodyAppears(Ego),
         \A o \in Things, t \in loggedTimes : At(tracks[o], t) # {} => At(tracks'[o], t) = At(tracks[o], t),
         \A t \in loggedTimes : At(tracks[Ego], t) # {},
         NEW times, logged' = logged \cup PosesAt(tracks', times), loggedTimes' = loggedTimes \cup times
  PROVE  LogIsKept' /\ NobodyAppears(Ego)'
<1>1. ASSUME NEW p \in logged' PROVE p \in PosesAt(tracks', loggedTimes')
  <2>1. CASE p \in PosesAt(tracks', times)
    <3>1. PICK o \in Things, t \in times : \E x \in At(tracks'[o], t) : p = [o |-> o, pose |-> x]
      BY <2>1, PosesAre
    <3>2. t \in loggedTimes'
      OBVIOUS
    <3> QED
      BY <3>1, <3>2, PosesAre
  <2>2. CASE p \in logged
    <3>1. p \in PosesAt(tracks, loggedTimes)
      BY <2>2 DEF LogIsKept
    <3>2. PICK o \in Things, t \in loggedTimes : \E x \in At(tracks[o], t) : p = [o |-> o, pose |-> x]
      BY <3>1, PosesAre
    <3>3. At(tracks'[o], t) = At(tracks[o], t) /\ t \in loggedTimes'
      BY <3>2
    <3> QED
      BY <3>2, <3>3, PosesAre
  <2> QED
    BY <2>1, <2>2
<1>2. ASSUME NEW p \in PosesAt(tracks', loggedTimes'), p.o = Ego PROVE p \in logged'
  <2>1. PICK o \in Things, t \in loggedTimes' : \E x \in At(tracks'[o], t) : p = [o |-> o, pose |-> x]
    BY <1>2, PosesAre
  <2>2. o = Ego
    BY <1>2, <2>1
  <2>3. CASE t \in times
    BY <2>1, <2>3, PosesAre
  <2>4. CASE t \in loggedTimes
    <3>1. At(tracks'[o], t) = At(tracks[o], t)
      BY <2>2, <2>4
    <3>2. p \in PosesAt(tracks, loggedTimes)
      BY <2>1, <2>4, <3>1, PosesAre
    <3> QED
      BY <1>2, <3>2 DEF NobodyAppears
  <2> QED
    BY <2>3, <2>4
<1>3. LogIsKept'
  BY <1>1 DEF LogIsKept
<1>4. NobodyAppears(Ego)'
  BY <1>2 DEF NobodyAppears
<1> QED
  BY <1>3, <1>4

LEMMA TracksSpan ==
  ASSUME TracksFit, NEW o \in Things
  PROVE  Spanned(tracks[o])
BY TrafficConstants DEF TracksFit, Spanned

LEMMA TracksStart == ActorsInit => TracksInv
<1> SUFFICES ASSUME ActorsInit PROVE TracksInv
  OBVIOUS
<1>1. /\ asked = 0 /\ lead \in Leads /\ step \in ControlSteps /\ due = "initial"
      /\ tracks = [o \in Things |-> Seeded(o)] /\ accumulated = [o \in Agents |-> {}]
      /\ logged = {} /\ loggedTimes = {} /\ outcome = "running"
  BY DEF ActorsInit, TrafficInit
<1> DEFINE a == Min(Logs[Ego])
           b == a + lead
<1>2. a \in Nat /\ lead \in Nat /\ step \in Nat \ {0} /\ b \in Nat /\ a <= b /\ a < b + 1
  BY <1>1, TrafficAssumption, TrafficConstants
<1>3. CommittedUntil = b
  BY <1>1, <1>2 DEF CommittedUntil, NextQuery
<1>4. PolicyStart + 1 = b + 1
  BY DEF PolicyStart
<1>5. /\ Ego \in Things /\ Logs[Ego] \in SUBSET Nat /\ Logs[Ego] # {} /\ a \in Logs[Ego] /\ IsFiniteSet(Logs[Ego])
      /\ b < Max(Logs[Ego])
  <2>1. Ego \in Things /\ Logs[Ego] \in SUBSET Nat /\ Logs[Ego] # {} /\ IsFiniteSet(Logs[Ego])
    BY TrafficAssumption DEF Things
  <2>2. a \in Logs[Ego]
    BY <2>1, SmallestExists
  <2>3. b < Max(Logs[Ego])
    BY <1>1, ActorAssumption
  <2> QED
    BY <2>1, <2>2, <2>3
<1>6. PICK hi \in Nat : \A t \in Logs[Ego] : t <= hi
  BY <1>5, FiniteBounds
<1>7. Max(Logs[Ego]) \in Logs[Ego]
  <2>1. Logs[Ego] \in SUBSET Int /\ Logs[Ego] # {} /\ hi \in Int
    BY <1>5
  <2> QED
    BY ONLY <1>6, <2>1, GreatestOfInts
<1>8. Logged[Ego] = {[t |-> t, from |-> "log"] : t \in Logs[Ego]}
  BY <1>5 DEF Logged
<1>9. Spanned(Logged[Ego])
  <2>1. \A x \in Logged[Ego] : 0 <= x.t /\ x.t <= hi /\ x \in Samples
    BY <1>5, <1>6, <1>8 DEF Samples, Sources
  <2> QED
    BY <2>1 DEF Spanned
<1>10. (\E y \in Logged[Ego] : y.t = a) /\ (\E z \in Logged[Ego] : b + 1 <= z.t)
  <2>1. [t |-> a, from |-> "log"] \in Logged[Ego] /\ [t |-> Max(Logs[Ego]), from |-> "log"] \in Logged[Ego]
    BY <1>5, <1>7, <1>8
  <2>2. b + 1 <= Max(Logs[Ego])
    BY <1>2, <1>5, <1>7
  <2> QED
    BY <2>1, <2>2
<1> HIDE DEF a, b
<1>11. ASSUME NEW o \in Things
       PROVE  /\ tracks[o] = ClippedTo(Logged[o], a, b + 1) /\ tracks[o] \in SUBSET Samples
              /\ \A x \in tracks[o] : a <= x.t /\ x.t <= b
  <2>1. tracks[o] = ClippedTo(Logged[o], a, b + 1)
    BY <1>1, <1>4 DEF Seeded, a
  <2>2. Spanned(Logged[o])
    BY <1>9, TrafficConstants DEF Things
  <2>3. tracks[o] \in SUBSET Samples /\ \A x \in tracks[o] : a <= x.t /\ x.t < b + 1
    BY <1>2, <2>1, <2>2, ClippedFits
  <2> QED
    BY <1>2, <2>1, <2>3 DEF Samples
<1>12. (\E x \in tracks[Ego] : x.t = a) /\ (\E x \in tracks[Ego] : x.t = b)
  BY <1>2, <1>5, <1>9, <1>10, <1>11, ClippedFits
<1>13. tracks \in [Things -> SUBSET Samples]
  BY <1>1, <1>11
<1>14. TracksFit
  BY <1>1, <1>2, <1>3, <1>11, <1>12, <1>13 DEF TracksFit, a
<1>15. ActorsFit
  BY <1>1 DEF ActorsFit
<1>16. LogIsKept /\ NobodyAppears(Ego)
  BY <1>1 DEF LogIsKept, NobodyAppears, PosesAt
<1> QED
  BY <1>1, <1>14, <1>15, <1>16 DEF TracksInv, CommitsSucceed

(* Nothing of the tracks changes: the step that is due goes on.              *)
LEMMA TracksUntouched ==
  ASSUME TracksInv, ActorsFit', CommittedUntil' = CommittedUntil,
         UNCHANGED <<tracks, logged, loggedTimes, outcome>>
  PROVE  TracksInv'
BY DEF TracksInv, TracksFit, CommitsSucceed, LogIsKept, NobodyAppears

LEMMA InitialStepStep ==
  ASSUME TakeoverInv, TracksInv, InitialStep
  PROVE  TracksInv'
<1> DEFINE times == {Min(Logs[Ego]), PolicyStart}
<1>1. /\ due = "initial" /\ due' = "traffic" /\ LogActors(tracks, times)
      /\ UNCHANGED <<asked, lead, step, tracks, accumulated>>
  BY DEF InitialStep, trafficVars
<1>2. asked = 0 /\ ActorsFit'
  BY <1>1 DEF TracksInv, ActorsFit
<1>3. CommittedUntil' = CommittedUntil /\ PolicyStart = CommittedUntil
  BY <1>1, <1>2, TrafficConstants DEF CommittedUntil, NextQuery, PolicyStart, TakeoverInv, TakeoverTypeOK
<1>4. /\ times \in SUBSET (Min(Logs[Ego]) .. CommittedUntil) /\ times # {} /\ Ego \in Things
      /\ CommittedUntil \in Int /\ Min(Logs[Ego]) \in Int
      /\ (\E x \in tracks[Ego] : x.t = Min(Logs[Ego])) /\ (\E x \in tracks[Ego] : x.t = CommittedUntil)
  BY <1>3, TrafficConstants DEF TracksInv, TracksFit, Things
<1> HIDE DEF times
<1>5. Spanned(tracks[Ego])
  BY <1>4, TracksSpan DEF TracksInv
<1>6. /\ outcome' = outcome /\ logged' = logged \cup PosesAt(tracks, times)
      /\ loggedTimes' = loggedTimes \cup times
  BY <1>1, <1>4, <1>5, LogSucceeds
<1>7. loggedTimes' \in SUBSET (Min(Logs[Ego]) .. CommittedUntil)
  BY <1>4, <1>6 DEF TracksInv, TracksFit
<1>8. \A t \in loggedTimes : At(tracks[Ego], t) # {}
  <2>1. ASSUME NEW t \in loggedTimes PROVE At(tracks[Ego], t) # {}
    <3>1. t \in Int /\ Min(Logs[Ego]) <= t /\ t <= CommittedUntil
      BY <1>4 DEF TracksInv, TracksFit
    <3> QED
      BY <1>4, <1>5, <3>1, InterpolatedAt
  <2> QED
    BY <2>1
<1>9. logged' = logged \cup PosesAt(tracks', times)
  BY <1>1, <1>6
<1>10. LogIsKept' /\ NobodyAppears(Ego)'
  BY <1>1, <1>6, <1>8, <1>9, LogStaysTrue DEF TracksInv
<1>11. TracksFit'
  BY <1>1, <1>3, <1>7 DEF TracksInv, TracksFit
<1> QED
  BY <1>2, <1>6, <1>10, <1>11 DEF TracksInv, CommitsSucceed

LEMMA AskTrafficStep ==
  ASSUME TakeoverInv, TracksInv, AskTraffic
  PROVE  TracksInv'
<1>1. /\ due = "traffic" /\ due' = "physics" /\ UNCHANGED <<tracks, accumulated, logged, loggedTimes, outcome>>
      /\ asked' = NextQuery /\ UNCHANGED step
  BY DEF AskTraffic, SkipTraffic, SimulateNext, Simulate
<1>2. ActorsFit'
  BY <1>1, NextQueryIs DEF TracksInv, ActorsFit
<1>3. CommittedUntil' = CommittedUntil
  BY <1>1 DEF CommittedUntil
<1> QED
  BY <1>1, <1>2, <1>3, TracksUntouched

LEMMA RunPhysicsStep ==
  ASSUME TakeoverInv, TracksInv, RunPhysics
  PROVE  TracksInv'
<1>1. /\ due = "physics" /\ due' = "step" /\ UNCHANGED <<asked, lead, step, tracks, logged, loggedTimes, outcome>>
      /\ accumulated' = [o \in Agents |-> At(IF ForcedUntil(asked) THEN Logged[o] ELSE response[o], asked)]
  BY DEF RunPhysics, trafficVars
<1>2. asked \in Int /\ \A o \in Agents : Spanned(Logged[o]) /\ Spanned(response[o])
  BY TrafficConstants DEF TakeoverInv, TakeoverTypeOK
<1>3. ASSUME NEW o \in Agents
      PROVE  accumulated'[o] \in SUBSET Samples /\ \A x \in accumulated'[o] : x.t = asked
  <2> DEFINE S == IF ForcedUntil(asked) THEN Logged[o] ELSE response[o]
  <2>1. Spanned(S)
    BY <1>2
  <2>2. accumulated'[o] = At(S, asked)
    BY <1>1
  <2> HIDE DEF S
  <2> QED
    BY <1>2, <2>1, <2>2, InterpolatedAt
<1>4. accumulated' \in [Agents -> SUBSET Samples]
  BY <1>1, <1>3
<1>5. ActorsFit'
  BY <1>1, <1>3, <1>4 DEF TracksInv, ActorsFit
<1>6. CommittedUntil' = CommittedUntil
  BY <1>1 DEF CommittedUntil
<1> QED
  BY <1>1, <1>5, <1>6, TracksUntouched

LEMMA RunStepStep ==
  ASSUME TakeoverInv, TracksInv, RunStep
  PROVE  TracksInv'
<1> DEFINE new(o) == IF o = Ego THEN {[t |-> t, from |-> "ego"] : t \in EgoInstants} ELSE accumulated[o]
<1>1. /\ due = "step" /\ due' = "traffic" /\ accumulated' = [o \in Agents |-> {}]
      /\ UNCHANGED <<asked, lead, step>>
  BY DEF RunStep, trafficVars
<1>2. PICK c \in Int, low \in Int : c = asked - step /\ low = Min(Logs[Ego])
  BY TrafficConstants DEF TakeoverInv, TakeoverTypeOK
<1>3. /\ asked \in Nat /\ asked > 0 /\ step \in Nat \ {0} /\ low <= c /\ c < asked
      /\ CommittedUntil = c /\ CommittedUntil' = asked /\ StepStart = c
  BY <1>1, <1>2 DEF TakeoverInv, TakeoverTypeOK, TracksInv, ActorsFit, TracksFit, CommittedUntil, NextQuery, StepStart
<1>4. /\ tracks \in [Things -> SUBSET Samples]
      /\ \A o \in Things : \A x \in tracks[o] : low <= x.t /\ x.t <= c /\ x.t \in Int
      /\ \E x \in tracks[Ego] : x.t = low
      /\ \E x \in tracks[Ego] : x.t = c
      /\ \A t \in loggedTimes : t \in Int /\ low <= t /\ t <= c
  BY <1>2, <1>3 DEF TracksInv, TracksFit, Samples
<1>5. /\ accumulated \in [Agents -> SUBSET Samples] /\ \A o \in Agents : \A x \in accumulated[o] : x.t = asked
      /\ \A o \in Agents : o \in Things /\ o # Ego
      /\ Ego \in Things /\ \A o \in Things : o # Ego => o \in Agents
  BY TrafficAssumption DEF TracksInv, ActorsFit, Things
<1>6. ~ \E o \in Agents : \E x \in accumulated[o] : \E y \in tracks[o] : y.t >= x.t
  BY <1>3, <1>4, <1>5
<1>7. tracks' = Extended /\ LogActors(tracks', EgoInstants)
  BY <1>6 DEF RunStep
<1>8. tracks' = [o \in Things |-> tracks[o] \cup new(o)]
  BY <1>7 DEF Extended
<1>9. EgoInstants \in SUBSET (c + 1 .. asked) /\ asked \in EgoInstants
  BY <1>3 DEF EgoInstants
<1>10. ASSUME NEW o \in Things
       PROVE  /\ new(o) \in SUBSET Samples
              /\ \A x \in new(o) : x.t \in Int /\ c < x.t /\ x.t <= asked
  <2>1. CASE o = Ego
    <3>1. new(o) = {[t |-> t, from |-> "ego"] : t \in EgoInstants}
      BY <2>1
    <3>2. \A t \in EgoInstants : t \in Int /\ c < t /\ t <= asked
      BY <1>3, <1>9
    <3> HIDE DEF new
    <3> QED
      BY <3>1, <3>2 DEF Samples, Sources
  <2>2. CASE o # Ego
    <3>1. new(o) = accumulated[o] /\ o \in Agents
      BY <1>5, <2>2
    <3> HIDE DEF new
    <3> QED
      BY <1>3, <1>5, <3>1
  <2> QED
    BY <2>1, <2>2
<1>11. [t |-> asked, from |-> "ego"] \in new(Ego)
  BY <1>9
<1> HIDE DEF new
<1>12. tracks' \in [Things -> SUBSET Samples] /\ \A o \in Things : tracks'[o] = tracks[o] \cup new(o)
  BY <1>4, <1>8, <1>10
<1>13. \A o \in Things : \A x \in tracks'[o] : low <= x.t /\ x.t <= asked
  BY <1>3, <1>4, <1>10, <1>12
<1>14. (\E x \in tracks'[Ego] : x.t = low) /\ (\E x \in tracks'[Ego] : x.t = asked)
  BY <1>4, <1>5, <1>11, <1>12
<1>15. \A o \in Things : Spanned(tracks'[o])
  BY <1>3, <1>12, <1>13 DEF Spanned
<1>16. \A o \in Things : Spanned(new(o)) /\ Spanned(tracks[o])
  <2>1. ASSUME NEW o \in Things PROVE Spanned(new(o))
    <3>1. \A x \in new(o) : c <= x.t /\ x.t <= asked
      BY <1>10
    <3> QED
      BY <1>3, <1>10, <3>1 DEF Spanned
  <2> QED
    BY <2>1, TracksSpan DEF TracksInv
<1>17. EgoInstants \in SUBSET (low .. asked) /\ EgoInstants # {}
  BY <1>3, <1>9
<1>18. /\ outcome' = outcome /\ logged' = logged \cup PosesAt(tracks', EgoInstants)
       /\ loggedTimes' = loggedTimes \cup EgoInstants
  BY <1>3, <1>5, <1>7, <1>14, <1>15, <1>17, LogSucceeds
<1>19. ASSUME NEW o \in Things, NEW t \in loggedTimes, At(tracks[o], t) # {}
       PROVE  At(tracks'[o], t) = At(tracks[o], t)
  <2>1. t \in Int /\ \A x \in tracks[o], y \in new(o) : x.t < y.t
    BY <1>4, <1>10
  <2> QED
    BY <1>12, <1>16, <1>19, <2>1, ExtendedAfter
<1>20. ASSUME NEW t \in loggedTimes PROVE At(tracks[Ego], t) # {}
  <2>1. t \in Int /\ low <= t /\ t <= c
    BY <1>4
  <2> QED
    BY <1>4, <1>5, <1>16, <2>1, InterpolatedAt
<1>21. LogIsKept' /\ NobodyAppears(Ego)'
  BY <1>18, <1>19, <1>20, LogStaysTrue DEF TracksInv
<1>22. loggedTimes' \in SUBSET (low .. asked)
  <2>1. \A t \in loggedTimes : t \in low .. asked
    BY <1>3, <1>4
  <2> QED
    BY <1>17, <1>18, <2>1
<1>23. TracksFit'
  BY <1>2, <1>3, <1>12, <1>13, <1>14, <1>22 DEF TracksFit
<1>24. ActorsFit'
  BY <1>1 DEF ActorsFit
<1> QED
  BY <1>18, <1>21, <1>23, <1>24 DEF TracksInv, CommitsSucceed

LEMMA TracksStep == TakeoverInv /\ TracksInv /\ [ActorsNext]_<<trafficVars, actorVars>> => TracksInv'
<1> SUFFICES ASSUME TakeoverInv, TracksInv, [ActorsNext]_<<trafficVars, actorVars>>
             PROVE  TracksInv'
  OBVIOUS
<1>1. ASSUME UNCHANGED <<due, asked, lead, step, tracks, accumulated, logged, loggedTimes, outcome>>
      PROVE  TracksInv'
  <2>1. ActorsFit' /\ CommittedUntil' = CommittedUntil
    BY <1>1 DEF TracksInv, ActorsFit, CommittedUntil, NextQuery
  <2> QED
    BY <1>1, <2>1, TracksUntouched
<1>2. CASE SessionOfService
  <2>1. UNCHANGED actorVars /\ (StartTraffic \/ CloseTraffic \/ SimulateFails)
    BY <1>2 DEF SessionOfService
  <2>2. UNCHANGED <<asked, lead, step>>
    BY <2>1 DEF StartTraffic, CloseTraffic, SimulateFails
  <2> QED
    BY <1>1, <2>1, <2>2 DEF actorVars
<1>3. CASE UNCHANGED <<trafficVars, actorVars>>
  BY <1>1, <1>3 DEF trafficVars, actorVars
<1> QED
  BY <1>2, <1>3, InitialStepStep, AskTrafficStep, RunPhysicsStep, RunStepStep DEF ActorsNext

(* For any logs, starts, steps and handover, and whatever the network draws: *)
(* no commit of a rollout raises, whoever was logged at an instant keeps     *)
(* that pose, and the ego was at every instant that was logged.              *)
THEOREM ActorsStayLogged == ActorsSpec => [](CommitsSucceed /\ LogIsKept /\ NobodyAppears(Ego))
<1>1. TracksInv => CommitsSucceed /\ LogIsKept /\ NobodyAppears(Ego)
  BY DEF TracksInv
<1> QED
  BY ActorsStart, TakeoverStep, TracksStart, TracksStep, <1>1, PTL DEF ActorsSpec

(* A trajectory has one sample for a time.                                   *)
OneEach(S) == \A x, y \in S : x.t = y.t => x = y

(* Then so has what is read off it.                                          *)
LEMMA AtOne ==
  ASSUME NEW S, Spanned(S), NEW t \in Int,
         \A x, y \in S : x.t = y.t /\ x.t >= t /\ (\A z \in S : z.t >= t => x.t <= z.t) => x = y,
         NEW a \in At(S, t), NEW b \in At(S, t)
  PROVE  a = b
<1> DEFINE later == {z.t : z \in {y \in S : y.t >= t}}
           next  == Min(later)
<1>1. At(S, t) = {[z EXCEPT !.t = t] : z \in {y \in S : y.t = next}}
  BY DEF At
<1>2. PICK y \in S : t <= y.t
  BY AtWithin
<1>3. /\ later \in SUBSET Int /\ y.t \in later /\ \A k \in later : t <= k
      /\ \A z \in S : z.t >= t => z.t \in later
  BY <1>2 DEF Spanned, Samples
<1> HIDE DEF later
<1>4. next \in later /\ \A k \in later : next <= k
  BY <1>3, LeastOfInts
<1>5. next >= t /\ \A z \in S : z.t >= t => next <= z.t
  BY <1>3, <1>4
<1> HIDE DEF next
<1>6. PICK v \in S : v.t = next /\ a = [v EXCEPT !.t = t]
  BY <1>1
<1>7. PICK w \in S : w.t = next /\ b = [w EXCEPT !.t = t]
  BY <1>1
<1>8. v = w
  BY <1>5, <1>6, <1>7
<1> QED
  BY <1>6, <1>7, <1>8

(* At the time of a sample it is read off.                                   *)
LEMMA AtSample ==
  ASSUME NEW S, Spanned(S), OneEach(S), NEW z \in S
  PROVE  At(S, z.t) = {z}
<1> DEFINE t == z.t
           later == {x.t : x \in {y \in S : y.t >= t}}
           next  == Min(later)
<1>1. t \in Int /\ z \in Samples
  BY DEF Spanned, Samples
<1>2. ~(S = {} \/ t < Earliest(S) \/ t > Latest(S))
  BY <1>1, FirstSample, LastSample
<1>3. At(S, t) = {[x EXCEPT !.t = t] : x \in {y \in S : y.t = next}}
  BY <1>2 DEF At
<1>4. later \in SUBSET Int /\ t \in later /\ \A k \in later : t <= k
  BY <1>1 DEF Spanned, Samples
<1> HIDE DEF later
<1>5. next \in later /\ \A k \in later : next <= k
  BY <1>4, LeastOfInts
<1>6. next = t
  <2>1. next \in Int /\ next <= t /\ t <= next
    BY <1>4, <1>5
  <2> HIDE DEF next, t
  <2> QED
    BY <1>1, <2>1
<1> HIDE DEF next
<1>7. {y \in S : y.t = next} = {z}
  BY <1>6 DEF OneEach
<1>8. [z EXCEPT !.t = t] = z
  BY <1>1 DEF Samples
<1> QED
  BY <1>3, <1>7, <1>8

(* A trajectory covers a time that it is read off at.                        *)
LEMMA AtCovered ==
  ASSUME NEW S, Spanned(S), NEW t \in Int
  PROVE  At(S, t) # {} <=> Covers(S, t)
<1>1. ASSUME At(S, t) # {} PROVE Covers(S, t)
  <2>1. S # {} /\ ~(t < Earliest(S)) /\ ~(t > Latest(S))
    BY <1>1 DEF At
  <2>2. Earliest(S) \in Int /\ Latest(S) \in Int
    BY <2>1, FirstSample, LastSample
  <2> QED
    BY <2>1, <2>2 DEF Covers
<1>2. ASSUME Covers(S, t) PROVE At(S, t) # {}
  <2>1. S # {} /\ Earliest(S) <= t /\ t <= Latest(S)
    BY <1>2 DEF Covers
  <2>2. PICK y \in S : y.t = Earliest(S)
    BY <2>1, FirstSample
  <2>3. PICK z \in S : z.t = Latest(S)
    BY <2>1, LastSample
  <2> QED
    BY <2>1, <2>2, <2>3, InterpolatedAt
<1> QED
  BY <1>1, <1>2

(* Where there is none, all is before that time or all after it.             *)
LEMMA AtMissing ==
  ASSUME NEW S, Spanned(S), NEW t \in Int, At(S, t) = {}, NEW y \in S, y.t <= t
  PROVE  \A x \in S : x.t < t
<1>1. ASSUME NEW x \in S PROVE x.t < t
  <2>1. ~(t <= x.t)
    BY InterpolatedAt
  <2> QED
    BY <2>1 DEF Spanned, Samples
<1> QED
  BY <1>1

(* The recording is one.                                                     *)
LEMMA LoggedOne ==
  ASSUME NEW o \in Agents
  PROVE  OneEach(Logged[o]) /\ Spanned(Logged[o]) /\ \A x \in Logged[o] : x.t \in Int /\ x.from = "log"
<1>1. o \in Things
  BY DEF Things
<1>2. Logged[o] = {[t |-> t, from |-> "log"] : t \in Logs[o]}
  BY <1>1 DEF Logged
<1>3. Spanned(Logged[o])
  BY TrafficConstants
<1>4. \A x \in Logged[o] : x.t \in Int /\ x.from = "log"
  BY <1>2, <1>3 DEF Spanned, Samples
<1>5. OneEach(Logged[o])
  BY <1>2 DEF OneEach
<1> QED
  BY <1>3, <1>4, <1>5

(* What a query past the window makes of an agent that moves: if it is not   *)
(* there at the window's end it is not answered for and stays as it was, and *)
(* otherwise it is answered for once at the query's time.                    *)
LEMMA MovingAnswered ==
  ASSUME NEW o \in Agents \ StaticAgents, NEW trajectories, Spanned(trajectories[o]),
         NEW now \in Int, NEW query \in Int, handover \in Int, query > HistoryEnd(now, query)
  PROVE  LET T   == trajectories[o]
             end == HistoryEnd(now, query)
             s   == Simulated(o, trajectories, now, query)
             A   == Answers(o, s, end, query)
         IN  /\ At(T, end) = {} => A = {} /\ Merge(MergedSteps(T, s, end, query), A) = T
             /\ At(T, end) # {} => \E x \in A : x.t = query
             /\ \A x, y \in A : x.t = query /\ y.t = query => x = y
<1> DEFINE T == trajectories[o]
           end == HistoryEnd(now, query)
           W == Window(trajectories, end)[o]
           P == Predictions(o, W, end, query)
           s == Simulated(o, trajectories, now, query)
           A == Answers(o, s, end, query)
           drawn == NetworkSamples(o, W, end, query)
           still == {[t |-> t, from |-> "frozen"] : t \in ForecastTimes(end, query)}
           there == \E x \in W : x.t = end
           F == {x \in s : x.t \in ForecastTimes(end, query)}
           h == HistorySteps - 1
           steps == StepsOf(W, end)
           last == h \div TokenStride
<1>1. end \in Int /\ query > end
  BY DEF HistoryEnd
<1>2. s = W \cup P
  BY DEF Simulated, Continued
<1>4. A = At(s, query) \cup {x \in s : x.t > query /\ x.t \in ForecastTimes(end, query)}
  BY DEF Answers
<1>5. P = IF there /\ Cardinality(W) < MinValidSteps THEN still ELSE CarriedOn(there, drawn, still)
  BY DEF Predictions
<1>5a. MergedSteps(T, s, end, query) = Merge(T, F)
  BY DEF MergedSteps
<1> HIDE DEF end, A, s, P
<1>6. /\ W = SamplesOf(T, end)
      /\ \A k \in 0 .. h : k \in steps <=> At(T, end - (h - k) * Dt) # {}
  BY <1>1, MovingWindow
<1>7. steps \in SUBSET (0 .. h)
  BY DEF StepsOf
<1>8. Spanned(W) /\ \A x \in W : x.t <= end
  BY <1>1, WindowFits
<1>9. /\ last \notin Tokens(Extrapolated(steps)) => drawn = {}
      /\ \A x \in drawn : x.t \in ForecastTimes(end, query)
  BY <1>1, DrawnOrNot, DrawnOnGrid
<1>10. last \in Tokens(Extrapolated(steps)) => h \in steps
  BY <1>7, LastToken
<1>11. Spanned(T) /\ Dt \in Nat \ {0} /\ h \in Nat
  BY TrafficConstants
<1>12. h \in steps <=> there
  <2>1. h \in 0 .. h /\ end - (h - h) * Dt = end
    BY <1>1, <1>11
  <2>2. steps = {k \in 0 .. h : \E x \in W : x.t = end - (h - k) * Dt}
    BY DEF StepsOf
  <2> HIDE DEF steps, h, W
  <2> QED
    BY <2>1, <2>2
<1>13. there <=> At(T, end) # {}
  <2>1. h \in 0 .. h /\ end - (h - h) * Dt = end
    BY <1>1, <1>11
  <2> HIDE DEF steps, h, W, T
  <2> QED
    BY <1>6, <1>12, <2>1
<1>14. \A x, y \in drawn : x.t = y.t => x = y
  <2>1. ASSUME NEW x \in drawn PROVE x = [t |-> x.t, from |-> Motion(o)]
    <3>1. PICK k : x \in DrawnIn(o, k, end)
      BY DEF NetworkSamples
    <3> QED
      BY <3>1 DEF DrawnIn
  <2> HIDE DEF drawn
  <2> QED
    BY <2>1
<1>15. PICK n \in Nat : ForecastFits(end, query, n)
  BY <1>1, ForecastCovers
<1>16. \A t \in ForecastTimes(end, query) : t \in Int /\ end < t /\ t <= end + n * Dt
  BY <1>1, <1>15, GridSpans DEF ForecastFits
<1>17. /\ \A x \in P : x \in [t : ForecastTimes(end, query), from : {"model", "stuck", "frozen"}]
       /\ there => \A t \in ForecastTimes(end, query) : \E x \in P : x.t = t
  BY <1>1, PredictionsFit DEF P
<1>18. \A x, y \in P : x.t = y.t => x = y
  <2>1. \A x, y \in still : x.t = y.t => x = y
    OBVIOUS
  <2> HIDE DEF drawn, still, there, W
  <2>2. \A x, y \in CarriedOn(there, drawn, still) : x.t = y.t => x = y
    BY <1>14, <2>1 DEF CarriedOn
  <2> QED
    BY <1>5, <2>1, <2>2
<1> HIDE DEF W, drawn, T, steps, last, h, still, F
<1>19. \A x \in P : x \in Samples /\ end < x.t /\ x.t <= end + n * Dt
  BY <1>16, <1>17 DEF Samples, Sources
<1>20. Spanned(P)
  <2>1. end + n * Dt \in Int
    BY <1>1, <1>11
  <2>2. \A x \in P : end <= x.t
    BY <1>1, <1>19 DEF Samples
  <2> QED
    BY <1>1, <1>19, <2>1, <2>2 DEF Spanned
<1>21. Spanned(s) /\ \A x \in s : x.t \in Int
  <2>1. Spanned(s)
    BY <1>2, <1>8, <1>20, SpannedUnion
  <2> QED
    BY <2>1 DEF Spanned, Samples
<1>22. ASSUME ~there PROVE A = {} /\ Merge(Merge(T, F), A) = T
  <2>1. drawn = {}
    BY <1>9, <1>10, <1>12, <1>22
  <2>2. P = {}
    BY <1>5, <1>22, <2>1 DEF CarriedOn
  <2>3. s = W
    BY <1>2, <2>2
  <2>4. \A x \in s : x.t <= end /\ x.t < query
    BY <1>1, <1>8, <1>21, <2>3
  <2>5. At(s, query) = {}
    <3> SUFFICES ASSUME At(s, query) # {} PROVE FALSE
      OBVIOUS
    <3>1. PICK z \in s : query <= z.t
      BY <1>21, AtWithin
    <3> QED
      BY <1>1, <1>21, <2>4, <3>1
  <2>6. A = {}
    BY <1>1, <1>4, <1>21, <2>4, <2>5
  <2>7. F = {}
    BY <1>1, <1>16, <1>21, <2>4 DEF F
  <2> QED
    BY <2>6, <2>7 DEF Merge
<1>23. ASSUME there PROVE \E x \in A : x.t = query
  <2>1. PICK y \in W : y.t = end
    BY <1>23
  <2>2. n > 0 /\ query <= end + n * Dt /\ ForecastTimes(end, query) = Grid(end, n)
    BY <1>1, <1>15 DEF ForecastFits
  <2>3. end + n * Dt \in Grid(end, n)
    <3>1. n \in 1 .. n
      BY <2>2
    <3> QED
      BY <3>1 DEF Grid
  <2>4. PICK z \in P : z.t = end + n * Dt
    BY <1>17, <1>23, <2>2, <2>3
  <2>5. y \in s /\ z \in s /\ y.t <= query /\ query <= z.t
    BY <1>1, <1>2, <2>1, <2>2, <2>4
  <2>6. At(s, query) # {} /\ \A x \in At(s, query) : x.t = query
    BY <1>21, <2>5, InterpolatedAt
  <2> QED
    BY <1>4, <2>6
<1>24. ASSUME NEW x \in A, NEW y \in A, x.t = query, y.t = query PROVE x = y
  <2>1. x \in At(s, query) /\ y \in At(s, query)
    BY <1>4, <1>24
  <2>2. ASSUME NEW v \in s, NEW w \in s, v.t = w.t, v.t >= query PROVE v = w
    <3>1. v \notin W /\ w \notin W
      BY <1>1, <1>8, <1>21, <2>2
    <3> QED
      BY <1>2, <1>18, <2>2, <3>1
  <2> QED
    BY <1>21, <2>1, <2>2, AtOne
<1> QED
  BY <1>5a, <1>13, <1>22, <1>23, <1>24 DEF A, s, end, T

(* What is cut from a recording has its end, or the recording ends before.   *)
LEMMA ClippedEnds ==
  ASSUME NEW S, Spanned(S), NEW a \in Int, NEW b \in Int, a < b, ClippedTo(S, a, b) # {}
  PROVE  /\ \E y \in S : y.t < b
         /\ (\A x \in ClippedTo(S, a, b) : x.t # b - 1) => \A x \in S : x.t < b - 1
<1> DEFINE last == Min({b - 1, Latest(S)})
<1>1. /\ S # {} /\ ~(Earliest(S) >= b)
      /\ At(S, last) \subseteq ClippedTo(S, a, b)
  BY DEF ClippedTo
<1>2. PICK y \in S : y.t = Earliest(S)
  BY <1>1, FirstSample
<1>3. PICK z \in S : z.t = Latest(S)
  BY <1>1, LastSample
<1>4. Earliest(S) \in Int /\ Latest(S) \in Int /\ \A x \in S : x.t <= Latest(S) /\ x.t \in Int
  BY <1>1, FirstSample, LastSample DEF Spanned, Samples
<1>5. y.t < b
  BY <1>1, <1>2, <1>4
<1>6. ASSUME Latest(S) >= b - 1 PROVE \E x \in ClippedTo(S, a, b) : x.t = b - 1
  <2>1. last = b - 1
    BY <1>4, <1>6 DEF Min
  <2>2. At(S, b - 1) # {} /\ \A x \in At(S, b - 1) : x.t = b - 1
    <3>1. y.t <= b - 1 /\ b - 1 <= z.t /\ b - 1 \in Int
      BY <1>2, <1>3, <1>4, <1>5, <1>6
    <3> QED
      BY <3>1, InterpolatedAt
  <2> HIDE DEF last
  <2> QED
    BY <1>1, <2>1, <2>2
<1>7. ASSUME \A x \in ClippedTo(S, a, b) : x.t # b - 1 PROVE \A x \in S : x.t < b - 1
  BY <1>4, <1>6, <1>7
<1> QED
  BY <1>5, <1>7

LEMMA ClippedOne ==
  ASSUME NEW S, Spanned(S), \A x \in S : x.from = "log", NEW a \in Int, NEW b \in Int, a < b
  PROVE  OneEach(ClippedTo(S, a, b))
<1> DEFINE C == ClippedTo(S, a, b)
           first == Max({a, Earliest(S)})
           last == Min({b - 1, Latest(S)})
<1>1. C \in SUBSET Samples
  BY ClippedFits
<1>2. C = {} \/ C = At(S, first) \cup {x \in S : first < x.t /\ x.t < last} \cup At(S, last)
  BY DEF ClippedTo
<1>3. ASSUME NEW x \in C PROVE x.from = "log"
  <2>1. S # {} => Earliest(S) \in Int /\ Latest(S) \in Int
    BY FirstSample, LastSample
  <2>2. S # {} => first \in Int /\ last \in Int
    BY <2>1 DEF Min, Max
  <2>3. S # {}
    BY DEF ClippedTo
  <2> HIDE DEF first, last, C
  <2>4. CASE x \in At(S, first)
    BY <2>2, <2>3, <2>4, FromLater
  <2>5. CASE x \in At(S, last)
    BY <2>2, <2>3, <2>5, FromLater
  <2> QED
    BY <1>2, <2>4, <2>5
<1> HIDE DEF C
<1>4. OneEach(C)
  BY <1>1, <1>3 DEF OneEach, Samples
<1> QED
  BY <1>4 DEF C

(* What is told of an agent that moves is for the query's time; if it is     *)
(* nothing, it was never predicted, and what was recorded of it is over if   *)
(* it had begun before the step.                                             *)
AnswerFits(o, S, until, since, known) ==
  /\ S # {} => /\ (\E x \in S : x.t = until) /\ (\E x \in Logged[o] : x.t <= until)
               /\ o \in known \/ \E x \in Logged[o] : x.t >= until
  /\ S = {} => /\ o \notin known
               /\ (\E x \in Logged[o] : x.t <= since) => \A x \in Logged[o] : x.t < until
  /\ \A x, y \in S : x.t = until /\ y.t = until => x = y

(* The recording itself is such an answer for who was never predicted.       *)
LEMMA LoggedFits ==
  ASSUME NEW o \in Agents, NEW known, o \notin known, NEW until \in Int, NEW since \in Int, since <= until, NEW S,
         S = {} <=> At(Logged[o], until) = {}, \A x \in S : x.t = until, \A x, y \in S : x = y
  PROVE  AnswerFits(o, S, until, since, known)
<1> DEFINE L == Logged[o]
<1>1. Spanned(L) /\ \A x \in L : x.t \in Int
  BY LoggedOne
<1> HIDE DEF L
<1>2. ASSUME S # {} PROVE (\E x \in S : x.t = until) /\ (\E x \in L : x.t <= until) /\ \E x \in L : x.t >= until
  <2>1. At(L, until) # {}
    BY <1>2 DEF L
  <2>2. PICK y, z \in L : y.t <= until /\ until <= z.t
    BY <1>1, <2>1, AtWithin
  <2> QED
    BY <1>1, <1>2, <2>2
<1>3. ASSUME S = {}, NEW y \in L, y.t <= since PROVE \A x \in L : x.t < until
  <2>1. At(L, until) = {}
    BY <1>3 DEF L
  <2>2. y.t <= until
    BY <1>1, <1>3
  <2> QED
    BY <1>1, <2>1, <2>2, AtMissing
<1> QED
  BY <1>2, <1>3 DEF AnswerFits, L

(* Up to the handover an agent that moves is answered for as it is recorded. *)
LEMMA ReplayedFits ==
  ASSUME NEW o \in Agents \ StaticAgents, NEW trajectories, trajectories[o] = Logged[o], NEW q \in Int
  PROVE  LET S == At(Window(trajectories, q)[o], q)
         IN  (S = {} <=> At(Logged[o], q) = {}) /\ (\A x \in S : x.t = q) /\ \A x, y \in S : x = y
<1> DEFINE L == Logged[o]
           W == Window(trajectories, q)[o]
           S == At(W, q)
<1>0. Dt \in Nat \ {0} /\ HistorySteps \in Nat \ {0}
  BY TrafficConstants
<1>1. Spanned(L) /\ OneEach(L)
  BY LoggedOne
<1>2. Spanned(W) /\ (\A x \in W : x.t <= q) /\ W = SamplesOf(L, q)
  BY <1>1, WindowFits, MovingWindow
<1>3. W = UNION {At(L, q - k * Dt) : k \in 0 .. HistorySteps - 1}
  BY <1>2 DEF SamplesOf
<1> HIDE DEF W, L
<1>4. \A x \in W : x.t \in Int
  BY <1>2 DEF Spanned, Samples
<1>5. ASSUME NEW x \in W, x.t = q PROVE x \in At(L, q)
  <2>1. PICK k \in 0 .. HistorySteps - 1 : x \in At(L, q - k * Dt)
    BY <1>3
  <2>2. q - k * Dt \in Int
    BY <1>0
  <2>3. x.t = q - k * Dt
    BY <1>1, <2>1, <2>2, InterpolatedAt
  <2> QED
    BY <1>5, <2>1, <2>3
<1>6. ASSUME NEW x \in At(L, q) PROVE x \in W /\ x.t = q
  <2>1. 0 \in 0 .. HistorySteps - 1 /\ q - 0 * Dt = q
    BY <1>0
  <2> QED
    BY <1>1, <1>3, <2>1, InterpolatedAt
<1>7. \A x \in S : x.t = q
  BY <1>2, InterpolatedAt
<1>8. S # {} => At(L, q) # {}
  <2> SUFFICES ASSUME S # {} PROVE At(L, q) # {}
    OBVIOUS
  <2>1. PICK z \in W : q <= z.t
    BY <1>2, AtWithin
  <2>2. z.t = q
    BY <1>2, <1>4, <2>1
  <2> QED
    BY <1>5, <2>2
<1>9. At(L, q) # {} => S # {}
  <2> SUFFICES ASSUME NEW x \in At(L, q) PROVE S # {}
    OBVIOUS
  <2> QED
    BY <1>2, <1>6, InterpolatedAt
<1>10. ASSUME NEW x \in S, NEW y \in S PROVE x = y
  <2>1. ASSUME NEW v \in W, NEW w \in W, v.t = w.t, v.t >= q PROVE v = w
    <3>1. v \in At(L, q) /\ w \in At(L, q)
      BY <1>2, <1>4, <1>5, <2>1
    <3> QED
      BY <1>1, <3>1, AtOne DEF OneEach
  <2> QED
    BY <1>2, <2>1, AtOne
<1> QED
  BY <1>7, <1>8, <1>9, <1>10 DEF L, W

(* What is read off an answer for its time is one too.                       *)
LEMMA AnswerAt ==
  ASSUME NEW o, NEW S, Spanned(S), NEW until \in Int, NEW since, NEW known, AnswerFits(o, S, until, since, known),
         \A x \in S : x.t >= until
  PROVE  AnswerFits(o, At(S, until), until, since, known)
<1>1. S = {} => At(S, until) = {}
  BY DEF At
<1>2. ASSUME S # {} PROVE At(S, until) # {} /\ \A x \in At(S, until) : x.t = until
  <2>1. PICK z \in S : z.t = until
    BY <1>2 DEF AnswerFits
  <2> QED
    BY <2>1, InterpolatedAt
<1>3. ASSUME NEW a \in At(S, until), NEW b \in At(S, until) PROVE a = b
  <2>1. PICK z \in S : z.t = until
    BY <1>1 DEF AnswerFits
  <2>2. ASSUME NEW x \in S, NEW y \in S, x.t = y.t, x.t >= until, \A w \in S : w.t >= until => x.t <= w.t
        PROVE  x = y
    <3>1. x.t = until
      BY <2>1, <2>2 DEF Spanned, Samples
    <3> QED
      BY <2>2, <3>1 DEF AnswerFits
  <2> QED
    BY <2>2, AtOne
<1>4. CASE S = {}
  BY <1>1, <1>4 DEF AnswerFits
<1>5. CASE S # {}
  BY <1>2, <1>3, <1>5 DEF AnswerFits
<1> QED
  BY <1>4, <1>5

(* At the time of a sample it is the closest.                                *)
LEMMA ClosestIs ==
  ASSUME NEW S, Spanned(S), OneEach(S), NEW z \in S
  PROVE  Closest(S, z.t) = z
<1> DEFINE t == z.t
           Away(x) == IF x.t < t THEN t - x.t ELSE x.t - t
           Good(x) == \A y \in S \ {x} : Away(x) < Away(y) \/ (Away(x) = Away(y) /\ x.t < y.t)
<1>1. t \in Int /\ Away(z) = 0 /\ \A x \in S : x.t \in Int /\ (x # z => Away(x) > 0)
  BY DEF Spanned, Samples, OneEach
<1>2. Closest(S, t) = CHOOSE x \in S : Good(x)
  BY DEF Closest
<1> HIDE DEF Away
<1>3. \A x \in S : Away(x) \in Int
  BY <1>1 DEF Away
<1>4. Good(z)
  BY <1>1, <1>3
<1>5. ASSUME NEW x \in S, Good(x) PROVE x = z
  <2> SUFFICES ASSUME x # z PROVE FALSE
    OBVIOUS
  <2>1. Away(x) < Away(z) \/ (Away(x) = Away(z) /\ x.t < z.t)
    BY <1>5
  <2> QED
    BY <1>1, <1>3, <2>1
<1> HIDE DEF Good
<1>6. (CHOOSE x \in S : Good(x)) = z
  BY <1>4, <1>5
<1> QED
  BY <1>2, <1>6

(* What was recorded of an agent that was never predicted is over.           *)
Ended(o, until) == o \notin predicted /\ \A x \in Logged[o] : x.t < until

(* The bridge is told of an agent what the log says.                         *)
SnapshotFits(o) ==
  snapshot # <<>> =>
    LET then == {x \in logged : x.o = o /\ x.pose.t = snapshot.at}
    IN  IF o \in DOMAIN snapshot.actors
        THEN then = {[o |-> o, pose |-> snapshot.actors[o].current]} ELSE then = {}

(* The service has an agent that it never predicted as it was recorded, and  *)
(* its answers, as physics passes them on, fit.                              *)
AnswersFit(o) ==
  /\ session /\ o \notin predicted => closed[o] = Logged[o]
  /\ o \in predicted => \E x \in Logged[o] : x.t <= asked
  /\ due = "physics" => AnswerFits(o, response[o], asked, asked - step, predicted)
  /\ due = "step" => AnswerFits(o, accumulated[o], asked, asked - step, predicted)

(* A track that does not reach what is committed is that of an agent whose   *)
(* recording is over; nothing was added to it where the log had missed it.   *)
TrackFits(o) ==
  /\ tracks[o] # {} => \E x \in Logged[o] : x.t <= CommittedUntil
  /\ tracks[o] # {} /\ (\A x \in tracks[o] : x.t # CommittedUntil) => Ended(o, CommittedUntil)
  /\ due = "traffic" /\ o \in predicted => \E x \in tracks[o] : x.t = CommittedUntil
  /\ OneEach(tracks[o]) /\ NobodyAppears(o) /\ SnapshotFits(o)

TimesFit ==
  /\ due # "initial" => CommittedUntil \in loggedTimes
  /\ due = "initial" => snapshot = <<>>
  /\ snapshot # <<>> => snapshot.at \in loggedTimes
  /\ renderStart \in 0 .. lead

MovingInv ==
  TimesFit /\ (ReplaysForced => \A o \in Agents \ StaticAgents : AnswersFit(o) /\ TrackFits(o))

(* Where what is committed is, and the next query.                           *)
LEMMA CommittedIs ==
  ASSUME TakeoverInv, TracksInv
  PROVE  /\ CommittedUntil \in Int /\ step \in Nat \ {0} /\ asked \in Nat /\ NextQuery \in Nat
         /\ due = "traffic" => CommittedUntil = NextQuery - step /\ CommittedUntil < NextQuery
         /\ due \in {"initial", "traffic"} /\ asked = 0 => CommittedUntil = PolicyStart
         /\ due = "traffic" /\ asked > 0 => CommittedUntil = asked
         /\ due \in {"physics", "step"} => CommittedUntil = asked - step /\ CommittedUntil < asked
<1>1. /\ step \in Nat \ {0} /\ asked \in Nat /\ lead \in Nat /\ Min(Logs[Ego]) \in Nat
      /\ CommittedUntil \in Int
  BY TrafficConstants DEF TakeoverInv, TakeoverTypeOK, TracksInv, TracksFit
<1>2. NextQuery \in Nat
  BY NextQueryIs
<1> QED
  BY <1>1, <1>2 DEF CommittedUntil, NextQuery, PolicyStart

(* A track that stays as it is fits on, if nobody is predicted of whom the   *)
(* recording was over.                                                       *)
LEMMA TrackStays ==
  ASSUME NEW o, TrackFits(o), CommittedUntil \in Int, CommittedUntil' = CommittedUntil,
         UNCHANGED <<tracks, logged, loggedTimes, snapshot>>, \A x \in Logged[o] : x.t \in Int,
         o \in predicted' => o \in predicted \/ \E x \in Logged[o] : x.t >= CommittedUntil,
         due' = "traffic" => due = "traffic" /\ predicted' = predicted
  PROVE  TrackFits(o)'
<1>1. Ended(o, CommittedUntil) => Ended(o, CommittedUntil)'
  BY DEF Ended
<1>2. NobodyAppears(o)' /\ SnapshotFits(o)'
  BY DEF TrackFits, NobodyAppears, SnapshotFits
<1>3. (due = "traffic" /\ o \in predicted)' => due = "traffic" /\ o \in predicted
  OBVIOUS
<1> QED
  BY <1>1, <1>2, <1>3 DEF TrackFits

LEMMA SameForced ==
  ASSUME UNCHANGED <<skipped, renderStart, step, lead, handover>>
  PROVE  ReplaysForced' = ReplaysForced
BY DEF ReplaysForced, PolicyStart

LEMMA MovingStart == ActorsInit => MovingInv
<1> SUFFICES ASSUME ActorsInit PROVE MovingInv
  OBVIOUS
<1>1. /\ asked = 0 /\ due = "initial" /\ snapshot = <<>> /\ renderStart \in 0 .. lead /\ session = FALSE
      /\ predicted = {} /\ logged = {} /\ loggedTimes = {}
      /\ tracks = [o \in Things |-> Seeded(o)] /\ lead \in Leads /\ step \in ControlSteps
  BY DEF ActorsInit, TrafficInit
<1> DEFINE a == Min(Logs[Ego])
           b == PolicyStart + 1
<1>2. a \in Int /\ b \in Int /\ a < b
  BY <1>1, TrafficAssumption, TrafficConstants DEF PolicyStart
<1>3. CommittedUntil = b - 1
  BY <1>1, TrafficAssumption, TrafficConstants DEF CommittedUntil, NextQuery, PolicyStart
<1>4. TimesFit
  BY <1>1 DEF TimesFit
<1>5. ASSUME NEW o \in Agents PROVE AnswersFit(o)
  BY <1>1 DEF AnswersFit
<1>6. ASSUME NEW o \in Agents PROVE TrackFits(o)
  <2>1. tracks[o] = ClippedTo(Logged[o], a, b)
    BY <1>1 DEF Seeded, Things
  <2>2. Spanned(Logged[o]) /\ \A x \in Logged[o] : x.t \in Int /\ x.from = "log"
    BY LoggedOne
  <2> HIDE DEF a, b
  <2>3. tracks[o] # {} => /\ \E y \in Logged[o] : y.t < b
                          /\ (\A x \in tracks[o] : x.t # b - 1) => \A x \in Logged[o] : x.t < b - 1
    BY <1>2, <2>1, <2>2, ClippedEnds
  <2>4. OneEach(tracks[o])
    BY <1>2, <2>1, <2>2, ClippedOne
  <2>5. NobodyAppears(o)
    BY <1>1 DEF NobodyAppears, PosesAt
  <2>6. SnapshotFits(o)
    BY <1>1 DEF SnapshotFits
  <2>7. tracks[o] # {} => \E x \in Logged[o] : x.t <= CommittedUntil
    BY <1>2, <1>3, <2>2, <2>3
  <2>8. tracks[o] # {} /\ (\A x \in tracks[o] : x.t # CommittedUntil) => Ended(o, CommittedUntil)
    BY <1>1, <1>3, <2>3 DEF Ended
  <2> QED
    BY <1>1, <2>4, <2>5, <2>6, <2>7, <2>8 DEF TrackFits
<1> QED
  BY <1>4, <1>5, <1>6 DEF MovingInv

LEMMA MovingSession ==
  ASSUME TakeoverInv, TracksInv, MovingInv, SessionOfService
  PROVE  MovingInv'
<1>1. UNCHANGED actorVars /\ (StartTraffic \/ CloseTraffic \/ SimulateFails)
  BY DEF SessionOfService
<1>2. UNCHANGED <<asked, lead, step, handover, predicted, response>>
  BY <1>1 DEF StartTraffic, CloseTraffic, SimulateFails
<1>3. UNCHANGED <<skipped, renderStart, due, tracks, accumulated, logged, loggedTimes, snapshot>>
  BY <1>1 DEF actorVars
<1>4. CommittedUntil' = CommittedUntil /\ CommittedUntil \in Int
  BY <1>2, <1>3, CommittedIs DEF CommittedUntil, NextQuery
<1>5. TimesFit'
  BY <1>2, <1>3, <1>4 DEF MovingInv, TimesFit
<1>6. ASSUME NEW o \in Agents, AnswersFit(o) PROVE AnswersFit(o)'
  <2>1. session' /\ o \notin predicted => closed'[o] = Logged[o]
    <3>1. CASE StartTraffic
      BY <3>1 DEF StartTraffic
    <3>2. CASE CloseTraffic
      BY <3>2 DEF CloseTraffic
    <3>3. CASE SimulateFails
      <4>1. closed'[o] = closed[o] /\ session' = session
        BY <3>3, NextQueryIs, EgoAlone DEF SimulateFails, TakeoverInv
      <4> QED
        BY <1>6, <4>1 DEF AnswersFit
    <3> QED
      BY <1>1, <3>1, <3>2, <3>3
  <2> QED
    BY <1>2, <1>3, <1>6, <2>1 DEF AnswersFit
<1>7. ASSUME NEW o \in Agents, TrackFits(o) PROVE TrackFits(o)'
  BY <1>2, <1>3, <1>4, <1>7, LoggedOne, TrackStays
<1> QED
  BY <1>2, <1>3, <1>5, <1>6, <1>7, SameForced DEF MovingInv

(* Who was missing at what was logged is missing there still, when the       *)
(* track only grows past that and the log is told of more.                   *)
LEMMA NobodyNew ==
  ASSUME NEW o, NobodyAppears(o),
         \A t \in loggedTimes : At(tracks'[o], t) # {} => At(tracks'[o], t) = At(tracks[o], t),
         NEW times, logged' = logged \cup PosesAt(tracks', times), loggedTimes' = loggedTimes \cup times
  PROVE  NobodyAppears(o)'
<1>1. ASSUME NEW p \in PosesAt(tracks', loggedTimes'), p.o = o PROVE p \in logged'
  <2>1. PICK n \in Things, t \in loggedTimes' : \E x \in At(tracks'[n], t) : p = [o |-> n, pose |-> x]
    BY <1>1, PosesAre
  <2>2. n = o
    BY <1>1, <2>1
  <2>3. CASE t \in times
    BY <2>1, <2>3, PosesAre
  <2>4. CASE t \in loggedTimes
    <3>1. At(tracks'[n], t) = At(tracks[n], t)
      BY <2>1, <2>2, <2>4
    <3>2. p \in PosesAt(tracks, loggedTimes)
      BY <2>1, <2>4, <3>1, PosesAre
    <3> QED
      BY <1>1, <3>2 DEF NobodyAppears
  <2> QED
    BY <2>3, <2>4
<1> QED
  BY <1>1 DEF NobodyAppears

LEMMA MovingInitialStep ==
  ASSUME TakeoverInv, TracksInv, TracksInv', MovingInv, InitialStep
  PROVE  MovingInv'
<1> DEFINE times == {Min(Logs[Ego]), PolicyStart}
<1>1. /\ due = "initial" /\ due' = "traffic" /\ LogActors(tracks, times)
      /\ UNCHANGED <<asked, lead, step, handover, predicted, session, closed, tracks, skipped, renderStart, snapshot>>
  BY DEF InitialStep, trafficVars
<1>2. asked = 0 /\ predicted = {} /\ snapshot = <<>>
  BY <1>1 DEF TracksInv, ActorsFit, TakeoverInv, TakeoverTypeOK, MovingInv, TimesFit
<1>3. CommittedUntil' = CommittedUntil /\ CommittedUntil = PolicyStart
  BY <1>1, <1>2, CommittedIs DEF CommittedUntil, NextQuery
<1>4. outcome' = "running"
  BY DEF TracksInv, CommitsSucceed
<1>5. logged' = logged \cup PosesAt(tracks', times) /\ loggedTimes' = loggedTimes \cup times
  BY <1>1, <1>4 DEF LogActors
<1>6. CommittedUntil \in loggedTimes'
  BY <1>3, <1>5
<1> HIDE DEF times
<1>7. TimesFit'
  BY <1>1, <1>2, <1>3, <1>6 DEF MovingInv, TimesFit
<1>8. ASSUME NEW o \in Agents, AnswersFit(o) PROVE AnswersFit(o)'
  BY <1>1, <1>2, <1>8 DEF AnswersFit
<1>9. ASSUME NEW o \in Agents, TrackFits(o) PROVE TrackFits(o)'
  <2>1. NobodyAppears(o)'
    BY <1>1, <1>5, <1>9, NobodyNew DEF TrackFits
  <2>2. SnapshotFits(o)'
    BY <1>1, <1>2 DEF SnapshotFits
  <2>3. Ended(o, CommittedUntil)' <=> Ended(o, CommittedUntil)
    BY <1>1, <1>3 DEF Ended
  <2> QED
    BY <1>1, <1>2, <1>3, <1>9, <2>1, <2>2, <2>3 DEF TrackFits
<1> QED
  BY <1>1, <1>7, <1>8, <1>9, SameForced DEF MovingInv

(* What a query makes of an agent that moves.                                *)
AskedFits(o) ==
  /\ session' /\ o \notin predicted' => closed'[o] = Logged[o]
  /\ o \in predicted' => \E x \in Logged[o] : x.t <= NextQuery
  /\ o \in predicted' => o \in predicted \/ \E x \in Logged[o] : x.t >= CommittedUntil
  /\ AnswerFits(o, response'[o], NextQuery, NextQuery - step, predicted')

LEMMA SkippedAsk ==
  ASSUME TakeoverInv, TracksInv, SkipTraffic, NEW o \in Agents
  PROVE  AskedFits(o)
<1> DEFINE q == NextQuery
           S == At(Logged[o], q)
<1>1. /\ skipped /\ response' = [a \in Agents |-> At(Logged[a], q)]
      /\ UNCHANGED <<session, closed, predicted>>
  BY DEF SkipTraffic
<1>2. ~session' /\ predicted' = {}
  BY <1>1 DEF TakeoverInv, TakeoverTypeOK
<1>3. q \in Nat /\ step \in Nat \ {0}
  BY CommittedIs
<1>4. response'[o] = S
  BY <1>1
<1> HIDE DEF q
<1>5. Spanned(Logged[o]) /\ OneEach(Logged[o])
  BY LoggedOne
<1>6. (\A x \in S : x.t = q) /\ \A x, y \in S : x = y
  BY <1>3, <1>5, InterpolatedAt, AtOne DEF OneEach
<1>7. q - step \in Int /\ q - step <= q /\ q \in Int
  BY <1>3
<1>8. AnswerFits(o, S, q, q - step, predicted')
  BY <1>2, <1>6, <1>7, LoggedFits
<1> QED
  BY <1>2, <1>4, <1>8 DEF AskedFits, q

LEMMA ReplayedAsk ==
  ASSUME TakeoverInv, TracksInv, session, Replay(NextQuery),
         NEW o \in Agents \ StaticAgents, AnswersFit(o)
  PROVE  AskedFits(o)
<1> DEFINE q == NextQuery
           S == At(Window(closed', q)[o], q)
<1>1. /\ q <= handover /\ closed' = WithEgo(closed, q) /\ predicted' = predicted
      /\ response' = [a \in Agents |-> At(Window(closed', q)[a], q)]
  BY DEF Replay
<1>2. q \in Nat /\ step \in Nat \ {0} /\ asked \in Nat /\ (asked > 0 => q > asked) /\ handover \in Nat
  BY CommittedIs, NextQueryIs DEF TakeoverInv, TakeoverTypeOK
<1>3. predicted = {}
  BY <1>1, <1>2 DEF TakeoverInv
<1>4. closed'[o] = Logged[o]
  BY <1>1, <1>2, <1>3, EgoAlone DEF TakeoverInv, AnswersFit
<1>5. response'[o] = S
  BY <1>1
<1> HIDE DEF q
<1>6. (S = {} <=> At(Logged[o], q) = {}) /\ (\A x \in S : x.t = q) /\ \A x, y \in S : x = y
  <2>1. PICK then : then = closed'
    OBVIOUS
  <2>2. then[o] = Logged[o] /\ q \in Int /\ S = At(Window(then, q)[o], q)
    BY <1>2, <1>4, <2>1
  <2> HIDE DEF S
  <2> QED
    BY <2>2, ReplayedFits
<1> HIDE DEF S
<1>7. q - step \in Int /\ q - step <= q /\ q \in Int
  BY <1>2
<1>8. AnswerFits(o, S, q, q - step, predicted')
  BY <1>1, <1>3, <1>6, <1>7, LoggedFits
<1> QED
  BY <1>1, <1>3, <1>4, <1>5, <1>8 DEF AskedFits, q

(* The window of a query past the handover ends where the tracks do, or      *)
(* later.                                                                    *)
LEMMA WindowReaches ==
  ASSUME TakeoverInv, TracksInv, GridInv, ReplaysForced, session, ~skipped, ~failed, due = "traffic",
         NextQuery > handover
  PROVE  LET end == HistoryEnd(current, NextQuery)
         IN  end \in Int /\ CommittedUntil <= end /\ end < NextQuery /\ (asked > handover => end = asked)
<1>1. /\ NextQuery \in Nat /\ handover \in Nat /\ current \in Nat /\ asked \in Nat /\ CommittedUntil \in Int
      /\ InitialTime \in Nat /\ PolicyStart \in Int
  BY CommittedIs, TrafficConstants DEF TakeoverInv, TakeoverTypeOK, PolicyStart
<1>2. CASE asked = 0
  <2>1. current = InitialTime /\ InitialTime <= handover /\ CommittedUntil = PolicyStart /\ PolicyStart <= handover
    BY <1>2, CommittedIs DEF GridInv, ReplaysForced
  <2> QED
    BY <1>1, <1>2, <2>1 DEF HistoryEnd
<1>3. CASE asked > 0
  <2>1. current = asked /\ CommittedUntil = asked /\ asked < NextQuery
    BY <1>3, CommittedIs DEF TakeoverInv
  <2> QED
    BY <1>1, <2>1 DEF HistoryEnd
<1> QED
  BY <1>1, <1>2, <1>3

LEMMA PredictedAsk ==
  ASSUME TakeoverInv, TracksInv, GridInv, ReplaysForced, session, ~skipped, ~failed, due = "traffic",
         Predict(NextQuery), NEW o \in Agents \ StaticAgents, AnswersFit(o)
  PROVE  AskedFits(o)
<1> DEFINE q == NextQuery
           end == HistoryEnd(current, q)
           before == WithEgo(closed, q)
           c == CommittedUntil
           T == closed[o]
           L == Logged[o]
           s == Simulated(o, before, current, q)
           A == Answers(o, s, end, q)
<1>1. /\ q > handover /\ closed' = AfterPrediction(before, current, q)
      /\ response' = Responses(before, current, q)
      /\ predicted' = predicted \cup {a \in Agents : Asks(q) /\ response'[a] # {}}
  BY DEF Predict
<1>2. /\ q \in Nat /\ c \in Int /\ c = q - step /\ c < q /\ handover \in Nat /\ asked \in Nat /\ current \in Nat
      /\ (asked > 0 => q > asked)
  BY CommittedIs, NextQueryIs DEF TakeoverInv, TakeoverTypeOK
<1>3. end \in Int /\ c <= end /\ end < q /\ (asked > handover => end = asked)
  BY <1>1, WindowReaches
<1> HIDE DEF q, c
<1>4. before \in [Things -> SUBSET Samples] /\ before[o] = T
  BY <1>2, EgoAlone DEF TakeoverInv
<1>5. Spanned(T) /\ o \in Things /\ o # Ego /\ o \in Agents
  BY TrafficAssumption DEF TakeoverInv, TakeoverTypeOK, Things
<1>6. response'[o] = A
  BY <1>1 DEF Responses
<1>7. closed'[o] = Merge(MergedSteps(before[o], s, end, q), A)
  BY <1>1, <1>5 DEF AfterPrediction
<1>8. Asks(q)
  <2>1. Asks(q) <=> FutureTimes(end, q) # {}
    BY DEF Asks
  <2> HIDE DEF end
  <2>2. PICK n \in Nat : ForecastFits(end, q, n)
    BY <1>2, <1>3, ForecastCovers
  <2> QED
    BY <1>2, <1>3, <2>1, <2>2 DEF ForecastFits
<1>9. /\ At(T, end) = {} => A = {} /\ closed'[o] = T
      /\ At(T, end) # {} => \E x \in A : x.t = q
      /\ \A x, y \in A : x.t = q /\ y.t = q => x = y
  <2>1. /\ Spanned(before[o]) /\ current \in Int /\ q \in Int /\ handover \in Int
        /\ q > HistoryEnd(current, q)
    BY <1>2, <1>3, <1>4, <1>5
  <2> HIDE DEF before
  <2>2. /\ At(before[o], end) = {} => A = {} /\ Merge(MergedSteps(before[o], s, end, q), A) = before[o]
        /\ At(before[o], end) # {} => \E x \in A : x.t = q
        /\ \A x, y \in A : x.t = q /\ y.t = q => x = y
    BY <2>1, MovingAnswered
  <2> QED
    BY <1>4, <1>7, <2>2
<1> HIDE DEF before, s, A, end
<1>10. o \in predicted' <=> o \in predicted \/ A # {}
  BY <1>1, <1>5, <1>6, <1>8
<1>11. Spanned(L) /\ \A x \in L : x.t \in Int
  BY LoggedOne
<1> HIDE DEF L, T
<1>12. CASE o \in predicted
  <2>1. asked > handover /\ \E x \in T : x.t = asked
    BY <1>12 DEF TakeoverInv, T
  <2>2. At(T, end) # {}
    <3>1. \E x \in T : x.t <= end /\ end <= x.t
      BY <1>3, <2>1
    <3> QED
      BY <1>3, <1>5, <3>1, InterpolatedAt
  <2>3. \E x \in L : x.t <= q
    <3>1. PICK x \in L : x.t <= asked
      BY <1>12 DEF AnswersFit, L
    <3> QED
      BY <1>2, <1>11, <2>1, <3>1
  <2>4. AnswerFits(o, A, q, c, predicted')
    BY <1>9, <1>10, <1>12, <2>2, <2>3 DEF AnswerFits, L
  <2> QED
    BY <1>2, <1>6, <1>10, <1>12, <2>3, <2>4 DEF AskedFits, L, q
<1>13. CASE o \notin predicted
  <2>1. T = L
    BY <1>13 DEF AnswersFit, T, L
  <2>2. CASE At(T, end) = {}
    <3>1. A = {} /\ closed'[o] = L /\ o \notin predicted'
      BY <1>9, <1>10, <1>13, <2>1, <2>2
    <3>2. ASSUME NEW y \in L, y.t <= c PROVE \A x \in L : x.t < q
      <4>1. y.t <= end
        BY <1>2, <1>3, <1>11, <3>2
      <4>2. \A x \in L : x.t < end
        BY <1>3, <1>11, <2>1, <2>2, <4>1, AtMissing
      <4> QED
        BY <1>2, <1>3, <1>11, <4>2
    <3>3. AnswerFits(o, A, q, c, predicted')
      BY <3>1, <3>2 DEF AnswerFits, L
    <3> QED
      BY <1>2, <1>6, <3>1, <3>3 DEF AskedFits, L, q
  <2>3. CASE At(T, end) # {}
    <3>1. PICK y, z \in L : y.t <= end /\ end <= z.t
      BY <1>3, <1>5, <2>1, <2>3, AtWithin
    <3>2. y.t <= q /\ z.t >= c
      BY <1>2, <1>3, <1>11, <3>1
    <3>3. o \in predicted'
      BY <1>9, <1>10, <2>3
    <3>4. AnswerFits(o, A, q, c, predicted')
      BY <1>9, <2>3, <3>2, <3>3 DEF AnswerFits, L
    <3> QED
      BY <1>2, <1>6, <3>2, <3>3, <3>4 DEF AskedFits, L, q, c
  <2> QED
    BY <2>2, <2>3
<1> QED
  BY <1>12, <1>13

LEMMA MovingAsk ==
  ASSUME TakeoverInv, TracksInv, GridInv, MovingInv, AskTraffic
  PROVE  MovingInv'
<1>1. /\ due = "traffic" /\ due' = "physics" /\ (SkipTraffic \/ (~skipped /\ SimulateNext))
      /\ UNCHANGED <<skipped, renderStart, tracks, logged, loggedTimes, snapshot>>
  BY DEF AskTraffic
<1>2. asked' = NextQuery /\ UNCHANGED <<session, handover, lead, step>>
  BY <1>1 DEF SkipTraffic, SimulateNext, Simulate
<1>3. CommittedUntil' = CommittedUntil /\ CommittedUntil \in Int
  BY <1>1, <1>2, CommittedIs DEF CommittedUntil
<1>4. TimesFit'
  BY <1>1, <1>2, <1>3 DEF MovingInv, TimesFit
<1>5. ReplaysForced' = ReplaysForced
  BY <1>1, <1>2, SameForced
<1>6. ASSUME ReplaysForced, NEW o \in Agents \ StaticAgents
      PROVE  AnswersFit(o)' /\ TrackFits(o)'
  <2>1. AnswersFit(o) /\ TrackFits(o)
    BY <1>6 DEF MovingInv
  <2>2. AskedFits(o)
    <3>1. CASE SkipTraffic
      BY <3>1, SkippedAsk
    <3>2. CASE ~skipped /\ SimulateNext
      <4>1. session /\ ~failed /\ (Replay(NextQuery) \/ Predict(NextQuery))
        BY <3>2 DEF SimulateNext, Simulate
      <4> QED
        BY <1>1, <1>6, <2>1, <3>2, <4>1, ReplayedAsk, PredictedAsk
    <3> QED
      BY <1>1, <3>1, <3>2
  <2>3. AnswersFit(o)'
    BY <1>1, <1>2, <2>2 DEF AnswersFit, AskedFits
  <2>4. TrackFits(o)'
    BY <1>1, <1>3, <2>1, <2>2, LoggedOne, TrackStays DEF AskedFits
  <2> QED
    BY <2>3, <2>4
<1> QED
  BY <1>4, <1>5, <1>6 DEF MovingInv

(* Where a step is forced nobody was predicted yet, if the service replays   *)
(* through the forced steps.                                                 *)
LEMMA NoneForced ==
  ASSUME TakeoverInv, MovingInv, ReplaysForced, ForcedUntil(asked)
  PROVE  predicted = {}
<1>1. /\ asked \in Nat /\ handover \in Nat /\ lead \in Nat /\ step \in Nat \ {0} /\ Min(Logs[Ego]) \in Nat
      /\ renderStart \in 0 .. lead
  BY TrafficConstants DEF TakeoverInv, TakeoverTypeOK, MovingInv, TimesFit
<1>2. CASE skipped
  BY <1>2 DEF TakeoverInv
<1>3. CASE ~skipped
  <2>1. renderStart <= step
    BY <1>3 DEF ReplaysForced
  <2>2. asked <= Min(Logs[Ego]) + renderStart + (handover - Min(Logs[Ego]) - step)
    BY DEF ForcedUntil
  <2>3. ~(asked > handover)
    BY <1>1, <2>1, <2>2
  <2> QED
    BY <2>3 DEF TakeoverInv
<1> QED
  BY <1>2, <1>3

LEMMA MovingPhysics ==
  ASSUME TakeoverInv, TracksInv, MovingInv, RunPhysics
  PROVE  MovingInv'
<1> DEFINE S(o) == IF ForcedUntil(asked) THEN Logged[o] ELSE response[o]
<1>1. /\ due = "physics" /\ due' = "step" /\ accumulated' = [o \in Agents |-> At(S(o), asked)]
      /\ UNCHANGED <<skipped, renderStart, tracks, logged, loggedTimes, snapshot>>
      /\ UNCHANGED <<session, handover, lead, step, closed, asked, predicted>>
  BY DEF RunPhysics, trafficVars
<1>2. CommittedUntil' = CommittedUntil /\ CommittedUntil \in Int
  BY <1>1, CommittedIs DEF CommittedUntil
<1>3. TimesFit'
  BY <1>1, <1>2 DEF MovingInv, TimesFit
<1>4. ReplaysForced' = ReplaysForced
  BY <1>1, SameForced
<1>5. asked \in Int /\ asked - step \in Int /\ asked - step <= asked
  BY CommittedIs
<1>6. ASSUME ReplaysForced, NEW o \in Agents \ StaticAgents
      PROVE  AnswersFit(o)' /\ TrackFits(o)'
  <2>1. AnswersFit(o) /\ TrackFits(o)
    BY <1>6 DEF MovingInv
  <2>2. AnswerFits(o, At(S(o), asked), asked, asked - step, predicted)
    <3>1. CASE ForcedUntil(asked)
      <4>1. S(o) = Logged[o] /\ o \notin predicted
        BY <1>6, <3>1, NoneForced
      <4> HIDE DEF S
      <4>2. Spanned(Logged[o]) /\ OneEach(Logged[o])
        BY LoggedOne
      <4>3. (\A x \in At(Logged[o], asked) : x.t = asked) /\ \A x, y \in At(Logged[o], asked) : x = y
        BY <1>5, <4>2, InterpolatedAt, AtOne DEF OneEach
      <4> QED
        BY <1>5, <4>1, <4>3, LoggedFits
    <3>2. CASE ~ForcedUntil(asked)
      <4>1. S(o) = response[o] /\ Spanned(response[o]) /\ \A x \in response[o] : x.t >= asked
        BY <3>2 DEF TakeoverInv, TakeoverTypeOK, TakesOver
      <4> HIDE DEF S
      <4>2. AnswerFits(o, response[o], asked, asked - step, predicted)
        BY <1>1, <2>1 DEF AnswersFit
      <4> QED
        BY <1>5, <4>1, <4>2, AnswerAt
    <3> QED
      BY <3>1, <3>2
  <2>3. accumulated'[o] = At(S(o), asked)
    BY <1>1
  <2> HIDE DEF S
  <2>4. AnswersFit(o)'
    BY <1>1, <2>1, <2>2, <2>3 DEF AnswersFit
  <2>5. TrackFits(o)'
    BY <1>1, <1>2, <2>1, LoggedOne, TrackStays
  <2> QED
    BY <2>4, <2>5
<1> QED
  BY <1>3, <1>4, <1>6 DEF MovingInv

(* A track up to a time, and an answer for a later one.                      *)
Growing(o, T, A, c, until) ==
  /\ Spanned(T) /\ OneEach(T) /\ \A x \in T : x.t <= c
  /\ T # {} => \E x \in Logged[o] : x.t <= c
  /\ T # {} /\ (\A x \in T : x.t # c) => Ended(o, c)
  /\ Spanned(A) /\ (\A x \in A : x.t = until) /\ AnswerFits(o, A, until, c, predicted)

(* A track that was extended up to a time changed nowhere before it.         *)
Grown(o, T, M, c, until) ==
  /\ Spanned(M) /\ OneEach(M)
  /\ M # {} => \E x \in Logged[o] : x.t <= until
  /\ M # {} /\ (\A x \in M : x.t # until) => Ended(o, until)
  /\ o \in predicted => \E x \in M : x.t = until
  /\ \A t \in Int : t <= c /\ At(M, t) # {} => At(M, t) = At(T, t)

(* A commit adds to a track of an agent that moves what fits its end.        *)
LEMMA TrackGrows ==
  ASSUME NEW o \in Agents, NEW c \in Int, NEW until \in Int, c < until,
         NEW T, NEW A, Growing(o, T, A, c, until)
  PROVE  Grown(o, T, T \cup A, c, until)
<1> DEFINE M == T \cup A
<1>0. /\ Spanned(T) /\ OneEach(T) /\ (\A x \in T : x.t <= c) /\ Spanned(A) /\ (\A x \in A : x.t = until)
      /\ AnswerFits(o, A, until, c, predicted) /\ (T # {} => \E x \in Logged[o] : x.t <= c)
      /\ T # {} /\ (\A x \in T : x.t # c) => Ended(o, c)
  BY DEF Growing
<1>1. Spanned(M)
  BY <1>0, SpannedUnion
<1>2. /\ \A x \in T : x \in Samples /\ x.t \in Int
      /\ \A x \in A : x \in Samples /\ x.t \in Int
      /\ \A x \in Logged[o] : x.t \in Int
  BY <1>0, LoggedOne DEF Spanned, Samples
<1>3. OneEach(M)
  <2>1. ASSUME NEW x \in M, NEW y \in M, x.t = y.t PROVE x = y
    <3>1. CASE x \in A /\ y \in A
      BY <1>0, <3>1 DEF AnswerFits
    <3>2. CASE x \in T /\ y \in T
      BY <1>0, <2>1, <3>2 DEF OneEach
    <3>3. CASE x \in T /\ y \in A
      BY <1>0, <1>2, <2>1, <3>3
    <3>4. CASE x \in A /\ y \in T
      BY <1>0, <1>2, <2>1, <3>4
    <3> QED
      BY <1>0, <3>1, <3>2, <3>3, <3>4
  <2> QED
    BY <1>0, <2>1 DEF OneEach
<1>4. ASSUME M # {} PROVE \E x \in Logged[o] : x.t <= until
  <2>1. CASE A # {}
    BY <1>0, <2>1 DEF AnswerFits
  <2>2. CASE T # {}
    <3>1. PICK x \in Logged[o] : x.t <= c
      BY <1>0, <2>2
    <3> QED
      BY <1>0, <1>2, <3>1
  <2> QED
    BY <1>0, <1>4, <2>1, <2>2
<1>5. ASSUME M # {}, \A x \in M : x.t # until PROVE Ended(o, until)
  <2>1. A = {} /\ T # {}
    BY <1>0, <1>5
  <2> QED
    BY <1>0, <2>1 DEF AnswerFits, Ended
<1>6. ASSUME o \in predicted PROVE \E x \in M : x.t = until
  BY <1>0, <1>6 DEF AnswerFits
<1>7. ASSUME NEW t \in Int, t <= c, At(M, t) # {} PROVE At(M, t) = At(T, t)
  <2>1. \A x \in T, y \in A : x.t < y.t
    BY <1>0, <1>2
  <2>2. CASE At(T, t) # {}
    BY <1>0, <2>1, <2>2, ExtendedAfter
  <2>3. CASE At(T, t) = {}
    <3>1. PICK y, z \in M : y.t <= t /\ t <= z.t
      BY <1>0, <1>1, <1>7, AtWithin
    <3>2. y \in T
      BY <1>0, <1>2, <1>7, <3>1
    <3>3. z \in A
      BY <1>0, <2>3, <3>1, <3>2, InterpolatedAt
    <3>4. ~Ended(o, c)
      BY <1>0, <1>2, <3>3 DEF AnswerFits, Ended
    <3>5. PICK w \in T : w.t = c
      BY <1>0, <3>2, <3>4
    <3>6. At(T, t) # {}
      BY <1>0, <1>7, <3>1, <3>2, <3>5, InterpolatedAt
    <3> QED
      BY <1>0, <2>3, <3>6
  <2> QED
    BY <1>0, <2>2, <2>3
<1> QED
  BY <1>1, <1>3, <1>4, <1>5, <1>6, <1>7 DEF Grown

(* What the bridge is told of an agent at an instant that was logged before. *)
LEMMA SnapshotTells ==
  ASSUME TracksInv', NEW o \in Agents, NobodyAppears(o)', NEW t \in Int, t \in loggedTimes',
         Spanned(tracks'[o]), OneEach(tracks'[o]),
         At(tracks'[o], t) # {} => \E x \in tracks'[o] : x.t = t,
         snapshot' = Snapshot(tracks', t)
  PROVE  SnapshotFits(o)'
<1> DEFINE M == tracks'[o]
           then == {x \in logged' : x.o = o /\ x.pose.t = t}
<1>1. /\ snapshot'.at = t
      /\ o \in DOMAIN snapshot'.actors <=> Covers(M, t)
      /\ Covers(M, t) => snapshot'.actors[o].current = Closest(M, t)
  BY DEF Snapshot
<1>2. o \in Things /\ tracks' \in [Things -> SUBSET Samples] /\ \A n \in Things : Spanned(tracks'[n])
  <2>1. TracksFit'
    BY DEF TracksInv
  <2>2. tracks' \in [Things -> SUBSET Samples]
    BY <2>1 DEF TracksFit
  <2>3. ASSUME NEW n \in Things PROVE Spanned(tracks'[n])
    <3>1. /\ CommittedUntil' \in Int /\ tracks'[n] \in SUBSET Samples
          /\ \A x \in tracks'[n] : Min(Logs[Ego]) <= x.t /\ x.t <= CommittedUntil'
      BY <2>1, <2>3 DEF TracksFit
    <3> QED
      BY <3>1, TrafficConstants DEF Spanned
  <2> QED
    BY <2>2, <2>3 DEF Things
<1>3. ASSUME NEW p \in then PROVE \E x \in At(M, t) : p = [o |-> o, pose |-> x]
  <2>1. p \in PosesAt(tracks', loggedTimes')
    BY DEF TracksInv, LogIsKept
  <2> HIDE DEF then
  <2>2. PICK n \in Things, i \in loggedTimes' : \E x \in At(tracks'[n], i) : p = [o |-> n, pose |-> x]
    BY ONLY <2>1, PosesAre
  <2>3. PICK x \in At(tracks'[n], i) : p = [o |-> n, pose |-> x]
    BY <2>2
  <2>4. n = o /\ x.t = t
    BY <1>3, <2>3 DEF then
  <2>5. i \in Int
    BY TrafficConstants DEF TracksInv, TracksFit
  <2>6. i = t
    BY <1>2, <2>3, <2>4, <2>5, InterpolatedAt
  <2> QED
    BY <2>3, <2>4, <2>6
<1>4. ASSUME NEW x \in At(M, t) PROVE [o |-> o, pose |-> x] \in then
  <2>1. [o |-> o, pose |-> x] \in PosesAt(tracks', loggedTimes')
    BY <1>2, PosesAre
  <2>2. x.t = t
    BY <1>2, InterpolatedAt
  <2> QED
    BY <2>1, <2>2 DEF NobodyAppears
<1> HIDE DEF then
<1>5. CASE At(M, t) = {}
  <2>1. then = {}
    BY <1>3, <1>5
  <2>2. o \notin DOMAIN snapshot'.actors
    BY <1>1, <1>5, AtCovered
  <2> QED
    BY <1>1, <2>1, <2>2 DEF SnapshotFits, then
<1>6. CASE At(M, t) # {}
  <2>1. PICK z \in M : z.t = t
    BY <1>6
  <2>2. At(M, t) = {z} /\ Closest(M, t) = z
    BY <2>1, AtSample, ClosestIs
  <2>3. then = {[o |-> o, pose |-> z]}
    BY <1>3, <1>4, <2>2
  <2>4. o \in DOMAIN snapshot'.actors /\ snapshot'.actors[o].current = z
    BY <1>1, <1>6, <2>2, AtCovered
  <2> QED
    BY <1>1, <2>3, <2>4 DEF SnapshotFits, then
<1> QED
  BY <1>5, <1>6

LEMMA MovingStep ==
  ASSUME TakeoverInv, TracksInv, TracksInv', MovingInv, RunStep
  PROVE  MovingInv'
<1> DEFINE c == CommittedUntil
<1>1. /\ due = "step" /\ due' = "traffic"
      /\ UNCHANGED <<skipped, renderStart, session, handover, lead, step, closed, asked, predicted>>
  BY DEF RunStep, trafficVars
<1>2. /\ c \in Int /\ asked \in Nat /\ asked > 0 /\ c = asked - step /\ c < asked /\ StepStart = c
      /\ CommittedUntil' = asked
  <2>1. asked > 0
    BY <1>1 DEF TracksInv, ActorsFit
  <2> QED
    BY <1>1, <2>1, CommittedIs DEF StepStart, CommittedUntil, NextQuery
<1>3. outcome' = "running"
  BY DEF TracksInv, CommitsSucceed
<1>4. tracks' = Extended /\ snapshot' = Snapshot(tracks', StepStart) /\ LogActors(tracks', EgoInstants)
  BY <1>3 DEF RunStep
<1>5. logged' = logged \cup PosesAt(tracks', EgoInstants) /\ loggedTimes' = loggedTimes \cup EgoInstants
  BY <1>3, <1>4 DEF LogActors
<1>6. asked \in EgoInstants
  BY <1>2 DEF EgoInstants
<1>7. c \in loggedTimes /\ \A t \in loggedTimes : t \in Int /\ t <= c
  BY <1>1, TrafficConstants DEF MovingInv, TimesFit, TracksInv, TracksFit
<1> HIDE DEF c
<1>8. snapshot'.at = c
  BY <1>2, <1>4 DEF Snapshot
<1>9. TimesFit'
  BY <1>1, <1>2, <1>5, <1>6, <1>7, <1>8 DEF MovingInv, TimesFit
<1>10. ReplaysForced' = ReplaysForced
  BY <1>1, SameForced
<1>11. ASSUME ReplaysForced, NEW o \in Agents \ StaticAgents
       PROVE  AnswersFit(o)' /\ TrackFits(o)'
  <2> DEFINE T == tracks[o]
             A == accumulated[o]
             M == T \cup A
  <2>1. AnswersFit(o) /\ TrackFits(o)
    BY <1>11 DEF MovingInv
  <2>2. o \in Agents /\ o \in Things /\ o # Ego
    BY TrafficAssumption DEF Things
  <2>3. tracks'[o] = M
    BY <1>4, <2>2 DEF Extended
  <2>4. /\ Spanned(T) /\ OneEach(T) /\ (\A x \in T : x.t <= c)
        /\ T # {} => \E x \in Logged[o] : x.t <= c
        /\ T # {} /\ (\A x \in T : x.t # c) => Ended(o, c)
    BY <2>1, <2>2, TracksSpan DEF TracksInv, TracksFit, TrackFits, c
  <2>5. /\ A \in SUBSET Samples /\ (\A x \in A : x.t = asked)
        /\ AnswerFits(o, A, asked, c, predicted)
    BY <1>1, <1>2, <2>1, <2>2 DEF TracksInv, ActorsFit, AnswersFit
  <2> HIDE DEF T, A
  <2>6. Spanned(A)
    BY <1>2, <2>5 DEF Spanned
  <2>7. /\ Spanned(M) /\ OneEach(M)
        /\ M # {} => \E x \in Logged[o] : x.t <= asked
        /\ M # {} /\ (\A x \in M : x.t # asked) => Ended(o, asked)
        /\ o \in predicted => \E x \in M : x.t = asked
        /\ \A t \in Int : t <= c /\ At(M, t) # {} => At(M, t) = At(T, t)
    <3>1. o \in Agents /\ c \in Int /\ asked \in Int /\ c < asked
      BY <1>2, <2>2
    <3>2. \A x \in A : x.t = asked
      BY <2>5
    <3>3. AnswerFits(o, A, asked, c, predicted)
      BY <2>5
    <3>4. Grown(o, T, M, c, asked)
      <4>1. Growing(o, T, A, c, asked)
        BY <2>4, <2>6, <3>2, <3>3 DEF Growing
      <4> QED
        BY ONLY Zenon, <3>1, <4>1, TrackGrows
    <3> QED
      BY <3>4 DEF Grown
  <2>8. NobodyAppears(o)'
    <3>1. \A t \in loggedTimes : At(tracks'[o], t) # {} => At(tracks'[o], t) = At(tracks[o], t)
      BY <1>7, <2>3, <2>7 DEF T
    <3> QED
      BY <1>5, <2>1, <3>1, NobodyNew DEF TrackFits
  <2>9. ASSUME At(M, c) # {} PROVE \E x \in M : x.t = c
    <3>1. At(T, c) # {}
      <4>1. \A t \in Int : t <= c /\ At(M, t) # {} => At(M, t) = At(T, t)
        BY <2>7
      <4>2. c \in Int /\ c <= c
        BY <1>2
      <4> HIDE DEF M
      <4>3. At(M, c) = At(T, c)
        BY ONLY <4>1, <4>2, <2>9
      <4> QED
        BY ONLY <4>3, <2>9
    <3>2. PICK z \in T : c <= z.t
      BY <1>2, <2>4, <3>1, AtWithin
    <3>3. z.t = c
      BY <1>2, <2>4, <3>2 DEF Spanned, Samples
    <3> QED
      BY <3>2, <3>3
  <2>10. SnapshotFits(o)'
    <3>1. /\ Spanned(tracks'[o]) /\ OneEach(tracks'[o]) /\ c \in loggedTimes'
          /\ At(tracks'[o], c) # {} => \E x \in tracks'[o] : x.t = c
          /\ snapshot' = Snapshot(tracks', c)
      BY <1>2, <1>4, <1>5, <1>7, <2>3, <2>7, <2>9
    <3> QED
      BY <1>2, <2>2, <2>8, <3>1, SnapshotTells
  <2>11. Ended(o, asked)' <=> Ended(o, asked)
    BY <1>1 DEF Ended
  <2>12. TrackFits(o)'
    BY <1>1, <1>2, <2>3, <2>7, <2>8, <2>10, <2>11 DEF TrackFits
  <2>13. AnswersFit(o)'
    BY <1>1, <2>1 DEF AnswersFit
  <2> QED
    BY <2>12, <2>13
<1> QED
  BY <1>9, <1>10, <1>11 DEF MovingInv

LEMMA MovingGoesOn ==
  TakeoverInv /\ TracksInv /\ TracksInv' /\ GridInv /\ MovingInv /\ [ActorsNext]_<<trafficVars, actorVars>> => MovingInv'
<1> SUFFICES ASSUME TakeoverInv, TracksInv, TracksInv', GridInv, MovingInv, [ActorsNext]_<<trafficVars, actorVars>>
             PROVE  MovingInv'
  OBVIOUS
<1>1. CASE UNCHANGED <<trafficVars, actorVars>>
  <2>1. /\ UNCHANGED <<session, handover, lead, step, closed, asked, response, predicted>>
        /\ UNCHANGED <<skipped, renderStart, due, tracks, accumulated, logged, loggedTimes, snapshot>>
    BY <1>1 DEF trafficVars, actorVars
  <2>2. CommittedUntil' = CommittedUntil /\ CommittedUntil \in Int
    BY <2>1, CommittedIs DEF CommittedUntil, NextQuery
  <2>3. TimesFit'
    BY <2>1, <2>2 DEF MovingInv, TimesFit
  <2>4. ASSUME NEW o \in Agents, AnswersFit(o), TrackFits(o) PROVE AnswersFit(o)' /\ TrackFits(o)'
    <3>1. AnswersFit(o)'
      BY <2>1, <2>4 DEF AnswersFit
    <3> QED
      BY <2>1, <2>2, <2>4, <3>1, LoggedOne, TrackStays
  <2> QED
    BY <2>1, <2>3, <2>4, SameForced DEF MovingInv
<1> QED
  BY <1>1, MovingSession, MovingInitialStep, MovingAsk, MovingPhysics, MovingStep DEF ActorsNext

(* For any logs, grid, control step, handover and forced phase, whatever the *)
(* network draws and whichever queries fail, what ActorsAsLogged says of the *)
(* tracks, the log and the bridge: beside ActorsStayLogged, where the service *)
(* replays through the forced steps (ReplaysForced), a moving agent that was *)
(* missing when an instant was logged never has a pose for it later, the     *)
(* bridge is told what the log says, and an agent that was predicted is      *)
(* there at the last instant logged before every query.                      *)
THEOREM ActorsStayAsLogged == ActorsSpec => []ActorsAsLogged
<1>1. TakeoverInv /\ TracksInv /\ MovingInv => ActorsAsLogged
  <2> SUFFICES ASSUME TakeoverInv, TracksInv, MovingInv PROVE ActorsAsLogged
    OBVIOUS
  <2>1. CommitsSucceed /\ LogIsKept /\ NobodyAppears(Ego)
    BY DEF TracksInv
  <2>2. ASSUME ReplaysForced, NEW o \in Agents \ StaticAgents PROVE NobodyAppears(o) /\ SnapshotFits(o)
    BY <2>2 DEF MovingInv, TrackFits
  <2>3. ASSUME ReplaysForced, due = "traffic", asked > 0, NEW o \in predicted \ StaticAgents
        PROVE  \E x \in tracks[o] : x.t = Max(loggedTimes)
    <3>1. o \in Agents \ StaticAgents
      BY DEF TakeoverInv, TakeoverTypeOK
    <3>2. PICK x \in tracks[o] : x.t = CommittedUntil
      BY <2>3, <3>1 DEF MovingInv, TrackFits
    <3>3. CommittedUntil \in loggedTimes /\ loggedTimes \in SUBSET Int /\ \A t \in loggedTimes : t <= CommittedUntil
      BY <2>3, TrafficConstants DEF MovingInv, TimesFit, TracksInv, TracksFit
    <3>4. Max(loggedTimes) = CommittedUntil
      BY <3>3, GreatestIs
    <3> QED
      BY <3>2, <3>4
  <2> QED
    BY <2>1, <2>2, <2>3 DEF ActorsAsLogged, SnapshotFits
<1> QED
  BY ActorsStart, TakeoverStep, NetworkStart, NetworkStep, GridStart, GridStep, TracksStart, TracksStep,
     MovingStart, MovingGoesOn, <1>1, PTL DEF ActorsSpec
=============================================================================
