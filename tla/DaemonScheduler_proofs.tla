----------------------- MODULE DaemonScheduler_proofs -----------------------
(***************************************************************************)
(* Proofs about the scheduler over any dispatch strategy, for every set of *)
(* requests, jobs, services, slots and workers.                            *)
(***************************************************************************)
EXTENDS DaemonScheduler, FiniteSetTheorems, TLAPS

(* Every request has finitely many jobs. *)
LEMMA JobsOfFinite ==
  ASSUME NEW r \in Requests
  PROVE  IsFiniteSet(JobsOf(r)) /\ Cardinality(JobsOf(r)) \in Nat
<1>1. IsFiniteSet(JobsOf(r))
  BY JobsAssumption, FS_Subset DEF JobsOf
<1>2. QED
  BY <1>1, FS_CardinalityType

(* A list as long as the set of its elements has each of them once. *)
LEMMA ListOfDistinct ==
  ASSUME NEW S, NEW n \in Nat, NEW f \in [1..n -> S], Cardinality({f[i] : i \in 1..n}) = n
  PROVE  \A i, k \in 1..n : f[i] = f[k] => i = k
<1> DEFINE T == {f[i] : i \in 1..n}
<1>1. f \in Surjection(1..n, T)
  BY DEF Surjection
<1>2. IsFiniteSet(1..n) /\ Cardinality(1..n) = n
  BY FS_Interval
<1>3. f \in Injection(1..n, T)
  BY <1>1, <1>2, FS_Surjection
<1>4. QED
  BY <1>3 DEF Injection, IsInjective

(* The pools and the slots of a job's in-flight entry have their types. *)
LEMMA PoolsOfType ==
  ASSUME NEW j \in Jobs, requestPools \subseteq DriverRequests
  PROVE  PoolsOf(j) \in [Services -> Pools]
BY DaemonAssumption DEF PoolsOf, PoolOf, Pools

LEMMA AcquiredType ==
  ASSUME NEW e \in Entry, NEW s \in Services, e.pools[s] \notin SkipPools
  PROVE  e.pools[s] \in Pools /\ e.acquired[s] \in Slots
BY DEF Entry

(* Releasing an entry returns slots only. *)
LEMMA ReleaseType ==
  ASSUME free \in [Pools -> SUBSET Slots], NEW e \in Entry, ReleaseAll(e)
  PROVE  free' \in [Pools -> SUBSET Slots]
<1>1. ASSUME NEW p \in Pools, p \notin SkipPools
      PROVE  {e.acquired[s] : s \in {t \in Services : e.pools[t] = p}} \subseteq Slots
  BY <1>1, AcquiredType
<1>2. QED
  BY <1>1 DEF ReleaseAll

LEMMA ReleaseEntryType ==
  ASSUME TypeOK, NEW j \in Jobs, ReleaseEntry(j)
  PROVE  free' \in [Pools -> SUBSET Slots] /\ inFlight' \in [Jobs -> Entry \cup {None}]
<1>1. inFlight[j] \in Entry /\ ReleaseAll(inFlight[j])
  BY DEF ReleaseEntry, TypeOK
<1>2. free' \in [Pools -> SUBSET Slots]
  BY <1>1, ReleaseType DEF TypeOK
<1>3. inFlight' \in [Jobs -> Entry \cup {None}]
  BY DEF ReleaseEntry, TypeOK
<1>4. QED
  BY <1>2, <1>3

LEMMA EntryType ==
  ASSUME TypeOK, NEW j \in Jobs, NEW acq \in Acquisitions(j)
  PROVE  [pools |-> PoolsOf(j), acquired |-> acq] \in Entry
<1>1. PoolsOf(j) \in [Services -> Pools] /\ acq \in [Services -> Slots \cup {SkipSlot}]
  BY PoolsOfType DEF Acquisitions, TypeOK
<1>2. ASSUME NEW s \in Services
      PROVE  acq[s] = SkipSlot <=> PoolsOf(j)[s] \in SkipPools
  BY <1>1, DaemonAssumption DEF Acquisitions, TypeOK
<1>3. QED
  BY <1>1, <1>2 DEF Entry

-----------------------------------------------------------------------------
LEMMA InitTypeOK == Init => TypeOK
BY DaemonAssumption DEF Init, StoreInit, TypeOK, StoreTypeOK, Completion, WaiterState, Phases

(* No step takes a variable out of its type. *)
LEMMA NextTypeOK == TypeOK /\ [Next]_vars => TypeOK'
<1> SUFFICES ASSUME TypeOK, [Next]_vars PROVE TypeOK'
  OBVIOUS
<1>0. \A r \in Requests : Cardinality(JobsOf(r)) \in Int
  BY JobsOfFinite
<1> USE DEF TypeOK, StoreTypeOK, Completion, WaiterState, Ended, Phases,
            storeVars, schedVars, workerVars
<1>1. ASSUME NEW r \in Requests, Submit(r) PROVE TypeOK'
  <2>1. pendingJobs' \in [Requests -> Int]
    <3>1. Cardinality(JobsOf(r)) \in Int
      BY <1>0
    <3>2. pendingJobs' = [pendingJobs EXCEPT ![r] = Cardinality(JobsOf(r))]
      BY <1>1 DEF Submit, Register
    <3>3. QED
      BY <3>1, <3>2
  <2>2. completion' \in [Requests -> Completion]
    BY <1>1 DEF Submit, Register
  <2>3. pending' \subseteq Jobs
    BY <1>1 DEF Submit, JobsOf
  <2>4. QED
    BY <1>1, <2>1, <2>2, <2>3 DEF Submit, Register
<1>2. ASSUME NEW j \in Jobs, DispatchStep(j) PROVE TypeOK'
  <2>1. PICK acq \in Acquisitions(j) : Dispatch(j, acq)
    BY <1>2 DEF DispatchStep
  <2>2. inFlight' \in [Jobs -> Entry \cup {None}]
    BY <2>1, EntryType DEF Dispatch
  <2>3. free' \in [Pools -> SUBSET Slots]
    BY <2>1 DEF Dispatch
  <2>4. QED
    BY <2>1, <2>2, <2>3 DEF Dispatch
<1>3. ASSUME DispatchEnds PROVE TypeOK'
  BY <1>3 DEF DispatchEnds, DispatchReturns, PumpReturns, SubmitReturns
<1>4. ASSUME PumpResult PROVE TypeOK'
  <2>1. CASE ProcessResult(polled)
    <3>1. polled \in Jobs /\ RequestOf[polled] \in Requests
      BY <1>4, RequestOfAssumption DEF PumpResult
    <3>2. ReleaseEntry(polled)
      BY <2>1 DEF ProcessResult
    <3>3. free' \in [Pools -> SUBSET Slots] /\ inFlight' \in [Jobs -> Entry \cup {None}]
      BY <3>1, <3>2, ReleaseEntryType
    <3>4. StoreTypeOK'
      <4>1. registered' \subseteq Requests /\ abandoned' = abandoned /\ waiter' = waiter
        BY <1>4, <2>1 DEF PumpResult, ProcessResult, RecordAndReap
      <4>2. pendingJobs' \in [Requests -> Int] /\ results' \in [Requests -> SUBSET Jobs]
        <5>1. results' = [results EXCEPT ![RequestOf[polled]] = @ \cup {polled}]
          BY <2>1 DEF ProcessResult, RecordAndReap
        <5>2. results[RequestOf[polled]] \cup {polled} \in SUBSET Jobs
          BY <3>1
        <5>3. pendingJobs' \in [Requests -> Int]
          <6>1. pendingJobs' = [pendingJobs EXCEPT
                                  ![RequestOf[polled]] = pendingJobs[RequestOf[polled]] - 1]
            BY <2>1 DEF ProcessResult, RecordAndReap
          <6>2. pendingJobs \in [Requests -> Int]
            OBVIOUS
          <6>3. pendingJobs[RequestOf[polled]] - 1 \in Int
            BY ONLY <6>2, <3>1
          <6>4. QED
            BY ONLY <6>1, <6>2, <6>3
        <5>4. QED
          BY <5>1, <5>2, <5>3, <3>1 DEF TypeOK
      <4>3. completion' \in [Requests -> Completion]
        BY <2>1, <3>1 DEF ProcessResult, RecordAndReap
      <4>4. QED
        BY <4>1, <4>2, <4>3
    <3>5. QED
      BY <1>4, <2>1, <3>1, <3>2, <3>3, <3>4 DEF PumpResult, ProcessResult, ReleaseEntry
  <2>2. CASE ResultFails(polled)
    <3>1. polled \in Jobs
      BY <1>4 DEF PumpResult
    <3>2. CASE UNCHANGED schedVars
      BY <1>4, <2>2, <3>2 DEF PumpResult, ResultFails, PumpFails, FailAllRequests, FailRequests
    <3>3. CASE ReleaseEntry(polled)
      <4>1. free' \in [Pools -> SUBSET Slots] /\ inFlight' \in [Jobs -> Entry \cup {None}]
        BY <3>1, <3>3, ReleaseEntryType
      <4>2. QED
        BY <1>4, <2>2, <3>3, <4>1
        DEF PumpResult, ResultFails, PumpFails, FailAllRequests, FailRequests, ReleaseEntry
    <3>4. QED
      BY <2>2, <3>2, <3>3 DEF ResultFails
  <2>3. QED
    BY <1>4, <2>1, <2>2 DEF PumpResult
<1>5. ASSUME ShutdownScheduler PROVE TypeOK'
  BY <1>5 DEF ShutdownScheduler, FailRequests
<1>6. ASSUME OtherStep PROVE TypeOK'
  <2>1. ASSUME NEW r \in Requests, Refuse(r) \/ Wake(r) \/ Disconnect(r) \/ Abandon(r)
        PROVE  TypeOK'
    BY <2>1 DEF Refuse, Wake, WaiterWakes, Disconnect, CancelWaiters, Abandon, WaiterAbandons
  <2>2. ASSUME NEW j \in Jobs, ThreadPolls(j) PROVE TypeOK'
    BY <2>2 DEF ThreadPolls
  <2>3. ASSUME PumpTimeout PROVE TypeOK'
    BY <2>3 DEF PumpTimeout, PumpFails, FailAllRequests, FailRequests
  <2>4. ASSUME NEW w \in Workers, CrashWorker(w) PROVE TypeOK'
    BY <2>4 DEF CrashWorker
  <2>5. ASSUME NEW w \in Workers, NEW j \in Jobs, TakeJob(w, j) \/ FinishJob(w, j)
        PROVE  TypeOK'
    <3>1. running' \in [Workers -> SUBSET Jobs] /\ jobQueue' \subseteq Jobs
          /\ resultQueue' \subseteq Jobs
      <4>1. CASE TakeJob(w, j)
        <5>1. running' = [running EXCEPT ![w] = @ \cup {j}]
          BY <4>1 DEF TakeJob
        <5>2. running[w] \cup {j} \in SUBSET Jobs
          OBVIOUS
        <5>3. running' \in [Workers -> SUBSET Jobs]
          BY <5>1, <5>2
        <5>4. QED
          BY <4>1, <5>3 DEF TakeJob
      <4>2. CASE FinishJob(w, j)
        BY <4>2 DEF FinishJob
      <4>3. QED
        BY <2>5, <4>1, <4>2
    <3>2. UNCHANGED <<storeVars, waiter, schedVars, pump, polled, workers, phase>>
      BY <2>5 DEF TakeJob, FinishJob
    <3>3. QED
      BY <3>1, <3>2
  <2>6. ASSUME RequestShutdown \/ GraceExpires \/ ServerStops \/ StopWorkers PROVE TypeOK'
    BY <2>6 DEF RequestShutdown, GraceExpires, CancelWaiters, ServerStops, StopWorkers
  <2>7. QED
    BY <1>6, <2>1, <2>2, <2>3, <2>4, <2>5, <2>6 DEF OtherStep
<1>7. CASE UNCHANGED vars
  BY <1>7 DEF vars
<1>8. QED
  BY <1>1, <1>2, <1>3, <1>4, <1>5, <1>6, <1>7 DEF Next

(* Type correctness of the daemon for all values of the constants. *)
THEOREM TypeCorrect == Spec => []TypeOK
BY InitTypeOK, NextTypeOK, PTL DEF Spec

-----------------------------------------------------------------------------
(* Every step of the daemon either dispatches a job, releases the entry of a *)
(* job whose result has come, or leaves the slots and the entries alone.     *)
LEMMA SlotSteps ==
  ASSUME TypeOK, [Next]_vars
  PROVE  \/ \E j \in Jobs : \E acq \in Acquisitions(j) : Dispatch(j, acq)
         \/ \E j \in Jobs : ReleaseEntry(j) /\ waiter' = waiter
         \/ UNCHANGED <<free, inFlight>>
<1> USE DEF storeVars, schedVars, workerVars
<1>1. ASSUME NEW r \in Requests, Submit(r) PROVE UNCHANGED <<free, inFlight>>
  BY <1>1 DEF Submit
<1>2. ASSUME NEW j \in Jobs, DispatchStep(j)
      PROVE  \E acq \in Acquisitions(j) : Dispatch(j, acq)
  BY <1>2 DEF DispatchStep
<1>3. ASSUME DispatchEnds PROVE UNCHANGED <<free, inFlight>>
  BY <1>3 DEF DispatchEnds, DispatchReturns, PumpReturns, SubmitReturns
<1>4. ASSUME PumpResult
      PROVE  \/ \E j \in Jobs : ReleaseEntry(j) /\ waiter' = waiter
             \/ UNCHANGED <<free, inFlight>>
  <2>1. polled \in Jobs /\ waiter' = waiter
    BY <1>4 DEF PumpResult, TypeOK
  <2>2. QED
    BY <1>4, <2>1 DEF PumpResult, ProcessResult, ResultFails
<1>5. ASSUME ShutdownScheduler PROVE UNCHANGED <<free, inFlight>>
  BY <1>5 DEF ShutdownScheduler
<1>6. ASSUME OtherStep PROVE UNCHANGED <<free, inFlight>>
  BY <1>6
  DEF OtherStep, Refuse, Wake, Disconnect, Abandon, ThreadPolls, PumpTimeout, CrashWorker,
      TakeJob, FinishJob, RequestShutdown, GraceExpires, ServerStops, StopWorkers
<1>7. CASE UNCHANGED vars
  BY <1>7 DEF vars
<1>8. QED
  BY <1>1, <1>2, <1>3, <1>4, <1>5, <1>6, <1>7 DEF Next

(* Where a job can be before it is in flight: a job still queued, or of a    *)
(* request not submitted yet, has no entry a dispatch could overwrite.       *)
NotYetInFlight ==
  \A j \in Jobs :
    /\ waiter[RequestOf[j]] = "new" => j \notin pending
    /\ waiter[RequestOf[j]] = "new" \/ j \in pending => inFlight[j] = None

LEMMA InitNotYetInFlight == Init => NotYetInFlight
BY DEF Init, StoreInit, NotYetInFlight

LEMMA NextNotYetInFlight ==
  ASSUME TypeOK, NotYetInFlight, [Next]_vars
  PROVE  NotYetInFlight'
<1> USE RequestOfAssumption DEF NotYetInFlight, TypeOK, StoreTypeOK
<1>0. USE DEF storeVars, schedVars, workerVars
<1>1. ASSUME NEW r \in Requests, Submit(r) PROVE NotYetInFlight'
  BY <1>1 DEF Submit, JobsOf
<1>2. ASSUME NEW j \in Jobs, DispatchStep(j) PROVE NotYetInFlight'
  BY <1>2 DEF DispatchStep, Dispatch
<1>3. ASSUME DispatchEnds PROVE NotYetInFlight'
  BY <1>3 DEF DispatchEnds, DispatchReturns, PumpReturns, SubmitReturns
<1>4. ASSUME PumpResult PROVE NotYetInFlight'
  BY <1>4 DEF PumpResult, ProcessResult, ResultFails, ReleaseEntry
<1>5. ASSUME ShutdownScheduler PROVE NotYetInFlight'
  BY <1>5 DEF ShutdownScheduler
<1>6. ASSUME OtherStep PROVE NotYetInFlight'
  <2>1. UNCHANGED <<pending, inFlight>>
    BY <1>6
    DEF OtherStep, Refuse, Wake, Disconnect, Abandon, ThreadPolls, PumpTimeout, CrashWorker,
        TakeJob, FinishJob, RequestShutdown, GraceExpires, ServerStops, StopWorkers
  <2>2. \A r \in Requests : waiter'[r] = "new" => waiter[r] = "new"
    <3>1. CASE \E r \in Requests : Refuse(r) \/ Wake(r) \/ Abandon(r)
      BY <3>1 DEF Refuse, Wake, WaiterWakes, Abandon, WaiterAbandons
    <3>2. CASE (\E r \in Requests : Disconnect(r)) \/ GraceExpires
      <4>1. PICK S : waiter' = [r \in Requests |-> IF r \in S THEN "cancelling" ELSE waiter[r]]
        BY <3>2 DEF Disconnect, GraceExpires, CancelWaiters
      <4> QED
        BY <4>1
    <3>3. CASE waiter' = waiter
      BY <3>3
    <3>4. QED
      BY <1>6, <3>1, <3>2, <3>3
      DEF OtherStep, ThreadPolls, PumpTimeout, CrashWorker, TakeJob, FinishJob,
          RequestShutdown, ServerStops, StopWorkers
  <2>3. QED
    BY <2>1, <2>2
<1>7. CASE UNCHANGED vars
  BY <1>7 DEF vars
<1>8. QED
  BY <1>1, <1>2, <1>3, <1>4, <1>5, <1>6, <1>7 DEF Next

-----------------------------------------------------------------------------
(* Taking slots that are free keeps them accounted for. *)
LEMMA DispatchConservesSlots ==
  ASSUME TypeOK, SlotsConserved,
         NEW j \in Jobs, inFlight[j] = None, NEW acq \in Acquisitions(j), Dispatch(j, acq)
  PROVE  SlotsConserved'
<1> DEFINE took(s, p, x) == s \in Services /\ PoolsOf(j)[s] = p /\ acq[s] = x
<1>1. \A s, t \in Services : PoolsOf(j)[s] = PoolsOf(j)[t] => s = t
  BY DEF PoolsOf, PoolOf
<1>2. \A s \in Services : \A p \in Pools : \A x \in Slots : took(s, p, x) => x \in free[p]
  BY DaemonAssumption DEF Acquisitions
<1>3. \A p \in Pools : \A x : x \in free'[p] <=> x \in free[p] /\ ~\E s \in Services : took(s, p, x)
  BY DEF Dispatch
<1>4. \A k \in Jobs : k # j => inFlight'[k] = inFlight[k]
  BY DEF Dispatch, TypeOK
<1>5. inFlight'[j] = [pools |-> PoolsOf(j), acquired |-> acq] /\ inFlight'[j] # None
  <2>1. inFlight'[j] = [pools |-> PoolsOf(j), acquired |-> acq]
    BY DEF Dispatch, TypeOK
  <2>2. QED
    BY <2>1, EntryType, DaemonAssumption
<1>6. ASSUME NEW p \in Pools PROVE free'[p] \subseteq SlotsOf[p]
  BY <1>3, <1>6 DEF SlotsConserved
<1>7. ASSUME NEW s \in Services, NEW p \in Pools, NEW x \in Slots
      PROVE  Holds(j, s, p, x)' <=> took(s, p, x)
  BY <1>5 DEF Holds
<1>8. ASSUME NEW k \in Jobs, k # j, NEW s \in Services, NEW p \in Pools, NEW x \in Slots
      PROVE  Holds(k, s, p, x)' <=> Holds(k, s, p, x)
  BY <1>4, <1>8 DEF Holds
<1>9. ASSUME NEW p \in Pools, NEW x \in SlotsOf[p] \ free'[p]
      PROVE  \E k \in Jobs, s \in Services : Holds(k, s, p, x)'
  <2>1. x \in Slots
    BY DaemonAssumption
  <2>2. CASE x \in free[p]
    BY <1>3, <1>7, <2>1, <2>2
  <2>3. CASE x \notin free[p]
    <3>1. PICK k \in Jobs, s \in Services : Holds(k, s, p, x)
      BY <2>3 DEF SlotsConserved
    <3>2. k # j
      BY <3>1 DEF Holds
    <3>3. QED
      BY <1>8, <2>1, <3>1, <3>2
  <2>4. QED
    BY <2>2, <2>3
<1>10. ASSUME NEW p \in Pools, NEW x \in Slots,
              NEW k \in Jobs, NEW s \in Services, Holds(k, s, p, x)'
       PROVE  /\ x \in SlotsOf[p] \ free'[p]
              /\ \A m \in Jobs, t \in Services : Holds(m, t, p, x)' => m = k /\ t = s
  <2>1. CASE k = j
    <3>1. took(s, p, x) /\ x \in free[p]
      BY <1>2, <1>7, <1>10, <2>1
    <3>2. x \in SlotsOf[p] \ free'[p]
      BY <1>3, <3>1 DEF SlotsConserved
    <3>3. ASSUME NEW m \in Jobs, NEW t \in Services, Holds(m, t, p, x)' PROVE m = j /\ t = s
      <4>1. m = j
        BY <1>8, <3>1, <3>3 DEF SlotsConserved
      <4>2. took(t, p, x)
        BY <1>7, <3>3, <4>1
      <4>3. QED
        BY <1>1, <3>1, <4>1, <4>2
    <3>4. QED
      BY <2>1, <3>2, <3>3
  <2>2. CASE k # j
    <3>1. Holds(k, s, p, x)
      BY <1>8, <1>10, <2>2
    <3>2. x \in SlotsOf[p] \ free[p]
      BY <3>1 DEF SlotsConserved
    <3>3. \A t \in Services : ~took(t, p, x)
      BY <1>2, <3>2
    <3>4. ASSUME NEW m \in Jobs, NEW t \in Services, Holds(m, t, p, x)' PROVE m = k /\ t = s
      <4>1. m # j
        BY <1>7, <3>3, <3>4
      <4>2. QED
        BY <1>8, <3>1, <3>4, <4>1 DEF SlotsConserved
    <3>5. QED
      BY <1>3, <3>2, <3>4
  <2>3. QED
    BY <2>1, <2>2
<1>11. QED
  BY <1>6, <1>9, <1>10 DEF SlotsConserved

(* Returning an entry gives back its slots and nobody else's. *)
LEMMA ReleaseConservesSlots ==
  ASSUME TypeOK, SlotsConserved, NEW j \in Jobs, ReleaseEntry(j)
  PROVE  SlotsConserved'
<1>1. inFlight[j] \in Entry /\ inFlight[j] # None /\ inFlight'[j] = None
  BY DEF ReleaseEntry, TypeOK
<1>2. \A k \in Jobs : k # j => inFlight'[k] = inFlight[k]
  BY DEF ReleaseEntry, TypeOK
<1>3. \A p \in SkipPools : p \in Pools => free'[p] = free[p]
  BY DEF ReleaseEntry, ReleaseAll
<1>4. \A p \in Pools \ SkipPools : \A x :
        x \in free'[p] <=> x \in free[p] \/ \E s \in Services : Holds(j, s, p, x)
  BY <1>1 DEF ReleaseEntry, ReleaseAll, Holds
<1>5. ASSUME NEW k \in Jobs, NEW s \in Services, NEW p \in Pools, NEW x
      PROVE  Holds(k, s, p, x)' <=> k # j /\ Holds(k, s, p, x)
  BY <1>1, <1>2 DEF Holds
<1>6. \A p \in Pools \ SkipPools : \A s \in Services : \A x : Holds(j, s, p, x) => x \in Slots
  BY <1>1, AcquiredType DEF Holds
<1>7. ASSUME NEW p \in Pools PROVE free'[p] \subseteq SlotsOf[p]
  BY <1>3, <1>4, <1>6, <1>7 DEF SlotsConserved
<1>8. ASSUME NEW p \in Pools, NEW x \in SlotsOf[p] \ free'[p]
      PROVE  \E k \in Jobs, s \in Services : Holds(k, s, p, x)'
  <2>1. p \notin SkipPools
    BY DaemonAssumption
  <2>2. x \notin free[p] /\ \A s \in Services : ~Holds(j, s, p, x)
    BY <1>4, <2>1
  <2>3. PICK k \in Jobs, s \in Services : Holds(k, s, p, x)
    BY <2>2 DEF SlotsConserved
  <2>4. QED
    BY <1>5, <2>2, <2>3
<1>9. ASSUME NEW p \in Pools, NEW x \in Slots,
             NEW k \in Jobs, NEW s \in Services, Holds(k, s, p, x)'
      PROVE  /\ x \in SlotsOf[p] \ free'[p]
             /\ \A m \in Jobs, t \in Services : Holds(m, t, p, x)' => m = k /\ t = s
  <2>1. k # j /\ Holds(k, s, p, x)
    BY <1>5, <1>9
  <2>2. x \in SlotsOf[p] \ free[p]
    BY <2>1 DEF SlotsConserved
  <2>3. \A t \in Services : ~Holds(j, t, p, x)
    BY <2>1 DEF SlotsConserved
  <2>4. x \notin free'[p]
    BY <1>3, <1>4, <2>2, <2>3
  <2>5. ASSUME NEW m \in Jobs, NEW t \in Services, Holds(m, t, p, x)' PROVE m = k /\ t = s
    BY <1>5, <2>1, <2>5 DEF SlotsConserved
  <2>6. QED
    BY <2>2, <2>4, <2>5
<1>10. QED
  BY <1>7, <1>8, <1>9 DEF SlotsConserved

LEMMA NextSlotsConserved ==
  ASSUME TypeOK, NotYetInFlight, SlotsConserved, [Next]_vars
  PROVE  SlotsConserved'
<1>1. ASSUME NEW j \in Jobs, NEW acq \in Acquisitions(j), Dispatch(j, acq)
      PROVE  SlotsConserved'
  <2>1. inFlight[j] = None
    BY <1>1 DEF NotYetInFlight, Dispatch
  <2>2. QED
    BY <1>1, <2>1, DispatchConservesSlots
<1>2. ASSUME NEW j \in Jobs, ReleaseEntry(j) PROVE SlotsConserved'
  BY <1>2, ReleaseConservesSlots
<1>3. CASE UNCHANGED <<free, inFlight>>
  BY <1>3 DEF SlotsConserved, Holds
<1>4. QED
  BY <1>1, <1>2, <1>3, SlotSteps

LEMMA InitSlotsConserved == Init => SlotsConserved
BY DEF Init, SlotsConserved, Holds

(* What is proved inductively of the slots. *)
SlotInv == TypeOK /\ NotYetInFlight /\ SlotsConserved

LEMMA InitSlotInv == Init => SlotInv
BY InitTypeOK, InitNotYetInFlight, InitSlotsConserved DEF SlotInv

LEMMA NextSlotInv == SlotInv /\ [Next]_vars => SlotInv'
BY NextTypeOK, NextNotYetInFlight, NextSlotsConserved DEF SlotInv

(* No service slot is leaked or booked twice, for every number of requests,  *)
(* pools, slots and workers, whatever fails, crashes or is cancelled.        *)
THEOREM SlotsAreConserved == Spec => []SlotsConserved
<1>1. SlotInv => SlotsConserved
  BY DEF SlotInv
<1>2. QED
  BY <1>1, InitSlotInv, NextSlotInv, PTL DEF Spec

-----------------------------------------------------------------------------
(* A pool that blocks a job has all its slots out: somebody holds them.      *)
LEMMA BlockedMeansInFlight ==
  ASSUME SlotInv, NEW j \in Jobs, Blocked(j)
  PROVE  \E k \in Jobs : inFlight[k] # None
<1>1. PICK s \in Services : PoolsOf(j)[s] \notin SkipPools /\ free[PoolsOf(j)[s]] = {}
  BY DEF Blocked
<1> DEFINE p == PoolsOf(j)[s]
<1>2. p \in Pools
  BY PoolsOfType DEF SlotInv, TypeOK
<1>3. PICK x \in SlotsOf[p] : x \notin free[p]
  BY <1>1, <1>2, DaemonAssumption
<1>4. PICK k \in Jobs, t \in Services : Holds(k, t, p, x)
  BY <1>2, <1>3 DEF SlotInv, SlotsConserved
<1>5. QED
  BY <1>4 DEF Holds

(* Between two rounds of dispatching, jobs are left over only while others   *)
(* are in flight.                                                            *)
SomethingInFlight ==
  EventLoopFree /\ pump = "polling" /\ pending # {} => \E j \in Jobs : inFlight[j] # None

LEMMA NextSomethingInFlight ==
  ASSUME SlotInv, SomethingInFlight, [Next]_vars
  PROVE  SomethingInFlight'
<1> USE DEF SlotInv, TypeOK, StoreTypeOK, SomethingInFlight, EventLoopFree,
            storeVars, schedVars, workerVars
<1>1. ASSUME NEW r \in Requests, Submit(r) PROVE ~EventLoopFree'
  BY <1>1 DEF Submit
<1>2. ASSUME NEW j \in Jobs, DispatchStep(j) PROVE ~EventLoopFree'
  BY <1>2 DEF DispatchStep, Dispatch
<1>3. ASSUME DispatchEnds PROVE SomethingInFlight'
  <2>1. UNCHANGED <<pending, inFlight>>
    BY <1>3 DEF DispatchEnds, DispatchReturns, PumpReturns, SubmitReturns
  <2>2. pending = {} \/ \E k \in Jobs : inFlight[k] # None
    BY <1>3, BlockedMeansInFlight DEF DispatchEnds
  <2>3. QED
    BY <2>1, <2>2
<1>4. ASSUME PumpResult PROVE pump' # "polling"
  BY <1>4 DEF PumpResult, ProcessResult, ResultFails, PumpFails
<1>5. ASSUME ShutdownScheduler PROVE pending' = {}
  BY <1>5 DEF ShutdownScheduler
<1>6. ASSUME OtherStep PROVE SomethingInFlight'
  <2>1. UNCHANGED <<pending, inFlight>>
    BY <1>6
    DEF OtherStep, Refuse, Wake, Disconnect, Abandon, ThreadPolls, PumpTimeout, CrashWorker,
        TakeJob, FinishJob, RequestShutdown, GraceExpires, ServerStops, StopWorkers
  <2>2. pump' = pump \/ pump' = "failed"
    BY <1>6
    DEF OtherStep, Refuse, Wake, Disconnect, Abandon, ThreadPolls, PumpTimeout, PumpFails,
        CrashWorker, TakeJob, FinishJob, RequestShutdown, GraceExpires, ServerStops, StopWorkers
  <2>3. EventLoopFree \/ UNCHANGED waiter
    BY <1>6
    DEF OtherStep, Refuse, Wake, Disconnect, Abandon, ThreadPolls, PumpTimeout, CrashWorker,
        TakeJob, FinishJob, RequestShutdown, GraceExpires, ServerStops, StopWorkers
  <2>4. QED
    BY <2>1, <2>2, <2>3
<1>7. CASE UNCHANGED vars
  BY <1>7 DEF vars
<1>8. QED
  BY <1>1, <1>2, <1>3, <1>4, <1>5, <1>6, <1>7 DEF Next

(* The scheduler is shut down, and stops accepting requests, only after the  *)
(* gRPC server has stopped; a stopped server has no handler left.            *)
ServerStopped == phase \notin {"serving", "stopping server", "cancelling handlers"}

HandlersGone ==
  /\ ~accepting => ServerStopped
  /\ ServerStopped => \A r \in Requests : waiter[r] \in {"new"} \cup Ended

LEMMA NextHandlersGone ==
  ASSUME TypeOK, HandlersGone, [Next]_vars
  PROVE  HandlersGone'
<1> USE DEF TypeOK, StoreTypeOK, HandlersGone, ServerStopped, Ended,
            storeVars, schedVars, workerVars
<1>1. ASSUME NEW r \in Requests, Submit(r) PROVE HandlersGone'
  BY <1>1 DEF Submit, ServerAdmits
<1>2. ASSUME NEW j \in Jobs, DispatchStep(j) PROVE HandlersGone'
  <2>1. UNCHANGED <<accepting, waiter, phase>>
    BY <1>2 DEF DispatchStep, Dispatch
  <2>2. QED
    BY <2>1
<1>3. ASSUME DispatchEnds PROVE HandlersGone'
  <2>1. UNCHANGED <<accepting, phase>>
    BY <1>3 DEF DispatchEnds, DispatchReturns, PumpReturns, SubmitReturns
  <2>2. UNCHANGED waiter \/ \E r \in Requests : waiter[r] = "dispatching"
    BY <1>3 DEF DispatchEnds, DispatchReturns, PumpReturns, SubmitReturns
  <2>3. QED
    BY <2>1, <2>2
<1>4. ASSUME PumpResult PROVE HandlersGone'
  BY <1>4 DEF PumpResult, ProcessResult, ResultFails, ReleaseEntry
<1>5. ASSUME ShutdownScheduler PROVE HandlersGone'
  BY <1>5 DEF ShutdownScheduler
<1>6. ASSUME OtherStep PROVE HandlersGone'
  <2>1. ASSUME NEW r \in Requests, Refuse(r) \/ Wake(r) \/ Disconnect(r) \/ Abandon(r)
        PROVE  HandlersGone'
    BY <2>1 DEF Refuse, Wake, WaiterWakes, Disconnect, CancelWaiters, Abandon, WaiterAbandons
  <2>2. ASSUME RequestShutdown \/ GraceExpires \/ ServerStops \/ StopWorkers
        PROVE  HandlersGone'
    BY <2>2 DEF RequestShutdown, GraceExpires, CancelWaiters, ServerStops, StopWorkers
  <2>3. ASSUME \/ \E j \in Jobs : ThreadPolls(j)
               \/ PumpTimeout
               \/ \E w \in Workers : CrashWorker(w) \/ \E j \in Jobs : TakeJob(w, j) \/ FinishJob(w, j)
        PROVE  HandlersGone'
    BY <2>3 DEF ThreadPolls, PumpTimeout, CrashWorker, TakeJob, FinishJob
  <2>4. QED
    BY <1>6, <2>1, <2>2, <2>3 DEF OtherStep
<1>7. CASE UNCHANGED vars
  BY <1>7 DEF vars
<1>8. QED
  BY <1>1, <1>2, <1>3, <1>4, <1>5, <1>6, <1>7 DEF Next

(* Whatever strategy picks the jobs, the daemon never sits idle on queued     *)
(* jobs with nothing in flight to start the next round, and a shutdown never  *)
(* overtakes a handler (scheduler.py dispatch_once, app.py run).              *)
THEOREM NobodyIsStranded == Spec => []NobodyStranded
<1> DEFINE IdleInv == SlotInv /\ SomethingInFlight /\ HandlersGone
<1>1. Init => IdleInv
  BY InitSlotInv DEF Init, SomethingInFlight, HandlersGone, ServerStopped
<1>2. IdleInv /\ [Next]_vars => IdleInv'
  BY NextSlotInv, NextSomethingInFlight, NextHandlersGone DEF SlotInv
<1>3. IdleInv => NobodyStranded
  BY DEF HandlersGone, NobodyStranded, SomethingInFlight, Ended
<1>4. QED
  BY <1>1, <1>2, <1>3, PTL DEF Spec

-----------------------------------------------------------------------------
(***************************************************************************)
(* The life of a request in the daemon: what its waiter is given, and      *)
(* which drivers its jobs run on.                                          *)
(*                                                                         *)
(* The future of a request is resolved by a count, the driver override is  *)
(* dropped by its waiter, and the jobs are dispatched by others.  What     *)
(* ties them together is that the count is that of the jobs without a      *)
(* result, and that a job with a result is neither queued nor in flight.   *)
(***************************************************************************)

(* The scheduler has accepted the request.                                 *)
Submitted(r) == waiter[r] \notin {"new", "refused"}

(* Only submitted requests have jobs queued or in flight, or results; a    *)
(* result belongs to its request, and comes after the job was in flight.   *)
ResultsAreOfDoneJobs ==
  /\ \A r \in Requests : results[r] \subseteq JobsOf(r)
  /\ \A r \in Requests : ~Submitted(r) => results[r] = {}
  /\ \A j \in Jobs : ~Submitted(RequestOf[j]) => j \notin pending /\ inFlight[j] = None
  /\ \A j \in Jobs : j \in results[RequestOf[j]] => j \notin pending /\ inFlight[j] = None

(* pending_jobs counts the jobs without a result, abandoned or not.        *)
CountsUnreported ==
  \A r \in Requests :
    Submitted(r) => pendingJobs[r] = Cardinality(JobsOf(r) \ results[r])

(* A resolved future has all results; a handler that is still dispatching  *)
(* has a future that is pending or resolved, one that returned a resolved  *)
(* one.                                                                    *)
ResolvedHasAll ==
  \A r \in Requests :
    /\ Submitted(r) /\ completion[r] = "resolved" => results[r] = JobsOf(r)
    /\ waiter[r] = "dispatching" => completion[r] \in {"pending", "resolved"}
    /\ waiter[r] = "returned" => completion[r] = "resolved"

(* The driver override of a request outlives its queued jobs.              *)
QueuedJobsHavePools ==
  \A j \in pending : RequestOf[j] \in DriverRequests => RequestOf[j] \in requestPools

RequestInv ==
  /\ TypeOK /\ NotYetInFlight
  /\ ResultsAreOfDoneJobs /\ CountsUnreported /\ ResolvedHasAll

LEMMA InitRequestInv == Init => RequestInv /\ QueuedJobsHavePools /\ OverrideRespected
BY InitTypeOK, InitNotYetInFlight
DEF Init, StoreInit, RequestInv, ResultsAreOfDoneJobs, CountsUnreported, ResolvedHasAll,
    QueuedJobsHavePools, OverrideRespected, Submitted

(* The last result of a request completes the set of its results.          *)
LEMMA LastResult ==
  ASSUME TypeOK, NEW r \in Requests, NEW j \in JobsOf(r) \ results[r], results[r] \subseteq JobsOf(r),
         pendingJobs[r] = Cardinality(JobsOf(r) \ results[r])
  PROVE  /\ pendingJobs[r] - 1 = Cardinality(JobsOf(r) \ (results[r] \cup {j}))
         /\ pendingJobs[r] = 1 => results[r] \cup {j} = JobsOf(r)
<1> DEFINE open == JobsOf(r) \ results[r]
<1>1. IsFiniteSet(open)
  BY JobsOfFinite, FS_Subset
<1>2. open \ {j} = JobsOf(r) \ (results[r] \cup {j})
  OBVIOUS
<1>3. Cardinality(open \ {j}) = Cardinality(open) - 1 /\ IsFiniteSet(open \ {j})
  BY <1>1, FS_RemoveElement
<1>4. pendingJobs[r] - 1 = Cardinality(JobsOf(r) \ (results[r] \cup {j}))
  BY <1>2, <1>3
<1>5. ASSUME pendingJobs[r] = 1 PROVE results[r] \cup {j} = JobsOf(r)
  <2>1. Cardinality(open \ {j}) = 0
    BY <1>3, <1>5
  <2>2. open \ {j} = {}
    BY <2>1, <1>3, FS_EmptySet
  <2>3. QED
    BY <2>2
<1>6. QED
  BY <1>4, <1>5

-----------------------------------------------------------------------------
(* What a step can do to the store: a request is submitted, a result is     *)
(* recorded, or results and counts stay and futures leave "pending" only,   *)
(* to something else than "resolved".                                       *)
FuturesOnlyFail ==
  /\ UNCHANGED <<results, pendingJobs>>
  /\ \A r \in Requests : completion'[r] # completion[r] =>
       completion[r] = "pending" /\ completion'[r] \in {"failed", "cancelled"}

(* Handlers that do not move when their future is changed under them.       *)
WaitersProceed ==
  \A r \in Requests :
    /\ Submitted(r)' <=> Submitted(r)
    /\ waiter'[r] = "dispatching" => waiter[r] = "dispatching" /\ completion'[r] = completion[r]
    /\ waiter'[r] = "returned" =>
         \/ waiter[r] = "returned"
         \/ completion[r] = "resolved"
         \/ waiter[r] = "dispatching" /\ completion[r] # "pending"

(* The queue only shrinks and the table of jobs in flight gains queued ones.*)
JobsAdvance ==
  /\ pending' \subseteq pending
  /\ \A j \in Jobs : inFlight'[j] = inFlight[j] \/ inFlight'[j] = None \/ j \in pending

LEMMA QuietStep ==
  ASSUME RequestInv, FuturesOnlyFail, WaitersProceed, JobsAdvance
  PROVE  (ResultsAreOfDoneJobs /\ CountsUnreported /\ ResolvedHasAll)'
<1> USE DEF RequestInv, TypeOK, StoreTypeOK, Completion, FuturesOnlyFail, WaitersProceed,
            Submitted
<1>1. ResultsAreOfDoneJobs'
  BY RequestOfAssumption DEF ResultsAreOfDoneJobs, JobsAdvance, JobsOf
<1>2. CountsUnreported'
  BY DEF CountsUnreported, JobsOf
<1>3. ResolvedHasAll'
  BY DEF ResolvedHasAll, JobsOf
<1>4. QED
  BY <1>1, <1>2, <1>3

LEMMA SubmitKeepsRequestInv ==
  ASSUME RequestInv, NEW r \in Requests, Submit(r)
  PROVE  (ResultsAreOfDoneJobs /\ CountsUnreported /\ ResolvedHasAll)'
<1> USE RequestOfAssumption DEF RequestInv, TypeOK, StoreTypeOK, Submitted
<1>1. results' = results /\ inFlight' = inFlight /\ results[r] = {}
  BY DEF Submit, Register, ResultsAreOfDoneJobs
<1>2. pending' = pending \cup JobsOf(r) /\ waiter' = [waiter EXCEPT ![r] = "dispatching"]
  BY DEF Submit
<1>3. pendingJobs' = [pendingJobs EXCEPT ![r] = Cardinality(JobsOf(r))]
  BY DEF Submit, Register
<1>4. completion' = [completion EXCEPT ![r] = IF JobsOf(r) = {} THEN "resolved" ELSE "pending"]
  BY DEF Submit, Register
<1>5. waiter[r] = "new"
  BY DEF Submit
<1>6. ResultsAreOfDoneJobs'
  BY <1>1, <1>2, <1>5 DEF ResultsAreOfDoneJobs, NotYetInFlight, JobsOf
<1>7. CountsUnreported'
  <2> SUFFICES ASSUME NEW q \in Requests, Submitted(q)'
               PROVE  pendingJobs'[q] = Cardinality(JobsOf(q) \ results'[q])
    BY DEF CountsUnreported, JobsOf
  <2>1. CASE q = r
    <3>1. JobsOf(q) \ results'[q] = JobsOf(r)
      BY <1>1, <2>1
    <3>2. QED
      BY <1>3, <2>1, <3>1
  <2>2. CASE q # r
    BY <1>1, <1>2, <1>3, <2>2 DEF CountsUnreported
  <2>3. QED
    BY <2>1, <2>2
<1>8. ResolvedHasAll'
  BY <1>1, <1>2, <1>4, <1>5 DEF ResolvedHasAll, JobsOf
<1>9. QED
  BY <1>6, <1>7, <1>8

LEMMA ResultKeepsRequestInv ==
  ASSUME RequestInv, NEW j \in Jobs, ReleaseEntry(j), RecordAndReap(j), waiter' = waiter
  PROVE  (ResultsAreOfDoneJobs /\ CountsUnreported /\ ResolvedHasAll)'
<1> DEFINE r == RequestOf[j]
<1> USE RequestOfAssumption DEF RequestInv, TypeOK, StoreTypeOK, Submitted
<1>1. r \in Requests /\ j \in JobsOf(r) /\ inFlight[j] # None
  BY DEF JobsOf, ReleaseEntry
<1>2. Submitted(r) /\ j \notin pending /\ j \notin results[r]
  BY <1>1 DEF ResultsAreOfDoneJobs, NotYetInFlight
<1>3. /\ results' = [results EXCEPT ![r] = results[r] \cup {j}]
      /\ pendingJobs' = [pendingJobs EXCEPT ![r] = pendingJobs[r] - 1]
  BY DEF RecordAndReap
<1>4. completion' = [completion EXCEPT
                       ![r] = IF pendingJobs[r] = 1 /\ completion[r] = "pending"
                                THEN "resolved" ELSE completion[r]]
  BY DEF RecordAndReap
<1>5. pending' = pending /\ inFlight' = [inFlight EXCEPT ![j] = None]
  BY DEF ReleaseEntry
<1>6. pendingJobs[r] = Cardinality(JobsOf(r) \ results[r]) /\ results[r] \subseteq JobsOf(r)
  BY <1>1, <1>2 DEF CountsUnreported, ResultsAreOfDoneJobs
<1>7. /\ pendingJobs[r] - 1 = Cardinality(JobsOf(r) \ (results[r] \cup {j}))
      /\ pendingJobs[r] = 1 => results[r] \cup {j} = JobsOf(r)
  BY <1>1, <1>2, <1>6, LastResult
<1>8. results'[r] = results[r] \cup {j} /\ \A q \in Requests : q # r => results'[q] = results[q]
  BY <1>1, <1>3
<1>9. ResultsAreOfDoneJobs'
  <2>1. \A q \in Requests : results'[q] \subseteq JobsOf(q)
    BY <1>1, <1>8 DEF ResultsAreOfDoneJobs
  <2>2. /\ \A q \in Requests : ~Submitted(q)' => results'[q] = {}
        /\ \A k \in Jobs : ~Submitted(RequestOf[k])' => k \notin pending' /\ inFlight'[k] = None
    BY <1>2, <1>5, <1>8 DEF ResultsAreOfDoneJobs
  <2>3. \A k \in Jobs : k \in results'[RequestOf[k]] => k \notin pending' /\ inFlight'[k] = None
    BY <1>2, <1>5, <1>8 DEF ResultsAreOfDoneJobs
  <2>4. QED
    BY <2>1, <2>2, <2>3 DEF ResultsAreOfDoneJobs, JobsOf
<1>10. CountsUnreported'
  <2> SUFFICES ASSUME NEW q \in Requests, Submitted(q)'
               PROVE  pendingJobs'[q] = Cardinality(JobsOf(q) \ results'[q])
    BY DEF CountsUnreported, JobsOf
  <2>1. CASE q = r
    <3>1. pendingJobs'[r] = pendingJobs[r] - 1
      BY <1>1, <1>3
    <3> QED
      BY <1>7, <1>8, <2>1, <3>1
  <2>2. CASE q # r
    <3>1. pendingJobs'[q] = pendingJobs[q] /\ results'[q] = results[q]
      BY <1>1, <1>3, <1>8, <2>2
    <3>2. Submitted(q)
      BY <1>3, <1>8, <2>2
    <3> QED
      BY <3>1, <3>2 DEF CountsUnreported
  <2>3. QED
    BY <2>1, <2>2
<1>11. ResolvedHasAll'
  <2> SUFFICES ASSUME NEW q \in Requests
               PROVE  /\ Submitted(q) /\ completion'[q] = "resolved" => results'[q] = JobsOf(q)
                      /\ waiter[q] = "dispatching" => completion'[q] \in {"pending", "resolved"}
                      /\ waiter[q] = "returned" => completion'[q] = "resolved"
    BY DEF ResolvedHasAll, JobsOf
  <2>1. CASE q = r
    <3>1. completion'[r] = IF pendingJobs[r] = 1 /\ completion[r] = "pending"
                             THEN "resolved" ELSE completion[r]
      BY <1>1, <1>4
    <3>2. completion[r] = "resolved" => results[r] = JobsOf(r)
      BY <1>1, <1>2 DEF ResolvedHasAll
    <3>3. completion[r] # "resolved"
      BY <1>1, <1>2, <3>2
    <3>4. QED
      BY <1>1, <1>7, <1>8, <2>1, <3>1, <3>3 DEF ResolvedHasAll
  <2>2. CASE q # r
    BY <1>4, <1>8, <2>2 DEF ResolvedHasAll
  <2>3. QED
    BY <2>1, <2>2
<1>12. QED
  BY <1>9, <1>10, <1>11

-----------------------------------------------------------------------------
LEMMA StoreSteps ==
  ASSUME RequestInv, [Next]_vars
  PROVE  \/ \E r \in Requests : Submit(r)
         \/ \E j \in Jobs : ReleaseEntry(j) /\ RecordAndReap(j) /\ waiter' = waiter
         \/ FuturesOnlyFail /\ WaitersProceed /\ JobsAdvance
<1> DEFINE Quiet == FuturesOnlyFail /\ WaitersProceed /\ JobsAdvance
<1> USE DEF RequestInv, TypeOK, StoreTypeOK, storeVars, schedVars, workerVars,
            FuturesOnlyFail, WaitersProceed, JobsAdvance, Submitted
<1>1. ASSUME NEW j \in Jobs, DispatchStep(j) PROVE Quiet
  BY <1>1 DEF DispatchStep, Dispatch
<1>2. ASSUME DispatchEnds PROVE Quiet
  BY <1>2 DEF DispatchEnds, DispatchReturns, PumpReturns, SubmitReturns
<1>3. ASSUME PumpResult
      PROVE  \/ \E j \in Jobs : ReleaseEntry(j) /\ RecordAndReap(j) /\ waiter' = waiter
             \/ Quiet
  <2>1. polled \in Jobs /\ waiter' = waiter
    BY <1>3 DEF PumpResult
  <2>2. CASE ProcessResult(polled)
    BY <2>1, <2>2 DEF ProcessResult
  <2>3. CASE ResultFails(polled)
    <3>1. JobsAdvance
      BY <2>3 DEF ResultFails, ReleaseEntry
    <3>2. FuturesOnlyFail /\ WaitersProceed
      BY <1>3, <2>1, <2>3
      DEF PumpResult, EventLoopFree, ResultFails, PumpFails, FailAllRequests, FailRequests
    <3>3. QED
      BY <3>1, <3>2
  <2>4. QED
    BY <1>3, <2>2, <2>3 DEF PumpResult
<1>4. ASSUME ShutdownScheduler PROVE Quiet
  BY <1>4 DEF ShutdownScheduler, EventLoopFree, FailRequests
<1>5. ASSUME OtherStep PROVE Quiet
  <2>1. UNCHANGED <<pending, inFlight, results, pendingJobs>>
    BY <1>5
    DEF OtherStep, Refuse, Wake, WaiterWakes, Disconnect, CancelWaiters, Abandon, WaiterAbandons,
        ThreadPolls, PumpTimeout, PumpFails, FailAllRequests, CrashWorker, TakeJob, FinishJob,
        RequestShutdown, GraceExpires, ServerStops, StopWorkers
  <2>2. ASSUME NEW r \in Requests, Refuse(r) \/ Wake(r) \/ Disconnect(r) \/ Abandon(r)
        PROVE  Quiet
    <3>1. CASE Refuse(r)
      <4>1. waiter' = [waiter EXCEPT ![r] = "refused"] /\ completion' = completion
        BY <3>1 DEF Refuse
      <4>2. waiter[r] = "new"
        BY <3>1 DEF Refuse
      <4>3. QED
        BY <2>1, <4>1, <4>2
    <3>2. CASE Wake(r)
      BY <2>1, <3>2 DEF Wake, WaiterWakes
    <3>3. CASE Disconnect(r)
      BY <2>1, <3>3 DEF Disconnect, CancelWaiters
    <3>4. CASE Abandon(r)
      BY <2>1, <3>4 DEF Abandon, WaiterAbandons
    <3>5. QED
      BY <2>2, <3>1, <3>2, <3>3, <3>4
  <2>3. ASSUME PumpTimeout PROVE Quiet
    BY <2>1, <2>3 DEF PumpTimeout, EventLoopFree, PumpFails, FailAllRequests, FailRequests
  <2>4. ASSUME GraceExpires PROVE Quiet
    BY <2>1, <2>4 DEF GraceExpires, CancelWaiters
  <2>5. ASSUME \/ \E j \in Jobs : ThreadPolls(j)
               \/ \E w \in Workers : CrashWorker(w) \/ \E j \in Jobs : TakeJob(w, j) \/ FinishJob(w, j)
               \/ RequestShutdown \/ ServerStops \/ StopWorkers
        PROVE  Quiet
    BY <2>1, <2>5
    DEF ThreadPolls, CrashWorker, TakeJob, FinishJob, RequestShutdown, ServerStops, StopWorkers
  <2>6. QED
    BY <1>5, <2>2, <2>3, <2>4, <2>5 DEF OtherStep
<1>6. CASE UNCHANGED vars
  BY <1>6 DEF vars
<1>7. QED
  BY <1>1, <1>2, <1>3, <1>4, <1>5, <1>6 DEF Next

LEMMA NextRequestInv == RequestInv /\ [Next]_vars => RequestInv'
<1> SUFFICES ASSUME RequestInv, [Next]_vars PROVE RequestInv'
  OBVIOUS
<1>1. (TypeOK /\ NotYetInFlight)'
  BY NextTypeOK, NextNotYetInFlight DEF RequestInv
<1>2. (ResultsAreOfDoneJobs /\ CountsUnreported /\ ResolvedHasAll)'
  BY StoreSteps, SubmitKeepsRequestInv, ResultKeepsRequestInv, QuietStep
<1>3. QED
  BY <1>1, <1>2 DEF RequestInv

(* What simulate returns is complete: every job of the request has its      *)
(* result, and none is queued or in flight (request_store.py:72).           *)
THEOREM ReturnsAreComplete == Spec => []ReturnsAllResults
<1>1. Init => RequestInv
  BY InitRequestInv
<1>2. RequestInv => ReturnsAllResults
  BY RequestOfAssumption
  DEF RequestInv, ResultsAreOfDoneJobs, ResolvedHasAll, ReturnsAllResults, Outstanding, JobsOf,
      Submitted
<1>3. QED
  BY <1>1, <1>2, NextRequestInv, PTL DEF Spec

-----------------------------------------------------------------------------
(* A request whose future is resolved has no job in the queue.              *)
LEMMA ResolvedHasNoneQueued ==
  ASSUME RequestInv, NEW r \in Requests, Submitted(r), completion[r] = "resolved"
  PROVE  \A j \in pending : RequestOf[j] # r
BY DEF RequestInv, TypeOK, ResolvedHasAll, ResultsAreOfDoneJobs, JobsOf

LEMMA NextQueuedJobsHavePools ==
  ASSUME RequestInv, QueuedJobsHavePools, [Next]_vars
  PROVE  QueuedJobsHavePools'
<1> USE RequestOfAssumption DEF RequestInv, TypeOK, StoreTypeOK, QueuedJobsHavePools,
        storeVars, schedVars, workerVars
<1>1. ASSUME NEW r \in Requests, Submit(r) PROVE QueuedJobsHavePools'
  BY <1>1 DEF Submit, JobsOf
<1>2. ASSUME NEW j \in Jobs, DispatchStep(j) PROVE QueuedJobsHavePools'
  BY <1>2 DEF DispatchStep, Dispatch
<1>3. ASSUME DispatchEnds PROVE QueuedJobsHavePools'
  <2>1. CASE PumpReturns
    BY <2>1 DEF PumpReturns
  <2>2. ASSUME NEW r \in Requests, SubmitReturns(r) PROVE QueuedJobsHavePools'
    <3>1. waiter[r] = "dispatching" /\ pending' = pending
      BY <2>2 DEF SubmitReturns
    <3>2. CASE completion[r] = "pending"
      BY <2>2, <3>1, <3>2 DEF SubmitReturns
    <3>3. CASE completion[r] # "pending"
      <4>1. completion[r] = "resolved"
        BY <3>1, <3>3 DEF ResolvedHasAll
      <4>2. \A j \in pending : RequestOf[j] # r
        BY <3>1, <4>1, ResolvedHasNoneQueued DEF Submitted
      <4>3. requestPools' = requestPools \ {r}
        BY <2>2, <3>3 DEF SubmitReturns
      <4>4. QED
        BY <3>1, <4>2, <4>3
    <3>4. QED
      BY <3>2, <3>3
  <2>3. QED
    BY <1>3, <2>1, <2>2 DEF DispatchEnds, DispatchReturns
<1>4. ASSUME PumpResult PROVE QueuedJobsHavePools'
  BY <1>4 DEF PumpResult, ProcessResult, ResultFails, ReleaseEntry
<1>5. ASSUME ShutdownScheduler PROVE QueuedJobsHavePools'
  BY <1>5 DEF ShutdownScheduler
<1>6. ASSUME OtherStep PROVE QueuedJobsHavePools'
  <2>1. ASSUME NEW r \in Requests, Wake(r) PROVE QueuedJobsHavePools'
    <3>1. Submitted(r) /\ pending' = pending
      BY <2>1 DEF Wake, WaiterWakes, Submitted
    <3>2. CASE completion[r] = "resolved"
      <4>1. \A j \in pending : RequestOf[j] # r
        BY <3>1, <3>2, ResolvedHasNoneQueued
      <4>2. requestPools' = requestPools \ {r}
        BY <2>1, <3>2 DEF Wake
      <4>3. QED
        BY <3>1, <4>1, <4>2
    <3>3. CASE completion[r] # "resolved"
      BY <2>1, <3>1, <3>3 DEF Wake
    <3>4. QED
      BY <3>2, <3>3
  <2>2. CASE UNCHANGED <<pending, requestPools>>
    BY <2>2
  <2>3. UNCHANGED <<pending, requestPools>> \/ \E r \in Requests : Wake(r)
    BY <1>6
    DEF OtherStep, Refuse, Disconnect, Abandon, ThreadPolls, PumpTimeout, CrashWorker,
        TakeJob, FinishJob, RequestShutdown, GraceExpires, ServerStops, StopWorkers
  <2>4. QED
    BY <2>1, <2>2, <2>3
<1>7. CASE UNCHANGED vars
  BY <1>7 DEF vars
<1>8. QED
  BY <1>1, <1>2, <1>3, <1>4, <1>5, <1>6, <1>7 DEF Next

LEMMA NextOverrideRespected ==
  ASSUME TypeOK, QueuedJobsHavePools, OverrideRespected, [Next]_vars
  PROVE  OverrideRespected'
<1> USE DaemonAssumption DEF OverrideRespected, TypeOK
<1>1. ASSUME NEW j \in Jobs, NEW acq \in Acquisitions(j), Dispatch(j, acq)
      PROVE  OverrideRespected'
  <2>1. inFlight' = [inFlight EXCEPT ![j] = [pools |-> PoolsOf(j), acquired |-> acq]]
    BY <1>1 DEF Dispatch
  <2>2. RequestOf[j] \in requestPools <=> RequestOf[j] \in DriverRequests
    BY <1>1 DEF Dispatch, QueuedJobsHavePools
  <2>3. PoolsOf(j)[Driver] =
          <<Driver, IF RequestOf[j] \in DriverRequests THEN RequestOf[j] ELSE Shared>>
    BY <2>2 DEF PoolsOf, PoolOf
  <2>4. QED
    BY <2>1, <2>3
<1>2. ASSUME NEW j \in Jobs, ReleaseEntry(j) PROVE OverrideRespected'
  BY <1>2 DEF ReleaseEntry
<1>3. CASE UNCHANGED <<free, inFlight>>
  BY <1>3
<1>4. QED
  BY <1>1, <1>2, <1>3, SlotSteps

(* A job of a request that brought its own drivers is never given a shared   *)
(* one, nor another request's job its drivers, although the override is read *)
(* when the job is dispatched and dropped by the waiter of the request       *)
(* (scheduler.py:518).                                                       *)
THEOREM OverridesAreRespected == Spec => []OverrideRespected
<1> DEFINE OverrideInv == RequestInv /\ QueuedJobsHavePools /\ OverrideRespected
<1>1. Init => OverrideInv
  BY InitRequestInv
<1>2. OverrideInv /\ [Next]_vars => OverrideInv'
  <2>1. RequestInv => TypeOK
    BY DEF RequestInv
  <2>2. QED
    BY <2>1, NextRequestInv, NextQueuedJobsHavePools, NextOverrideRespected
<1>3. OverrideInv => OverrideRespected
  OBVIOUS
<1>4. QED
  BY <1>1, <1>2, <1>3, PTL DEF Spec

-----------------------------------------------------------------------------
(* While requests are accepted and the pump has not failed, a job of an     *)
(* accepted request is queued, in flight or reported.                       *)
NoJobForgotten ==
  accepting /\ pump # "failed" =>
    \A j \in Jobs :
      Submitted(RequestOf[j]) =>
        j \in pending \/ inFlight[j] # None \/ j \in results[RequestOf[j]]

TrackedAreSubmitted == \A r \in registered : Submitted(r)

LEMMA NextTrackedAreSubmitted ==
  ASSUME RequestInv, TrackedAreSubmitted, [Next]_vars
  PROVE  TrackedAreSubmitted'
<1> USE DEF RequestInv, TypeOK, StoreTypeOK, TrackedAreSubmitted, Submitted
<1>1. ASSUME NEW r \in Requests, Submit(r) PROVE TrackedAreSubmitted'
  BY <1>1 DEF Submit, Register
<1>2. CASE FuturesOnlyFail /\ WaitersProceed /\ registered' \subseteq registered
  BY <1>2 DEF WaitersProceed
<1>3. CASE \E j \in Jobs : ReleaseEntry(j) /\ RecordAndReap(j) /\ waiter' = waiter
  BY <1>3 DEF RecordAndReap
<1>4. registered' \subseteq registered \/ \E r \in Requests : Submit(r)
  BY DEF Next, OtherStep, storeVars, schedVars, workerVars, vars, DispatchStep, Dispatch,
         DispatchEnds, DispatchReturns, PumpReturns, SubmitReturns, PumpResult, ProcessResult,
         RecordAndReap, ResultFails, PumpFails, FailAllRequests, ShutdownScheduler, Refuse, Wake,
         WaiterWakes, Disconnect, CancelWaiters, Abandon, WaiterAbandons, ThreadPolls,
         PumpTimeout, CrashWorker, TakeJob, FinishJob, RequestShutdown, GraceExpires,
         ServerStops, StopWorkers
<1>5. QED
  BY <1>1, <1>2, <1>3, <1>4, StoreSteps

LEMMA NextNoJobForgotten ==
  ASSUME RequestInv, NoJobForgotten, [Next]_vars
  PROVE  NoJobForgotten'
<1> USE RequestOfAssumption
        DEF RequestInv, TypeOK, StoreTypeOK, NoJobForgotten, Submitted, storeVars, schedVars,
            workerVars
<1>1. ASSUME NEW r \in Requests, Submit(r) PROVE NoJobForgotten'
  BY <1>1 DEF Submit, Register, JobsOf
<1>2. ASSUME NEW j \in Jobs, DispatchStep(j) PROVE NoJobForgotten'
  <2>1. PICK acq \in Acquisitions(j) : Dispatch(j, acq)
    BY <1>2 DEF DispatchStep
  <2>2. [pools |-> PoolsOf(j), acquired |-> acq] # None
    BY EntryType, DaemonAssumption
  <2>3. inFlight'[j] # None /\ \A k \in Jobs : k # j => inFlight'[k] = inFlight[k]
    BY <2>1, <2>2 DEF Dispatch
  <2>4. QED
    BY <2>1, <2>3 DEF Dispatch
<1>3. ASSUME PumpResult PROVE NoJobForgotten'
  <2>1. polled \in Jobs
    BY <1>3 DEF PumpResult
  <2>2. CASE ProcessResult(polled)
    <3>1. /\ pump = "polling" /\ UNCHANGED <<accepting, pending, waiter>>
          /\ inFlight' = [inFlight EXCEPT ![polled] = None]
      BY <1>3, <2>2 DEF PumpResult, ProcessResult, ReleaseEntry
    <3>2. results' = [results EXCEPT ![RequestOf[polled]] = results[RequestOf[polled]] \cup {polled}]
      BY <2>2 DEF ProcessResult, RecordAndReap
    <3>3. QED
      BY <2>1, <3>1, <3>2
  <2>3. CASE ResultFails(polled)
    BY <2>3 DEF ResultFails, PumpFails
  <2>4. QED
    BY <1>3, <2>2, <2>3 DEF PumpResult
<1>4. ASSUME ShutdownScheduler PROVE NoJobForgotten'
  BY <1>4 DEF ShutdownScheduler
<1>5. ASSUME DispatchEnds \/ OtherStep \/ UNCHANGED vars PROVE NoJobForgotten'
  <2>1. UNCHANGED <<accepting, pending, inFlight, results>>
    BY <1>5
    DEF DispatchEnds, DispatchReturns, PumpReturns, SubmitReturns, vars,
        OtherStep, Refuse, Wake, WaiterWakes, Disconnect, CancelWaiters, Abandon, WaiterAbandons,
        ThreadPolls, PumpTimeout, PumpFails, FailAllRequests, CrashWorker, TakeJob, FinishJob,
        RequestShutdown, GraceExpires, ServerStops, StopWorkers
  <2>2. pump' # "failed" => pump # "failed"
    BY <1>5
    DEF DispatchEnds, DispatchReturns, PumpReturns, SubmitReturns, vars,
        OtherStep, Refuse, Wake, WaiterWakes, Disconnect, CancelWaiters, Abandon, WaiterAbandons,
        ThreadPolls, PumpTimeout, PumpFails, FailAllRequests, CrashWorker, TakeJob, FinishJob,
        RequestShutdown, GraceExpires, ServerStops, StopWorkers
  <2>3. \A r \in Requests : Submitted(r)' => Submitted(r)
    BY <1>5
    DEF DispatchEnds, DispatchReturns, PumpReturns, SubmitReturns, vars,
        OtherStep, Refuse, Wake, WaiterWakes, Disconnect, CancelWaiters, Abandon, WaiterAbandons,
        ThreadPolls, PumpTimeout, PumpFails, FailAllRequests, CrashWorker, TakeJob, FinishJob,
        RequestShutdown, GraceExpires, ServerStops, StopWorkers
  <2>4. QED
    BY <2>1, <2>2, <2>3
<1>6. QED
  BY <1>1, <1>2, <1>3, <1>4, <1>5 DEF Next

(* pending_jobs, which decides when a request is resolved and when its entry *)
(* is reaped, is exactly the number of jobs still out, and the others have   *)
(* their result, whoever was cancelled meanwhile (daemon/request_store.py:64). *)
THEOREM PendingCountIsExact == Spec => []PendingCountExact
<1> DEFINE CountInv == RequestInv /\ NoJobForgotten /\ TrackedAreSubmitted
<1>1. Init => CountInv
  BY InitRequestInv, RequestOfAssumption
  DEF Init, StoreInit, NoJobForgotten, TrackedAreSubmitted, Submitted
<1>2. CountInv /\ [Next]_vars => CountInv'
  BY NextRequestInv, NextNoJobForgotten, NextTrackedAreSubmitted
<1>3. CountInv => PendingCountExact
  <2> SUFFICES ASSUME CountInv, accepting, pump # "failed", NEW r \in registered
               PROVE  /\ pendingJobs[r] = Cardinality(Outstanding(r))
                      /\ results[r] = JobsOf(r) \ Outstanding(r)
    BY DEF PendingCountExact
  <2>1. r \in Requests /\ Submitted(r)
    BY DEF RequestInv, TypeOK, StoreTypeOK, TrackedAreSubmitted
  <2>2. results[r] \subseteq JobsOf(r)
    BY <2>1 DEF RequestInv, ResultsAreOfDoneJobs
  <2>3. Outstanding(r) = JobsOf(r) \ results[r]
    BY <2>1, <2>2 DEF Outstanding, JobsOf, RequestInv, ResultsAreOfDoneJobs, NoJobForgotten
  <2>4. QED
    BY <2>1, <2>2, <2>3 DEF RequestInv, CountsUnreported
<1>4. QED
  BY <1>1, <1>2, <1>3, PTL DEF Spec

(* Both together: the books of the request store are right while requests are *)
(* accepted, and simulate returns nothing that is incomplete.                 *)
THEOREM RequestsAreAccounted == Spec => []RequestsAccounted
BY PendingCountIsExact, ReturnsAreComplete, PTL DEF RequestsAccounted

(* And the slots a job of either kind of request takes are those it may take, *)
(* each at most once, and come back to the pool they were taken from.         *)
THEOREM PoolsAreRespected == Spec => []PoolsRespected
BY SlotsAreConserved, OverridesAreRespected, PTL DEF PoolsRespected

-----------------------------------------------------------------------------
(***************************************************************************)
(* The way of a job through queues, workers and the executor thread, and   *)
(* the result pump at its end.                                             *)
(*                                                                         *)
(* The pump raises on a result that is not in flight or whose request is   *)
(* not tracked.  Neither happens because a job is in one place only, and   *)
(* because the entry of a request with jobs outstanding is removed by      *)
(* nobody but a pump that ends or a shutdown that cancels it.              *)
(***************************************************************************)

(* A job is in one place on the worker side at most.                       *)
OnePlace ==
  \A j \in Jobs :
    /\ j \in jobQueue => j \notin resultQueue /\ \A w \in Workers : j \notin running[w]
    /\ \A w \in Workers : j \in running[w] =>
         j \notin resultQueue /\ \A v \in Workers \ {w} : j \notin running[v]
    /\ polled = j =>
         j \notin jobQueue /\ j \notin resultQueue /\ \A w \in Workers : j \notin running[w]

Located(j) ==
  j \in jobQueue \/ j \in resultQueue \/ polled = j \/ \E w \in Workers : j \in running[w]

(* What is on the worker side is in flight; what is in flight and nowhere  *)
(* was lost with a worker.                                                 *)
LocatedInFlight ==
  \A j \in Jobs :
    /\ Located(j) => inFlight[j] # None
    /\ inFlight[j] # None /\ ~Located(j) => Crashed \/ phase = "stopped"

JobInv == TypeOK /\ NotYetInFlight /\ OnePlace /\ LocatedInFlight

LEMMA InitJobInv == Init => JobInv
<1> SUFFICES ASSUME Init PROVE JobInv
  OBVIOUS
<1>1. TypeOK /\ NotYetInFlight
  BY InitTypeOK, InitNotYetInFlight
<1>2. OnePlace /\ LocatedInFlight
  BY DaemonAssumption DEF Init, OnePlace, LocatedInFlight, Located
<1>3. QED
  BY <1>1, <1>2 DEF JobInv

(* Only these steps move a job. *)
LEMMA JobSteps ==
  ASSUME [Next]_vars
  PROVE  \/ \E j \in Jobs : \E acq \in Acquisitions(j) : Dispatch(j, acq)
         \/ \E j \in Jobs : ThreadPolls(j)
         \/ PumpResult
         \/ \E w \in Workers, j \in Jobs : TakeJob(w, j) \/ FinishJob(w, j)
         \/ \E w \in Workers : CrashWorker(w)
         \/ StopWorkers
         \/ UNCHANGED <<inFlight, jobQueue, running, resultQueue, polled, workers>>
              /\ (phase = "stopped" => phase' = "stopped")
<1> USE DEF storeVars, schedVars, workerVars
<1> DEFINE Still == UNCHANGED <<inFlight, jobQueue, running, resultQueue, polled, workers>>
                    /\ (phase = "stopped" => phase' = "stopped")
<1>1. ASSUME NEW r \in Requests, Submit(r) PROVE Still
  BY <1>1 DEF Submit
<1>2. ASSUME NEW j \in Jobs, DispatchStep(j)
      PROVE  \E acq \in Acquisitions(j) : Dispatch(j, acq)
  BY <1>2 DEF DispatchStep
<1>3. ASSUME DispatchEnds PROVE Still
  BY <1>3 DEF DispatchEnds, DispatchReturns, PumpReturns, SubmitReturns
<1>4. ASSUME ShutdownScheduler PROVE Still
  BY <1>4 DEF ShutdownScheduler
<1>5. ASSUME NEW r \in Requests, Refuse(r) \/ Wake(r) \/ Disconnect(r) \/ Abandon(r)
      PROVE  Still
  BY <1>5 DEF Refuse, Wake, Disconnect, Abandon
<1>6. ASSUME PumpTimeout \/ RequestShutdown \/ GraceExpires \/ ServerStops PROVE Still
  BY <1>6 DEF PumpTimeout, RequestShutdown, GraceExpires, ServerStops
<1>7. CASE UNCHANGED vars
  BY <1>7 DEF vars
<1>8. QED
  BY <1>1, <1>2, <1>3, <1>4, <1>5, <1>6, <1>7 DEF Next, OtherStep

LEMMA NextJobInv == JobInv /\ [Next]_vars => JobInv'
<1> SUFFICES ASSUME JobInv, [Next]_vars PROVE JobInv'
  OBVIOUS
<1>1. (TypeOK /\ NotYetInFlight)'
  BY NextTypeOK, NextNotYetInFlight DEF JobInv
<1>2. TypeOK /\ NotYetInFlight /\ OnePlace /\ LocatedInFlight
  BY DEF JobInv
<1>3. \A j \in Jobs : j # None
  BY DaemonAssumption
<1> USE DEF storeVars, schedVars, workerVars
<1>4. ASSUME NEW j \in Jobs, NEW acq \in Acquisitions(j), Dispatch(j, acq)
      PROVE  OnePlace' /\ LocatedInFlight'
  <2>1. ~Located(j) /\ jobQueue' = jobQueue \cup {j}
        /\ UNCHANGED <<running, resultQueue, polled, workers, phase>>
    BY <1>2, <1>4 DEF Dispatch, NotYetInFlight, LocatedInFlight
  <2>2. inFlight'[j] # None /\ \A k \in Jobs : k # j => inFlight'[k] = inFlight[k]
    <3>1. inFlight' = [inFlight EXCEPT ![j] = [pools |-> PoolsOf(j), acquired |-> acq]]
      BY <1>4 DEF Dispatch
    <3>2. [pools |-> PoolsOf(j), acquired |-> acq] # None
      BY <1>2, EntryType, DaemonAssumption
    <3>3. QED
      BY <1>2, <3>1, <3>2 DEF TypeOK
  <2>3. OnePlace'
    BY <1>2, <2>1 DEF OnePlace, Located
  <2>4. LocatedInFlight'
    BY <1>2, <2>1, <2>2 DEF LocatedInFlight, Located, Crashed
  <2>5. QED
    BY <2>3, <2>4
<1>5. ASSUME NEW j \in Jobs, ThreadPolls(j) PROVE OnePlace' /\ LocatedInFlight'
  <2>1. j \in resultQueue /\ resultQueue' = resultQueue \ {j} /\ polled = None /\ polled' = j
        /\ UNCHANGED <<inFlight, jobQueue, running, workers, phase>>
    BY <1>5 DEF ThreadPolls
  <2>2. OnePlace'
    BY <1>2, <1>3, <2>1 DEF OnePlace
  <2>3. \A k \in Jobs : Located(k)' <=> Located(k)
    BY <1>2, <1>3, <2>1 DEF Located
  <2>4. LocatedInFlight'
    BY <1>2, <2>1, <2>3 DEF LocatedInFlight, Crashed
  <2>5. QED
    BY <2>2, <2>4
<1>6. ASSUME PumpResult PROVE OnePlace' /\ LocatedInFlight'
  <2>1. polled \in Jobs /\ polled' = None
        /\ UNCHANGED <<jobQueue, running, resultQueue, workers, phase>>
    BY <1>2, <1>6 DEF PumpResult, TypeOK
  <2>2. \A k \in Jobs : k # polled => inFlight'[k] = inFlight[k]
    BY <1>2, <1>6, <2>1 DEF PumpResult, ProcessResult, ResultFails, ReleaseEntry, TypeOK
  <2>3. inFlight'[polled] = None \/ Crashed
    BY <1>2, <1>6, <2>1 DEF PumpResult, ProcessResult, ResultFails, ReleaseEntry, TypeOK
  <2>4. \A k \in Jobs : Located(k)' <=> Located(k) /\ k # polled
    BY <1>2, <1>3, <2>1 DEF Located, OnePlace
  <2>5. OnePlace'
    BY <1>2, <1>3, <2>1 DEF OnePlace
  <2>6. LocatedInFlight'
    BY <1>2, <2>1, <2>2, <2>3, <2>4 DEF LocatedInFlight, Crashed
  <2>7. QED
    BY <2>5, <2>6
<1>7. ASSUME NEW w \in Workers, NEW j \in Jobs, TakeJob(w, j)
      PROVE  OnePlace' /\ LocatedInFlight'
  <2>1. j \in jobQueue /\ jobQueue' = jobQueue \ {j}
        /\ UNCHANGED <<inFlight, resultQueue, polled, workers, phase>>
    BY <1>7 DEF TakeJob
  <2>2. running'[w] = running[w] \cup {j} /\ \A v \in Workers \ {w} : running'[v] = running[v]
    BY <1>2, <1>7 DEF TakeJob, TypeOK
  <2>3. OnePlace'
    BY <1>2, <2>1, <2>2 DEF OnePlace
  <2>4. \A k \in Jobs : Located(k)' <=> Located(k)
    BY <2>1, <2>2 DEF Located
  <2>5. LocatedInFlight'
    BY <1>2, <2>1, <2>4 DEF LocatedInFlight, Crashed
  <2>6. QED
    BY <2>3, <2>5
<1>8. ASSUME NEW w \in Workers, NEW j \in Jobs, FinishJob(w, j)
      PROVE  OnePlace' /\ LocatedInFlight'
  <2>1. j \in running[w] /\ resultQueue' = resultQueue \cup {j}
        /\ UNCHANGED <<inFlight, jobQueue, polled, workers, phase>>
    BY <1>8 DEF FinishJob
  <2>2. running'[w] = running[w] \ {j} /\ \A v \in Workers \ {w} : running'[v] = running[v]
    BY <1>2, <1>8 DEF FinishJob, TypeOK
  <2>3. OnePlace'
    BY <1>2, <2>1, <2>2 DEF OnePlace
  <2>4. \A k \in Jobs : Located(k)' <=> Located(k)
    BY <2>1, <2>2 DEF Located
  <2>5. LocatedInFlight'
    BY <1>2, <2>1, <2>4 DEF LocatedInFlight, Crashed
  <2>6. QED
    BY <2>3, <2>5
<1>9. ASSUME NEW w \in Workers, CrashWorker(w) PROVE OnePlace' /\ LocatedInFlight'
  <2>1. UNCHANGED <<inFlight, jobQueue, resultQueue, polled>> /\ workers'[w] = "crashed"
    BY <1>2, <1>9 DEF CrashWorker, TypeOK
  <2>2. running'[w] = {} /\ \A v \in Workers \ {w} : running'[v] = running[v]
    BY <1>2, <1>9 DEF CrashWorker, TypeOK
  <2>3. OnePlace'
    BY <1>2, <2>1, <2>2 DEF OnePlace
  <2>4. \A k \in Jobs : Located(k)' => Located(k)
    BY <2>1, <2>2 DEF Located
  <2>5. Crashed'
    BY <2>1 DEF Crashed
  <2>6. LocatedInFlight'
    BY <1>2, <2>1, <2>4, <2>5 DEF LocatedInFlight
  <2>7. QED
    BY <2>3, <2>6
<1>10. ASSUME StopWorkers PROVE OnePlace' /\ LocatedInFlight'
  <2>1. UNCHANGED <<inFlight, jobQueue, resultQueue, polled>> /\ phase' = "stopped"
        /\ \A v \in Workers : running'[v] = {}
    BY <1>10 DEF StopWorkers
  <2>2. OnePlace'
    BY <1>2, <2>1 DEF OnePlace
  <2>3. \A k \in Jobs : Located(k)' => Located(k)
    BY <2>1 DEF Located
  <2>4. LocatedInFlight'
    BY <1>2, <2>1, <2>3 DEF LocatedInFlight
  <2>5. QED
    BY <2>2, <2>4
<1>11. ASSUME UNCHANGED <<inFlight, jobQueue, running, resultQueue, polled, workers>>,
              phase = "stopped" => phase' = "stopped"
       PROVE  OnePlace' /\ LocatedInFlight'
  BY <1>2, <1>11 DEF OnePlace, LocatedInFlight, Located, Crashed
<1>12. OnePlace' /\ LocatedInFlight'
  BY <1>4, <1>5, <1>6, <1>7, <1>8, <1>9, <1>10, <1>11, JobSteps
<1>13. QED
  BY <1>1, <1>12 DEF JobInv

-----------------------------------------------------------------------------
(* At most one of the places of a job is taken, by at most one worker.     *)
LEMMA PlacesCounted ==
  ASSUME TypeOK, OnePlace, NEW j \in Jobs
  PROVE  Cardinality(Places(j)) <= 1 /\ Cardinality({w \in Workers : j \in running[w]}) <= 1
<1>1. ASSUME NEW S, \A x, y \in S : x = y PROVE Cardinality(S) <= 1
  <2>1. CASE S = {}
    BY <2>1, FS_EmptySet
  <2>2. CASE S # {}
    <3>1. PICK x \in S : S = {x}
      BY <1>1, <2>2
    <3>2. Cardinality(S) = 1
      BY <3>1, FS_Singleton
    <3>3. QED
      BY <3>2
  <2>3. QED
    BY <2>1, <2>2
<1>2. \A x, y \in Places(j) : x = y
  BY DEF Places, OnePlace
<1>3. \A x, y \in {w \in Workers : j \in running[w]} : x = y
  BY DEF OnePlace
<1>4. QED
  BY <1>1, <1>2, <1>3

(* No dispatched job is lost or run twice: it is in one queue, one worker  *)
(* or the hands of the pump, and is gone only when a worker died or all    *)
(* were stopped (worker/runtime.py:58 and 62, worker/main.py:263).         *)
THEOREM JobsAreNeverLost == Spec => []NoJobLostOrDuplicated
<1>1. JobInv => NoJobLostOrDuplicated
  <2> SUFFICES ASSUME JobInv, NEW j \in Jobs
               PROVE  /\ Cardinality(Places(j)) <= 1
                      /\ Cardinality({w \in Workers : j \in running[w]}) <= 1
                      /\ j \in pending => Places(j) = {} /\ inFlight[j] = None
                      /\ Places(j) # {} => inFlight[j] # None
                      /\ inFlight[j] # None /\ Places(j) = {} => Crashed \/ phase = "stopped"
    BY DEF NoJobLostOrDuplicated
  <2>1. Places(j) # {} <=> Located(j)
    BY DEF Places, Located
  <2>2. j \in pending => inFlight[j] = None
    BY DEF JobInv, NotYetInFlight
  <2>3. QED
    BY <2>1, <2>2, PlacesCounted DEF JobInv, LocatedInFlight
<1>2. QED
  BY <1>1, InitJobInv, NextJobInv, PTL DEF Spec

-----------------------------------------------------------------------------
(* While the pump lives the store knows every request with a job queued or *)
(* in flight, and has not failed it; the pump has only failed on a crash.  *)
PumpLives == pump \in {"polling", "dispatching"}

OutstandingTracked ==
  \A j \in Jobs :
    j \in pending \/ inFlight[j] # None =>
      RequestOf[j] \in registered /\ completion[RequestOf[j]] # "failed"

PumpInv ==
  /\ RequestInv /\ JobInv
  /\ pump = "failed" => Crashed
  /\ PumpLives => OutstandingTracked

(* A result the thread hands over is in flight and expected.               *)
LEMMA PolledIsExpected ==
  ASSUME PumpInv, pump = "polling", polled # None
  PROVE  polled \in Jobs /\ inFlight[polled] # None /\ Recordable(polled)
<1> DEFINE r == RequestOf[polled]
<1>1. polled \in Jobs /\ inFlight[polled] # None
  BY DEF PumpInv, JobInv, TypeOK, LocatedInFlight, Located
<1>2. r \in registered /\ r \in Requests /\ polled \in JobsOf(r)
  BY <1>1, RequestOfAssumption DEF PumpInv, PumpLives, OutstandingTracked, JobsOf
<1>3. Submitted(r) /\ polled \in JobsOf(r) \ results[r]
  BY <1>1, <1>2 DEF PumpInv, RequestInv, ResultsAreOfDoneJobs
<1>4. pendingJobs[r] = Cardinality(JobsOf(r) \ results[r])
  BY <1>2, <1>3 DEF PumpInv, RequestInv, CountsUnreported
<1>5. IsFiniteSet(JobsOf(r) \ results[r])
  BY <1>2, JobsOfFinite, FS_Subset
<1>6. Cardinality(JobsOf(r) \ results[r]) \in Nat /\ Cardinality(JobsOf(r) \ results[r]) # 0
  BY <1>3, <1>5, FS_CardinalityType, FS_EmptySet
<1>7. QED
  BY <1>1, <1>2, <1>4, <1>6 DEF Recordable

(* A request whose future is resolved has no outstanding job.              *)
LEMMA ResolvedHasNoneOutstanding ==
  ASSUME RequestInv, NEW r \in Requests, Submitted(r), completion[r] = "resolved",
         NEW j \in Jobs, RequestOf[j] = r
  PROVE  j \notin pending /\ inFlight[j] = None
BY DEF RequestInv, ResolvedHasAll, ResultsAreOfDoneJobs, JobsOf

(* Crashed workers stay crashed. *)
LEMMA CrashIsFinal ==
  ASSUME TypeOK, [Next]_vars, Crashed
  PROVE  Crashed'
<1> USE DEF storeVars, schedVars, workerVars
<1>1. PICK w \in Workers : workers[w] = "crashed"
  BY DEF Crashed
<1>2. ASSUME NEW v \in Workers, CrashWorker(v) PROVE workers'[w] = "crashed"
  BY <1>1, <1>2 DEF CrashWorker, TypeOK
<1>3. CASE StopWorkers
  BY <1>1, <1>3 DEF StopWorkers, Crashed
<1>4. CASE UNCHANGED workers
  BY <1>1, <1>4 DEF Crashed
<1>5. ASSUME NEW r \in Requests, Submit(r) PROVE UNCHANGED workers
  BY <1>5 DEF Submit
<1>6. ASSUME NEW j \in Jobs, DispatchStep(j) PROVE UNCHANGED workers
  BY <1>6 DEF DispatchStep, Dispatch
<1>7. ASSUME DispatchEnds \/ PumpResult \/ ShutdownScheduler PROVE UNCHANGED workers
  BY <1>7 DEF DispatchEnds, DispatchReturns, PumpReturns, SubmitReturns, PumpResult, ShutdownScheduler
<1>8. ASSUME OtherStep
      PROVE  UNCHANGED workers \/ StopWorkers \/ \E v \in Workers : CrashWorker(v)
  BY <1>8
  DEF OtherStep, Refuse, Wake, Disconnect, Abandon, ThreadPolls, PumpTimeout, TakeJob,
      FinishJob, RequestShutdown, GraceExpires, ServerStops
<1>9. CASE UNCHANGED vars
  BY <1>4, <1>9 DEF vars
<1>10. QED
  BY <1>1, <1>2, <1>3, <1>4, <1>5, <1>6, <1>7, <1>8, <1>9 DEF Next, Crashed

(* A result that is recorded removes no request with outstanding jobs.     *)
LEMMA ReapKeepsTracked ==
  ASSUME PumpInv, RequestInv', NEW j \in Jobs, ReleaseEntry(j), RecordAndReap(j), OutstandingTracked
  PROVE  OutstandingTracked'
<1> USE RequestOfAssumption
<1>1. ASSUME NEW k \in Jobs, (k \in pending \/ inFlight[k] # None)' 
      PROVE  RequestOf[k] \in registered' /\ completion'[RequestOf[k]] # "failed"
  <2> DEFINE q == RequestOf[k]
  <2>1. k \in pending \/ inFlight[k] # None
    BY <1>1 DEF ReleaseEntry, PumpInv, JobInv, TypeOK
  <2>2. q \in Requests /\ q \in registered /\ completion[q] # "failed"
    BY <2>1 DEF OutstandingTracked
  <2>3. completion'[q] # "failed"
    BY <2>2 DEF RecordAndReap, PumpInv, JobInv, TypeOK, StoreTypeOK
  <2>4. Submitted(q)' /\ k \in JobsOf(q) \ results'[q]
    BY <1>1, <2>2 DEF RequestInv, ResultsAreOfDoneJobs, JobsOf
  <2>5. pendingJobs'[q] = Cardinality(JobsOf(q) \ results'[q])
    BY <2>2, <2>4 DEF RequestInv, CountsUnreported, JobsOf
  <2>6. pendingJobs'[q] # 0
    <3>1. IsFiniteSet(JobsOf(q) \ results'[q])
      BY <2>2, JobsOfFinite, FS_Subset
    <3>2. QED
      BY <2>4, <2>5, <3>1, FS_EmptySet
  <2>7. registered' = registered \ Reapable(pendingJobs')
    BY DEF RecordAndReap
  <2>8. QED
    BY <2>2, <2>3, <2>6, <2>7 DEF Reapable
<1>2. QED
  BY <1>1 DEF OutstandingTracked

LEMMA NextPumpInv == PumpInv /\ [Next]_vars => PumpInv'
<1> SUFFICES ASSUME PumpInv, [Next]_vars PROVE PumpInv'
  OBVIOUS
<1>1. (RequestInv /\ JobInv)'
  BY NextRequestInv, NextJobInv DEF PumpInv
<1>2. Crashed => Crashed'
  BY CrashIsFinal DEF PumpInv, JobInv
<1> DEFINE Kept == /\ pump' = "failed" => Crashed'
                   /\ PumpLives' => OutstandingTracked'
<1> USE RequestOfAssumption
        DEF PumpInv, JobInv, TypeOK, StoreTypeOK, PumpLives, storeVars, schedVars, workerVars
<1>3. ASSUME NEW r \in Requests, Submit(r) PROVE Kept
  <2>1. /\ registered' = registered \cup {r} /\ pending' = pending \cup JobsOf(r)
        /\ UNCHANGED <<inFlight, pump>>
    BY <1>3 DEF Submit, Register
  <2>2. completion' = [completion EXCEPT ![r] = IF JobsOf(r) = {} THEN "resolved" ELSE "pending"]
    BY <1>3 DEF Submit, Register
  <2>3. PumpLives => OutstandingTracked'
    BY <2>1, <2>2 DEF OutstandingTracked, JobsOf
  <2>4. QED
    BY <1>2, <2>1, <2>3
<1>4. ASSUME NEW j \in Jobs, DispatchStep(j) PROVE Kept
  <2>1. PICK acq \in Acquisitions(j) : Dispatch(j, acq)
    BY <1>4 DEF DispatchStep
  <2>2. /\ j \in pending /\ pending' = pending \ {j}
        /\ \A k \in Jobs : k # j => inFlight'[k] = inFlight[k]
        /\ UNCHANGED <<registered, completion, pump>>
    BY <2>1 DEF Dispatch
  <2>3. PumpLives => OutstandingTracked'
    BY <2>2 DEF OutstandingTracked
  <2>4. QED
    BY <1>2, <2>2, <2>3
<1>5. ASSUME DispatchEnds PROVE Kept
  <2>1. CASE PumpReturns
    BY <1>2, <2>1 DEF PumpReturns, OutstandingTracked
  <2>2. ASSUME NEW r \in Requests, SubmitReturns(r) PROVE Kept
    <3>1. waiter[r] = "dispatching" /\ UNCHANGED <<pending, inFlight, completion, pump>>
      BY <2>2 DEF SubmitReturns
    <3>2. completion[r] = "pending" => registered' = registered
      BY <2>2 DEF SubmitReturns
    <3>3. completion[r] # "pending" =>
            completion[r] = "resolved" /\ registered' = registered \ {r}
      BY <2>2, <3>1 DEF SubmitReturns, RequestInv, ResolvedHasAll
    <3>4. Submitted(r)
      BY <3>1 DEF Submitted
    <3>5. PumpLives => OutstandingTracked'
      BY <3>1, <3>2, <3>3, <3>4, ResolvedHasNoneOutstanding DEF OutstandingTracked
    <3>6. QED
      BY <1>2, <3>1, <3>5
  <2>3. QED
    BY <1>5, <2>1, <2>2 DEF DispatchEnds, DispatchReturns
<1>6. ASSUME PumpResult PROVE Kept
  <2>1. pump = "polling" /\ polled # None
    BY <1>6 DEF PumpResult
  <2>2. polled \in Jobs /\ inFlight[polled] # None /\ Recordable(polled)
    BY <2>1, PolledIsExpected
  <2>3. CASE ProcessResult(polled)
    <3>1. pump' = "dispatching" /\ ReleaseEntry(polled) /\ RecordAndReap(polled)
      BY <2>3 DEF ProcessResult
    <3>2. OutstandingTracked
      BY <2>1
    <3>3. QED
      BY <1>1, <2>2, <3>1, <3>2, ReapKeepsTracked
  <2>4. CASE ResultFails(polled)
    BY <1>2, <2>2, <2>4 DEF ResultFails, PumpFails
  <2>5. QED
    BY <1>6, <2>3, <2>4 DEF PumpResult
<1>7. ASSUME ShutdownScheduler PROVE Kept
  <2>1. PumpLives => {RequestOf[j] : j \in pending} \subseteq registered
    BY DEF OutstandingTracked
  <2>2. pump' = "failed" => pump = "failed"
    BY <1>7 DEF ShutdownScheduler
  <2>3. ~PumpLives'
    BY <1>7, <2>1 DEF ShutdownScheduler
  <2>4. QED
    BY <1>2, <2>2, <2>3
<1>8. ASSUME OtherStep PROVE Kept
  <2>1. ASSUME NEW r \in Requests, Refuse(r) \/ Disconnect(r) \/ Abandon(r) PROVE Kept
    BY <1>2, <2>1
    DEF Refuse, Disconnect, CancelWaiters, Abandon, WaiterAbandons, OutstandingTracked
  <2>2. ASSUME NEW r \in Requests, Wake(r) PROVE Kept
    <3>1. /\ Submitted(r) /\ registered' = registered \ {r}
          /\ completion[r] \in {"resolved", "failed"}
          /\ UNCHANGED <<pending, inFlight, completion, pump>>
      BY <2>2 DEF Wake, WaiterWakes, Submitted
    <3>2. PumpLives => OutstandingTracked'
      BY <3>1, ResolvedHasNoneOutstanding DEF OutstandingTracked
    <3>3. QED
      BY <1>2, <3>1, <3>2
  <2>3. ASSUME PumpTimeout PROVE Kept
    BY <1>2, <2>3 DEF PumpTimeout, PumpFails
  <2>4. ASSUME GraceExpires PROVE Kept
    BY <1>2, <2>4 DEF GraceExpires, CancelWaiters, OutstandingTracked
  <2>5. ASSUME \/ \E j \in Jobs : ThreadPolls(j)
               \/ \E w \in Workers : CrashWorker(w) \/ \E j \in Jobs : TakeJob(w, j) \/ FinishJob(w, j)
               \/ RequestShutdown \/ ServerStops \/ StopWorkers
        PROVE  Kept
    <3>1. UNCHANGED <<registered, completion, pending, inFlight, pump>>
      BY <2>5
      DEF ThreadPolls, CrashWorker, TakeJob, FinishJob, RequestShutdown, ServerStops, StopWorkers
    <3>2. QED
      BY <1>2, <3>1 DEF OutstandingTracked
  <2>6. QED
    BY <1>8, <2>1, <2>2, <2>3, <2>4, <2>5 DEF OtherStep
<1>9. ASSUME UNCHANGED vars PROVE Kept
  BY <1>2, <1>9 DEF vars, OutstandingTracked
<1>10. Kept
  BY <1>3, <1>4, <1>5, <1>6, <1>7, <1>8, <1>9 DEF Next
<1>11. QED
  BY <1>1, <1>10

(* The pump, which resolves every request, fails on the crash of a worker  *)
(* and on nothing a client does: no cancellation and no reap of a request  *)
(* makes a result unknown to it (daemon/request_store.py:81).              *)
THEOREM PumpFailsOnlyByCrash == Spec => []PumpEndsOnlyByCrash
<1>1. Init => PumpInv
  BY InitRequestInv, InitJobInv DEF PumpInv, Init, StoreInit, OutstandingTracked
<1>2. PumpInv => PumpEndsOnlyByCrash
  BY DEF PumpInv, PumpEndsOnlyByCrash
<1>3. QED
  BY <1>1, <1>2, NextPumpInv, PTL DEF Spec

=============================================================================
