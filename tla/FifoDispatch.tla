---------------------------- MODULE FifoDispatch ----------------------------
(***************************************************************************)
(* The scheduler with the FifoDispatch strategy (daemon/scheduler.py): one *)
(* deque of pending jobs, served strictly in submission order.  The module *)
(* adds the deque to DaemonScheduler, whose set "pending" is then what the *)
(* deque holds; commit pops the head without looking at the reservation.   *)
(***************************************************************************)
EXTENDS DaemonScheduler_proofs, Sequences, SequenceTheorems

CONSTANT JobList   \* per request, its jobs in the order simulate builds them

ASSUME JobListAssumption ==
  /\ JobList \in [Requests -> Seq(Jobs)]
  /\ \A r \in Requests :
       /\ {JobList[r][i] : i \in 1..Len(JobList[r])} = JobsOf(r)
       /\ Len(JobList[r]) = Cardinality(JobsOf(r))

VARIABLES
  queue,     \* FifoDispatch._queue
  arrived    \* history: the requests in the order they were submitted

fifoVars == <<vars, queue, arrived>>

FifoInit ==
  /\ Init
  /\ queue = <<>>
  /\ arrived = <<>>

(* Mutant: jobs are put in front of the deque. *)
FifoSubmitInFront(r) ==
  /\ Submit(r)
  /\ queue' = JobList[r] \o queue
  /\ arrived' = Append(arrived, r)

(* add_pending for each job of the request, in order. *)
FifoSubmit(r) ==
  /\ Submit(r)
  /\ queue' = queue \o JobList[r]
  /\ arrived' = Append(arrived, r)

(* try_reserve selects the head of the deque; commit pops it. *)
FifoDispatchStep ==
  /\ queue # <<>>
  /\ DispatchStep(Head(queue))
  /\ queue' = Tail(queue)
  /\ UNCHANGED arrived

(* Mutant: dispatch_once returns before it has filled every slot. *)
FifoReturnEarly ==
  /\ DispatchReturns
  /\ UNCHANGED <<queue, arrived>>

(* Nothing queued, or the job at the head does not fit: the round is over. *)
FifoDispatchEnds ==
  /\ queue # <<>> => Blocked(Head(queue))
  /\ DispatchReturns
  /\ UNCHANGED <<queue, arrived>>

(* drain_pending_request_ids. *)
FifoShutdown ==
  /\ ShutdownScheduler
  /\ queue' = <<>>
  /\ UNCHANGED arrived

FifoNext ==
  \/ \E r \in Requests : FifoSubmit(r)
  \/ FifoDispatchStep
  \/ FifoDispatchEnds
  \/ FifoShutdown
  \/ (PumpResult \/ OtherStep) /\ UNCHANGED <<queue, arrived>>

FifoSpec == FifoInit /\ [][FifoNext]_fifoVars

FifoFairSpec ==
  /\ FifoSpec /\ CommonFairness
  /\ WF_fifoVars(FifoDispatchStep \/ FifoDispatchEnds)
  /\ WF_fifoVars(FifoShutdown)

-----------------------------------------------------------------------------
Dispatched(j) == inFlight[j] # None \/ j \in results[RequestOf[j]]

(* "Strict submission order": a job is dispatched only after every job ahead  *)
(* of it in its request and every job of the requests that arrived before,    *)
(* even when those wait for a pool this job does not need.  The deque holds   *)
(* exactly the jobs that are pending, each once: the job commit pops is the   *)
(* one that was reserved.                                                     *)
SubmissionOrder ==
  /\ TypeOK /\ queue \in Seq(Jobs) /\ arrived \in Seq(Requests)
  /\ {queue[i] : i \in 1..Len(queue)} = pending
  /\ \A i, k \in 1..Len(queue) : queue[i] = queue[k] => i = k
  /\ \A r \in Requests : \A i, k \in 1..Len(JobList[r]) :
       i < k /\ JobList[r][i] \in pending => ~Dispatched(JobList[r][k])
  /\ \A m, n \in 1..Len(arrived) :
       m < n => \A i \in JobsOf(arrived[m]), k \in JobsOf(arrived[n]) :
                  i \in pending => ~Dispatched(k)

(* This strategy is one of the strategies the scheduler is specified over.    *)
ImplementsScheduler == Spec

----------------------------------------------------------------------------
(***************************************************************************)
(* Proofs about the FIFO strategy: that the scheduler with it is one of    *)
(* the schedulers DaemonScheduler specifies, so that everything proved     *)
(* there holds of it, and that it is strict.                               *)
(*                                                                         *)
(* The order of the deque is not the order in which jobs are dispatched    *)
(* unless what is still in it is a suffix of all that was ever submitted:  *)
(* Ahead is that submission order, and the inductive invariant says that   *)
(* the deque is sorted by it and that nothing behind a pending job has     *)
(* left the deque.                                                         *)
(***************************************************************************)
(* The list of a request's jobs has each of them once. *)
LEMMA JobListDistinct ==
  ASSUME NEW r \in Requests
  PROVE  /\ JobList[r] \in Seq(Jobs)
         /\ \A i \in 1..Len(JobList[r]) : JobList[r][i] \in JobsOf(r)
         /\ \A j \in JobsOf(r) : \E i \in 1..Len(JobList[r]) : JobList[r][i] = j
         /\ \A i, k \in 1..Len(JobList[r]) : JobList[r][i] = JobList[r][k] => i = k
<1>1. /\ JobList[r] \in Seq(Jobs)
      /\ {JobList[r][i] : i \in 1..Len(JobList[r])} = JobsOf(r)
      /\ Len(JobList[r]) = Cardinality(JobsOf(r))
  BY JobListAssumption
<1>2. /\ Len(JobList[r]) \in Nat
      /\ JobList[r] \in [1..Len(JobList[r]) -> Jobs]
  BY <1>1, LenProperties
<1>3. \A i, k \in 1..Len(JobList[r]) : JobList[r][i] = JobList[r][k] => i = k
  <2> DEFINE L == JobList[r]
             n == Len(L)
  <2>1. n \in Nat /\ L \in [1..n -> Jobs] /\ Cardinality({L[i] : i \in 1..n}) = n
    BY <1>1, <1>2
  <2> HIDE DEF L, n
  <2>2. \A i, k \in 1..n : L[i] = L[k] => i = k
    BY ONLY <2>1, ListOfDistinct
  <2>3. QED
    BY <2>2 DEF L, n
<1>4. QED
  BY <1>1, <1>3

(* x was submitted before y: with an earlier request, or earlier in the same. *)
Ahead(x, y) ==
  \E m, n \in 1..Len(arrived) :
    /\ RequestOf[x] = arrived[m] /\ RequestOf[y] = arrived[n]
    /\ \/ m < n
       \/ /\ m = n
          /\ \E i, k \in 1..Len(JobList[arrived[m]]) :
               i < k /\ JobList[arrived[m]][i] = x /\ JobList[arrived[m]][k] = y

(* The history of arrivals: each submitted request once, among them those of *)
(* all pending jobs.                                                         *)
ArrivalsOnce ==
  /\ arrived \in Seq(Requests)
  /\ \A m \in 1..Len(arrived) : Submitted(arrived[m])
  /\ \A m, n \in 1..Len(arrived) : arrived[m] = arrived[n] => m = n
  /\ \A j \in pending : \E m \in 1..Len(arrived) : arrived[m] = RequestOf[j]

(* The deque holds the pending jobs, in the order they were submitted. *)
QueueSorted ==
  /\ queue \in Seq(Jobs)
  /\ {queue[i] : i \in 1..Len(queue)} = pending
  /\ \A a, b \in 1..Len(queue) : a < b => Ahead(queue[a], queue[b])

(* No job has left the deque before one that was submitted earlier. *)
PendingIsSuffix ==
  \A x, y \in Jobs : x \in pending /\ Ahead(x, y) => y \in pending

FifoInv == RequestInv /\ ArrivalsOnce /\ QueueSorted /\ PendingIsSuffix

-----------------------------------------------------------------------------
(* What try_reserve offers is a pending job. *)
LEMMA HeadIsPending ==
  ASSUME QueueSorted, queue # <<>>
  PROVE  1 \in 1..Len(queue) /\ Head(queue) = queue[1] /\ Head(queue) \in pending
<1>1. Len(queue) \in Nat \ {0} /\ Head(queue) = queue[1]
  BY EmptySeq DEF QueueSorted
<1>2. QED
  BY <1>1 DEF QueueSorted

(* Every step of this strategy is a step of the scheduler. *)
LEMMA FifoStepIsStep ==
  ASSUME TypeOK, QueueSorted, [FifoNext]_fifoVars
  PROVE  [Next]_vars
<1>1. ASSUME NEW r \in Requests, FifoSubmit(r) PROVE Next
  BY <1>1 DEF FifoSubmit, Next
<1>2. ASSUME FifoDispatchStep PROVE Next
  <2>1. Head(queue) \in Jobs /\ DispatchStep(Head(queue))
    BY <1>2, HeadIsPending DEF FifoDispatchStep, TypeOK
  <2>2. QED
    BY <2>1 DEF Next
<1>3. ASSUME FifoDispatchEnds PROVE Next
  <2>1. CASE queue = <<>>
    <3>1. pending = {}
      BY <2>1, EmptySeq DEF QueueSorted
    <3>2. QED
      BY <1>3, <3>1 DEF FifoDispatchEnds, DispatchEnds, Next
  <2>2. CASE queue # <<>>
    <3>1. Head(queue) \in pending /\ Blocked(Head(queue))
      BY <1>3, <2>2, HeadIsPending DEF FifoDispatchEnds
    <3>2. DispatchEnds
      BY <1>3, <3>1 DEF FifoDispatchEnds, DispatchEnds
    <3>3. QED
      BY <3>2 DEF Next
  <2>3. QED
    BY <2>1, <2>2
<1>4. ASSUME FifoShutdown PROVE Next
  BY <1>4 DEF FifoShutdown, Next
<1>5. ASSUME PumpResult \/ OtherStep PROVE Next
  BY <1>5 DEF Next
<1>6. CASE UNCHANGED fifoVars
  BY <1>6 DEF fifoVars
<1>7. QED
  BY <1>1, <1>2, <1>3, <1>4, <1>5, <1>6 DEF FifoNext

-----------------------------------------------------------------------------
(* The submission order is strict: nobody is ahead of those ahead of him. *)
LEMMA AheadIsStrict ==
  ASSUME ArrivalsOnce, NEW x \in Jobs, NEW y \in Jobs, Ahead(x, y)
  PROVE  ~Ahead(y, x)
<1> SUFFICES ASSUME Ahead(y, x) PROVE FALSE
  OBVIOUS
<1>0. Len(arrived) \in Nat
  BY LenProperties DEF ArrivalsOnce
<1>1. PICK m \in 1..Len(arrived), n \in 1..Len(arrived) :
        /\ RequestOf[x] = arrived[m] /\ RequestOf[y] = arrived[n]
        /\ \/ m < n
           \/ /\ m = n
              /\ \E i, k \in 1..Len(JobList[arrived[m]]) :
                   i < k /\ JobList[arrived[m]][i] = x /\ JobList[arrived[m]][k] = y
  BY DEF Ahead
<1>2. PICK p \in 1..Len(arrived), q \in 1..Len(arrived) :
        /\ RequestOf[y] = arrived[p] /\ RequestOf[x] = arrived[q]
        /\ \/ p < q
           \/ /\ p = q
              /\ \E i, k \in 1..Len(JobList[arrived[p]]) :
                   i < k /\ JobList[arrived[p]][i] = y /\ JobList[arrived[p]][k] = x
  BY DEF Ahead
<1>3. m = q /\ n = p
  <2>1. \A a, b \in 1..Len(arrived) : arrived[a] = arrived[b] => a = b
    BY DEF ArrivalsOnce
  <2>2. arrived[m] = arrived[q] /\ arrived[n] = arrived[p]
    BY <1>1, <1>2
  <2>3. QED
    BY <2>1, <2>2
<1>4. m = n /\ p = q
  BY <1>0, <1>1, <1>2, <1>3
<1> DEFINE L == JobList[arrived[m]]
<1>5. PICK i \in 1..Len(L), k \in 1..Len(L) : i < k /\ L[i] = x /\ L[k] = y
  BY <1>1, <1>3, <1>4
<1>6. PICK g \in 1..Len(L), h \in 1..Len(L) : g < h /\ L[g] = y /\ L[h] = x
  BY <1>2, <1>3, <1>4
<1>7. arrived[m] \in Requests
  BY <1>0, ElementOfSeq DEF ArrivalsOnce
<1>8. Len(L) \in Nat /\ \A a, b \in 1..Len(L) : L[a] = L[b] => a = b
  BY <1>7, JobListDistinct, LenProperties
<1>9. QED
  BY <1>5, <1>6, <1>8

(* A submitted request stays one. *)
LEMMA SubmittedStays ==
  ASSUME RequestInv, [Next]_vars, NEW r \in Requests, Submitted(r)
  PROVE  Submitted(r)'
<1>1. ASSUME NEW q \in Requests, Submit(q) PROVE Submitted(r)'
  BY <1>1 DEF Submit, Submitted, RequestInv, TypeOK, StoreTypeOK
<1>2. CASE waiter' = waiter
  BY <1>2 DEF Submitted
<1>3. CASE WaitersProceed
  BY <1>3 DEF WaitersProceed
<1>4. QED
  BY <1>1, <1>2, <1>3, StoreSteps

-----------------------------------------------------------------------------
(* The jobs of a new request go behind all that wait, in their own order. *)
LEMMA SubmitKeepsOrder ==
  ASSUME FifoInv, NEW r \in Requests, FifoSubmit(r), \A q \in Requests : Submitted(q) => Submitted(q)'
  PROVE  (ArrivalsOnce /\ QueueSorted /\ PendingIsSuffix)'
<1> DEFINE N == Len(arrived)
           L == JobList[r]
<1>1. /\ ~Submitted(r) /\ Submitted(r)'
      /\ pending' = pending \cup JobsOf(r)
      /\ queue' = queue \o L /\ arrived' = Append(arrived, r)
  BY DEF FifoSubmit, Submit, Submitted, FifoInv, RequestInv, TypeOK, StoreTypeOK
<1>2. N \in Nat /\ arrived \in Seq(Requests) /\ \A m \in 1..N : arrived[m] \in Requests
  BY LenProperties, ElementOfSeq DEF FifoInv, ArrivalsOnce
<1>3. /\ arrived' \in Seq(Requests) /\ Len(arrived') = N + 1
      /\ \A m \in 1..N : arrived'[m] = arrived[m]
      /\ arrived'[N + 1] = r
  BY <1>1, <1>2, AppendProperties
<1>4. \A m \in 1..N : arrived[m] # r
  BY <1>1 DEF FifoInv, ArrivalsOnce
<1>5. ArrivalsOnce'
  <2>1. \A m \in 1..(N + 1) : Submitted(arrived[m])'
    BY <1>1, <1>2, <1>3 DEF FifoInv, ArrivalsOnce
  <2>2. \A m, n \in 1..(N + 1) : arrived'[m] = arrived'[n] => m = n
    BY <1>2, <1>3, <1>4 DEF FifoInv, ArrivalsOnce
  <2>3. \A j \in pending' : \E m \in 1..(N + 1) : arrived'[m] = RequestOf[j]
    BY <1>1, <1>2, <1>3 DEF FifoInv, ArrivalsOnce, JobsOf
  <2>4. QED
    BY <1>3, <2>1, <2>2, <2>3 DEF ArrivalsOnce
<1>6. ASSUME NEW x, NEW y, Ahead(x, y) PROVE Ahead(x, y)'
  <2>1. PICK m \in 1..N, n \in 1..N :
          /\ RequestOf[x] = arrived[m] /\ RequestOf[y] = arrived[n]
          /\ \/ m < n
             \/ /\ m = n
                /\ \E i, k \in 1..Len(JobList[arrived[m]]) :
                     i < k /\ JobList[arrived[m]][i] = x /\ JobList[arrived[m]][k] = y
    BY <1>6 DEF Ahead
  <2>2. /\ m \in 1..Len(arrived') /\ n \in 1..Len(arrived')
        /\ arrived'[m] = arrived[m] /\ arrived'[n] = arrived[n]
    BY <1>2, <1>3
  <2>3. QED
    BY <2>1, <2>2 DEF Ahead
<1>7. ASSUME NEW x, NEW y, Ahead(x, y)', RequestOf[y] # r PROVE Ahead(x, y)
  BY <1>2, <1>3, <1>7 DEF Ahead
<1>8. ASSUME NEW x \in pending, NEW y \in JobsOf(r) PROVE Ahead(x, y)'
  <2>1. PICK m \in 1..N : arrived[m] = RequestOf[x]
    BY DEF FifoInv, ArrivalsOnce
  <2>2. RequestOf[y] = arrived'[N + 1] /\ m < N + 1 /\ RequestOf[x] = arrived'[m]
    BY <1>2, <1>3, <2>1 DEF JobsOf
  <2>3. QED
    BY <1>2, <1>3, <2>1, <2>2 DEF Ahead
<1>9. ASSUME NEW i \in 1..Len(L), NEW k \in 1..Len(L), i < k PROVE Ahead(L[i], L[k])'
  <2>1. RequestOf[L[i]] = r /\ RequestOf[L[k]] = r
    BY JobListDistinct DEF JobsOf
  <2>2. N + 1 \in 1..Len(arrived')
    BY <1>2, <1>3
  <2>3. QED
    BY <1>3, <1>9, <2>1, <2>2 DEF Ahead
<1>10. QueueSorted'
  <2>1. /\ queue \in Seq(Jobs) /\ L \in Seq(Jobs)
        /\ Len(queue) \in Nat /\ Len(L) \in Nat
    BY JobListDistinct, LenProperties DEF FifoInv, QueueSorted
  <2>2. /\ queue' \in Seq(Jobs) /\ Len(queue') = Len(queue) + Len(L)
        /\ \A i \in 1..(Len(queue) + Len(L)) :
             queue'[i] = IF i <= Len(queue) THEN queue[i] ELSE L[i - Len(queue)]
    BY <1>1, <2>1, ConcatProperties
  <2>3. {queue'[i] : i \in 1..Len(queue')} = pending'
    <3>1. ASSUME NEW i \in 1..Len(queue') PROVE queue'[i] \in pending'
      <4>1. CASE i <= Len(queue)
        BY <1>1, <2>1, <2>2, <4>1 DEF FifoInv, QueueSorted
      <4>2. CASE i > Len(queue)
        <5>1. i - Len(queue) \in 1..Len(L) /\ queue'[i] = L[i - Len(queue)]
          BY <2>1, <2>2, <4>2
        <5>2. QED
          BY <1>1, <5>1, JobListDistinct
      <4>3. QED
        BY <2>1, <2>2, <4>1, <4>2
    <3>2. ASSUME NEW j \in pending' PROVE \E i \in 1..Len(queue') : queue'[i] = j
      <4>1. CASE j \in pending
        <5>1. PICK i \in 1..Len(queue) : queue[i] = j
          BY <4>1 DEF FifoInv, QueueSorted
        <5>2. i \in 1..Len(queue') /\ queue'[i] = j
          BY <2>1, <2>2, <5>1
        <5>3. QED
          BY <5>2
      <4>2. CASE j \in JobsOf(r)
        <5>1. PICK i \in 1..Len(L) : L[i] = j
          BY <4>2, JobListDistinct
        <5>2. Len(queue) + i \in 1..Len(queue') /\ queue'[Len(queue) + i] = j
          BY <2>1, <2>2, <5>1
        <5>3. QED
          BY <5>2
      <4>3. QED
        BY <1>1, <4>1, <4>2
    <3>3. QED
      BY <3>1, <3>2
  <2>4. ASSUME NEW a \in 1..Len(queue'), NEW b \in 1..Len(queue'), a < b
        PROVE  Ahead(queue[a], queue[b])'
    <3>1. CASE b <= Len(queue)
      <4>1. a \in 1..Len(queue) /\ b \in 1..Len(queue)
        BY <2>1, <2>4, <3>1
      <4>2. Ahead(queue[a], queue[b])
        BY <2>4, <4>1 DEF FifoInv, QueueSorted
      <4>3. queue'[a] = queue[a] /\ queue'[b] = queue[b]
        BY <2>1, <2>2, <4>1
      <4>4. QED
        BY <1>6, <4>2, <4>3
    <3>2. CASE a <= Len(queue) /\ b > Len(queue)
      <4>1. queue'[a] \in pending
        BY <2>1, <2>2, <3>2 DEF FifoInv, QueueSorted
      <4>2. b - Len(queue) \in 1..Len(L) /\ queue'[b] = L[b - Len(queue)]
        BY <2>1, <2>2, <3>2
      <4>3. queue'[b] \in JobsOf(r)
        BY <4>2, JobListDistinct
      <4>4. QED
        BY <1>8, <4>1, <4>3
    <3>3. CASE a > Len(queue)
      <4>1. /\ a - Len(queue) \in 1..Len(L) /\ queue'[a] = L[a - Len(queue)]
            /\ b - Len(queue) \in 1..Len(L) /\ queue'[b] = L[b - Len(queue)]
            /\ a - Len(queue) < b - Len(queue)
        BY <2>1, <2>2, <2>4, <3>3
      <4>2. QED
        BY <1>9, <4>1
    <3>4. QED
      BY <2>1, <2>2, <3>1, <3>2, <3>3
  <2>5. QED
    BY <2>2, <2>3, <2>4 DEF QueueSorted
<1>11. PendingIsSuffix'
  <2>1. ASSUME NEW x \in Jobs, NEW y \in Jobs, x \in pending', Ahead(x, y)' PROVE y \in pending'
    <3>1. CASE RequestOf[y] = r
      BY <1>1, <3>1 DEF JobsOf
    <3>2. CASE RequestOf[y] # r
      <4>1. Ahead(x, y)
        BY <1>7, <2>1, <3>2
      <4>2. RequestOf[x] # r
        BY <1>4, <4>1 DEF Ahead
      <4>3. QED
        BY <1>1, <2>1, <4>1, <4>2 DEF FifoInv, PendingIsSuffix, JobsOf
    <3>3. QED
      BY <3>1, <3>2
  <2>2. QED
    BY <2>1 DEF PendingIsSuffix
<1>12. QED
  BY <1>5, <1>10, <1>11

(* The head leaves; it was ahead of all others. *)
LEMMA DispatchKeepsOrder ==
  ASSUME FifoInv, FifoDispatchStep
  PROVE  (ArrivalsOnce /\ QueueSorted /\ PendingIsSuffix)'
<1> DEFINE h == Head(queue)
<1>1. /\ queue # <<>> /\ queue' = Tail(queue) /\ arrived' = arrived
      /\ pending' = pending \ {h} /\ waiter' = waiter
  BY DEF FifoDispatchStep, DispatchStep, Dispatch, storeVars
<1>2. 1 \in 1..Len(queue) /\ h = queue[1] /\ h \in Jobs
  BY <1>1, HeadIsPending DEF FifoInv, RequestInv, TypeOK
<1>3. \A x, y : Ahead(x, y)' <=> Ahead(x, y)
  BY <1>1 DEF Ahead
<1>4. /\ queue \in Seq(Jobs) /\ Len(queue) \in Nat /\ Len(queue) >= 1
      /\ queue' \in Seq(Jobs) /\ Len(queue') = Len(queue) - 1
      /\ \A i \in 1..Len(queue') : queue'[i] = queue[i + 1]
  BY <1>1, <1>2, HeadTailProperties, LenProperties DEF FifoInv, QueueSorted
<1>5. \A i \in 1..Len(queue) : queue[i] \in Jobs
  BY <1>4, ElementOfSeq
<1>6. \A i \in 1..Len(queue) : i # 1 => Ahead(h, queue[i])
  BY <1>2, <1>4 DEF FifoInv, QueueSorted
<1>7. \A i \in 1..Len(queue) : i # 1 => queue[i] # h
  BY <1>2, <1>5, <1>6, AheadIsStrict DEF FifoInv
<1>8. ArrivalsOnce'
  BY <1>1 DEF FifoInv, ArrivalsOnce, Submitted
<1>9. QueueSorted'
  <2>1. {queue'[i] : i \in 1..Len(queue')} = pending'
    <3>1. ASSUME NEW i \in 1..Len(queue') PROVE queue'[i] \in pending'
      <4>1. queue'[i] = queue[i + 1] /\ i + 1 \in 1..Len(queue) /\ i + 1 # 1
        BY <1>4
      <4>2. QED
        BY <1>1, <1>7, <4>1 DEF FifoInv, QueueSorted
    <3>2. ASSUME NEW j \in pending' PROVE \E i \in 1..Len(queue') : queue'[i] = j
      <4>1. PICK i \in 1..Len(queue) : queue[i] = j
        BY <1>1 DEF FifoInv, QueueSorted
      <4>2. i # 1
        BY <1>1, <1>2, <4>1
      <4>3. i - 1 \in 1..Len(queue') /\ queue'[i - 1] = j
        BY <1>4, <4>1, <4>2
      <4>4. QED
        BY <4>3
    <3>3. QED
      BY <3>1, <3>2
  <2>2. ASSUME NEW a \in 1..Len(queue'), NEW b \in 1..Len(queue'), a < b
        PROVE  Ahead(queue[a], queue[b])'
    <3>1. /\ a + 1 \in 1..Len(queue) /\ b + 1 \in 1..Len(queue) /\ a + 1 < b + 1
          /\ queue'[a] = queue[a + 1] /\ queue'[b] = queue[b + 1]
      BY <1>4, <2>2
    <3>2. QED
      BY <1>3, <3>1 DEF FifoInv, QueueSorted
  <2>3. QED
    BY <1>4, <2>1, <2>2 DEF QueueSorted
<1>10. PendingIsSuffix'
  <2>1. ASSUME NEW x \in Jobs, NEW y \in Jobs, x \in pending', Ahead(x, y)' PROVE y \in pending'
    <3>1. x \in pending /\ x # h /\ Ahead(x, y)
      BY <1>1, <1>3, <2>1
    <3>2. y \in pending
      BY <3>1 DEF FifoInv, PendingIsSuffix
    <3>3. PICK i \in 1..Len(queue) : queue[i] = x
      BY <3>1 DEF FifoInv, QueueSorted
    <3>4. Ahead(h, x)
      BY <1>2, <1>6, <3>1, <3>3
    <3>5. y # h
      BY <1>2, <3>1, <3>4, AheadIsStrict DEF FifoInv
    <3>6. QED
      BY <1>1, <3>2, <3>5
  <2>2. QED
    BY <2>1 DEF PendingIsSuffix
<1>11. QED
  BY <1>8, <1>9, <1>10

(* All the other steps leave the deque alone, or empty it with the set. *)
LEMMA OthersKeepOrder ==
  ASSUME FifoInv, \A q \in Requests : Submitted(q) => Submitted(q)',
         arrived' = arrived,
         \/ queue' = queue /\ pending' = pending
         \/ queue' = <<>> /\ pending' = {}
  PROVE  (ArrivalsOnce /\ QueueSorted /\ PendingIsSuffix)'
<1>1. \A x, y : Ahead(x, y)' <=> Ahead(x, y)
  BY DEF Ahead
<1>2. \A m \in 1..Len(arrived) : arrived[m] \in Requests
  BY ElementOfSeq DEF FifoInv, ArrivalsOnce
<1>3. ArrivalsOnce'
  <2>1. pending' \subseteq pending
    OBVIOUS
  <2>2. \A m \in 1..Len(arrived) : Submitted(arrived[m])'
    BY <1>2 DEF FifoInv, ArrivalsOnce
  <2>3. QED
    BY <2>1, <2>2 DEF FifoInv, ArrivalsOnce
<1>4. CASE queue' = queue /\ pending' = pending
  <2>1. QueueSorted'
    <3>1. ASSUME NEW a \in 1..Len(queue), NEW b \in 1..Len(queue), a < b
          PROVE  Ahead(queue[a], queue[b])'
      BY <1>1, <1>4, <3>1 DEF FifoInv, QueueSorted
    <3>2. QED
      BY <1>4, <3>1 DEF FifoInv, QueueSorted
  <2>2. PendingIsSuffix'
    BY <1>1, <1>4 DEF FifoInv, PendingIsSuffix
  <2>3. QED
    BY <1>3, <2>1, <2>2
<1>5. CASE queue' = <<>> /\ pending' = {}
  <2>1. queue' \in Seq(Jobs) /\ Len(queue') = 0
    BY <1>5, EmptySeq
  <2>2. QED
    BY <1>3, <1>5, <2>1 DEF QueueSorted, PendingIsSuffix
<1>6. QED
  BY <1>4, <1>5

LEMMA NextFifoInv == FifoInv /\ [FifoNext]_fifoVars => FifoInv'
<1> SUFFICES ASSUME FifoInv, [FifoNext]_fifoVars PROVE FifoInv'
  OBVIOUS
<1>1. [Next]_vars
  BY FifoStepIsStep DEF FifoInv, RequestInv
<1>2. RequestInv'
  BY <1>1, NextRequestInv DEF FifoInv
<1>3. \A r \in Requests : Submitted(r) => Submitted(r)'
  BY <1>1, SubmittedStays DEF FifoInv
<1> DEFINE Kept == (ArrivalsOnce /\ QueueSorted /\ PendingIsSuffix)'
<1>4. ASSUME NEW r \in Requests, FifoSubmit(r) PROVE Kept
  BY <1>3, <1>4, SubmitKeepsOrder
<1>5. ASSUME FifoDispatchStep PROVE Kept
  BY <1>5, DispatchKeepsOrder
<1>6. ASSUME FifoDispatchEnds PROVE Kept
  <2>1. arrived' = arrived /\ queue' = queue /\ pending' = pending
    BY <1>6 DEF FifoDispatchEnds, DispatchReturns, PumpReturns, SubmitReturns, schedVars
  <2>2. QED
    BY <1>3, <2>1, OthersKeepOrder
<1>7. ASSUME FifoShutdown PROVE Kept
  <2>1. queue' = <<>> /\ pending' = {} /\ arrived' = arrived
    BY <1>7 DEF FifoShutdown, ShutdownScheduler
  <2>2. QED
    BY <1>3, <2>1, OthersKeepOrder
<1>8. ASSUME (PumpResult \/ OtherStep) /\ UNCHANGED <<queue, arrived>> PROVE Kept
  <2>1. pending' = pending
    <3>1. CASE PumpResult
      BY <3>1 DEF PumpResult, ProcessResult, ResultFails, ReleaseEntry, schedVars
    <3>2. CASE OtherStep
      BY <3>2
      DEF OtherStep, Refuse, Wake, Disconnect, Abandon, ThreadPolls, PumpTimeout, CrashWorker,
          TakeJob, FinishJob, RequestShutdown, GraceExpires, ServerStops, StopWorkers, schedVars
    <3>3. QED
      BY <1>8, <3>1, <3>2
  <2>2. QED
    <3>1. arrived' = arrived /\ queue' = queue
      BY <1>8
    <3>2. QED
      BY <1>3, <2>1, <3>1, OthersKeepOrder
<1>9. ASSUME UNCHANGED fifoVars PROVE Kept
  <2>1. arrived' = arrived /\ queue' = queue /\ pending' = pending
    BY <1>9 DEF fifoVars, vars, schedVars
  <2>2. QED
    BY <1>3, <2>1, OthersKeepOrder
<1>10. Kept
  BY <1>4, <1>5, <1>6, <1>7, <1>8, <1>9 DEF FifoNext
<1>11. QED
  BY <1>2, <1>10 DEF FifoInv

LEMMA InitFifoInv == FifoInit => FifoInv
<1> SUFFICES ASSUME FifoInit PROVE FifoInv
  OBVIOUS
<1>1. Init /\ queue = <<>> /\ arrived = <<>> /\ pending = {}
  BY DEF FifoInit, Init
<1>2. RequestInv
  BY <1>1, InitRequestInv
<1>3. queue \in Seq(Jobs) /\ Len(queue) = 0 /\ arrived \in Seq(Requests) /\ Len(arrived) = 0
  BY <1>1, EmptySeq
<1>4. QED
  BY <1>1, <1>2, <1>3 DEF FifoInv, ArrivalsOnce, QueueSorted, PendingIsSuffix

-----------------------------------------------------------------------------
(* A pending job has not been dispatched. *)
LEMMA PendingNotDispatched ==
  ASSUME RequestInv, NEW j \in pending
  PROVE  ~Dispatched(j)
BY DEF RequestInv, TypeOK, NotYetInFlight, ResultsAreOfDoneJobs, Dispatched

LEMMA FifoInvOrders == FifoInv => SubmissionOrder
<1> SUFFICES ASSUME FifoInv PROVE SubmissionOrder
  OBVIOUS
<1>1. TypeOK /\ queue \in Seq(Jobs) /\ arrived \in Seq(Requests)
      /\ {queue[i] : i \in 1..Len(queue)} = pending
  BY DEF FifoInv, RequestInv, ArrivalsOnce, QueueSorted
<1>2. \A i \in 1..Len(queue) : queue[i] \in Jobs
  BY <1>1, ElementOfSeq
<1>3. ASSUME NEW i \in 1..Len(queue), NEW k \in 1..Len(queue), queue[i] = queue[k]
      PROVE  i = k
  <2>1. \A a, b \in 1..Len(queue) : a < b => queue[a] # queue[b]
    BY <1>2, AheadIsStrict DEF FifoInv, QueueSorted
  <2>2. Len(queue) \in Nat
    BY <1>1, LenProperties
  <2>3. QED
    BY <1>3, <2>1, <2>2
<1>4. ASSUME NEW r \in Requests, NEW i \in 1..Len(JobList[r]), NEW k \in 1..Len(JobList[r]),
             i < k, JobList[r][i] \in pending
      PROVE  ~Dispatched(JobList[r][k])
  <2>1. /\ JobList[r][i] \in Jobs /\ RequestOf[JobList[r][i]] = r
        /\ JobList[r][k] \in Jobs /\ RequestOf[JobList[r][k]] = r
    BY JobListDistinct DEF JobsOf
  <2>2. PICK m \in 1..Len(arrived) : arrived[m] = r
    BY <1>4, <2>1 DEF FifoInv, ArrivalsOnce
  <2>3. Ahead(JobList[r][i], JobList[r][k])
    BY <1>4, <2>1, <2>2 DEF Ahead
  <2>4. JobList[r][k] \in pending
    BY <1>4, <2>1, <2>3 DEF FifoInv, PendingIsSuffix
  <2>5. QED
    BY <2>4, PendingNotDispatched DEF FifoInv
<1>5. ASSUME NEW m \in 1..Len(arrived), NEW n \in 1..Len(arrived), m < n,
             NEW i \in JobsOf(arrived[m]), NEW k \in JobsOf(arrived[n]), i \in pending
      PROVE  ~Dispatched(k)
  <2>1. Ahead(i, k)
    BY <1>5 DEF Ahead, JobsOf
  <2>2. k \in pending
    BY <1>5, <2>1 DEF FifoInv, PendingIsSuffix, JobsOf
  <2>3. QED
    BY <2>2, PendingNotDispatched DEF FifoInv
<1>6. QED
  BY <1>1, <1>3, <1>4, <1>5 DEF SubmissionOrder

LEMMA FifoInvHolds == FifoSpec => []FifoInv
BY InitFifoInv, NextFifoInv, PTL DEF FifoSpec

(* Jobs leave the deque strictly in the order they were submitted, for every *)
(* number of requests and jobs and whatever pools they need: FifoDispatch    *)
(* never lets a job overtake one that waits (scheduler.py FifoDispatch).     *)
THEOREM JobsKeepSubmissionOrder == FifoSpec => []SubmissionOrder
BY FifoInvHolds, FifoInvOrders, PTL

(* The scheduler with this strategy is the scheduler of DaemonScheduler: its *)
(* round ends only when nothing is pending or a pending job is blocked, and  *)
(* the job popped is the one that was reserved.                              *)
THEOREM FifoIsAStrategy == FifoSpec => ImplementsScheduler
<1>1. FifoInit => Init
  BY DEF FifoInit
<1>2. FifoInv /\ [FifoNext]_fifoVars => [Next]_vars
  BY FifoStepIsStep DEF FifoInv, RequestInv
<1>3. QED
  BY <1>1, <1>2, FifoInvHolds, PTL DEF FifoSpec, Spec, ImplementsScheduler
=============================================================================
