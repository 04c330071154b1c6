------------------------ MODULE SceneAffineDispatch ------------------------
(***************************************************************************)
(* The scheduler with the SceneAffineDispatch strategy                     *)
(* (daemon/scheduler.py): pending jobs are grouped by scene, and a job is  *)
(* picked in three tiers from a mirror of what each renderer has cached    *)
(* and a count of what is in flight on it.  The mirror is overwritten by a *)
(* background task with whatever the render server reports.                *)
(*                                                                         *)
(* Iterating a Python set has no promised order, so tier 1 may try free    *)
(* addresses and their scenes in any order; a dict iterates in the order   *)
(* its keys were inserted, which sceneOrder keeps.                         *)
(***************************************************************************)
EXTENDS DaemonScheduler_proofs, Sequences, SequenceTheorems, NaturalsInduction,
        WellFoundedInduction

CONSTANTS
  Renderer,   \* the renderer service
  Scenes,
  SceneOf,    \* scene of a job
  AddressOf,  \* address of a renderer slot
  JobList     \* per request, its jobs in the order simulate builds them

rendererPool == <<Renderer, Shared>>
Addresses    == {AddressOf[x] : x \in SlotsOf[rendererPool] \cup {SkipSlot}}

ASSUME SceneAffineAssumption ==
  /\ Renderer \in Services \ {Driver}
  /\ SceneOf \in [Jobs -> Scenes]
  /\ SlotsOf[rendererPool] \cup {SkipSlot} \subseteq DOMAIN AddressOf
  /\ JobList \in [Requests -> Seq(Jobs)]
  /\ \A r \in Requests :
       /\ {JobList[r][i] : i \in 1..Len(JobList[r])} = JobsOf(r)
       /\ Len(JobList[r]) = Cardinality(JobsOf(r))

VARIABLES
  pendingByScene,  \* _pending_by_scene: a deque per scene
  sceneOrder,      \* the keys of that dict, in insertion order
  inflightScenes,  \* _inflight_addr_scenes: jobs in flight per address and scene
  cached           \* _address_scenes: scenes the last sync saw on an address

affineVars == <<vars, pendingByScene, sceneOrder, inflightScenes, cached>>

AffineTypeOK ==
  /\ TypeOK
  /\ pendingByScene \in [Scenes -> Seq(Jobs)]
  /\ sceneOrder \in Seq(Scenes)
  /\ inflightScenes \in [Addresses -> [Scenes -> Int]]
  /\ cached \in [Addresses -> SUBSET Scenes]

AffineInit ==
  /\ Init
  /\ pendingByScene = [s \in Scenes |-> <<>>]
  /\ sceneOrder = <<>>
  /\ inflightScenes = [a \in Addresses |-> [s \in Scenes |-> 0]]
  /\ cached = [a \in Addresses |-> {}]

PendingScenes == {sceneOrder[i] : i \in 1..Len(sceneOrder)}

(* The elements of a list at the positions in P, in their order there. *)
Selected(list, P) ==
  [n \in 1..Cardinality(P) |-> list[CHOOSE i \in P : Cardinality({k \in P : k <= i}) = n]]

(* The scenes of a list of jobs that are not keys yet, by first occurrence. *)
NewKeys(jobs) ==
  LET scene(i) == SceneOf[jobs[i]]
      fresh(i) == scene(i) \notin PendingScenes /\ \A k \in 1..(i - 1) : scene(k) # scene(i)
  IN  Selected([i \in 1..Len(jobs) |-> scene(i)], {i \in 1..Len(jobs) : fresh(i)})

(* add_pending for each job of the request, in order. *)
AffineSubmit(r) ==
  /\ Submit(r)
  /\ pendingByScene' = [s \in Scenes |->
       pendingByScene[s] \o
         Selected(JobList[r], {i \in 1..Len(JobList[r]) : SceneOf[JobList[r][i]] = s})]
  /\ sceneOrder' = sceneOrder \o NewKeys(JobList[r])
  /\ UNCHANGED <<inflightScenes, cached>>

-----------------------------------------------------------------------------
(* free_addresses: none for a skip pool, whose deque is empty. *)
FreeAddresses == {AddressOf[x] : x \in free[rendererPool]}

InflightOn(a)     == {s \in Scenes : inflightScenes[a][s] # 0}
(* Mutant: what a renderer is rendering does not count as warm. *)
WarmInCacheOnly(a) == cached[a]

WarmOn(a)         == cached[a] \cup InflightOn(a)
IsSceneCached(s)  == \E a \in Addresses : s \in cached[a]
IsSceneInflight(s) == \E a \in Addresses : s \in InflightOn(a)

(* Tier 1: a pending scene cached or in flight on a free renderer. *)
Tier1 == {res \in PendingScenes \X FreeAddresses : res[1] \in WarmOn(res[2])}

(* Tier 2: the first pending scene no renderer has cached or in flight. *)
Tier2 ==
  {s \in PendingScenes :
     \E i \in 1..Len(sceneOrder) :
       /\ s = sceneOrder[i] /\ ~IsSceneCached(s) /\ ~IsSceneInflight(s)
       /\ \A k \in 1..(i - 1) :
            IsSceneCached(sceneOrder[k]) \/ IsSceneInflight(sceneOrder[k])}

(* The scenes and renderer addresses try_reserve may select: a tier is used  *)
(* only when those before it are empty; tier 3 is the first pending scene.   *)
Reservations ==
  LET anywhere == IF rendererPool \in SkipPools THEN {AddressOf[SkipSlot]} ELSE FreeAddresses
  IN  CASE Tier1 # {} -> Tier1
        [] Tier1 = {} /\ Tier2 # {} -> Tier2 \X anywhere
        [] Tier1 = {} /\ Tier2 = {} /\ sceneOrder # <<>> -> {Head(sceneOrder)} \X anywhere
        [] OTHER -> {}

(* Mutant: commit pops the other end of the deque: a scene's newest job first. *)
DispatchNewestOfScene ==
  \E res \in Reservations :
    LET s == res[1]  a == res[2]  n == Len(pendingByScene[s])  j == pendingByScene[s][n] IN
    /\ ~EventLoopFree
    /\ \E acq \in Acquisitions(j) : AddressOf[acq[Renderer]] = a /\ Dispatch(j, acq)
    /\ pendingByScene' = [pendingByScene EXCEPT ![s] = SubSeq(@, 1, n - 1)]
    /\ sceneOrder' = IF n > 1 THEN sceneOrder
                     ELSE Selected(sceneOrder, {i \in 1..Len(sceneOrder) : sceneOrder[i] # s})
    /\ inflightScenes' = [inflightScenes EXCEPT ![a][s] = @ + 1]
    /\ UNCHANGED cached

(* commit: pop the scene's deque, drop the key with its last job, count it. *)
AffineDispatchStep ==
  \E res \in Reservations :
    LET s == res[1]  a == res[2]  j == Head(pendingByScene[s]) IN
    /\ ~EventLoopFree
    /\ \E acq \in Acquisitions(j) : AddressOf[acq[Renderer]] = a /\ Dispatch(j, acq)
    /\ pendingByScene' = [pendingByScene EXCEPT ![s] = Tail(@)]
    /\ sceneOrder' = IF Len(pendingByScene[s]) > 1 THEN sceneOrder
                     ELSE Selected(sceneOrder, {i \in 1..Len(sceneOrder) : sceneOrder[i] # s})
    /\ inflightScenes' = [inflightScenes EXCEPT ![a][s] = @ + 1]
    /\ UNCHANGED cached

(* Mutant: dispatch_once returns before it has filled every slot. *)
AffineReturnEarly ==
  /\ DispatchReturns
  /\ UNCHANGED <<pendingByScene, sceneOrder, inflightScenes, cached>>

(* No reservation, or a pool other than the renderer's blocks the one made. *)
AffineDispatchEnds ==
  /\ Reservations = {} \/ \E res \in Reservations : Blocked(Head(pendingByScene[res[1]]))
  /\ DispatchReturns
  /\ UNCHANGED <<pendingByScene, sceneOrder, inflightScenes, cached>>

(* Mutant: the first result of a scene clears its count on the address. *)
ForgetSceneOnResult ==
  /\ PumpResult
  /\ inflightScenes' =
       IF inFlight' # inFlight   \* the entry was popped
         THEN [inflightScenes EXCEPT
                 ![AddressOf[inFlight[polled].acquired[Renderer]]][SceneOf[polled]] = 0]
         ELSE inflightScenes
  /\ UNCHANGED <<pendingByScene, sceneOrder, cached>>

(* on_result: one job fewer of that scene on that address. *)
AffinePumpResult ==
  /\ PumpResult
  /\ inflightScenes' =
       IF inFlight' # inFlight   \* the entry was popped
         THEN [inflightScenes EXCEPT
                 ![AddressOf[inFlight[polled].acquired[Renderer]]][SceneOf[polled]] =
                   IF @ > 0 THEN @ - 1 ELSE 0]
         ELSE inflightScenes
  /\ UNCHANGED <<pendingByScene, sceneOrder, cached>>

(* drain_pending_request_ids. *)
AffineShutdown ==
  /\ ShutdownScheduler
  /\ pendingByScene' = [s \in Scenes |-> <<>>]
  /\ sceneOrder' = <<>>
  /\ UNCHANGED <<inflightScenes, cached>>

(* warm_start or the refresh loop got an answer from the server at a.  The   *)
(* strategy's own shutdown, after the pump's, cancels the refresh task.      *)
SyncSceneCache(a) ==
  /\ EventLoopFree
  /\ rendererPool \notin SkipPools
  /\ phase \notin {"stopping workers", "stopped"}
  /\ \E loaded \in SUBSET Scenes : cached' = [cached EXCEPT ![a] = loaded]
  /\ UNCHANGED <<vars, pendingByScene, sceneOrder, inflightScenes>>

AffineNext ==
  \/ \E r \in Requests : AffineSubmit(r)
  \/ AffineDispatchStep
  \/ AffineDispatchEnds
  \/ AffinePumpResult
  \/ AffineShutdown
  \/ \E a \in Addresses \ {AddressOf[SkipSlot]} : SyncSceneCache(a)
  \/ OtherStep /\ UNCHANGED <<pendingByScene, sceneOrder, inflightScenes, cached>>

AffineSpec == AffineInit /\ [][AffineNext]_affineVars

-----------------------------------------------------------------------------
(* A steady stream of requests.  One that has ended and has left no trace is  *)
(* replaced by another with jobs for the same scenes: a client's next call,   *)
(* which simulate gives an id of its own.  Requests bounds how many there are *)
(* at a time.                                                                 *)
NextRequest(r) ==
  /\ EventLoopFree
  /\ phase = "serving"
  /\ waiter[r] \in Ended /\ r \notin registered \cup requestPools
  /\ \A j \in JobsOf(r) : j \notin pending /\ inFlight[j] = None /\ Places(j) = {}
  /\ waiter' = [waiter EXCEPT ![r] = "new"]
  /\ pendingJobs' = [pendingJobs EXCEPT ![r] = 0]
  /\ results' = [results EXCEPT ![r] = {}]
  /\ completion' = [completion EXCEPT ![r] = "pending"]
  /\ abandoned' = [abandoned EXCEPT ![r] = FALSE]
  /\ UNCHANGED <<registered, schedVars, pump, polled, workerVars, phase,
                 pendingByScene, sceneOrder, inflightScenes, cached>>

(* The stream while the daemon serves: no shutdown, and clients stay.         *)
SteadyNext ==
  \/ \E r \in Requests : AffineSubmit(r) \/ NextRequest(r)
  \/ AffineDispatchStep \/ AffineDispatchEnds \/ AffinePumpResult
  \/ \E a \in Addresses \ {AddressOf[SkipSlot]} : SyncSceneCache(a)
  \/ /\ \/ \E r \in Requests : Wake(r)
        \/ \E j \in Jobs : ThreadPolls(j)
        \/ PumpTimeout
        \/ \E w \in Workers : CrashWorker(w) \/ \E j \in Jobs : TakeJob(w, j) \/ FinishJob(w, j)
     /\ UNCHANGED <<pendingByScene, sceneOrder, inflightScenes, cached>>

(* The stream keeps taking the event loop, so fairness has to be strong for   *)
(* what needs it; asyncio runs what is ready in the order it became ready.    *)
SteadySpec ==
  /\ AffineInit /\ [][SteadyNext]_affineVars
  /\ \A r \in Requests : SF_vars(Wake(r))
  /\ SF_affineVars(AffinePumpResult) /\ SF_vars(PumpTimeout)
  /\ WF_affineVars(AffineDispatchStep \/ AffineDispatchEnds)
  /\ WF_vars(\E j \in Jobs : ThreadPolls(j))
  /\ WorkerFairness

-----------------------------------------------------------------------------
RenderingOn(a, s) ==
  {j \in Jobs : /\ inFlight[j] # None /\ SceneOf[j] = s
               /\ AddressOf[inFlight[j].acquired[Renderer]] = a}

(* The strategy's own books agree with the scheduler's.  Its count of what is *)
(* in flight, kept by commit and on_result, is the table of in-flight jobs;   *)
(* its deques hold exactly the pending jobs, each once and under its scene,   *)
(* with a key for just the scenes with a job: no job is ever dropped with its *)
(* scene's key or left behind under a key that is gone.                       *)
BooksAgree ==
  /\ AffineTypeOK
  /\ \A a \in Addresses, s \in Scenes : inflightScenes[a][s] = Cardinality(RenderingOn(a, s))
  /\ UNION {{pendingByScene[s][i] : i \in 1..Len(pendingByScene[s])} : s \in Scenes} = pending
  /\ \A s \in Scenes : \A i, k \in 1..Len(pendingByScene[s]) :
       /\ SceneOf[pendingByScene[s][i]] = s
       /\ pendingByScene[s][i] = pendingByScene[s][k] => i = k
  /\ PendingScenes = {s \in Scenes : pendingByScene[s] # <<>>}
  /\ Len(sceneOrder) = Cardinality(PendingScenes)

(* A job starts on a renderer that neither caches its scene nor is rendering  *)
(* it only when no renderer with a free slot was warm for any pending scene.  *)
WarmBeforeCold ==
  [][\A j \in Jobs :
       inFlight[j] = None /\ inFlight'[j] # None =>
         LET a == AddressOf[inFlight'[j].acquired[Renderer]]
             warm(s, b) == s \in cached[b] \/ RenderingOn(b, s) # {}
         IN  \/ warm(SceneOf[j], a)
             \/ \A i \in pending, b \in FreeAddresses : ~warm(SceneOf[i], b)]_affineVars

(* This strategy is one of the strategies the scheduler is specified over.    *)
ImplementsScheduler == Spec

(* While a job of r is queued, one of a scene r has none queued for starts.   *)
OvertakenByAnotherScene(r) ==
  LET queued == pending \cap JobsOf(r) IN
  /\ queued # {}
  /\ \E j \in Jobs : /\ inFlight[j] = None /\ inFlight'[j] # None
                    /\ SceneOf[j] \notin {SceneOf[k] : k \in queued}

(* No tier of try_reserve is fair: a scene may wait for ever while requests   *)
(* for others keep coming.  That is the only way to wait for ever: however    *)
(* requests stream in, whatever the renderers report and when workers die, an *)
(* accepted request ends unless jobs of other scenes overtake it again and    *)
(* again; those of its own scenes cannot.                                     *)
OnlyOtherScenesDelay ==
  \A r \in Requests :
    \/ (waiter[r] = "waiting" /\ pump # "failed") ~> (waiter[r] \in Ended)
    \/ []<><<OvertakenByAnotherScene(r)>>_affineVars

----------------------------------------------------------------------------
(***************************************************************************)
(* Proofs about the scene-affine strategy: its own books (deques per       *)
(* scene, their keys, a count of what each renderer is rendering) agree    *)
(* with the scheduler's after every step, so that it is one of the         *)
(* schedulers DaemonScheduler specifies and prefers warm renderers.        *)
(***************************************************************************)
(* A function on 1..n is a list of length n. *)
LEMMA FunctionIsList ==
  ASSUME NEW S, NEW n \in Nat, NEW f \in [1..n -> S]
  PROVE  f \in Seq(S) /\ Len(f) = n
<1>1. f \in Seq(S)
  BY SeqDef
<1>2. DOMAIN f = 1..n /\ DOMAIN f = 1..Len(f) /\ Len(f) \in Nat
  BY <1>1, LenProperties
<1>3. QED
  BY <1>1, <1>2

(* Selected takes each position of P once. *)
LEMMA SelectedList ==
  ASSUME NEW S, NEW list \in Seq(S), NEW P \in SUBSET (1..Len(list))
  PROVE  /\ Selected(list, P) \in Seq(S)
         /\ Len(Selected(list, P)) = Cardinality(P)
         /\ {Selected(list, P)[k] : k \in 1..Cardinality(P)} = {list[i] : i \in P}
         /\ (\A i, k \in P : list[i] = list[k] => i = k) =>
              \A m, k \in 1..Cardinality(P) :
                Selected(list, P)[m] = Selected(list, P)[k] => m = k
<1> DEFINE n == Len(list)
           c == Cardinality(P)
           upto(i) == {e \in P : e <= i}
           rank == [i \in P |-> Cardinality(upto(i))]
           at(m) == CHOOSE i \in P : Cardinality(upto(i)) = m
<1>0. n \in Nat /\ \A i \in 1..n : list[i] \in S
  BY LenProperties, ElementOfSeq
<1>1. IsFiniteSet(P) /\ c \in Nat
  <2>1. IsFiniteSet(1..n)
    BY <1>0, FS_Interval
  <2>2. IsFiniteSet(P)
    BY <2>1, FS_Subset
  <2>3. QED
    BY <2>2, FS_CardinalityType
<1>2. ASSUME NEW i \in P
      PROVE  IsFiniteSet(upto(i)) /\ Cardinality(upto(i)) \in 1..c
  <2>1. IsFiniteSet(upto(i)) /\ Cardinality(upto(i)) <= c
    BY <1>1, FS_Subset
  <2>2. Cardinality(upto(i)) \in Nat /\ (Cardinality(upto(i)) = 0 => upto(i) = {})
    BY <2>1, FS_CardinalityType, FS_EmptySet
  <2>3. i \in upto(i)
    OBVIOUS
  <2>4. QED
    BY <1>1, <2>1, <2>2, <2>3
<1>3. ASSUME NEW i \in P, NEW k \in P, i < k
      PROVE  Cardinality(upto(i)) # Cardinality(upto(k))
  <2>0. \A m \in P : m \in Int
    BY <1>0
  <2>1. upto(i) \in SUBSET upto(k) /\ k \in upto(k) /\ k \notin upto(i)
    <3>1. i \in Int /\ k \in Int
      BY <2>0
    <3>2. \A e \in P : e <= i => e <= k
      BY <1>3, <2>0, <3>1
    <3>3. k <= k /\ ~(k <= i)
      BY <1>3, <3>1
    <3>4. QED
      BY <3>2, <3>3
  <2>2. IsFiniteSet(upto(k))
    BY <1>2
  <2>3. Cardinality(upto(k)) = Cardinality(upto(i)) => upto(k) = upto(i)
    BY ONLY <2>1, <2>2, FS_Subset
  <2>4. QED
    BY <2>1, <2>3
<1>4. \A i, k \in P : Cardinality(upto(i)) = Cardinality(upto(k)) => i = k
  BY <1>3
<1>5. rank \in Surjection(P, 1..c)
  <2>1. rank \in Injection(P, 1..c)
    BY <1>2, <1>4 DEF Injection, IsInjective
  <2>2. IsFiniteSet(1..c) /\ Cardinality(1..c) = c
    BY <1>1, FS_Interval
  <2>3. QED
    BY <2>1, <2>2, FS_Injection
<1>6. ASSUME NEW m \in 1..c PROVE at(m) \in P /\ Cardinality(upto(at(m))) = m
  <2>1. \E i \in P : Cardinality(upto(i)) = m
    BY <1>5 DEF Surjection
  <2>2. QED
    BY <2>1
<1>7. \A i \in P : Cardinality(upto(i)) \in 1..c /\ at(Cardinality(upto(i))) = i
  BY <1>2, <1>4, <1>6
<1> DEFINE sel == [m \in 1..c |-> list[at(m)]]
<1>8. Selected(list, P) = sel
  BY DEF Selected
<1>9. sel \in Seq(S) /\ Len(sel) = c
  <2>1. \A m \in 1..c : list[at(m)] \in S
    BY <1>0, <1>6
  <2>2. sel \in [1..c -> S]
    BY <2>1
  <2>3. QED
    BY ONLY <1>1, <2>2, FunctionIsList
<1>10. {sel[m] : m \in 1..c} = {list[i] : i \in P}
  <2>1. ASSUME NEW m \in 1..c PROVE \E i \in P : sel[m] = list[i]
    BY <1>6
  <2>2. ASSUME NEW i \in P PROVE \E m \in 1..c : sel[m] = list[i]
    <3>1. Cardinality(upto(i)) \in 1..c /\ at(Cardinality(upto(i))) = i
      BY <1>7
    <3>2. sel[Cardinality(upto(i))] = list[i]
      BY <3>1
    <3>3. QED
      BY <3>1, <3>2
  <2> HIDE DEF sel
  <2>3. ASSUME NEW x \in {sel[m] : m \in 1..c} PROVE x \in {list[i] : i \in P}
    BY ONLY <2>1, <2>3
  <2>4. ASSUME NEW x \in {list[i] : i \in P} PROVE x \in {sel[m] : m \in 1..c}
    BY ONLY <2>2, <2>4
  <2>5. QED
    BY ONLY <2>3, <2>4
<1>11. ASSUME \A i, k \in P : list[i] = list[k] => i = k,
              NEW m \in 1..c, NEW k \in 1..c, sel[m] = sel[k]
       PROVE  m = k
  <2>1. at(m) = at(k)
    BY <1>6, <1>11
  <2>2. QED
    BY <1>6, <2>1
<1> HIDE DEF sel
<1>12. QED
  BY <1>8, <1>9, <1>10, <1>11

-----------------------------------------------------------------------------
(* What a list holds, and that it holds each of it once. *)
Elements(q) == {q[i] : i \in 1..Len(q)}
Distinct(q) == \A i, k \in 1..Len(q) : q[i] = q[k] => i = k

LEMMA EmptyElements ==
  ASSUME NEW S, NEW q \in Seq(S)
  PROVE  /\ Len(q) \in Nat /\ Elements(q) \subseteq S
         /\ q = <<>> <=> Elements(q) = {}
         /\ Elements(<<>>) = {} /\ Distinct(<<>>)
<1>1. Len(q) \in Nat /\ \A i \in 1..Len(q) : q[i] \in S
  BY LenProperties, ElementOfSeq
<1>2. Len(<<>>) = 0 /\ (q # <<>> => Len(q) \in Nat \ {0})
  BY EmptySeq
<1>3. Elements(<<>>) = {} /\ Distinct(<<>>)
  BY <1>2 DEF Elements, Distinct
<1>4. q # <<>> => q[1] \in Elements(q)
  BY <1>2 DEF Elements
<1>5. QED
  BY <1>1, <1>3, <1>4 DEF Elements

LEMMA ConcatElements ==
  ASSUME NEW S, NEW p \in Seq(S), NEW q \in Seq(S)
  PROVE  /\ p \o q \in Seq(S)
         /\ Elements(p \o q) = Elements(p) \cup Elements(q)
         /\ Distinct(p) /\ Distinct(q) /\ Elements(p) \cap Elements(q) = {} => Distinct(p \o q)
<1>1. /\ p \o q \in Seq(S) /\ Len(p) \in Nat /\ Len(q) \in Nat
      /\ Len(p \o q) = Len(p) + Len(q)
      /\ \A i \in 1..(Len(p) + Len(q)) :
           (p \o q)[i] = IF i <= Len(p) THEN p[i] ELSE q[i - Len(p)]
  BY ConcatProperties, LenProperties
<1>2. \A i \in 1..Len(p) : i \in 1..Len(p \o q) /\ (p \o q)[i] = p[i]
  BY <1>1
<1>3. \A i \in 1..Len(q) : Len(p) + i \in 1..Len(p \o q) /\ (p \o q)[Len(p) + i] = q[i]
  BY <1>1
<1>4. \A i \in 1..Len(p \o q) :
        \/ i \in 1..Len(p) /\ (p \o q)[i] = p[i]
        \/ i - Len(p) \in 1..Len(q) /\ (p \o q)[i] = q[i - Len(p)]
  BY <1>1
<1>5. Elements(p \o q) = Elements(p) \cup Elements(q)
  <2>1. ASSUME NEW x \in Elements(p \o q) PROVE x \in Elements(p) \cup Elements(q)
    BY <1>4 DEF Elements
  <2>2. ASSUME NEW x \in Elements(p) PROVE x \in Elements(p \o q)
    BY <1>2 DEF Elements
  <2>3. ASSUME NEW x \in Elements(q) PROVE x \in Elements(p \o q)
    <3>1. PICK i \in 1..Len(q) : q[i] = x
      BY DEF Elements
    <3>2. QED
      BY <1>3, <3>1 DEF Elements
  <2>4. QED
    BY <2>1, <2>2, <2>3
<1>6. ASSUME Distinct(p), Distinct(q), Elements(p) \cap Elements(q) = {},
             NEW i \in 1..Len(p \o q), NEW k \in 1..Len(p \o q), (p \o q)[i] = (p \o q)[k]
      PROVE  i = k
  <2>1. CASE i \in 1..Len(p) /\ (p \o q)[i] = p[i]
    <3>1. k \in 1..Len(p) /\ (p \o q)[k] = p[k]
      BY <1>4, <1>6, <2>1 DEF Elements
    <3>2. QED
      BY <1>6, <2>1, <3>1 DEF Distinct
  <2>2. CASE i - Len(p) \in 1..Len(q) /\ (p \o q)[i] = q[i - Len(p)]
    <3>1. k - Len(p) \in 1..Len(q) /\ (p \o q)[k] = q[k - Len(p)]
      BY <1>4, <1>6, <2>2 DEF Elements
    <3>2. i - Len(p) = k - Len(p)
      BY <1>6, <2>2, <3>1 DEF Distinct
    <3>3. QED
      BY <1>1, <3>2
  <2>3. QED
    BY <1>4, <2>1, <2>2
<1>7. QED
  BY <1>1, <1>5, <1>6 DEF Distinct

LEMMA TailElements ==
  ASSUME NEW S, NEW q \in Seq(S), q # <<>>
  PROVE  /\ Head(q) \in Elements(q) /\ Tail(q) \in Seq(S)
         /\ Tail(q) # <<>> <=> Len(q) > 1
         /\ Distinct(q) => Distinct(Tail(q)) /\ Elements(Tail(q)) = Elements(q) \ {Head(q)}
<1>1. /\ Len(q) \in Nat \ {0} /\ Head(q) = q[1]
      /\ Tail(q) \in Seq(S) /\ Len(Tail(q)) = Len(q) - 1
      /\ \A i \in 1..Len(Tail(q)) : Tail(q)[i] = q[i + 1]
  BY HeadTailProperties, EmptySeq
<1>2. Head(q) \in Elements(q)
  BY <1>1 DEF Elements
<1>3. Tail(q) # <<>> <=> Len(q) > 1
  <2>1. Tail(q) # <<>> => Len(Tail(q)) # 0
    BY <1>1, EmptySeq
  <2>2. Tail(q) = <<>> => Len(Tail(q)) = 0
    BY EmptySeq
  <2>3. QED
    BY <1>1, <2>1, <2>2
<1>4. \A i \in 1..Len(Tail(q)) : i + 1 \in 1..Len(q) /\ i + 1 # 1 /\ Tail(q)[i] = q[i + 1]
  BY <1>1
<1>5. \A i \in 1..Len(q) : i # 1 => i - 1 \in 1..Len(Tail(q)) /\ Tail(q)[i - 1] = q[i]
  BY <1>1
<1>6. ASSUME Distinct(q) PROVE Elements(Tail(q)) = Elements(q) \ {Head(q)}
  <2>1. ASSUME NEW x \in Elements(Tail(q)) PROVE x \in Elements(q) \ {Head(q)}
    <3>1. PICK i \in 1..Len(Tail(q)) : Tail(q)[i] = x
      BY DEF Elements
    <3>2. i + 1 \in 1..Len(q) /\ i + 1 # 1 /\ q[i + 1] = x /\ 1 \in 1..Len(q)
      BY <1>1, <1>4, <3>1
    <3>3. q[i + 1] # q[1]
      BY <1>6, <3>2 DEF Distinct
    <3>4. QED
      BY <1>1, <3>2, <3>3 DEF Elements
  <2>2. ASSUME NEW x \in Elements(q) \ {Head(q)} PROVE x \in Elements(Tail(q))
    <3>1. PICK i \in 1..Len(q) : q[i] = x
      BY DEF Elements
    <3>2. i # 1
      BY <1>1, <3>1
    <3>3. QED
      BY <1>5, <3>1, <3>2 DEF Elements
  <2>3. QED
    BY <2>1, <2>2
<1>7. ASSUME Distinct(q), NEW i \in 1..Len(Tail(q)), NEW k \in 1..Len(Tail(q)),
             Tail(q)[i] = Tail(q)[k]
      PROVE  i = k
  <2>1. i + 1 = k + 1
    BY <1>4, <1>7 DEF Distinct
  <2>2. QED
    BY <1>1, <2>1
<1>8. QED
  BY <1>1, <1>2, <1>3, <1>6, <1>7 DEF Distinct

(* The same of a part of a list. *)
LEMMA SelectedElements ==
  ASSUME NEW S, NEW q \in Seq(S), NEW P \in SUBSET (1..Len(q))
  PROVE  /\ Selected(q, P) \in Seq(S)
         /\ Elements(Selected(q, P)) = {q[i] : i \in P}
         /\ (\A i, k \in P : q[i] = q[k] => i = k) => Distinct(Selected(q, P))
<1> DEFINE sel == Selected(q, P)
<1>2. /\ sel \in Seq(S) /\ Len(sel) = Cardinality(P)
      /\ {sel[k] : k \in 1..Cardinality(P)} = {q[i] : i \in P}
      /\ (\A i, k \in P : q[i] = q[k] => i = k) =>
           \A m, k \in 1..Cardinality(P) : sel[m] = sel[k] => m = k
  BY SelectedList
<1> HIDE DEF sel
<1>3. Elements(sel) = {q[i] : i \in P}
  BY <1>2 DEF Elements
<1>4. (\A i, k \in P : q[i] = q[k] => i = k) => Distinct(sel)
  BY <1>2 DEF Distinct
<1>5. QED
  BY <1>2, <1>3, <1>4 DEF sel

(* The list of a request's jobs has each of them once. *)
LEMMA JobListDistinct ==
  ASSUME NEW r \in Requests
  PROVE  JobList[r] \in Seq(Jobs) /\ Elements(JobList[r]) = JobsOf(r) /\ Distinct(JobList[r])
<1>1. /\ JobList[r] \in Seq(Jobs)
      /\ Elements(JobList[r]) = JobsOf(r)
      /\ Len(JobList[r]) = Cardinality(Elements(JobList[r]))
  BY SceneAffineAssumption DEF Elements
<1>2. Len(JobList[r]) \in Nat /\ JobList[r] \in [1..Len(JobList[r]) -> Jobs]
  BY <1>1, LenProperties
<1>3. Distinct(JobList[r])
  BY <1>1, <1>2, ListOfDistinct DEF Elements, Distinct
<1>4. QED
  BY <1>1, <1>3

-----------------------------------------------------------------------------
(* A job in flight renders on a slot of the scheduler's own renderer pool.   *)
OnRenderers ==
  \A j \in Jobs : inFlight[j] # None => inFlight[j].pools[Renderer] = rendererPool

(* Each deque holds the pending jobs of its scene, each of them once. *)
PendingOf(s) == {j \in pending : SceneOf[j] = s}

DequesHold ==
  /\ pendingByScene \in [Scenes -> Seq(Jobs)]
  /\ \A s \in Scenes : Distinct(pendingByScene[s]) /\ Elements(pendingByScene[s]) = PendingOf(s)

(* The keys are the scenes with a pending job, each of them once. *)
KeysHold ==
  /\ sceneOrder \in Seq(Scenes) /\ Distinct(sceneOrder)
  /\ Elements(sceneOrder) = {s \in Scenes : pendingByScene[s] # <<>>}

(* The counts are those of the in-flight table. *)
CountsHold ==
  /\ inflightScenes \in [Addresses -> [Scenes -> Int]]
  /\ \A a \in Addresses, s \in Scenes : inflightScenes[a][s] = Cardinality(RenderingOn(a, s))

StrategyBooks == DequesHold /\ KeysHold /\ CountsHold /\ cached \in [Addresses -> SUBSET Scenes]

(* What is proved inductively of this strategy. *)
AffineInv == SlotInv /\ OnRenderers /\ StrategyBooks

-----------------------------------------------------------------------------
(* What the invariant says of the job try_reserve hands out. *)
LEMMA HeadOfScene ==
  ASSUME AffineInv, NEW s \in PendingScenes
  PROVE  /\ s \in Scenes /\ pendingByScene[s] \in Seq(Jobs) /\ pendingByScene[s] # <<>>
         /\ Head(pendingByScene[s]) \in pending /\ Head(pendingByScene[s]) \in Jobs
         /\ SceneOf[Head(pendingByScene[s])] = s
<1>1. s \in Scenes /\ pendingByScene[s] # <<>>
  BY DEF AffineInv, StrategyBooks, KeysHold, PendingScenes, Elements
<1>2. pendingByScene[s] \in Seq(Jobs) /\ Elements(pendingByScene[s]) = PendingOf(s)
  BY <1>1 DEF AffineInv, StrategyBooks, DequesHold
<1>3. Head(pendingByScene[s]) \in PendingOf(s)
  BY <1>1, <1>2, TailElements
<1>4. QED
  BY <1>1, <1>2, <1>3 DEF PendingOf, AffineInv, SlotInv, TypeOK

(* Every pending job has its scene among the keys. *)
LEMMA SceneIsKey ==
  ASSUME AffineInv, NEW j \in pending
  PROVE  SceneOf[j] \in PendingScenes /\ sceneOrder # <<>>
<1>1. j \in Jobs /\ SceneOf[j] \in Scenes
  BY SceneAffineAssumption DEF AffineInv, SlotInv, TypeOK
<1>2. /\ pendingByScene[SceneOf[j]] \in Seq(Jobs)
      /\ j \in Elements(pendingByScene[SceneOf[j]])
  BY <1>1 DEF AffineInv, StrategyBooks, DequesHold, PendingOf
<1>3. pendingByScene[SceneOf[j]] # <<>>
  BY <1>2, EmptyElements
<1>4. sceneOrder \in Seq(Scenes) /\ SceneOf[j] \in Elements(sceneOrder)
  BY <1>1, <1>3 DEF AffineInv, StrategyBooks, KeysHold
<1>5. sceneOrder # <<>>
  BY <1>4, EmptyElements
<1>6. QED
  BY <1>4, <1>5 DEF PendingScenes, Elements

(* A free slot, and a slot a job was given, are at one of the addresses. *)
LEMMA FreeAddressesKnown ==
  ASSUME AffineInv
  PROVE  FreeAddresses \subseteq Addresses
<1>1. rendererPool \in Pools
  BY SceneAffineAssumption DEF rendererPool, Pools
<1>2. free[rendererPool] \subseteq SlotsOf[rendererPool]
  BY <1>1 DEF AffineInv, SlotInv, SlotsConserved
<1>3. QED
  BY <1>2 DEF FreeAddresses, Addresses

LEMMA SlotAddressKnown ==
  ASSUME AffineInv, NEW j \in Jobs, inFlight[j] # None
  PROVE  AddressOf[inFlight[j].acquired[Renderer]] \in Addresses
<1> DEFINE x == inFlight[j].acquired[Renderer]
<1>1. rendererPool \in Pools /\ Renderer \in Services
  BY SceneAffineAssumption DEF rendererPool, Pools
<1>2. inFlight[j] \in Entry /\ inFlight[j].pools[Renderer] = rendererPool
  BY DEF AffineInv, SlotInv, TypeOK, OnRenderers
<1>3. x \in Slots \cup {SkipSlot}
  BY <1>1, <1>2 DEF Entry
<1>4. CASE x \in Slots
  <2>1. Holds(j, Renderer, rendererPool, x)
    BY <1>2 DEF Holds
  <2>2. x \in SlotsOf[rendererPool]
    BY <1>1, <1>4, <2>1 DEF AffineInv, SlotInv, SlotsConserved
  <2>3. QED
    BY <2>2 DEF Addresses
<1>5. QED
  BY <1>3, <1>4 DEF Addresses

(* A reservation names a key, and a warm renderer whenever there is one. *)
LEMMA ReservationOfKey ==
  ASSUME AffineInv, NEW res \in Reservations
  PROVE  /\ res[1] \in PendingScenes /\ res[2] \in Addresses
         /\ Tier1 # {} => res \in Tier1
<1> DEFINE anywhere == IF rendererPool \in SkipPools THEN {AddressOf[SkipSlot]}
                                                     ELSE FreeAddresses
<1>1. anywhere \subseteq Addresses
  BY FreeAddressesKnown DEF Addresses
<1>2. sceneOrder # <<>> => Head(sceneOrder) \in PendingScenes
  <2>1. sceneOrder \in Seq(Scenes)
    BY DEF AffineInv, StrategyBooks, KeysHold
  <2>2. QED
    BY <2>1, TailElements DEF PendingScenes, Elements
<1>3. Tier2 \subseteq PendingScenes
  BY DEF Tier2
<1>4. CASE Tier1 # {}
  BY <1>4, FreeAddressesKnown DEF Reservations, Tier1
<1>5. CASE Tier1 = {} /\ Tier2 # {}
  <2>1. res \in Tier2 \X anywhere
    BY <1>5 DEF Reservations
  <2>2. QED
    BY <1>1, <1>3, <1>5, <2>1
<1>6. CASE Tier1 = {} /\ Tier2 = {} /\ sceneOrder # <<>>
  <2>1. res \in {Head(sceneOrder)} \X anywhere
    BY <1>6 DEF Reservations
  <2>2. QED
    BY <1>1, <1>2, <1>6, <2>1
<1>7. QED
  BY <1>4, <1>5, <1>6 DEF Reservations

(* try_reserve gives up only with nothing pending or no renderer free. *)
LEMMA NoReservation ==
  ASSUME AffineInv, Reservations = {}
  PROVE  pending = {} \/ \E j \in pending : Blocked(j)
<1> SUFFICES ASSUME NEW j \in pending PROVE Blocked(j)
  OBVIOUS
<1> DEFINE anywhere == IF rendererPool \in SkipPools THEN {AddressOf[SkipSlot]}
                                                     ELSE FreeAddresses
<1>1. sceneOrder # <<>>
  BY SceneIsKey
<1>2. Tier1 = {}
  BY DEF Reservations
<1>3. Tier2 # {} => Tier2 \X anywhere = {}
  BY <1>2 DEF Reservations
<1>4. Tier2 = {} => {Head(sceneOrder)} \X anywhere = {}
  BY <1>1, <1>2 DEF Reservations
<1>5. anywhere = {}
  <2> HIDE DEF anywhere
  <2> SUFFICES ASSUME NEW b \in anywhere PROVE FALSE
    OBVIOUS
  <2>1. ASSUME NEW s \in Tier2 PROVE FALSE
    <3>1. <<s, b>> \in Tier2 \X anywhere /\ Tier2 # {}
      OBVIOUS
    <3>2. QED
      BY <1>3, <3>1
  <2>2. <<Head(sceneOrder), b>> \in {Head(sceneOrder)} \X anywhere
    OBVIOUS
  <2>3. QED
    BY ONLY <1>4, <2>1, <2>2
<1>6. rendererPool \notin SkipPools /\ free[rendererPool] = {}
  BY <1>5 DEF FreeAddresses
<1>7. Renderer \in Services /\ PoolsOf(j)[Renderer] = rendererPool
  BY SceneAffineAssumption DEF PoolsOf, PoolOf, rendererPool
<1>8. QED
  BY <1>6, <1>7 DEF Blocked

(* Every step of this strategy is one of the scheduler over any strategy. *)
LEMMA AffineStepIsStep ==
  ASSUME AffineInv, [AffineNext]_affineVars
  PROVE  [Next]_vars
<1>1. ASSUME NEW r \in Requests, AffineSubmit(r) PROVE Next
  BY <1>1 DEF AffineSubmit, Next
<1>2. ASSUME AffineDispatchStep PROVE Next
  <2>1. PICK res \in Reservations :
          /\ ~EventLoopFree
          /\ \E acq \in Acquisitions(Head(pendingByScene[res[1]])) :
               Dispatch(Head(pendingByScene[res[1]]), acq)
    BY <1>2 DEF AffineDispatchStep
  <2>2. Head(pendingByScene[res[1]]) \in Jobs
    BY ReservationOfKey, HeadOfScene
  <2>3. QED
    BY <2>1, <2>2 DEF Next, DispatchStep
<1>3. ASSUME AffineDispatchEnds PROVE Next
  <2>1. pending = {} \/ \E j \in pending : Blocked(j)
    <3>1. CASE Reservations = {}
      BY <3>1, NoReservation
    <3>2. ASSUME NEW res \in Reservations, Blocked(Head(pendingByScene[res[1]]))
          PROVE  \E j \in pending : Blocked(j)
      BY <3>2, ReservationOfKey, HeadOfScene
    <3>3. QED
      BY <1>3, <3>1, <3>2 DEF AffineDispatchEnds
  <2>2. QED
    BY <1>3, <2>1 DEF AffineDispatchEnds, DispatchEnds, Next
<1>4. ASSUME AffinePumpResult PROVE Next
  BY <1>4 DEF AffinePumpResult, Next
<1>5. ASSUME AffineShutdown PROVE Next
  BY <1>5 DEF AffineShutdown, Next
<1>6. ASSUME NEW a, SyncSceneCache(a) PROVE UNCHANGED vars
  BY <1>6 DEF SyncSceneCache
<1>7. ASSUME OtherStep PROVE Next
  BY <1>7 DEF Next
<1>8. CASE UNCHANGED affineVars
  BY <1>8 DEF affineVars
<1>9. QED
  BY <1>1, <1>2, <1>3, <1>4, <1>5, <1>6, <1>7, <1>8 DEF AffineNext

-----------------------------------------------------------------------------
(* A set of positions has a first one: the one of rank 1. *)
LEMMA FirstPosition ==
  ASSUME NEW n \in Nat, NEW P \in SUBSET (1..n), P # {}
  PROVE  \E i \in P : \A k \in P : i <= k
<1> DEFINE R == OpToRel(<, Nat)
<1>1. IsWellFoundedOn(R, Nat)
  BY NatLessThanWellFounded
<1>2. P \subseteq Nat
  OBVIOUS
<1>3. PICK i \in P : \A k \in P : ~(<<k, i>> \in R)
  BY <1>1, <1>2, WFMin
<1>4. \A k \in P : ~(k < i)
  BY <1>2, <1>3 DEF OpToRel
<1>5. QED
  BY <1>2, <1>4

(* The new keys are the scenes of the list that are not keys yet. *)
LEMMA NewKeysAreNew ==
  ASSUME AffineInv, NEW jobs \in Seq(Jobs)
  PROVE  /\ NewKeys(jobs) \in Seq(Scenes) /\ Distinct(NewKeys(jobs))
         /\ Elements(NewKeys(jobs)) = {SceneOf[j] : j \in Elements(jobs)} \ PendingScenes
<1> DEFINE n == Len(jobs)
           scene(i) == SceneOf[jobs[i]]
           fresh(i) == scene(i) \notin PendingScenes /\ \A k \in 1..(i - 1) : scene(k) # scene(i)
           q == [i \in 1..n |-> scene(i)]
           P == {i \in 1..n : fresh(i)}
<1>1. n \in Nat /\ \A i \in 1..n : scene(i) \in Scenes
  BY LenProperties, ElementOfSeq, SceneAffineAssumption
<1>2. q \in Seq(Scenes) /\ Len(q) = n /\ \A i \in 1..n : q[i] = scene(i)
  <2>1. q \in [1..n -> Scenes]
    BY <1>1
  <2>2. QED
    BY <1>1, <2>1, FunctionIsList
<1>3. \A i, k \in P : scene(i) = scene(k) => i = k
  <2>1. ASSUME NEW i \in P, NEW k \in P, i < k PROVE scene(i) # scene(k)
    <3>1. i \in 1..(k - 1)
      BY <1>1, <2>1
    <3>2. QED
      BY <3>1
  <2>2. QED
    BY <1>1, <2>1
<1>4. ASSUME NEW i \in 1..n, scene(i) \notin PendingScenes
      PROVE  \E k \in P : scene(k) = scene(i)
  <2> DEFINE T == {k \in 1..n : scene(k) = scene(i)}
  <2>1. PICK m \in T : \A k \in T : m <= k
    <3>1. T \in SUBSET (1..n) /\ i \in T
      OBVIOUS
    <3>2. QED
      BY <1>1, <3>1, FirstPosition
  <2>2. \A k \in 1..(m - 1) : scene(k) # scene(m)
    BY <1>1, <2>1
  <2>3. QED
    BY <1>4, <2>1, <2>2
<1>5. NewKeys(jobs) = Selected(q, P)
  BY DEF NewKeys
<1>6. \A i \in P : i \in 1..n /\ scene(i) \notin PendingScenes
  OBVIOUS
<1> HIDE DEF P, q
<1>7. P \in SUBSET (1..Len(q))
  BY <1>2, <1>6
<1>8. /\ NewKeys(jobs) \in Seq(Scenes) /\ Distinct(NewKeys(jobs))
      /\ Elements(NewKeys(jobs)) = {q[i] : i \in P}
  <2>1. \A i, k \in P : q[i] = q[k] => i = k
    BY <1>2, <1>3, <1>6
  <2>2. q \in Seq(Scenes)
    BY <1>2
  <2>3. /\ Selected(q, P) \in Seq(Scenes) /\ Distinct(Selected(q, P))
        /\ Elements(Selected(q, P)) = {q[i] : i \in P}
    BY <1>7, <2>1, <2>2, SelectedElements
  <2>4. QED
    BY <1>5, <2>3
<1>9. {q[i] : i \in P} = {SceneOf[j] : j \in Elements(jobs)} \ PendingScenes
  <2>1. ASSUME NEW i \in P PROVE q[i] \in {SceneOf[j] : j \in Elements(jobs)} \ PendingScenes
    BY <1>2, <1>6 DEF Elements
  <2>2. ASSUME NEW j \in Elements(jobs), SceneOf[j] \notin PendingScenes
        PROVE  \E i \in P : q[i] = SceneOf[j]
    <3>1. PICK i \in 1..n : jobs[i] = j
      BY DEF Elements
    <3>2. PICK k \in P : scene(k) = scene(i)
      BY <1>4, <2>2, <3>1
    <3>3. QED
      BY <1>2, <1>6, <3>1, <3>2
  <2>3. QED
    BY <2>1, <2>2
<1>10. QED
  BY <1>8, <1>9

(* A request's jobs join the deques of their scenes, and new keys the keys. *)
LEMMA SubmitKeepsDeques ==
  ASSUME AffineInv, NEW r \in Requests, AffineSubmit(r)
  PROVE  (DequesHold /\ KeysHold)'
<1> DEFINE L == JobList[r]
           P(s) == {i \in 1..Len(L) : SceneOf[L[i]] = s}
<1>1. L \in Seq(Jobs) /\ Elements(L) = JobsOf(r) /\ Distinct(L)
  BY JobListDistinct
<1>2. /\ pending' = pending \cup JobsOf(r) /\ JobsOf(r) \cap pending = {}
      /\ pendingByScene' = [s \in Scenes |-> pendingByScene[s] \o Selected(L, P(s))]
      /\ sceneOrder' = sceneOrder \o NewKeys(L)
  BY DEF AffineSubmit, Submit, AffineInv, SlotInv, NotYetInFlight, JobsOf
<1>3. ASSUME NEW s \in Scenes
      PROVE  /\ Selected(L, P(s)) \in Seq(Jobs) /\ Distinct(Selected(L, P(s)))
             /\ Elements(Selected(L, P(s))) = {j \in JobsOf(r) : SceneOf[j] = s}
  <2>1. P(s) \in SUBSET (1..Len(L))
    OBVIOUS
  <2>2. \A i, k \in P(s) : L[i] = L[k] => i = k
    BY <1>1, <2>1 DEF Distinct
  <2>3. {L[i] : i \in P(s)} = {j \in JobsOf(r) : SceneOf[j] = s}
    BY <1>1 DEF Elements
  <2> HIDE DEF P, L
  <2>4. QED
    BY <1>1, <2>1, <2>2, <2>3, SelectedElements
<1> HIDE DEF P, L
<1>4. ASSUME NEW s \in Scenes
      PROVE  /\ pendingByScene'[s] \in Seq(Jobs) /\ Distinct(pendingByScene'[s])
             /\ Elements(pendingByScene'[s]) = PendingOf(s)'
             /\ Elements(pendingByScene'[s]) =
                  Elements(pendingByScene[s]) \cup {j \in JobsOf(r) : SceneOf[j] = s}
  <2>1. /\ pendingByScene[s] \in Seq(Jobs) /\ Distinct(pendingByScene[s])
        /\ Elements(pendingByScene[s]) = PendingOf(s)
    BY DEF AffineInv, StrategyBooks, DequesHold
  <2>2. pendingByScene'[s] = pendingByScene[s] \o Selected(L, P(s))
    BY <1>2
  <2>3. Elements(pendingByScene[s]) \cap Elements(Selected(L, P(s))) = {}
    BY <1>2, <1>3, <2>1 DEF PendingOf
  <2>4. PendingOf(s)' = PendingOf(s) \cup {j \in JobsOf(r) : SceneOf[j] = s}
    BY <1>2 DEF PendingOf
  <2>5. QED
    BY <1>3, <2>1, <2>2, <2>3, <2>4, ConcatElements
<1>5. DequesHold'
  BY <1>2, <1>4 DEF DequesHold
<1>6. KeysHold'
  <2>1. /\ sceneOrder \in Seq(Scenes) /\ Distinct(sceneOrder)
        /\ Elements(sceneOrder) = {s \in Scenes : pendingByScene[s] # <<>>}
        /\ PendingScenes = Elements(sceneOrder)
    BY DEF AffineInv, StrategyBooks, KeysHold, PendingScenes, Elements
  <2>2. /\ NewKeys(L) \in Seq(Scenes) /\ Distinct(NewKeys(L))
        /\ Elements(NewKeys(L)) = {SceneOf[j] : j \in JobsOf(r)} \ Elements(sceneOrder)
    BY <1>1, <2>1, NewKeysAreNew
  <2>3. /\ sceneOrder' \in Seq(Scenes) /\ Distinct(sceneOrder')
        /\ Elements(sceneOrder') = Elements(sceneOrder) \cup {SceneOf[j] : j \in JobsOf(r)}
    BY <1>2, <2>1, <2>2, ConcatElements
  <2>4. ASSUME NEW s \in Scenes
        PROVE  pendingByScene'[s] # <<>> <=>
                 pendingByScene[s] # <<>> \/ \E j \in JobsOf(r) : SceneOf[j] = s
    <3>1. pendingByScene[s] \in Seq(Jobs) /\ pendingByScene'[s] \in Seq(Jobs)
      BY <1>4 DEF AffineInv, StrategyBooks, DequesHold
    <3>2. /\ pendingByScene[s] = <<>> <=> Elements(pendingByScene[s]) = {}
          /\ pendingByScene'[s] = <<>> <=> Elements(pendingByScene'[s]) = {}
      <4>1. \A q \in Seq(Jobs) : q = <<>> <=> Elements(q) = {}
        BY EmptyElements
      <4>2. QED
        BY ONLY <3>1, <4>1
    <3>3. Elements(pendingByScene'[s]) =
            Elements(pendingByScene[s]) \cup {j \in JobsOf(r) : SceneOf[j] = s}
      BY <1>4
    <3>4. QED
      BY ONLY <3>2, <3>3
  <2>5. \A j \in JobsOf(r) : SceneOf[j] \in Scenes
    BY SceneAffineAssumption DEF JobsOf
  <2>6. Elements(sceneOrder') = {s \in Scenes : pendingByScene'[s] # <<>>}
    BY <2>1, <2>3, <2>4, <2>5
  <2>7. QED
    BY <2>3, <2>6 DEF KeysHold
<1>7. QED
  BY <1>5, <1>6

(* A dispatched job leaves its deque; its scene's key goes with the last job. *)
LEMMA DispatchKeepsDeques ==
  ASSUME AffineInv, AffineDispatchStep
  PROVE  (DequesHold /\ KeysHold)'
<1>1. PICK res \in Reservations :
        /\ \E acq \in Acquisitions(Head(pendingByScene[res[1]])) :
             Dispatch(Head(pendingByScene[res[1]]), acq)
        /\ pendingByScene' = [pendingByScene EXCEPT ![res[1]] = Tail(@)]
        /\ sceneOrder' = IF Len(pendingByScene[res[1]]) > 1 THEN sceneOrder
                         ELSE Selected(sceneOrder,
                                       {i \in 1..Len(sceneOrder) : sceneOrder[i] # res[1]})
  BY DEF AffineDispatchStep
<1> DEFINE s == res[1]
           j == Head(pendingByScene[s])
           K == {i \in 1..Len(sceneOrder) : sceneOrder[i] # s}
<1>2. /\ s \in Scenes /\ pendingByScene[s] \in Seq(Jobs) /\ pendingByScene[s] # <<>>
      /\ j \in Jobs /\ SceneOf[j] = s
  BY ReservationOfKey, HeadOfScene
<1>3. pending' = pending \ {j}
  BY <1>1 DEF Dispatch
<1> HIDE DEF j, s
<1>4. /\ pendingByScene \in [Scenes -> Seq(Jobs)]
      /\ \A t \in Scenes : /\ Distinct(pendingByScene[t])
                           /\ Elements(pendingByScene[t]) = PendingOf(t)
  BY DEF AffineInv, StrategyBooks, DequesHold
<1>5. /\ pendingByScene'[s] = Tail(pendingByScene[s])
      /\ \A t \in Scenes : t # s => pendingByScene'[t] = pendingByScene[t]
      /\ pendingByScene' \in [Scenes -> Seq(Jobs)]
      /\ Distinct(pendingByScene'[s])
      /\ Elements(pendingByScene'[s]) = Elements(pendingByScene[s]) \ {j}
      /\ pendingByScene'[s] # <<>> <=> Len(pendingByScene[s]) > 1
  <2>1. /\ Tail(pendingByScene[s]) \in Seq(Jobs) /\ Distinct(Tail(pendingByScene[s]))
        /\ Elements(Tail(pendingByScene[s])) = Elements(pendingByScene[s]) \ {j}
        /\ Tail(pendingByScene[s]) # <<>> <=> Len(pendingByScene[s]) > 1
    BY <1>2, <1>4, TailElements DEF j
  <2>2. pendingByScene' = [pendingByScene EXCEPT ![s] = Tail(pendingByScene[s])]
    BY <1>1 DEF s
  <2>3. QED
    BY <1>2, <1>4, <2>1, <2>2
<1>6. PendingOf(s)' = PendingOf(s) \ {j} /\ \A t \in Scenes : t # s => PendingOf(t)' = PendingOf(t)
  BY <1>2, <1>3 DEF PendingOf
<1>7. DequesHold'
  <2>1. \A t \in Scenes : /\ Distinct(pendingByScene'[t])
                          /\ Elements(pendingByScene'[t]) = PendingOf(t)'
    BY <1>2, <1>4, <1>5, <1>6
  <2>2. QED
    BY <1>5, <2>1 DEF DequesHold
<1>8. KeysHold'
  <2>1. /\ sceneOrder \in Seq(Scenes) /\ Distinct(sceneOrder)
        /\ Elements(sceneOrder) = {t \in Scenes : pendingByScene[t] # <<>>}
    BY DEF AffineInv, StrategyBooks, KeysHold
  <2>2. CASE Len(pendingByScene[s]) > 1
    <3>1. sceneOrder' = sceneOrder
      BY <1>1, <2>2 DEF s
    <3>2. \A t \in Scenes : pendingByScene'[t] # <<>> <=> pendingByScene[t] # <<>>
      BY <1>2, <1>5, <2>2
    <3>3. {t \in Scenes : pendingByScene'[t] # <<>>} = {t \in Scenes : pendingByScene[t] # <<>>}
      BY <3>2
    <3>4. QED
      BY <2>1, <3>1, <3>3 DEF KeysHold
  <2>3. CASE ~(Len(pendingByScene[s]) > 1)
    <3>1. sceneOrder' = Selected(sceneOrder, K)
      BY <1>1, <2>3 DEF s
    <3>2. K \in SUBSET (1..Len(sceneOrder))
      OBVIOUS
    <3>3. \A i, k \in K : sceneOrder[i] = sceneOrder[k] => i = k
      BY <2>1, <3>2 DEF Distinct
    <3>4. {sceneOrder[i] : i \in K} = Elements(sceneOrder) \ {s}
      BY DEF Elements
    <3> HIDE DEF K
    <3>5. /\ Selected(sceneOrder, K) \in Seq(Scenes) /\ Distinct(Selected(sceneOrder, K))
          /\ Elements(Selected(sceneOrder, K)) = {sceneOrder[i] : i \in K}
      BY <2>1, <3>2, <3>3, SelectedElements
    <3>6. \A t \in Scenes : pendingByScene'[t] # <<>> <=> t # s /\ pendingByScene[t] # <<>>
      BY <1>2, <1>5, <2>3
    <3>7. {t \in Scenes : pendingByScene'[t] # <<>>} =
          {t \in Scenes : pendingByScene[t] # <<>>} \ {s}
      BY <3>6
    <3>8. QED
      BY <2>1, <3>1, <3>4, <3>5, <3>7 DEF KeysHold
  <2>4. QED
    BY <2>2, <2>3
<1>9. QED
  BY <1>7, <1>8

-----------------------------------------------------------------------------
LEMMA RenderingFinite ==
  ASSUME NEW a, NEW s
  PROVE  IsFiniteSet(RenderingOn(a, s)) /\ Cardinality(RenderingOn(a, s)) \in Nat
<1>1. IsFiniteSet(RenderingOn(a, s))
  BY JobsAssumption, FS_Subset DEF RenderingOn
<1>2. QED
  BY <1>1, FS_CardinalityType

(* commit counts the job on the renderer it got, as the in-flight table does. *)
LEMMA DispatchKeepsCounts ==
  ASSUME AffineInv, AffineDispatchStep
  PROVE  (OnRenderers /\ CountsHold)' /\ cached' = cached
<1>1. PICK res \in Reservations :
        /\ \E acq \in Acquisitions(Head(pendingByScene[res[1]])) :
             /\ AddressOf[acq[Renderer]] = res[2]
             /\ Dispatch(Head(pendingByScene[res[1]]), acq)
        /\ inflightScenes' = [inflightScenes EXCEPT ![res[2]][res[1]] = @ + 1]
        /\ cached' = cached
  BY DEF AffineDispatchStep
<1> DEFINE s == res[1]
           a == res[2]
           j == Head(pendingByScene[s])
<1>2. PICK acq \in Acquisitions(j) : AddressOf[acq[Renderer]] = a /\ Dispatch(j, acq)
  BY <1>1
<1>3. /\ s \in Scenes /\ a \in Addresses /\ j \in Jobs /\ j \in pending /\ SceneOf[j] = s
      /\ inflightScenes' = [inflightScenes EXCEPT ![a][s] = @ + 1]
  BY <1>1, ReservationOfKey, HeadOfScene
<1> HIDE DEF s, a, j
<1>4. inFlight[j] = None
  BY <1>3 DEF AffineInv, SlotInv, NotYetInFlight
<1>5. /\ inFlight'[j] = [pools |-> PoolsOf(j), acquired |-> acq] /\ inFlight'[j] # None
      /\ \A k \in Jobs : k # j => inFlight'[k] = inFlight[k]
  <2>1. [pools |-> PoolsOf(j), acquired |-> acq] # None
    BY <1>3, EntryType, DaemonAssumption DEF AffineInv, SlotInv
  <2>2. inFlight' = [inFlight EXCEPT ![j] = [pools |-> PoolsOf(j), acquired |-> acq]]
    BY <1>2 DEF Dispatch
  <2>3. QED
    BY <1>3, <2>1, <2>2 DEF AffineInv, SlotInv, TypeOK
<1>6. OnRenderers'
  <2>1. inFlight'[j].pools[Renderer] = rendererPool
    BY <1>5, SceneAffineAssumption DEF PoolsOf, PoolOf, rendererPool
  <2>2. \A k \in Jobs : k # j /\ inFlight'[k] # None => inFlight'[k].pools[Renderer] = rendererPool
    BY <1>5 DEF AffineInv, OnRenderers
  <2>3. QED
    BY <2>1, <2>2 DEF OnRenderers
<1>7. AddressOf[inFlight'[j].acquired[Renderer]] = a
  BY <1>2, <1>5
<1>8. RenderingOn(a, s)' = RenderingOn(a, s) \cup {j} /\ j \notin RenderingOn(a, s)
  BY <1>3, <1>4, <1>5, <1>7 DEF RenderingOn
<1>9. ASSUME NEW b \in Addresses, NEW t \in Scenes, ~(b = a /\ t = s)
      PROVE  RenderingOn(b, t)' = RenderingOn(b, t)
  BY <1>3, <1>4, <1>5, <1>7, <1>9 DEF RenderingOn
<1>10. /\ inflightScenes \in [Addresses -> [Scenes -> Int]]
       /\ \A b \in Addresses, t \in Scenes :
            inflightScenes[b][t] = Cardinality(RenderingOn(b, t))
  BY DEF AffineInv, StrategyBooks, CountsHold
<1>11. /\ inflightScenes' \in [Addresses -> [Scenes -> Int]]
       /\ inflightScenes'[a][s] = inflightScenes[a][s] + 1
       /\ \A b \in Addresses, t \in Scenes :
            ~(b = a /\ t = s) => inflightScenes'[b][t] = inflightScenes[b][t]
  BY <1>3, <1>10
<1>12. Cardinality(RenderingOn(a, s) \cup {j}) = Cardinality(RenderingOn(a, s)) + 1
  BY <1>8, RenderingFinite, FS_AddElement
<1>13. \A b \in Addresses, t \in Scenes :
         inflightScenes'[b][t] = Cardinality(RenderingOn(b, t)')
  <2>1. inflightScenes'[a][s] = Cardinality(RenderingOn(a, s)')
    BY <1>3, <1>8, <1>10, <1>11, <1>12
  <2>2. ASSUME NEW b \in Addresses, NEW t \in Scenes, ~(b = a /\ t = s)
        PROVE  inflightScenes'[b][t] = Cardinality(RenderingOn(b, t)')
    BY <1>9, <1>10, <1>11, <2>2
  <2>3. QED
    BY <2>1, <2>2
<1>14. CountsHold'
  BY <1>11, <1>13 DEF CountsHold
<1>15. QED
  BY <1>1, <1>6, <1>14

(* on_result counts down where the entry it pops was counted. *)
LEMMA ResultKeepsCounts ==
  ASSUME AffineInv, AffinePumpResult
  PROVE  (OnRenderers /\ CountsHold)'
<1>0. PICK j, a, s : j = polled /\ a = AddressOf[inFlight[j].acquired[Renderer]] /\ s = SceneOf[j]
  OBVIOUS
<1>1. j \in Jobs /\ s \in Scenes
  BY <1>0, SceneAffineAssumption
  DEF AffineInv, SlotInv, TypeOK, AffinePumpResult, PumpResult
<1>2. /\ inflightScenes \in [Addresses -> [Scenes -> Int]]
      /\ \A b \in Addresses, t \in Scenes :
           inflightScenes[b][t] = Cardinality(RenderingOn(b, t))
  BY DEF AffineInv, StrategyBooks, CountsHold
<1>3. CASE inFlight' = inFlight
  <2>1. inflightScenes' = inflightScenes
    BY <1>3 DEF AffinePumpResult
  <2>2. QED
    BY <1>2, <1>3, <2>1 DEF AffineInv, OnRenderers, CountsHold, RenderingOn
<1>4. CASE inFlight' # inFlight
  <2>1. inFlight[j] # None /\ inFlight' = [inFlight EXCEPT ![j] = None]
    BY <1>0, <1>4
    DEF AffinePumpResult, PumpResult, ProcessResult, ResultFails, ReleaseEntry, schedVars
  <2>2. inFlight'[j] = None /\ \A k \in Jobs : k # j => inFlight'[k] = inFlight[k]
    BY <1>1, <2>1 DEF AffineInv, SlotInv, TypeOK
  <2>3. a \in Addresses
    BY <1>0, <1>1, <2>1, SlotAddressKnown
  <2>4. inflightScenes' = [inflightScenes EXCEPT ![a][s] = IF @ > 0 THEN @ - 1 ELSE 0]
    BY <1>0, <1>4 DEF AffinePumpResult
  <2>5. j \in RenderingOn(a, s) /\ RenderingOn(a, s)' = RenderingOn(a, s) \ {j}
    BY <1>0, <1>1, <2>1, <2>2 DEF RenderingOn
  <2>6. ASSUME NEW b \in Addresses, NEW t \in Scenes, ~(b = a /\ t = s)
        PROVE  RenderingOn(b, t)' = RenderingOn(b, t)
    BY <1>0, <1>1, <2>1, <2>2, <2>6 DEF RenderingOn
  <2>7. OnRenderers'
    BY <1>1, <2>2 DEF AffineInv, OnRenderers
  <2>8. /\ Cardinality(RenderingOn(a, s) \ {j}) = Cardinality(RenderingOn(a, s)) - 1
        /\ Cardinality(RenderingOn(a, s) \ {j}) \in Nat
    <3>1. IsFiniteSet(RenderingOn(a, s) \ {j})
      BY RenderingFinite, FS_RemoveElement
    <3>2. QED
      BY <2>5, <3>1, RenderingFinite, FS_RemoveElement, FS_CardinalityType
  <2>9. /\ inflightScenes' \in [Addresses -> [Scenes -> Int]]
        /\ inflightScenes'[a][s] = IF inflightScenes[a][s] > 0 THEN inflightScenes[a][s] - 1 ELSE 0
        /\ \A b \in Addresses, t \in Scenes :
             ~(b = a /\ t = s) => inflightScenes'[b][t] = inflightScenes[b][t]
    BY <1>1, <1>2, <2>3, <2>4
  <2>10. inflightScenes'[a][s] = Cardinality(RenderingOn(a, s)')
    <3>1. inflightScenes[a][s] = Cardinality(RenderingOn(a, s)) /\ inflightScenes[a][s] \in Nat
      BY <1>1, <1>2, <2>3, RenderingFinite
    <3>2. QED
      BY <2>5, <2>8, <2>9, <3>1
  <2>11. \A b \in Addresses, t \in Scenes :
           inflightScenes'[b][t] = Cardinality(RenderingOn(b, t)')
    <3>1. ASSUME NEW b \in Addresses, NEW t \in Scenes, ~(b = a /\ t = s)
          PROVE  inflightScenes'[b][t] = Cardinality(RenderingOn(b, t)')
      BY <1>2, <2>6, <2>9, <3>1
    <3>2. QED
      BY <2>10, <3>1
  <2>12. QED
    BY <2>7, <2>9, <2>11 DEF CountsHold
<1>5. QED
  BY <1>3, <1>4

(* The steps that leave the queues and the in-flight table alone. *)
LEMMA OthersKeepBooks ==
  ASSUME AffineInv, pending' = pending, inFlight' = inFlight,
         pendingByScene' = pendingByScene, sceneOrder' = sceneOrder,
         inflightScenes' = inflightScenes, cached' \in [Addresses -> SUBSET Scenes]
  PROVE  (OnRenderers /\ StrategyBooks)'
<1>1. \A s \in Scenes : PendingOf(s)' = PendingOf(s)
  BY DEF PendingOf
<1>2. \A a \in Addresses, s \in Scenes : RenderingOn(a, s)' = RenderingOn(a, s)
  BY DEF RenderingOn
<1>3. DequesHold' /\ KeysHold'
  BY <1>1 DEF AffineInv, StrategyBooks, DequesHold, KeysHold
<1>4. CountsHold' /\ OnRenderers'
  BY <1>2 DEF AffineInv, StrategyBooks, CountsHold, OnRenderers
<1>5. QED
  BY <1>3, <1>4 DEF StrategyBooks

LEMMA NextAffineInv == AffineInv /\ [AffineNext]_affineVars => AffineInv'
<1> SUFFICES ASSUME AffineInv, [AffineNext]_affineVars PROVE AffineInv'
  OBVIOUS
<1>1. [Next]_vars
  BY AffineStepIsStep
<1>2. SlotInv'
  BY <1>1, NextSlotInv DEF AffineInv
<1> DEFINE Kept == (OnRenderers /\ StrategyBooks)'
<1>3. cached \in [Addresses -> SUBSET Scenes]
  BY DEF AffineInv, StrategyBooks
<1>4. ASSUME NEW r \in Requests, AffineSubmit(r) PROVE Kept
  <2>1. (DequesHold /\ KeysHold)'
    BY <1>4, SubmitKeepsDeques
  <2>2. inFlight' = inFlight /\ inflightScenes' = inflightScenes /\ cached' = cached
    BY <1>4 DEF AffineSubmit, Submit
  <2>3. \A a \in Addresses, s \in Scenes : RenderingOn(a, s)' = RenderingOn(a, s)
    BY <2>2 DEF RenderingOn
  <2>4. CountsHold' /\ OnRenderers'
    BY <2>2, <2>3 DEF AffineInv, StrategyBooks, CountsHold, OnRenderers
  <2>5. QED
    BY <1>3, <2>1, <2>2, <2>4 DEF StrategyBooks
<1>5. ASSUME AffineDispatchStep PROVE Kept
  BY <1>3, <1>5, DispatchKeepsDeques, DispatchKeepsCounts DEF StrategyBooks
<1>6. ASSUME AffineDispatchEnds PROVE Kept
  <2>1. pending' = pending /\ inFlight' = inFlight
    BY <1>6 DEF AffineDispatchEnds, DispatchReturns, PumpReturns, SubmitReturns, schedVars
  <2>2. /\ pendingByScene' = pendingByScene /\ sceneOrder' = sceneOrder
        /\ inflightScenes' = inflightScenes /\ cached' = cached
    BY <1>6 DEF AffineDispatchEnds
  <2>3. QED
    BY <1>3, <2>1, <2>2, OthersKeepBooks
<1>7. ASSUME AffinePumpResult PROVE Kept
  <2>1. pending' = pending
    BY <1>7
    DEF AffinePumpResult, PumpResult, ProcessResult, ResultFails, ReleaseEntry, schedVars
  <2>2. pendingByScene' = pendingByScene /\ sceneOrder' = sceneOrder /\ cached' = cached
    BY <1>7 DEF AffinePumpResult
  <2>3. \A s \in Scenes : PendingOf(s)' = PendingOf(s)
    BY <2>1 DEF PendingOf
  <2>4. DequesHold' /\ KeysHold'
    BY <2>2, <2>3 DEF AffineInv, StrategyBooks, DequesHold, KeysHold
  <2>5. QED
    BY <1>3, <1>7, <2>2, <2>4, ResultKeepsCounts DEF StrategyBooks
<1>8. ASSUME AffineShutdown PROVE Kept
  <2>1. /\ pending' = {} /\ inFlight' = inFlight /\ inflightScenes' = inflightScenes
        /\ cached' = cached /\ sceneOrder' = <<>> /\ pendingByScene' = [s \in Scenes |-> <<>>]
    BY <1>8 DEF AffineShutdown, ShutdownScheduler
  <2>2. <<>> \in Seq(Jobs) /\ Elements(<<>>) = {} /\ Distinct(<<>>) /\ <<>> \in Seq(Scenes)
    BY EmptyElements, EmptySeq
  <2>3. \A s \in Scenes : PendingOf(s)' = {}
    BY <2>1 DEF PendingOf
  <2>4. DequesHold'
    BY <2>1, <2>2, <2>3 DEF DequesHold
  <2>5. KeysHold'
    BY <2>1, <2>2 DEF KeysHold
  <2>6. \A a \in Addresses, s \in Scenes : RenderingOn(a, s)' = RenderingOn(a, s)
    BY <2>1 DEF RenderingOn
  <2>7. CountsHold' /\ OnRenderers'
    BY <2>1, <2>6 DEF AffineInv, StrategyBooks, CountsHold, OnRenderers
  <2>8. QED
    BY <1>3, <2>1, <2>4, <2>5, <2>7 DEF StrategyBooks
<1>9. ASSUME NEW a \in Addresses, SyncSceneCache(a) PROVE Kept
  <2>1. pending' = pending /\ inFlight' = inFlight
    BY <1>9 DEF SyncSceneCache, vars, schedVars
  <2>2. /\ pendingByScene' = pendingByScene /\ sceneOrder' = sceneOrder
        /\ inflightScenes' = inflightScenes /\ cached' \in [Addresses -> SUBSET Scenes]
    BY <1>3, <1>9 DEF SyncSceneCache
  <2>3. QED
    BY <2>1, <2>2, OthersKeepBooks
<1>10. ASSUME OtherStep, UNCHANGED <<pendingByScene, sceneOrder, inflightScenes, cached>>
       PROVE  Kept
  <2>1. pending' = pending /\ inFlight' = inFlight
    BY <1>10
    DEF OtherStep, Refuse, Wake, Disconnect, Abandon, ThreadPolls, PumpTimeout, CrashWorker,
        TakeJob, FinishJob, RequestShutdown, GraceExpires, ServerStops, StopWorkers, schedVars
  <2>2. /\ pendingByScene' = pendingByScene /\ sceneOrder' = sceneOrder
        /\ inflightScenes' = inflightScenes /\ cached' = cached
    BY <1>10
  <2>3. QED
    BY <1>3, <2>1, <2>2, OthersKeepBooks
<1>11. ASSUME UNCHANGED affineVars PROVE Kept
  <2>1. pending' = pending /\ inFlight' = inFlight
    BY <1>11 DEF affineVars, vars, schedVars
  <2>2. /\ pendingByScene' = pendingByScene /\ sceneOrder' = sceneOrder
        /\ inflightScenes' = inflightScenes /\ cached' = cached
    BY <1>11 DEF affineVars
  <2>3. QED
    BY <1>3, <2>1, <2>2, OthersKeepBooks
<1>12. Kept
  BY <1>4, <1>5, <1>6, <1>7, <1>8, <1>9, <1>10, <1>11 DEF AffineNext
<1>13. QED
  BY <1>2, <1>12 DEF AffineInv

LEMMA InitAffineInv == AffineInit => AffineInv
<1> SUFFICES ASSUME AffineInit PROVE AffineInv
  OBVIOUS
<1>1. SlotInv
  BY InitSlotInv DEF AffineInit
<1>2. /\ pending = {} /\ inFlight = [j \in Jobs |-> None]
      /\ pendingByScene = [s \in Scenes |-> <<>>] /\ sceneOrder = <<>>
      /\ inflightScenes = [a \in Addresses |-> [s \in Scenes |-> 0]]
      /\ cached = [a \in Addresses |-> {}]
  BY DEF AffineInit, Init
<1>3. <<>> \in Seq(Jobs) /\ Elements(<<>>) = {} /\ Distinct(<<>>) /\ <<>> \in Seq(Scenes)
  BY EmptyElements, EmptySeq
<1>4. DequesHold
  BY <1>2, <1>3 DEF DequesHold, PendingOf
<1>5. KeysHold
  BY <1>2, <1>3 DEF KeysHold
<1>6. CountsHold
  <2>1. \A a \in Addresses, s \in Scenes : RenderingOn(a, s) = {}
    BY <1>2 DEF RenderingOn
  <2>2. Cardinality({}) = 0
    BY FS_EmptySet
  <2>3. \A a \in Addresses, s \in Scenes : Cardinality(RenderingOn(a, s)) = 0
    BY <2>1, <2>2
  <2>4. /\ inflightScenes \in [Addresses -> [Scenes -> Int]]
        /\ \A a \in Addresses, s \in Scenes : inflightScenes[a][s] = 0
    BY <1>2
  <2>5. QED
    BY <2>3, <2>4 DEF CountsHold
<1>7. QED
  BY <1>1, <1>2, <1>4, <1>5, <1>6 DEF AffineInv, OnRenderers, StrategyBooks

LEMMA AffineInvHolds == AffineSpec => []AffineInv
BY InitAffineInv, NextAffineInv, PTL DEF AffineSpec

-----------------------------------------------------------------------------
LEMMA AffineInvAgrees == AffineInv => BooksAgree
<1> SUFFICES ASSUME AffineInv PROVE BooksAgree
  OBVIOUS
<1>1. /\ pendingByScene \in [Scenes -> Seq(Jobs)]
      /\ \A s \in Scenes : /\ Distinct(pendingByScene[s])
                           /\ Elements(pendingByScene[s]) = PendingOf(s)
  BY DEF AffineInv, StrategyBooks, DequesHold
<1>2. /\ sceneOrder \in Seq(Scenes) /\ Distinct(sceneOrder)
      /\ PendingScenes = {s \in Scenes : pendingByScene[s] # <<>>}
  BY DEF AffineInv, StrategyBooks, KeysHold, PendingScenes, Elements
<1>3. AffineTypeOK
  BY <1>1, <1>2 DEF AffineInv, SlotInv, StrategyBooks, CountsHold, AffineTypeOK
<1>4. UNION {{pendingByScene[s][i] : i \in 1..Len(pendingByScene[s])} : s \in Scenes} = pending
  <2>1. \A s \in Scenes : {pendingByScene[s][i] : i \in 1..Len(pendingByScene[s])} = PendingOf(s)
    BY <1>1 DEF Elements
  <2>2. \A j \in pending : SceneOf[j] \in Scenes /\ j \in PendingOf(SceneOf[j])
    BY SceneAffineAssumption DEF PendingOf, AffineInv, SlotInv, TypeOK
  <2>3. \A s \in Scenes : PendingOf(s) \subseteq pending
    BY DEF PendingOf
  <2>4. QED
    BY <2>1, <2>2, <2>3
<1>5. ASSUME NEW s \in Scenes, NEW i \in 1..Len(pendingByScene[s])
      PROVE  SceneOf[pendingByScene[s][i]] = s
  <2>1. pendingByScene[s][i] \in PendingOf(s)
    BY <1>1 DEF Elements
  <2>2. QED
    BY <2>1 DEF PendingOf
<1>6. Len(sceneOrder) = Cardinality(PendingScenes)
  <2> DEFINE n == Len(sceneOrder)
  <2>1. n \in Nat /\ sceneOrder \in [1..n -> Scenes]
    BY <1>2, LenProperties
  <2>2. sceneOrder \in Bijection(1..n, PendingScenes)
    BY <1>2, <2>1 DEF Distinct, PendingScenes, Bijection, Injection, Surjection, IsInjective
  <2>3. IsFiniteSet(1..n) /\ Cardinality(1..n) = n
    BY <2>1, FS_Interval
  <2>4. Cardinality(PendingScenes) = Cardinality(1..n)
    BY <2>2, <2>3, FS_Bijection DEF ExistsBijection
  <2>5. QED
    BY <2>3, <2>4
<1>7. \A s \in Scenes : \A i, k \in 1..Len(pendingByScene[s]) :
        pendingByScene[s][i] = pendingByScene[s][k] => i = k
  BY <1>1 DEF Distinct
<1>8. QED
  BY <1>2, <1>3, <1>4, <1>5, <1>6, <1>7
  DEF BooksAgree, AffineInv, StrategyBooks, CountsHold

(* The strategy's books agree with the scheduler's, for every number of      *)
(* jobs, scenes and renderers and whatever the servers report as cached: no  *)
(* job is dropped with its scene's key or left behind under a key that is    *)
(* gone, and no count drifts (scheduler.py SceneAffineDispatch).             *)
THEOREM AffineBooksAgree == AffineSpec => []BooksAgree
BY AffineInvHolds, AffineInvAgrees, PTL

(* The scheduler with this strategy is the scheduler of DaemonScheduler: when *)
(* try_reserve returns nothing, nothing is pending or a pending job is        *)
(* blocked, so what holds for every strategy holds for this one.              *)
THEOREM AffineIsAStrategy == AffineSpec => ImplementsScheduler
<1>1. AffineInit => Init
  BY DEF AffineInit
<1>2. AffineInv /\ [AffineNext]_affineVars => [Next]_vars
  BY AffineStepIsStep
<1>3. QED
  BY <1>1, <1>2, AffineInvHolds, PTL DEF AffineSpec, Spec, ImplementsScheduler

-----------------------------------------------------------------------------
(* A renderer counts as warm for what it caches or is rendering. *)
LEMMA WarmMeansWarm ==
  ASSUME AffineInv, NEW a \in Addresses, NEW s \in Scenes
  PROVE  s \in WarmOn(a) <=> s \in cached[a] \/ RenderingOn(a, s) # {}
<1>1. inflightScenes[a][s] = Cardinality(RenderingOn(a, s))
  BY DEF AffineInv, StrategyBooks, CountsHold
<1>2. Cardinality(RenderingOn(a, s)) = 0 <=> RenderingOn(a, s) = {}
  BY RenderingFinite, FS_EmptySet
<1>3. QED
  BY <1>1, <1>2 DEF WarmOn, InflightOn

(* What a step may not do: start a job on a cold renderer while a free one   *)
(* is warm for a pending scene.                                              *)
WarmStep ==
  \A j \in Jobs :
    inFlight[j] = None /\ inFlight'[j] # None =>
      LET a == AddressOf[inFlight'[j].acquired[Renderer]]
          warm(s, b) == s \in cached[b] \/ RenderingOn(b, s) # {}
      IN  \/ warm(SceneOf[j], a)
          \/ \A i \in pending, b \in FreeAddresses : ~warm(SceneOf[i], b)

LEMMA NextWarmStep ==
  ASSUME AffineInv, [AffineNext]_affineVars
  PROVE  WarmStep
<1> DEFINE warm(s, b) == s \in cached[b] \/ RenderingOn(b, s) # {}
<1>1. ASSUME AffineDispatchStep PROVE WarmStep
  <2>1. PICK res \in Reservations :
          \E acq \in Acquisitions(Head(pendingByScene[res[1]])) :
            AddressOf[acq[Renderer]] = res[2] /\ Dispatch(Head(pendingByScene[res[1]]), acq)
    BY <1>1 DEF AffineDispatchStep
  <2>2. PICK j, acq : /\ j = Head(pendingByScene[res[1]]) /\ AddressOf[acq[Renderer]] = res[2]
                      /\ Dispatch(j, acq)
    BY <2>1
  <2>3. /\ j \in Jobs /\ SceneOf[j] = res[1] /\ res[1] \in Scenes /\ res[2] \in Addresses
        /\ Tier1 # {} => res \in Tier1
    BY <2>2, ReservationOfKey, HeadOfScene
  <2>4. \A k \in Jobs : k # j => inFlight'[k] = inFlight[k]
    BY <2>2 DEF Dispatch, AffineInv, SlotInv, TypeOK
  <2>5. AddressOf[inFlight'[j].acquired[Renderer]] = res[2]
    <3>1. inFlight'[j] = [pools |-> PoolsOf(j), acquired |-> acq]
      BY <2>2, <2>3 DEF Dispatch, AffineInv, SlotInv, TypeOK
    <3>2. QED
      BY <2>2, <3>1
  <2>6. CASE Tier1 # {}
    <3>1. res[1] \in WarmOn(res[2])
      BY <2>3, <2>6 DEF Tier1
    <3>2. warm(SceneOf[j], res[2])
      BY <2>3, <3>1, WarmMeansWarm
    <3>3. QED
      BY <2>4, <2>5, <3>2 DEF WarmStep
  <2>7. CASE Tier1 = {}
    <3>1. ASSUME NEW i \in pending, NEW b \in FreeAddresses PROVE ~warm(SceneOf[i], b)
      <4>1. SceneOf[i] \in PendingScenes /\ SceneOf[i] \in Scenes /\ b \in Addresses
        BY SceneIsKey, FreeAddressesKnown, HeadOfScene
      <4>2. <<SceneOf[i], b>> \in PendingScenes \X FreeAddresses
        BY <4>1
      <4>3. SceneOf[i] \notin WarmOn(b)
        BY <2>7, <4>2 DEF Tier1
      <4>4. QED
        BY <4>1, <4>3, WarmMeansWarm
    <3>2. QED
      BY <2>4, <3>1 DEF WarmStep
  <2>8. QED
    BY <2>6, <2>7
<1>2. ASSUME NEW r \in Requests, AffineSubmit(r) PROVE inFlight' = inFlight
  BY <1>2 DEF AffineSubmit, Submit
<1>3. ASSUME AffineDispatchEnds PROVE inFlight' = inFlight
  BY <1>3 DEF AffineDispatchEnds, DispatchReturns, PumpReturns, SubmitReturns, schedVars
<1>4. ASSUME AffinePumpResult PROVE \A j \in Jobs : inFlight[j] = None => inFlight'[j] = None
  BY <1>4
  DEF AffinePumpResult, PumpResult, ProcessResult, ResultFails, ReleaseEntry, schedVars,
      AffineInv, SlotInv, TypeOK
<1>5. ASSUME AffineShutdown PROVE inFlight' = inFlight
  BY <1>5 DEF AffineShutdown, ShutdownScheduler
<1>6. ASSUME NEW a, SyncSceneCache(a) PROVE inFlight' = inFlight
  BY <1>6 DEF SyncSceneCache, vars, schedVars
<1>7. ASSUME OtherStep PROVE inFlight' = inFlight
  BY <1>7
  DEF OtherStep, Refuse, Wake, Disconnect, Abandon, ThreadPolls, PumpTimeout, CrashWorker,
      TakeJob, FinishJob, RequestShutdown, GraceExpires, ServerStops, StopWorkers, schedVars
<1>8. ASSUME UNCHANGED affineVars PROVE inFlight' = inFlight
  BY <1>8 DEF affineVars, vars, schedVars
<1>9. AffineDispatchStep \/ \A j \in Jobs : inFlight[j] = None => inFlight'[j] = None
  BY <1>2, <1>3, <1>4, <1>5, <1>6, <1>7, <1>8 DEF AffineNext
<1>10. CASE \A j \in Jobs : inFlight[j] = None => inFlight'[j] = None
  BY <1>10 DEF WarmStep
<1>11. QED
  BY <1>1, <1>9, <1>10

(* A job is never started on a cold renderer while a free renderer is warm   *)
(* for some pending scene, whatever has been cached, dispatched and finished *)
(* before (scheduler.py, "Tier 1 -- Affine: pick a job whose scene is        *)
(* already cached").                                                         *)
THEOREM WarmRenderersFirst == AffineSpec => WarmBeforeCold
<1>1. AffineInv /\ [AffineNext]_affineVars => [WarmStep]_affineVars
  BY NextWarmStep
<1>2. AffineSpec => [][WarmStep]_affineVars
  BY <1>1, AffineInvHolds, PTL DEF AffineSpec
<1>3. QED
  BY <1>2 DEF WarmBeforeCold, WarmStep
=============================================================================
