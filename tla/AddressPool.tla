---------------------------- MODULE AddressPool -----------------------------
(***************************************************************************)
(* address_pool.py: the deques of service slots the scheduler takes from   *)
(* and returns to, and the sizes runtime_context.py derives from them.     *)
(* dispatch_once pre-acquires a renderer slot (try_acquire_for_address)    *)
(* and calls try_acquire_all without giving way to another coroutine, so   *)
(* one attempt is one step.                                                *)
(***************************************************************************)
EXTENDS Integers, Sequences, FiniteSets, SequencesExt, FiniteSetsExt

CONSTANTS
  Pools, SkipPools, Addresses, SkipSlot, Tickets, PoolsOf, None,
  RendererPool,   \* the pool a renderer slot may be pre-acquired from
  RequiredPools,  \* the shared pools of the core services
  AddressList,    \* per pool, the configured addresses in order
  NConcurrent,    \* per pool, n_concurrent_rollouts
  NrWorkers,      \* worker processes
  PerWorkerCap    \* ALL_SKIP_PER_WORKER_CONCURRENCY

ASSUME PoolAssumption ==
  /\ SkipPools \subseteq Pools /\ RequiredPools \subseteq Pools
  /\ RendererPool \in RequiredPools /\ SkipSlot \notin Addresses
  /\ AddressList \in [Pools -> Seq(Addresses)]
  /\ NConcurrent \in [Pools -> Nat \ {0}]
  /\ \A p \in Pools \ SkipPools : AddressList[p] # <<>>
  /\ PoolsOf \in [Tickets -> Seq(Pools)]
  /\ NrWorkers \in Nat \ {0} /\ PerWorkerCap \in Nat \ {0}
  /\ None \notin Addresses
  /\ \A t \in Tickets :
       None \notin [{PoolsOf[t][i] : i \in 1..Len(PoolsOf[t])} -> Addresses \cup {SkipSlot}]

VARIABLES
  slots,   \* AddressPool._slots, left end first
  held     \* the scheduler's in-flight entries: acquired slots per ticket

poolVars == <<slots, held>>

\* How often address a occurs in the sequence s.
Count(s, a) == Cardinality({i \in 1..Len(s) : s[i] = a})

\* total_capacity of a pool; skip pools have none.
TotalCapacity(p) == Len(AddressList[p]) * NConcurrent[p]

\* The deque a pool starts with: n_concurrent slots of every address, in order.
InitialSlots(p) ==
  IF p \in SkipPools THEN <<>>
  ELSE [i \in 1..TotalCapacity(p) |-> AddressList[p][(i - 1) \div NConcurrent[p] + 1]]

Capacity == [p \in Pools |-> [a \in Addresses |-> Count(InitialSlots(p), a)]]

L == INSTANCE SlotLedger WITH
       free <- [p \in Pools |-> [a \in Addresses |-> Count(slots[p], a)]]

PoolTypeOK ==
  /\ slots \in [Pools -> Seq(Addresses)]
  /\ \A t \in Tickets :
       \/ held[t] = None
       \/ held[t] \in [L!Names(t) -> Addresses \cup {SkipSlot}]

PoolInit ==
  /\ slots = [p \in Pools |-> InitialSlots(p)]
  /\ held = [t \in Tickets |-> None]

\* try_acquire succeeds on a pool.
Available(p) == p \in SkipPools \/ slots[p] # <<>>

\* The renderer slots a strategy may pre-acquire: none (FIFO), or the first
\* free slot of some address.
PreAcquired(t) ==
  {None} \cup (IF RendererPool \in SkipPools \/ RendererPool \notin L!Names(t) THEN {}
               ELSE {slots[RendererPool][i] : i \in 1..Len(slots[RendererPool])})

\* A deque without the first slot of address a.
Without(s, a) == RemoveAt(s, SelectInSeq(s, LAMBDA x : x = a))

\* The deque of p once its slot has been taken.
AfterTake(p, pre) ==
  IF p \in SkipPools THEN slots[p]
  ELSE IF pre # None /\ p = RendererPool THEN Without(slots[p], pre)
  ELSE Tail(slots[p])

\* The slot taken of p.
SlotOf(p, pre) ==
  IF p \in SkipPools THEN SkipSlot
  ELSE IF pre # None /\ p = RendererPool THEN pre
  ELSE Head(slots[p])

\* Every pool has a slot: the ticket gets one of each.
Acquire(t) ==
  /\ held[t] = None
  /\ \A p \in L!Names(t) : Available(p)
  /\ \E pre \in PreAcquired(t) :
       /\ held' = [held EXCEPT ![t] = [p \in L!Names(t) |-> SlotOf(p, pre)]]
       /\ slots' = [p \in Pools |-> IF p \in L!Names(t) THEN AfterTake(p, pre)
                                    ELSE slots[p]]

\* The pools visited before the first one without a slot, and the renderer's
\* when it was pre-acquired.
TakenBeforeFailure(t, pre) ==
  LET first == Min({i \in 1..Len(PoolsOf[t]) : ~Available(PoolsOf[t][i])})
  IN  {PoolsOf[t][i] : i \in 1..(first - 1)} \cup (IF pre = None THEN {} ELSE {RendererPool})

\* Mutant: the rollback forgets the pre-acquired renderer slot.
RollBackVisited(t) ==
  /\ held[t] = None
  /\ \E pre \in PreAcquired(t) :
       /\ \E p \in L!Names(t) : ~Available(p)
       /\ slots' = [p \in Pools |->
            IF p \in TakenBeforeFailure(t, pre) \ SkipPools
            THEN IF pre # None /\ p = RendererPool THEN AfterTake(p, pre)
                 ELSE Append(AfterTake(p, pre), SlotOf(p, pre))
            ELSE slots[p]]
  /\ UNCHANGED held

\* Some pool has none: what was taken is appended again, which turns the
\* deques of the pools visited so far.
RollBack(t) ==
  /\ held[t] = None
  /\ \E pre \in PreAcquired(t) :
       /\ \E p \in L!Names(t) : ~Available(p)
       /\ slots' = [p \in Pools |->
            IF p \in TakenBeforeFailure(t, pre) \ SkipPools
            THEN Append(AfterTake(p, pre), SlotOf(p, pre))
            ELSE slots[p]]
  /\ UNCHANGED held

\* release_all with the pools the slots were taken from.
Release(t) ==
  /\ held[t] # None
  /\ held' = [held EXCEPT ![t] = None]
  /\ slots' = [p \in Pools |-> IF p \in DOMAIN held[t] \ SkipPools
                               THEN Append(slots[p], held[t][p]) ELSE slots[p]]

PoolNext == \E t \in Tickets : Acquire(t) \/ RollBack(t) \/ Release(t)

PoolSpec == PoolInit /\ [][PoolNext]_poolVars

InFlight == {t \in Tickets : held[t] # None}

Limiting == RequiredPools \ SkipPools

\* compute_max_in_flight.
MaxInFlight ==
  IF Limiting # {} THEN Min({TotalCapacity(p) : p \in Limiting})
  ELSE NrWorkers * PerWorkerCap

\* Mutant: the division rounds down.
ConsumersRoundedDown == MaxInFlight \div NrWorkers

\* compute_num_consumers_per_worker, without a job count.
ConsumersPerWorker == (MaxInFlight + NrWorkers - 1) \div NrWorkers

(* max_in_flight is what the pools allow: while all jobs run on the shared   *)
(* pools, below it an attempt cannot fail, whatever was rolled back before,  *)
(* and the workers together have a consumer for every job that holds slots,  *)
(* so none waits in the job queue with slots.  (Jobs that bring a driver of  *)
(* their own are not counted by max_in_flight, and when every service is     *)
(* skipped nothing enforces it.)                                             *)
LimitsAgree ==
  /\ PoolTypeOK
  /\ Limiting # {} /\ (\A t \in InFlight : L!Names(t) = RequiredPools) =>
       /\ Cardinality(InFlight) < MaxInFlight <=> \A p \in RequiredPools : Available(p)
       /\ Cardinality(InFlight) <= NrWorkers * ConsumersPerWorker

(* Deques, partial acquisition and rollback implement the ledger: an attempt *)
(* takes one slot of every pool or changes no count.                         *)
ImplementsLedger == L!LedgerSpec

(* The ledger is kept (only a step of the pools can be one of the ledger),   *)
(* and after each step max_in_flight is what the pools allow.                *)
LedgerKept ==
  /\ L!LedgerInit /\ [][poolVars' # poolVars /\ L!LedgerNext]_(L!ledger)
  /\ [][LimitsAgree']_poolVars
=============================================================================
