----------------------------- MODULE SlotLedger -----------------------------
(***************************************************************************)
(* What the address pools promise to the scheduler: a ledger of how many   *)
(* slots of every address are free, from which a ticket takes one slot of  *)
(* every pool it names, or none, and gives them back later.                *)
(***************************************************************************)
EXTENDS Integers, Sequences

CONSTANTS
  Pools,         \* the pools of services, shared or of one request
  SkipPools,     \* the pools of services that are skipped
  Addresses,     \* endpoint addresses
  SkipSlot,      \* the synthetic slot of a skip pool
  Tickets,       \* jobs that hold slots while they run
  PoolsOf,       \* per ticket, its pools in the order of the dictionary
  None,          \* a ticket without slots
  Capacity       \* per pool and address, the configured number of slots

VARIABLES
  free,   \* per pool and address, the number of free slots
  held    \* per ticket, the address it has of each of its pools, or None

ledger == <<free, held>>

\* The pools a ticket names.
Names(t) == {PoolsOf[t][i] : i \in 1..Len(PoolsOf[t])}

LedgerInit ==
  /\ free = Capacity
  /\ held = [t \in Tickets |-> None]

\* The slots a ticket may be given: a free address of every pool it names.
Grants(t) ==
  {g \in [Names(t) -> Addresses \cup {SkipSlot}] :
     \A p \in Names(t) : IF p \in SkipPools THEN g[p] = SkipSlot
                         ELSE g[p] \in Addresses /\ free[p][g[p]] > 0}

\* How many slots of address a of pool p the grant g takes.
Part(g, p, a) == IF p \in DOMAIN g /\ g[p] = a THEN 1 ELSE 0

\* try_acquire_all, seen from outside: one slot of every pool at once.
Take(t) ==
  /\ held[t] = None
  /\ \E g \in Grants(t) :
       /\ held' = [held EXCEPT ![t] = g]
       /\ free' = [p \in Pools |-> [a \in Addresses |-> free[p][a] - Part(g, p, a)]]

\* release_all: the slots of the ticket are free again.
GiveBack(t) ==
  /\ held[t] # None
  /\ held' = [held EXCEPT ![t] = None]
  /\ free' = [p \in Pools |-> [a \in Addresses |-> free[p][a] + Part(held[t], p, a)]]

LedgerNext == \E t \in Tickets : Take(t) \/ GiveBack(t)

LedgerSpec == LedgerInit /\ [][LedgerNext]_ledger
=============================================================================
