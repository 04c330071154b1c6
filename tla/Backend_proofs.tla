--------------------------- MODULE Backend_proofs ---------------------------
(***************************************************************************)
(* Proofs about what surrounds a job of the scheduler: the address pools,  *)
(* the command line that resumes, and the parts of a worker.  Each section *)
(* is about one module and uses no other's variables.                      *)
(***************************************************************************)
EXTENDS AddressPool, Autoresume, SceneMaps, DaemonStartup, RenderSession, SceneSets, Aggregation, Evaluation,
        Deployment, FiniteSetTheorems, SequenceTheorems, NaturalsInduction, WellFoundedInduction, TLAPS
----------------------------------------------------------------------------
(* The address pools (AddressPool)                                           *)

(* The jobs that hold a slot of a pool. *)
Holders(p) == {t \in Tickets : held[t] # None /\ p \in L!Names(t)}

(* A limited pool has its slots, in the deque or with the jobs. *)
SlotsAccounted ==
  \A p \in Pools \ SkipPools :
    /\ IsFiniteSet(Holders(p))
    /\ Len(slots[p]) + Cardinality(Holders(p)) = TotalCapacity(p)

ByTicket == held = [t \in Tickets |-> held[t]]

(* The synthetic slot is held of skip pools, and of no other. *)
SkipsHeld ==
  \A t \in Tickets : held[t] # None =>
    \A p \in L!Names(t) : IF p \in SkipPools THEN held[t][p] = SkipSlot ELSE held[t][p] \in Addresses

PoolInv == PoolTypeOK /\ ByTicket /\ SkipsHeld /\ SlotsAccounted

LEMMA ListOf ==
  ASSUME NEW S, NEW n \in Nat, NEW f \in [1..n -> S]
  PROVE  f \in Seq(S) /\ Len(f) = n
<1>1. f \in Seq(S)
  BY SeqDef
<1>2. DOMAIN f = 1..n /\ DOMAIN f = 1..Len(f) /\ Len(f) \in Nat
  BY <1>1, LenProperties
<1>3. QED
  BY <1>1, <1>2

LEMMA LeastOf ==
  ASSUME NEW P \in SUBSET Nat, P # {}
  PROVE  Min(P) \in P /\ \A k \in P : Min(P) <= k
<1> DEFINE R == OpToRel(<, Nat)
<1>0. P \subseteq Nat
  OBVIOUS
<1>1. IsWellFoundedOn(R, Nat)
  BY NatLessThanWellFounded
<1>2. PICK i \in P : \A k \in P : ~(<<k, i>> \in R)
  BY <1>0, <1>1, WFMin
<1>3. \A k \in P : ~(k < i)
  BY <1>0, <1>2 DEF OpToRel
<1>4. \A k \in P : i <= k
  BY <1>0, <1>3
<1>5. QED
  BY <1>4 DEF Min

LEMMA QuotientInRange ==
  ASSUME NEW n \in Nat, NEW c \in Nat \ {0}, NEW i \in 1..(n * c)
  PROVE  (i - 1) \div c + 1 \in 1..n
<1> DEFINE q == (i - 1) \div c
<1>1. q \in Int /\ c * q <= i - 1 /\ 0 <= q
  OBVIOUS
<1>2. i - 1 < n * c
  OBVIOUS
<1>3. ASSUME n <= q
      PROVE  FALSE
  <2>1. c * n <= c * q
    BY <1>1, <1>3
  <2>2. QED
    BY <1>1, <1>2, <2>1
<1> HIDE DEF q
<1>4. q + 1 \in 1..n
  BY <1>1, <1>3
<1>5. QED
  BY <1>4 DEF q

LEMMA InitialDeque ==
  ASSUME NEW p \in Pools
  PROVE  /\ InitialSlots(p) \in Seq(Addresses)
         /\ p \notin SkipPools => Len(InitialSlots(p)) = TotalCapacity(p)
<1> DEFINE n == Len(AddressList[p])
           c == NConcurrent[p]
<1>1. n \in Nat /\ c \in Nat \ {0} /\ \A i \in 1..n : AddressList[p][i] \in Addresses
  BY PoolAssumption
<1>2. n * c \in Nat
  BY <1>1
<1>3. \A i \in 1..(n * c) : (i - 1) \div c + 1 \in 1..n
  BY <1>1, QuotientInRange
<1>4. [i \in 1..(n * c) |-> AddressList[p][(i - 1) \div c + 1]] \in [1..(n * c) -> Addresses]
  BY <1>1, <1>3
<1>5. CASE p \in SkipPools
  BY <1>5 DEF InitialSlots
<1>6. CASE p \notin SkipPools
  BY <1>2, <1>4, <1>6, ListOf DEF InitialSlots, TotalCapacity
<1>7. QED
  BY <1>5, <1>6

(* A list counts each of its elements. *)
LEMMA CountType ==
  ASSUME NEW S, NEW s \in Seq(S), NEW a
  PROVE  /\ IsFiniteSet({i \in 1..Len(s) : s[i] = a}) /\ Count(s, a) \in Nat
         /\ \A i \in 1..Len(s) : s[i] = a => Count(s, a) > 0
<1> DEFINE P == {i \in 1..Len(s) : s[i] = a}
<1>1. Len(s) \in Nat /\ P \subseteq 1..Len(s)
  BY LenProperties
<1>2. Count(s, a) = Cardinality(P) /\ \A i \in 1..Len(s) : s[i] = a => i \in P
  BY DEF Count
<1>3. IsFiniteSet(P) /\ Count(s, a) \in Nat /\ (P # {} => Count(s, a) > 0)
  <2>1. IsFiniteSet(1..Len(s))
    BY <1>1, FS_Interval
  <2> HIDE DEF P
  <2>2. IsFiniteSet(P)
    BY <1>1, <2>1, FS_Subset
  <2>3. Cardinality(P) \in Nat /\ (Cardinality(P) = 0 <=> P = {})
    BY <2>2, FS_CardinalityType, FS_EmptySet
  <2>4. QED
    BY <1>2, <2>2, <2>3
<1>4. QED
  BY <1>2, <1>3

LEMMA AppendCount ==
  ASSUME NEW S, NEW s \in Seq(S), NEW b \in S, NEW a
  PROVE  Count(Append(s, b), a) = Count(s, a) + (IF b = a THEN 1 ELSE 0)
<1> DEFINE r == Append(s, b)
           P == {i \in 1..Len(s) : s[i] = a}
           Q == {i \in 1..Len(r) : r[i] = a}
<1>1. /\ Len(s) \in Nat /\ Len(r) = Len(s) + 1 /\ r[Len(s) + 1] = b
      /\ \A i \in 1..Len(s) : r[i] = s[i]
  BY AppendProperties, LenProperties
<1>2. IsFiniteSet(P) /\ Cardinality(P) \in Nat
  BY CountType, FS_CardinalityType
<1> HIDE DEF r
<1>3. Q = IF b = a THEN P \cup {Len(s) + 1} ELSE P
  BY <1>1
<1>4. Len(s) + 1 \notin P
  BY <1>1
<1>5. Count(s, a) = Cardinality(P) /\ Count(r, a) = Cardinality(Q)
  BY DEF Count
<1> HIDE DEF P, Q
<1>6. Cardinality(Q) = Cardinality(P) + (IF b = a THEN 1 ELSE 0)
  <2> DEFINE n == Len(s) + 1
  <2>1. n \notin P /\ Q = IF b = a THEN P \cup {n} ELSE P
    BY <1>3, <1>4
  <2> HIDE DEF n
  <2>2. Cardinality(P \cup {n}) = Cardinality(P) + 1
    BY <1>2, <2>1, FS_AddElement
  <2>3. QED
    BY <1>2, <2>1, <2>2
<1>7. QED
  BY <1>5, <1>6 DEF r

(* A list without its i-th element. *)
IsWithout(r, s, i) ==
  /\ Len(r) = Len(s) - 1
  /\ \A k \in 1..Len(r) : r[k] = s[IF k < i THEN k ELSE k + 1]

LEMMA RemovedCount ==
  ASSUME NEW S, NEW s \in Seq(S), NEW r \in Seq(S), NEW i \in 1..Len(s),
         IsWithout(r, s, i), NEW a
  PROVE  Count(r, a) = Count(s, a) - (IF s[i] = a THEN 1 ELSE 0)
<1> DEFINE P == {k \in 1..Len(s) : s[k] = a}
           Q == {k \in 1..Len(r) : r[k] = a}
           shift(k) == IF k < i THEN k ELSE k + 1
           f == [k \in Q |-> shift(k)]
<1>1. /\ Len(s) \in Nat /\ Len(r) \in Nat /\ i \in Nat /\ i <= Len(s) /\ Len(r) = Len(s) - 1
      /\ \A k \in 1..Len(r) : r[k] = s[shift(k)]
  BY LenProperties DEF IsWithout
<1>2. IsFiniteSet(P) /\ IsFiniteSet(Q) /\ Cardinality(P) \in Nat
  BY CountType, FS_CardinalityType
<1>3. \A k \in Q : shift(k) \in P \ {i}
  BY <1>1
<1>4. \A k, m \in Q : shift(k) = shift(m) => k = m
  BY <1>1
<1>5. \A m \in P \ {i} : \E k \in Q : shift(k) = m
  <2> SUFFICES ASSUME NEW m \in P \ {i}
               PROVE  \E k \in Q : shift(k) = m
    OBVIOUS
  <2>1. CASE m < i
    BY <1>1, <2>1
  <2>2. CASE m > i
    <3>1. m - 1 \in 1..Len(r) /\ shift(m - 1) = m
      BY <1>1, <2>2
    <3>2. r[m - 1] = s[m]
      BY <1>1, <3>1
    <3>3. QED
      BY <3>1, <3>2
  <2>3. QED
    BY <1>1, <2>1, <2>2
<1>6. f \in Bijection(Q, P \ {i})
  BY <1>3, <1>4, <1>5 DEF Bijection, Injection, Surjection, IsInjective
<1>7. Count(s, a) = Cardinality(P) /\ Count(r, a) = Cardinality(Q) /\ (i \in P <=> s[i] = a)
  BY DEF Count
<1> HIDE DEF f, P, Q
<1>8. Cardinality(P \ {i}) = Cardinality(Q)
  BY <1>2, <1>6, FS_Bijection DEF ExistsBijection
<1>9. Cardinality(P \ {i}) = Cardinality(P) - (IF s[i] = a THEN 1 ELSE 0)
  <2>1. Cardinality(P \ {i}) = IF i \in P THEN Cardinality(P) - 1 ELSE Cardinality(P)
    BY <1>2, FS_RemoveElement
  <2>2. QED
    BY <1>2, <1>7, <2>1
<1>10. QED
  BY <1>7, <1>8, <1>9

LEMMA TailIsWithout ==
  ASSUME NEW S, NEW s \in Seq(S), s # <<>>
  PROVE  /\ Tail(s) \in Seq(S) /\ IsWithout(Tail(s), s, 1) /\ 1 \in 1..Len(s)
         /\ Head(s) \in S /\ Head(s) = s[1]
<1>1. /\ Tail(s) \in Seq(S) /\ Len(Tail(s)) = Len(s) - 1 /\ Len(s) \in Nat /\ Len(s) > 0
      /\ Head(s) = s[1] /\ Head(s) \in S
      /\ \A k \in 1..Len(Tail(s)) : Tail(s)[k] = s[k + 1]
  BY HeadTailProperties, LenProperties, EmptySeq
<1>2. 1 \in 1..Len(s) /\ \A k \in 1..Len(Tail(s)) : ~(k < 1)
  BY <1>1
<1>3. \A k \in 1..Len(Tail(s)) : Tail(s)[k] = s[IF k < 1 THEN k ELSE k + 1]
  BY <1>1, <1>2
<1>4. QED
  BY <1>1, <1>2, <1>3 DEF IsWithout

LEMMA TailCount ==
  ASSUME NEW S, NEW s \in Seq(S), s # <<>>
  PROVE  /\ Tail(s) \in Seq(S) /\ Len(Tail(s)) = Len(s) - 1
         /\ Head(s) \in S /\ Count(s, Head(s)) > 0
         /\ \A a : Count(Tail(s), a) = Count(s, a) - (IF Head(s) = a THEN 1 ELSE 0)
<1> DEFINE r == Tail(s)
<1>1. r \in Seq(S) /\ IsWithout(r, s, 1) /\ 1 \in 1..Len(s) /\ Head(s) \in S /\ Head(s) = s[1]
  BY TailIsWithout
<1> HIDE DEF r
<1>2. \A a : Count(r, a) = Count(s, a) - (IF s[1] = a THEN 1 ELSE 0)
  BY <1>1, RemovedCount
<1>3. Count(s, s[1]) > 0
  BY <1>1, CountType
<1>4. QED
  BY <1>1, <1>2, <1>3 DEF r, IsWithout

LEMMA RemoveIsWithout ==
  ASSUME NEW S, NEW s \in Seq(S), NEW i \in 1..Len(s)
  PROVE  RemoveAt(s, i) \in Seq(S) /\ IsWithout(RemoveAt(s, i), s, i)
<1>1. Len(s) \in Nat
  BY LenProperties
<1> DEFINE u == SubSeq(s, 1, i - 1)
           v == SubSeq(s, i + 1, Len(s))
<1>2. /\ u \in Seq(S) /\ Len(u) = i - 1 /\ \A k \in 1..(i - 1) : u[k] = s[k]
  BY <1>1, SubSeqProperties
<1>3. /\ v \in Seq(S) /\ Len(v) = Len(s) - i /\ \A k \in 1..(Len(s) - i) : v[k] = s[i + k]
  <2>1. /\ v \in Seq(S)
        /\ Len(v) = IF i + 1 <= Len(s) THEN Len(s) - (i + 1) + 1 ELSE 0
        /\ \A k \in 1..(Len(s) - (i + 1) + 1) : v[k] = s[i + 1 + k - 1]
    BY <1>1, SubSeqProperties
  <2>2. QED
    BY <1>1, <2>1
<1> HIDE DEF u, v
<1> DEFINE r == u \o v
<1>4. /\ r \in Seq(S) /\ Len(r) = Len(s) - 1
      /\ \A k \in 1..Len(r) : r[k] = IF k <= i - 1 THEN u[k] ELSE v[k - (i - 1)]
  <2>1. /\ r \in Seq(S) /\ Len(r) = Len(u) + Len(v)
        /\ \A k \in 1..Len(u) + Len(v) : r[k] = IF k <= Len(u) THEN u[k] ELSE v[k - Len(u)]
    BY <1>2, <1>3, ConcatProperties
  <2> HIDE DEF r
  <2>2. Len(u) = i - 1 /\ Len(u) + Len(v) = Len(s) - 1
    BY <1>1, <1>2, <1>3
  <2>3. QED
    BY <2>1, <2>2
<1>5. RemoveAt(s, i) = r
  BY DEF RemoveAt, u, v
<1> HIDE DEF r
<1>6. \A k \in 1..Len(r) : r[k] = s[IF k < i THEN k ELSE k + 1]
  <2> SUFFICES ASSUME NEW k \in 1..Len(r)
               PROVE  r[k] = s[IF k < i THEN k ELSE k + 1]
    OBVIOUS
  <2>1. CASE k < i
    <3>1. k \in 1..(i - 1) /\ k <= i - 1
      BY <1>1, <2>1
    <3>2. r[k] = u[k] /\ u[k] = s[k]
      BY <1>2, <1>4, <3>1
    <3>3. QED
      BY <2>1, <3>2
  <2>2. CASE ~(k < i)
    <3>1. k - (i - 1) \in 1..(Len(s) - i) /\ i + (k - (i - 1)) = k + 1 /\ ~(k <= i - 1)
      BY <1>1, <1>4, <2>2
    <3>2. r[k] = v[k - (i - 1)] /\ v[k - (i - 1)] = s[k + 1]
      BY <1>3, <1>4, <3>1
    <3>3. QED
      BY <2>2, <3>2
  <2>3. QED
    BY <2>1, <2>2
<1>7. QED
  BY <1>4, <1>5, <1>6 DEF IsWithout

(* try_acquire_for_address takes one slot of the address. *)
LEMMA WithoutCount ==
  ASSUME NEW S, NEW s \in Seq(S), NEW b, \E i \in 1..Len(s) : s[i] = b
  PROVE  /\ Without(s, b) \in Seq(S) /\ Len(Without(s, b)) = Len(s) - 1
         /\ b \in S /\ Count(s, b) > 0
         /\ \A a : Count(Without(s, b), a) = Count(s, a) - (IF b = a THEN 1 ELSE 0)
<1> DEFINE P == {i \in 1..Len(s) : s[i] = b}
<1>1. Len(s) \in Nat /\ \A k \in 1..Len(s) : s[k] \in S
  BY LenProperties, ElementOfSeq
<1>2. PICK i : i = Min(P)
  OBVIOUS
<1>3. i \in 1..Len(s) /\ s[i] = b
  <2>1. P \in SUBSET Nat /\ P # {} /\ \A k \in P : k \in 1..Len(s) /\ s[k] = b
    OBVIOUS
  <2> HIDE DEF P
  <2>2. i \in P
    BY <1>2, <2>1, LeastOf
  <2>3. QED
    BY <2>1, <2>2
<1>4. Without(s, b) = RemoveAt(s, i)
  <2>1. SelectInSeq(s, LAMBDA x : x = b) = i
    BY <1>2 DEF SelectInSeq
  <2>2. QED
    BY <2>1 DEF Without
<1> DEFINE r == RemoveAt(s, i)
<1>5. r \in Seq(S) /\ IsWithout(r, s, i)
  BY <1>3, RemoveIsWithout
<1> HIDE DEF r, P
<1>6. \A a : Count(r, a) = Count(s, a) - (IF s[i] = a THEN 1 ELSE 0)
  BY <1>3, <1>5, RemovedCount
<1>7. Count(s, b) > 0
  BY <1>3, CountType
<1>8. QED
  BY <1>1, <1>3, <1>4, <1>5, <1>6, <1>7 DEF r, IsWithout

LEMMA TicketNames ==
  ASSUME NEW t \in Tickets
  PROVE  /\ Len(PoolsOf[t]) \in Nat /\ \A i \in 1..Len(PoolsOf[t]) : PoolsOf[t][i] \in Pools
         /\ L!Names(t) \subseteq Pools /\ None \notin [L!Names(t) -> Addresses \cup {SkipSlot}]
<1>1. PoolsOf[t] \in Seq(Pools)
  BY PoolAssumption
<1>2. L!Names(t) = {PoolsOf[t][i] : i \in 1..Len(PoolsOf[t])}
  BY DEF L!Names
<1>3. Len(PoolsOf[t]) \in Nat /\ \A i \in 1..Len(PoolsOf[t]) : PoolsOf[t][i] \in Pools
  BY <1>1, LenProperties, ElementOfSeq
<1>4. None \notin [L!Names(t) -> Addresses \cup {SkipSlot}]
  BY <1>2, PoolAssumption
<1>5. QED
  BY <1>2, <1>3, <1>4

(* What a ticket takes of a pool that has a slot. *)
LEMMA SlotTaken ==
  ASSUME PoolTypeOK, NEW t \in Tickets, NEW pre \in PreAcquired(t), NEW p \in Pools, Available(p)
  PROVE  /\ p \in SkipPools => AfterTake(p, pre) = slots[p] /\ SlotOf(p, pre) = SkipSlot
         /\ p \notin SkipPools =>
              /\ SlotOf(p, pre) \in Addresses /\ AfterTake(p, pre) \in Seq(Addresses)
              /\ Len(AfterTake(p, pre)) = Len(slots[p]) - 1
              /\ Count(slots[p], SlotOf(p, pre)) > 0
              /\ \A a : Count(AfterTake(p, pre), a) =
                          Count(slots[p], a) - (IF SlotOf(p, pre) = a THEN 1 ELSE 0)
<1>1. slots[p] \in Seq(Addresses)
  BY DEF PoolTypeOK
<1>2. CASE p \in SkipPools
  BY <1>2 DEF AfterTake, SlotOf
<1>3. CASE p \notin SkipPools /\ pre # None /\ p = RendererPool
  <2>1. \E i \in 1..Len(slots[p]) : slots[p][i] = pre
    BY <1>3 DEF PreAcquired
  <2>2. AfterTake(p, pre) = Without(slots[p], pre) /\ SlotOf(p, pre) = pre
    BY <1>3 DEF AfterTake, SlotOf
  <2>3. QED
    BY <1>1, <1>3, <2>1, <2>2, WithoutCount
<1>4. CASE p \notin SkipPools /\ ~(pre # None /\ p = RendererPool)
  <2>1. slots[p] # <<>>
    BY <1>4 DEF Available
  <2>2. AfterTake(p, pre) = Tail(slots[p]) /\ SlotOf(p, pre) = Head(slots[p])
    BY <1>4 DEF AfterTake, SlotOf
  <2>3. QED
    BY <1>1, <1>4, <2>1, <2>2, TailCount
<1>5. QED
  BY <1>2, <1>3, <1>4

LEMMA HolderComes ==
  ASSUME NEW t \in Tickets, held[t] = None, ByTicket,
         NEW g \in [L!Names(t) -> Addresses \cup {SkipSlot}], held' = [held EXCEPT ![t] = g],
         NEW p, IsFiniteSet(Holders(p))
  PROVE  /\ IsFiniteSet(Holders(p)')
         /\ Cardinality(Holders(p)') = Cardinality(Holders(p)) + (IF p \in L!Names(t) THEN 1 ELSE 0)
<1>1. g # None
  BY TicketNames
<1>2. held'[t] = g /\ \A x \in Tickets \ {t} : held'[x] = held[x]
  BY DEF ByTicket
<1>3. t \notin Holders(p) /\ Holders(p)' = IF p \in L!Names(t) THEN Holders(p) \cup {t} ELSE Holders(p)
  BY <1>1, <1>2 DEF Holders
<1> HIDE DEF Holders
<1>4. IsFiniteSet(Holders(p) \cup {t}) /\ Cardinality(Holders(p) \cup {t}) = Cardinality(Holders(p)) + 1
  BY <1>3, FS_AddElement
<1>5. Cardinality(Holders(p)) \in Nat
  BY FS_CardinalityType
<1>6. QED
  BY <1>3, <1>4, <1>5

LEMMA HolderGoes ==
  ASSUME NEW t \in Tickets, held[t] # None, ByTicket, held' = [held EXCEPT ![t] = None],
         NEW p, IsFiniteSet(Holders(p))
  PROVE  /\ IsFiniteSet(Holders(p)')
         /\ Cardinality(Holders(p)') = Cardinality(Holders(p)) - (IF p \in L!Names(t) THEN 1 ELSE 0)
<1>1. held'[t] = None /\ \A x \in Tickets \ {t} : held'[x] = held[x]
  BY DEF ByTicket
<1>2. Holders(p)' = Holders(p) \ {t} /\ (t \in Holders(p) <=> p \in L!Names(t))
  BY <1>1 DEF Holders
<1>3. IsFiniteSet(Holders(p) \ {t})
      /\ Cardinality(Holders(p) \ {t}) = IF t \in Holders(p) THEN Cardinality(Holders(p)) - 1
                                         ELSE Cardinality(Holders(p))
  BY FS_RemoveElement
<1>4. Cardinality(Holders(p)) \in Nat
  BY FS_CardinalityType
<1>5. QED
  BY <1>2, <1>3, <1>4

LEMMA AcquireStep ==
  ASSUME PoolInv, NEW t \in Tickets, Acquire(t)
  PROVE  PoolInv' /\ L!Take(t)
<1>1. PICK pre \in PreAcquired(t) :
        /\ held' = [held EXCEPT ![t] = [p \in L!Names(t) |-> SlotOf(p, pre)]]
        /\ slots' = [p \in Pools |-> IF p \in L!Names(t) THEN AfterTake(p, pre) ELSE slots[p]]
  BY DEF Acquire
<1>2. held[t] = None /\ L!Names(t) \subseteq Pools /\ \A p \in L!Names(t) : Available(p)
  BY TicketNames DEF Acquire
<1>3. /\ slots \in [Pools -> Seq(Addresses)]
      /\ \A x \in Tickets : held[x] = None \/ held[x] \in [L!Names(x) -> Addresses \cup {SkipSlot}]
  BY DEF PoolInv, PoolTypeOK
<1> DEFINE g == [p \in L!Names(t) |-> SlotOf(p, pre)]
<1>4. \A p \in L!Names(t) :
        /\ p \in SkipPools => AfterTake(p, pre) = slots[p] /\ SlotOf(p, pre) = SkipSlot
        /\ p \notin SkipPools =>
             /\ SlotOf(p, pre) \in Addresses /\ AfterTake(p, pre) \in Seq(Addresses)
             /\ Len(AfterTake(p, pre)) = Len(slots[p]) - 1
             /\ Count(slots[p], SlotOf(p, pre)) > 0
             /\ \A a : Count(AfterTake(p, pre), a) =
                         Count(slots[p], a) - (IF SlotOf(p, pre) = a THEN 1 ELSE 0)
  BY <1>2, SlotTaken DEF PoolInv
<1>5. g \in [L!Names(t) -> Addresses \cup {SkipSlot}] /\ DOMAIN g = L!Names(t)
  BY <1>4
<1>6. /\ slots' \in [Pools -> Seq(Addresses)] /\ held'[t] = g
      /\ \A x \in Tickets \ {t} : held'[x] = held[x]
  <2>1. \A p \in Pools : slots'[p] \in Seq(Addresses)
    BY <1>1, <1>3, <1>4
  <2>2. held'[t] = g /\ \A x \in Tickets \ {t} : held'[x] = held[x]
    BY <1>1 DEF PoolInv, ByTicket
  <2>3. QED
    BY <1>1, <2>1, <2>2
<1>7. PoolTypeOK'
  <2>1. \A x \in Tickets : held'[x] = None \/ held'[x] \in [L!Names(x) -> Addresses \cup {SkipSlot}]
    BY <1>3, <1>5, <1>6
  <2>2. QED
    BY <1>6, <2>1 DEF PoolTypeOK
<1>8. SlotsAccounted'
  <2> SUFFICES ASSUME NEW p \in Pools \ SkipPools
               PROVE  /\ IsFiniteSet(Holders(p)')
                      /\ Len(slots'[p]) + Cardinality(Holders(p)') = TotalCapacity(p)
    BY DEF SlotsAccounted
  <2>1. IsFiniteSet(Holders(p)) /\ Len(slots[p]) + Cardinality(Holders(p)) = TotalCapacity(p)
    BY DEF PoolInv, SlotsAccounted
  <2>2. /\ IsFiniteSet(Holders(p)')
        /\ Cardinality(Holders(p)') = Cardinality(Holders(p)) + (IF p \in L!Names(t) THEN 1 ELSE 0)
    BY <1>1, <1>2, <1>5, <2>1, HolderComes DEF PoolInv
  <2>3. Len(slots'[p]) = Len(slots[p]) - (IF p \in L!Names(t) THEN 1 ELSE 0)
    BY <1>1, <1>3, <1>4, LenProperties
  <2>4. Len(slots[p]) \in Nat /\ Cardinality(Holders(p)) \in Nat
    BY <1>3, <2>1, LenProperties, FS_CardinalityType
  <2>5. CASE p \in L!Names(t)
    BY <2>1, <2>2, <2>3, <2>4, <2>5
  <2>6. CASE p \notin L!Names(t)
    BY <2>1, <2>2, <2>3, <2>4, <2>6
  <2>7. QED
    BY <2>5, <2>6
<1>9. L!Take(t)
  <2> DEFINE free == [p \in Pools |-> [a \in Addresses |-> Count(slots[p], a)]]
  <2>1. g \in L!Grants(t)
    <3> SUFFICES ASSUME NEW p \in L!Names(t)
                 PROVE  IF p \in SkipPools THEN g[p] = SkipSlot
                        ELSE g[p] \in Addresses /\ free[p][g[p]] > 0
      BY <1>5 DEF L!Grants
    <3>1. QED
      BY <1>2, <1>4
  <2>2. \A p \in Pools, a \in Addresses : Count(slots'[p], a) = Count(slots[p], a) - L!Part(g, p, a)
    <3> SUFFICES ASSUME NEW p \in Pools, NEW a \in Addresses
                 PROVE  Count(slots'[p], a) = Count(slots[p], a) - L!Part(g, p, a)
      OBVIOUS
    <3>1. Count(slots[p], a) \in Nat
      BY <1>3, CountType
    <3>2. CASE p \notin L!Names(t)
      BY <1>1, <1>5, <3>1, <3>2 DEF L!Part
    <3>3. CASE p \in L!Names(t) /\ p \in SkipPools
      <4>1. g[p] = SkipSlot /\ slots'[p] = slots[p] /\ SkipSlot # a
        BY <1>1, <1>4, <3>3, PoolAssumption
      <4>2. QED
        BY <3>1, <4>1 DEF L!Part
    <3>4. CASE p \in L!Names(t) /\ p \notin SkipPools
      <4>1. slots'[p] = AfterTake(p, pre) /\ g[p] = SlotOf(p, pre) /\ p \in DOMAIN g
        BY <1>1, <3>4
      <4>2. QED
        BY <1>4, <3>4, <4>1 DEF L!Part
    <3>5. QED
      BY <3>2, <3>3, <3>4
  <2> HIDE DEF g
  <2>3. [p \in Pools |-> [a \in Addresses |-> Count(slots'[p], a)]]
          = [p \in Pools |-> [a \in Addresses |-> Count(slots[p], a) - L!Part(g, p, a)]]
    BY <2>2
  <2>4. [p \in Pools |-> [a \in Addresses |-> Count(slots'[p], a)]]
          = [p \in Pools |-> [a \in Addresses |-> free[p][a] - L!Part(g, p, a)]]
    BY <2>3
  <2>5. held' = [held EXCEPT ![t] = g]
    BY <1>1 DEF g
  <2>6. QED
    BY <1>2, <2>1, <2>4, <2>5 DEF L!Take
<1>10. ByTicket'
  BY <1>1 DEF PoolInv, ByTicket
<1>11. SkipsHeld'
  <2>1. \A p \in L!Names(t) : IF p \in SkipPools THEN g[p] = SkipSlot ELSE g[p] \in Addresses
    BY <1>2, <1>4
  <2> HIDE DEF g
  <2>2. QED
    BY <1>6, <2>1 DEF PoolInv, SkipsHeld
<1>12. QED
  BY <1>7, <1>8, <1>9, <1>10, <1>11 DEF PoolInv

(* What is rolled back was there to be taken. *)
LEMMA TakenWereAvailable ==
  ASSUME PoolTypeOK, NEW t \in Tickets, NEW pre \in PreAcquired(t),
         \E p \in L!Names(t) : ~Available(p)
  PROVE  \A p \in TakenBeforeFailure(t, pre) : p \in Pools /\ Available(p)
<1> DEFINE list == PoolsOf[t]
           P == {i \in 1..Len(list) : ~Available(list[i])}
<1>1. /\ Len(list) \in Nat /\ \A i \in 1..Len(list) : list[i] \in Pools
      /\ L!Names(t) = {list[i] : i \in 1..Len(list)}
  BY TicketNames DEF L!Names
<1>2. P \in SUBSET Nat /\ P # {} /\ \A i \in P : i \in 1..Len(list)
  BY <1>1
<1>3. PICK first : first = Min(P)
  OBVIOUS
<1>4. first \in 1..Len(list) /\ \A i \in P : first <= i
  <2> HIDE DEF P
  <2>1. first \in P /\ \A i \in P : first <= i
    BY <1>2, <1>3, LeastOf
  <2>2. QED
    BY <1>2, <2>1
<1>5. \A i \in 1..(first - 1) : list[i] \in Pools /\ Available(list[i])
  <2> SUFFICES ASSUME NEW i \in 1..(first - 1)
               PROVE  list[i] \in Pools /\ Available(list[i])
    OBVIOUS
  <2>1. i \in 1..Len(list) /\ ~(first <= i)
    BY <1>1, <1>4
  <2>2. i \notin P
    BY <1>4, <2>1
  <2>3. QED
    BY <1>1, <2>1, <2>2
<1>6. pre # None => RendererPool \in Pools /\ Available(RendererPool)
  <2> SUFFICES ASSUME pre # None
               PROVE  RendererPool \in Pools /\ Available(RendererPool)
    OBVIOUS
  <2>1. RendererPool \in Pools /\ \E i \in 1..Len(slots[RendererPool]) : TRUE
    BY PoolAssumption DEF PreAcquired
  <2>2. slots[RendererPool] # <<>>
    BY <2>1
  <2>3. QED
    BY <2>1, <2>2 DEF Available
<1>7. TakenBeforeFailure(t, pre) =
        {list[i] : i \in 1..(first - 1)} \cup (IF pre = None THEN {} ELSE {RendererPool})
  BY <1>3 DEF TakenBeforeFailure
<1>8. QED
  BY <1>5, <1>6, <1>7

LEMMA RollBackStep ==
  ASSUME PoolInv, NEW t \in Tickets, RollBack(t)
  PROVE  PoolInv' /\ UNCHANGED L!ledger
<1>1. PICK pre \in PreAcquired(t) :
        /\ \E p \in L!Names(t) : ~Available(p)
        /\ slots' = [p \in Pools |->
             IF p \in TakenBeforeFailure(t, pre) \ SkipPools
             THEN Append(AfterTake(p, pre), SlotOf(p, pre)) ELSE slots[p]]
  BY DEF RollBack
<1>2. UNCHANGED held
  BY DEF RollBack
<1>3. slots \in [Pools -> Seq(Addresses)]
  BY DEF PoolInv, PoolTypeOK
<1>4. \A p \in Pools : /\ slots'[p] \in Seq(Addresses) /\ Len(slots'[p]) = Len(slots[p])
                       /\ \A a : Count(slots'[p], a) = Count(slots[p], a)
  <2> SUFFICES ASSUME NEW p \in Pools
               PROVE  /\ slots'[p] \in Seq(Addresses) /\ Len(slots'[p]) = Len(slots[p])
                      /\ \A a : Count(slots'[p], a) = Count(slots[p], a)
    OBVIOUS
  <2>1. CASE p \in TakenBeforeFailure(t, pre) \ SkipPools
    <3> DEFINE rest == AfterTake(p, pre)
               b == SlotOf(p, pre)
    <3>1. Available(p)
      BY <1>1, <2>1, TakenWereAvailable DEF PoolInv
    <3>2. /\ b \in Addresses /\ rest \in Seq(Addresses) /\ Len(rest) = Len(slots[p]) - 1
          /\ \A a : Count(rest, a) = Count(slots[p], a) - (IF b = a THEN 1 ELSE 0)
      BY <2>1, <3>1, SlotTaken DEF PoolInv
    <3>3. slots'[p] = Append(rest, b)
      BY <1>1, <2>1
    <3> HIDE DEF rest, b
    <3>4. Append(rest, b) \in Seq(Addresses) /\ Len(Append(rest, b)) = Len(rest) + 1
      BY <3>2, AppendProperties
    <3>5. Len(slots[p]) \in Nat /\ Len(rest) \in Nat
      BY <1>3, <3>2, LenProperties
    <3>6. ASSUME NEW a
          PROVE  Count(Append(rest, b), a) = Count(slots[p], a)
      <4>1. Count(Append(rest, b), a) = Count(rest, a) + (IF b = a THEN 1 ELSE 0)
        BY <3>2, AppendCount
      <4>2. Count(slots[p], a) \in Nat
        BY <1>3, CountType
      <4>3. QED
        BY <3>2, <4>1, <4>2
    <3>7. QED
      BY <3>2, <3>3, <3>4, <3>5, <3>6
  <2>2. CASE p \notin TakenBeforeFailure(t, pre) \ SkipPools
    <3>1. slots'[p] = slots[p]
      BY <1>1, <2>2
    <3>2. QED
      BY <1>3, <3>1
  <2>3. QED
    BY <2>1, <2>2
<1>5. slots' \in [Pools -> Seq(Addresses)]
  BY <1>1, <1>4
<1>6. PoolInv'
  <2>1. \A p \in Pools : Holders(p)' = Holders(p)
    BY <1>2 DEF Holders
  <2>2. PoolTypeOK' /\ ByTicket' /\ SkipsHeld'
    BY <1>2, <1>5 DEF PoolInv, PoolTypeOK, ByTicket, SkipsHeld
  <2>3. SlotsAccounted'
    BY <1>4, <2>1 DEF PoolInv, SlotsAccounted
  <2>4. QED
    BY <2>2, <2>3 DEF PoolInv
<1>7. [p \in Pools |-> [a \in Addresses |-> Count(slots'[p], a)]]
        = [p \in Pools |-> [a \in Addresses |-> Count(slots[p], a)]]
  BY <1>4
<1>8. QED
  BY <1>2, <1>6, <1>7 DEF L!ledger

LEMMA ReleaseStep ==
  ASSUME PoolInv, NEW t \in Tickets, Release(t)
  PROVE  PoolInv' /\ L!GiveBack(t)
<1> DEFINE g == held[t]
<1>1. /\ g # None /\ held' = [held EXCEPT ![t] = None]
      /\ slots' = [p \in Pools |-> IF p \in DOMAIN g \ SkipPools THEN Append(slots[p], g[p]) ELSE slots[p]]
  BY DEF Release
<1>2. g \in [L!Names(t) -> Addresses \cup {SkipSlot}] /\ DOMAIN g = L!Names(t)
  BY <1>1 DEF PoolInv, PoolTypeOK
<1>3. slots \in [Pools -> Seq(Addresses)] /\ L!Names(t) \subseteq Pools
  BY TicketNames DEF PoolInv, PoolTypeOK
<1>4. \A p \in Pools :
        /\ p \notin L!Names(t) \/ p \in SkipPools => slots'[p] = slots[p]
        /\ p \in L!Names(t) \ SkipPools => slots'[p] = Append(slots[p], g[p]) /\ g[p] \in Addresses
  BY <1>1, <1>2 DEF PoolInv, SkipsHeld
<1>5. \A p \in Pools :
        /\ slots'[p] \in Seq(Addresses)
        /\ Len(slots'[p]) = Len(slots[p]) + (IF p \in L!Names(t) \ SkipPools THEN 1 ELSE 0)
        /\ \A a \in Addresses : Count(slots'[p], a) = Count(slots[p], a) + L!Part(g, p, a)
  <2> SUFFICES ASSUME NEW p \in Pools
               PROVE  /\ slots'[p] \in Seq(Addresses)
                      /\ Len(slots'[p]) = Len(slots[p]) + (IF p \in L!Names(t) \ SkipPools THEN 1 ELSE 0)
                      /\ \A a \in Addresses : Count(slots'[p], a) = Count(slots[p], a) + L!Part(g, p, a)
    OBVIOUS
  <2>1. slots[p] \in Seq(Addresses) /\ Len(slots[p]) \in Nat /\ \A a : Count(slots[p], a) \in Nat
    BY <1>3, LenProperties, CountType
  <2>2. CASE p \notin L!Names(t) \/ p \in SkipPools
    <3>1. slots'[p] = slots[p]
      BY <1>4, <2>2
    <3>2. \A a \in Addresses : L!Part(g, p, a) = 0
      <4>1. p \in L!Names(t) => g[p] = SkipSlot /\ SkipSlot \notin Addresses
        BY <1>1, <2>2, PoolAssumption DEF PoolInv, SkipsHeld
      <4>2. DOMAIN g = L!Names(t)
        BY <1>2
      <4> HIDE DEF g
      <4>3. \A a \in Addresses : ~(p \in DOMAIN g /\ g[p] = a)
        BY <4>1, <4>2
      <4>4. QED
        BY <4>3 DEF L!Part
    <3>3. \A a \in Addresses : Count(slots[p], a) = Count(slots[p], a) + L!Part(g, p, a)
      BY <2>1, <3>2
    <3>4. p \notin L!Names(t) \ SkipPools
      BY <2>2
    <3> HIDE DEF g
    <3>5. Len(slots'[p]) = Len(slots[p]) + (IF p \in L!Names(t) \ SkipPools THEN 1 ELSE 0)
      <4>1. Len(slots[p]) \in Nat
        BY <2>1
      <4>2. Len(slots'[p]) = Len(slots[p]) /\ Len(slots[p]) = Len(slots[p]) + 0
        BY <3>1, <4>1
      <4>3. QED
        BY <3>4, <4>2
    <3>6. \A a \in Addresses : Count(slots'[p], a) = Count(slots[p], a) + L!Part(g, p, a)
      BY <3>1, <3>3
    <3>7. QED
      BY <2>1, <3>1, <3>5, <3>6
  <2>3. CASE p \in L!Names(t) \ SkipPools
    <3>1. slots'[p] = Append(slots[p], g[p]) /\ g[p] \in Addresses
      BY <1>4, <2>3
    <3>2. Append(slots[p], g[p]) \in Seq(Addresses) /\ Len(Append(slots[p], g[p])) = Len(slots[p]) + 1
      BY <2>1, <3>1, AppendProperties
    <3>3. \A a : Count(Append(slots[p], g[p]), a) = Count(slots[p], a) + (IF g[p] = a THEN 1 ELSE 0)
      BY <2>1, <3>1, AppendCount
    <3>4. \A a : L!Part(g, p, a) = IF g[p] = a THEN 1 ELSE 0
      BY <1>2, <2>3 DEF L!Part
    <3>5. QED
      BY <2>3, <3>1, <3>2, <3>3, <3>4
  <2>4. QED
    BY <2>2, <2>3
<1> HIDE DEF g
<1>6. held'[t] = None /\ \A x \in Tickets \ {t} : held'[x] = held[x]
  BY <1>1 DEF PoolInv, ByTicket
<1>7. PoolTypeOK' /\ ByTicket' /\ SkipsHeld'
  <2>1. slots' \in [Pools -> Seq(Addresses)]
    BY <1>1, <1>5
  <2>2. PoolTypeOK'
    BY <1>6, <2>1 DEF PoolInv, PoolTypeOK
  <2>3. ByTicket'
    BY <1>1 DEF PoolInv, ByTicket
  <2>4. SkipsHeld'
    BY <1>6 DEF PoolInv, SkipsHeld
  <2>5. QED
    BY <2>2, <2>3, <2>4
<1>8. SlotsAccounted'
  <2> SUFFICES ASSUME NEW p \in Pools \ SkipPools
               PROVE  /\ IsFiniteSet(Holders(p)')
                      /\ Len(slots'[p]) + Cardinality(Holders(p)') = TotalCapacity(p)
    BY DEF SlotsAccounted
  <2>1. IsFiniteSet(Holders(p)) /\ Len(slots[p]) + Cardinality(Holders(p)) = TotalCapacity(p)
    BY DEF PoolInv, SlotsAccounted
  <2>2. /\ IsFiniteSet(Holders(p)')
        /\ Cardinality(Holders(p)') = Cardinality(Holders(p)) - (IF p \in L!Names(t) THEN 1 ELSE 0)
    BY <1>1, <2>1, HolderGoes DEF PoolInv, g
  <2>3. Len(slots'[p]) = Len(slots[p]) + (IF p \in L!Names(t) THEN 1 ELSE 0)
    BY <1>5
  <2>4. Len(slots[p]) \in Nat /\ Cardinality(Holders(p)) \in Nat
    BY <1>3, <2>1, LenProperties, FS_CardinalityType
  <2>5. CASE p \in L!Names(t)
    BY <2>1, <2>2, <2>3, <2>4, <2>5
  <2>6. CASE p \notin L!Names(t)
    BY <2>1, <2>2, <2>3, <2>4, <2>6
  <2>7. QED
    BY <2>5, <2>6
<1>9. L!GiveBack(t)
  <2> DEFINE free == [p \in Pools |-> [a \in Addresses |-> Count(slots[p], a)]]
  <2>1. [p \in Pools |-> [a \in Addresses |-> Count(slots'[p], a)]]
          = [p \in Pools |-> [a \in Addresses |-> Count(slots[p], a) + L!Part(g, p, a)]]
    BY <1>5
  <2>2. [p \in Pools |-> [a \in Addresses |-> Count(slots'[p], a)]]
          = [p \in Pools |-> [a \in Addresses |-> free[p][a] + L!Part(g, p, a)]]
    BY <2>1
  <2>3. QED
    BY <1>1, <2>2 DEF L!GiveBack, g
<1>10. QED
  BY <1>7, <1>8, <1>9 DEF PoolInv

LEMMA PoolStart == PoolInit => PoolInv /\ L!LedgerInit
<1> SUFFICES ASSUME PoolInit
             PROVE  PoolInv /\ L!LedgerInit
  OBVIOUS
<1>1. /\ slots = [p \in Pools |-> InitialSlots(p)] /\ held = [t \in Tickets |-> None]
  BY DEF PoolInit
<1>2. PoolTypeOK /\ ByTicket /\ SkipsHeld
  BY <1>1, InitialDeque DEF PoolTypeOK, ByTicket, SkipsHeld
<1>3. SlotsAccounted
  <2> SUFFICES ASSUME NEW p \in Pools \ SkipPools
               PROVE  IsFiniteSet(Holders(p)) /\ Len(slots[p]) + Cardinality(Holders(p)) = TotalCapacity(p)
    BY DEF SlotsAccounted
  <2>1. Holders(p) = {}
    BY <1>1 DEF Holders
  <2>2. Len(slots[p]) = TotalCapacity(p) /\ Len(slots[p]) \in Nat
    BY <1>1, InitialDeque, LenProperties
  <2>3. QED
    BY <2>1, <2>2, FS_EmptySet
<1>4. L!LedgerInit
  <2>1. [p \in Pools |-> [a \in Addresses |-> Count(slots[p], a)]] = Capacity
    BY <1>1 DEF Capacity
  <2>2. QED
    BY <1>1, <2>1 DEF L!LedgerInit
<1>5. QED
  BY <1>2, <1>3, <1>4 DEF PoolInv

LEMMA PoolStep == PoolInv /\ [PoolNext]_poolVars => PoolInv' /\ [L!LedgerNext]_(L!ledger)
<1> SUFFICES ASSUME PoolInv, [PoolNext]_poolVars
             PROVE  PoolInv' /\ [L!LedgerNext]_(L!ledger)
  OBVIOUS
<1>1. CASE UNCHANGED poolVars
  BY <1>1 DEF poolVars, PoolInv, PoolTypeOK, ByTicket, SkipsHeld, SlotsAccounted, Holders, L!ledger
<1>2. ASSUME NEW t \in Tickets, Acquire(t) \/ RollBack(t) \/ Release(t)
      PROVE  PoolInv' /\ [L!LedgerNext]_(L!ledger)
  BY <1>2, AcquireStep, RollBackStep, ReleaseStep DEF L!LedgerNext
<1>3. QED
  BY <1>1, <1>2 DEF PoolNext

LEMMA CeilingCovers ==
  ASSUME NEW m \in Nat, NEW w \in Nat \ {0}
  PROVE  (m + w - 1) \div w \in Nat /\ m <= w * ((m + w - 1) \div w)
OBVIOUS

(* All jobs on the shared pools: what is free of a limiting pool. *)
LEMMA SharedPool ==
  ASSUME PoolInv, \A t \in InFlight : L!Names(t) = RequiredPools, NEW p \in Limiting
  PROVE  /\ TotalCapacity(p) \in Nat /\ Cardinality(InFlight) \in Nat
         /\ Cardinality(InFlight) <= TotalCapacity(p)
         /\ Cardinality(InFlight) < TotalCapacity(p) <=> Available(p)
<1>1. p \in Pools \ SkipPools /\ p \in RequiredPools
  BY PoolAssumption DEF Limiting
<1>2. InFlight = Holders(p)
  BY <1>1 DEF InFlight, Holders
<1>3. /\ IsFiniteSet(Holders(p)) /\ Len(slots[p]) + Cardinality(Holders(p)) = TotalCapacity(p)
      /\ slots[p] \in Seq(Addresses)
  BY <1>1 DEF PoolInv, PoolTypeOK, SlotsAccounted
<1>4. Len(slots[p]) \in Nat /\ (slots[p] = <<>> <=> Len(slots[p]) = 0)
  BY <1>3, LenProperties, EmptySeq
<1>5. Cardinality(Holders(p)) \in Nat
  BY <1>3, FS_CardinalityType
<1>6. Available(p) <=> Len(slots[p]) > 0
  BY <1>1, <1>4 DEF Available
<1>7. QED
  BY <1>2, <1>3, <1>4, <1>5, <1>6

LEMMA PoolsAgreeOnLimits == PoolInv => LimitsAgree
<1> SUFFICES ASSUME PoolInv, Limiting # {}, \A t \in InFlight : L!Names(t) = RequiredPools
             PROVE  /\ Cardinality(InFlight) < MaxInFlight <=> \A p \in RequiredPools : Available(p)
                    /\ Cardinality(InFlight) <= NrWorkers * ConsumersPerWorker
  BY DEF LimitsAgree, PoolInv
<1> DEFINE capacities == {TotalCapacity(p) : p \in Limiting}
           n == Cardinality(InFlight)
<1>1. \A p \in Limiting : /\ TotalCapacity(p) \in Nat /\ n \in Nat /\ n <= TotalCapacity(p)
                          /\ n < TotalCapacity(p) <=> Available(p)
  BY SharedPool
<1>2. \A p \in RequiredPools \ Limiting : Available(p)
  BY DEF Limiting, Available
<1>3. MaxInFlight \in capacities /\ \A k \in capacities : MaxInFlight <= k
  <2>1. capacities \in SUBSET Nat /\ capacities # {}
    BY <1>1
  <2>2. MaxInFlight = Min(capacities)
    BY DEF MaxInFlight
  <2> HIDE DEF capacities
  <2>3. QED
    BY <2>1, <2>2, LeastOf
<1>4. PICK q \in Limiting : MaxInFlight = TotalCapacity(q)
  BY <1>3
<1>5. \A p \in Limiting : MaxInFlight <= TotalCapacity(p)
  BY <1>3
<1>6. n \in Nat /\ MaxInFlight \in Nat /\ n <= MaxInFlight
  BY <1>1, <1>4
<1> HIDE DEF n
<1>7. n < MaxInFlight <=> \A p \in Limiting : Available(p)
  <2>1. ASSUME n < MaxInFlight, NEW p \in Limiting
        PROVE  Available(p)
    BY <1>1, <1>5, <1>6, <2>1
  <2>2. ASSUME \A p \in Limiting : Available(p)
        PROVE  n < MaxInFlight
    BY <1>1, <1>4, <2>2
  <2>3. QED
    BY <2>1, <2>2
<1>8. n <= NrWorkers * ConsumersPerWorker
  <2>1. NrWorkers \in Nat \ {0}
    BY PoolAssumption
  <2>2. MaxInFlight <= NrWorkers * ConsumersPerWorker /\ ConsumersPerWorker \in Nat
    BY <1>6, <2>1, CeilingCovers DEF ConsumersPerWorker
  <2>3. NrWorkers * ConsumersPerWorker \in Nat
    BY <2>1, <2>2
  <2>4. QED
    BY <1>6, <2>2, <2>3
<1>9. Limiting \subseteq RequiredPools
  BY DEF Limiting
<1>10. QED
  BY <1>2, <1>7, <1>8, <1>9 DEF n

(* The address pools are the ledger the scheduler counts on: an attempt to   *)
(* book takes one slot of every pool or changes no count, and what a job     *)
(* gives back is what it took; and max_in_flight is what they allow: while   *)
(* all jobs run on the shared pools, an attempt below it finds a slot in     *)
(* every pool, and there is a consumer for every job with slots.             *)
THEOREM PoolsKeepLedger == PoolSpec => ImplementsLedger /\ LedgerKept
<1>1. PoolInv => LimitsAgree
  BY PoolsAgreeOnLimits
<1>2. poolVars' = poolVars => UNCHANGED L!ledger
  BY DEF poolVars, L!ledger
<1>3. PoolInv /\ [PoolNext]_poolVars => [poolVars' # poolVars /\ L!LedgerNext]_(L!ledger)
  BY <1>2, PoolStep
<1>4. PoolInv' => [LimitsAgree']_poolVars
  <2>1. PoolInv' => LimitsAgree'
    BY <1>1, PTL
  <2>2. QED
    BY <2>1
<1>5. QED
  BY <1>1, <1>3, PoolStart, PoolStep, PTL DEF PoolSpec, ImplementsLedger, LedgerKept, L!LedgerSpec

----------------------------------------------------------------------------
(* Autoresume (Autoresume)                                                   *)

(* A rollout that was not given out is not there, one that is marked is, and *)
(* one that succeeded is marked.                                             *)
RecordsFit ==
  \A r \in Rollouts :
    /\ r \notin used => record[r] = Absent
    /\ record[r].marker => record[r].dir
    /\ record[r].result = "success" => record[r].marker

(* The complete rollouts of earlier runs and those under way are the wanted  *)
(* ones, and no other has a directory.                                       *)
RunCompletes ==
  /\ Cardinality(Complete) <= NRollouts
  /\ state \in {"running", "succeeded"} =>
       /\ Cardinality(Complete \cup active) = NRollouts
       /\ \A r \in Rollouts \ active : record[r].dir => record[r].marker
  /\ state \in {"planning", "running"} => reported = {}
  /\ state = "succeeded" =>
       /\ reported = {r \in active : record[r].result # "success"}
       /\ evaluation # "lenient" => reported = {}

ResumeInv == ResumeTypeOK /\ RecordsFit /\ RunCompletes

(* A set of n elements or more has a subset of n. *)
LEMMA SubsetOfSize ==
  ASSUME NEW S, IsFiniteSet(S), NEW n \in Nat, n <= Cardinality(S)
  PROVE  \E T \in SUBSET S : Cardinality(T) = n
<1>1. Cardinality(S) \in Nat /\ ExistsBijection(1..Cardinality(S), S)
  BY FS_CardinalityType
<1>2. PICK f \in Bijection(1..Cardinality(S), S) : TRUE
  BY <1>1 DEF ExistsBijection
<1>3. f \in [1..Cardinality(S) -> S] /\ \A i, k \in 1..Cardinality(S) : f[i] = f[k] => i = k
  BY <1>2 DEF Bijection, Injection, IsInjective
<1> DEFINE T == {f[i] : i \in 1..n}
           g == [i \in 1..n |-> f[i]]
<1>4. 1..n \subseteq 1..Cardinality(S)
  BY <1>1
<1>5. T \in SUBSET S
  BY <1>3, <1>4
<1>6. g \in Bijection(1..n, T)
  <2>1. g \in [1..n -> T] /\ \A i, k \in 1..n : g[i] = g[k] => i = k
    BY <1>3, <1>4
  <2>2. \A t \in T : \E i \in 1..n : g[i] = t
    OBVIOUS
  <2>3. QED
    BY <2>1, <2>2 DEF Bijection, Injection, Surjection, IsInjective
<1>7. Cardinality(T) = n
  BY <1>6, FS_CountingElements DEF ExistsBijection
<1>8. QED
  BY <1>5, <1>7

LEMMA FreshIsNew ==
  ASSUME ResumeTypeOK, RecordsFit, Cardinality(Complete) <= NRollouts, Resume, NEW S, S = Rollouts \ used,
         Cardinality(S) >= Missing
  PROVE  /\ Missing = NRollouts - Cardinality(Complete)
         /\ Fresh \subseteq Rollouts \ used /\ Cardinality(Fresh) = Missing
<1>1. IsFiniteSet(S) /\ IsFiniteSet(Complete) /\ Cardinality(Complete) \in Nat /\ Cardinality(S) \in Nat
  BY ResumeAssumption, FS_Subset, FS_CardinalityType DEF Complete
<1>2. Missing = NRollouts - Cardinality(Complete) /\ Missing \in Nat
  BY <1>1, ResumeAssumption DEF Missing
<1>3. \E T \in SUBSET S : Cardinality(T) = Missing
  BY <1>1, <1>2, SubsetOfSize
<1>4. QED
  BY <1>2, <1>3 DEF Fresh

LEMMA ResumeStart == ResumeInit => ResumeInv
<1> SUFFICES ASSUME ResumeInit
             PROVE  ResumeInv
  OBVIOUS
<1>1. ResumeTypeOK /\ RecordsFit
  BY ResumeAssumption DEF ResumeInit, RecordInit, Absent, ResumeTypeOK, RecordsFit
<1>2. Complete = {}
  BY DEF ResumeInit, RecordInit, Absent, Complete
<1>3. RunCompletes
  BY <1>2, FS_EmptySet, ResumeAssumption DEF ResumeInit, RunCompletes
<1>4. QED
  BY <1>1, <1>3 DEF ResumeInv

LEMMA ResumeRecordsStep ==
  ASSUME Resume, ResumeInv, [ResumeNext]_resumeVars
  PROVE  ResumeTypeOK' /\ RecordsFit'
<1> USE DEF ResumeInv, ResumeTypeOK, RecordsFit
<1>1. CASE Start
  BY <1>1, ResumeAssumption DEF Start
<1>2. CASE DispatchMissing
  <2>1. Cardinality(Complete) <= NRollouts
    BY DEF RunCompletes
  <2>2. state' = "running" /\ UNCHANGED <<record, runs, evaluation, reported>>
        /\ active' = Fresh /\ used' = used \cup Fresh
    BY <1>2 DEF DispatchMissing
  <2>3. Fresh \subseteq Rollouts \ used
    BY <1>2, <2>1, FreshIsNew DEF DispatchMissing
  <2>4. QED
    BY <2>2, <2>3
<1>3. CASE RolloutStep
  <2>1. PICK r \in active : Begin(r) \/ Mark(r) \/ End(r, "success") \/ End(r, "failure")
    BY <1>3 DEF RolloutStep
  <2>2. r \in Rollouts /\ r \in used /\ UNCHANGED <<state, active, used, runs, evaluation, reported>>
    BY <1>3, <2>1 DEF RolloutStep
  <2>3. CASE Begin(r)
    BY <2>2, <2>3 DEF Begin, Absent
  <2>4. CASE Mark(r)
    BY <2>2, <2>4 DEF Mark
  <2>5. CASE End(r, "success")
    BY <2>2, <2>5 DEF End
  <2>6. CASE End(r, "failure")
    BY <2>2, <2>6 DEF End
  <2>7. QED
    BY <2>1, <2>3, <2>4, <2>5, <2>6
<1>4. CASE Finish
  BY <1>4 DEF Finish, FailedRollouts
<1>5. CASE KillRun
  BY <1>5 DEF KillRun
<1>6. ASSUME NEW r \in Rollouts, RemoveIncomplete(r)
      PROVE  ResumeTypeOK' /\ RecordsFit'
  <2>1. /\ record[r].dir /\ ~record[r].marker /\ record' = [record EXCEPT ![r].dir = FALSE]
        /\ UNCHANGED <<state, active, used, runs, evaluation, reported>>
    BY <1>6 DEF RemoveIncomplete
  <2>2. r \in used
    BY <2>1 DEF Absent
  <2>3. /\ record'[r] = [record[r] EXCEPT !.dir = FALSE]
        /\ \A x \in Rollouts \ {r} : record'[x] = record[x]
    BY <2>1
  <2>4. record'[r].dir = FALSE /\ record'[r].marker = record[r].marker /\ record'[r].result = record[r].result
    BY <2>3
  <2>5. RecordsFit'
    BY <2>1, <2>2, <2>3, <2>4
  <2>6. ResumeTypeOK'
    BY <2>1
  <2>7. QED
    BY <2>5, <2>6
<1>7. CASE UNCHANGED resumeVars
  BY <1>7 DEF resumeVars
<1>8. QED
  BY <1>1, <1>2, <1>3, <1>4, <1>5, <1>6, <1>7 DEF ResumeNext

LEMMA CompletesStep ==
  ASSUME Resume, ResumeInv, [ResumeNext]_resumeVars
  PROVE  RunCompletes'
<1>1. ResumeTypeOK' /\ RecordsFit' /\ ResumeTypeOK /\ RecordsFit /\ RunCompletes
  BY ResumeRecordsStep DEF ResumeInv
<1>2. /\ IsFiniteSet(Complete) /\ Cardinality(Complete) \in Nat /\ Complete \subseteq used
      /\ IsFiniteSet(Complete') /\ active \subseteq Rollouts /\ IsFiniteSet(active)
  BY <1>1, ResumeAssumption, FS_Subset, FS_CardinalityType
     DEF Complete, ResumeTypeOK, RecordsFit, Absent
<1>3. ASSUME UNCHANGED record
      PROVE  Complete' = Complete /\ Cardinality(Complete') <= NRollouts
  BY <1>1, <1>3 DEF Complete, RunCompletes
<1>4. CASE Start
  BY <1>3, <1>4 DEF Start, RunCompletes
<1>5. CASE DispatchMissing
  <2>1. state = "planning" /\ state' = "running" /\ UNCHANGED <<record, reported>> /\ active' = Fresh
        /\ Cardinality(Rollouts \ used) >= Missing
        /\ \A r \in Rollouts : record[r].dir => record[r].marker
    BY <1>5 DEF DispatchMissing, Removed
  <2>2. /\ Missing = NRollouts - Cardinality(Complete)
        /\ Fresh \subseteq Rollouts \ used /\ Cardinality(Fresh) = Missing
    BY <1>1, <2>1, FreshIsNew DEF RunCompletes
  <2>3. Complete \cap Fresh = {} /\ IsFiniteSet(Fresh)
    BY <1>2, <2>2, ResumeAssumption, FS_Subset
  <2>4. Cardinality(Complete \cup Fresh) = NRollouts
    <3>1. Cardinality(Complete \cup Fresh) = Cardinality(Complete) + Cardinality(Fresh) - Cardinality({})
      BY <1>2, <2>3, FS_Union
    <3>2. Cardinality({}) = 0
      BY FS_EmptySet
    <3>3. QED
      BY <1>2, <2>2, <3>1, <3>2, ResumeAssumption
  <2>5. QED
    BY <1>1, <1>3, <2>1, <2>4 DEF RunCompletes
<1>6. CASE RolloutStep
  <2>1. PICK r \in active : Begin(r) \/ Mark(r) \/ End(r, "success") \/ End(r, "failure")
    BY <1>6 DEF RolloutStep
  <2>2. state = "running" /\ UNCHANGED <<state, active, reported>> /\ r \in Rollouts
    BY <1>2, <1>6, <2>1 DEF RolloutStep
  <2>3. \A x \in Rollouts \ active : record'[x] = record[x]
    BY <1>1, <2>1, <2>2 DEF Begin, Mark, End, ResumeTypeOK
  <2>4. Complete \cup active = Complete' \cup active
    BY <1>2, <2>3 DEF Complete
  <2>5. Cardinality(Complete') <= Cardinality(Complete \cup active)
    <3>1. IsFiniteSet(Complete \cup active) /\ Complete' \subseteq Complete \cup active
      BY <1>2, <2>4, FS_Union
    <3>2. QED
      BY <3>1, FS_Subset
  <2>6. QED
    BY <1>1, <2>2, <2>3, <2>4, <2>5 DEF RunCompletes
<1>7. CASE Finish
  <2>1. state = "running" /\ UNCHANGED <<record, active, evaluation>>
        /\ state' \in {"succeeded", "failed"}
    BY <1>7 DEF Finish
  <2>2. state' = "succeeded" => reported' = FailedRollouts /\ (evaluation # "lenient" => FailedRollouts = {})
    <3>1. reported = {}
      BY <1>1, <2>1 DEF RunCompletes
    <3>2. QED
      BY <1>7, <3>1 DEF Finish, Aggregates
  <2>3. QED
    BY <1>1, <1>3, <2>1, <2>2 DEF RunCompletes, FailedRollouts
<1>8. CASE KillRun
  BY <1>3, <1>8 DEF KillRun, RunCompletes
<1>9. ASSUME NEW r \in Rollouts, RemoveIncomplete(r)
      PROVE  RunCompletes'
  <2>1. /\ state = "planning" /\ UNCHANGED <<state, reported>> /\ ~record[r].marker
        /\ record' = [record EXCEPT ![r].dir = FALSE]
    BY <1>9 DEF RemoveIncomplete
  <2>2. \A x \in Rollouts : (record'[x].dir /\ record'[x].marker) <=> (record[x].dir /\ record[x].marker)
    BY <1>1, <2>1 DEF ResumeTypeOK
  <2>3. Complete' = Complete
    BY <2>2 DEF Complete
  <2>4. QED
    BY <1>1, <2>1, <2>3 DEF RunCompletes
<1>10. CASE UNCHANGED resumeVars
  BY <1>1, <1>3, <1>10 DEF resumeVars, RunCompletes
<1>11. QED
  BY <1>4, <1>5, <1>6, <1>7, <1>8, <1>9, <1>10 DEF ResumeNext

LEMMA SuccessIsWanted == ResumeInv => WantedRollouts
<1> SUFFICES ASSUME ResumeInv
             PROVE  WantedRollouts
  OBVIOUS
<1>1. ASSUME state = "succeeded"
      PROVE  /\ Cardinality(Complete \cup reported) = NRollouts
             /\ {r \in Rollouts : record[r].dir} \subseteq Complete \cup reported
  <2>1. /\ Cardinality(Complete \cup active) = NRollouts
        /\ \A r \in Rollouts \ active : record[r].dir => record[r].marker
        /\ reported = {r \in active : record[r].result # "success"} /\ active \subseteq Rollouts
    BY <1>1 DEF ResumeInv, ResumeTypeOK, RunCompletes
  <2>2. \A r \in active : r \in Complete \cup reported
    BY <2>1 DEF ResumeInv, ResumeTypeOK, RecordsFit, Complete
  <2>3. Complete \cup active = Complete \cup reported
    BY <2>1, <2>2
  <2>4. QED
    BY <2>1, <2>2, <2>3 DEF Complete
<1>2. ASSUME state = "succeeded", evaluation # "lenient"
      PROVE  Cardinality(Complete) = NRollouts /\ {r \in Rollouts : record[r].dir} = Complete
  <2>1. reported = {} /\ Complete \cup reported = Complete
    BY <1>2 DEF ResumeInv, RunCompletes
  <2>2. QED
    BY <1>1, <1>2, <2>1 DEF Complete
<1>3. QED
  BY <1>1, <1>2 DEF ResumeInv, RunCompletes, WantedRollouts

(* With autoresume, however often the command is run and killed, and however *)
(* many rollouts fail: a scene never gets more complete rollouts than were   *)
(* asked for, and a run that reports success leaves just these, but for the  *)
(* rollouts it lists as failed if it may aggregate with them.                *)
THEOREM ResumeReachesWanted == Resume => (ResumeSpec => []WantedRollouts)
<1> SUFFICES ASSUME Resume
             PROVE  ResumeSpec => []WantedRollouts
  OBVIOUS
<1>1. ResumeInv /\ [ResumeNext]_resumeVars => ResumeInv'
  <2> SUFFICES ASSUME ResumeInv, [ResumeNext]_resumeVars
               PROVE  ResumeInv'
    OBVIOUS
  <2>1. ResumeTypeOK' /\ RecordsFit'
    BY ResumeRecordsStep
  <2>2. RunCompletes'
    BY CompletesStep
  <2>3. QED
    BY <2>1, <2>2 DEF ResumeInv
<1>2. QED
  BY <1>1, ResumeStart, SuccessIsWanted, PTL DEF ResumeSpec

----------------------------------------------------------------------------
(* The scenes of a worker (SceneMaps)                                        *)

Maps == [parts : SUBSET {"clipgt", "remnant", "xodr"}, final : BOOLEAN]
Artifact == [file : Files, map : Maps \cup {NoMap}, attempted : BOOLEAN, lock : Readers \cup {NoMap}]

(* Where a reader is behind the lock and loads.                              *)
Loading == {"create", "clipgt", "xodr", "finalize", "mark"}
Reading ==
  [at : Loading \cup {"idle", "check", "lock", "return", "served", "raised"},
   artifact : Nat, got : Maps \cup {NoMap}]

(* The cache s has one artifact per file, of those in g.                     *)
Apart(s, g) ==
  /\ \A i \in 1..Len(s) : s[i] \in 1..Len(g)
  /\ \A i, k \in 1..Len(s) : g[s[i]].file = g[s[k]].file => i = k

SceneTypeOK ==
  /\ loaded \in Seq(Nat) /\ Len(loaded) <= CacheSize
  /\ artifacts \in Seq(Artifact)
  /\ reader \in [Readers -> Reading]
  /\ \A r \in Readers : reader[r].at # "idle" => reader[r].artifact \in 1..Len(artifacts)

(* The map of the artifact a has all of its source.                          *)
Filled(a) ==
  /\ a.map \in Maps
  /\ IF Contents[a.file].clipgt = "whole" THEN a.map.parts = {"clipgt"}
     ELSE Contents[a.file].xodr = "whole" /\ "xodr" \in a.map.parts

Unmapped(a) == Contents[a.file].clipgt # "whole" /\ Contents[a.file].xodr = "none"

Right(a) == \/ a.map = NoMap /\ Unmapped(a)
            \/ Filled(a) /\ a.map.final

(* How far a reader at a place is with the artifact a, and what it got.      *)
Fits(r, at, a, got) ==
  /\ at \in Loading => a.lock = r /\ a.attempted = FALSE
  /\ at = "clipgt" => a.map = Empty
  /\ at = "xodr" => a.map \in Maps /\ Contents[a.file].clipgt # "whole"
  /\ at = "finalize" => Filled(a)
  /\ at = "mark" => Filled(a) /\ a.map.final
  /\ at \in {"return", "served"} => a.attempted = TRUE
  /\ at = "served" => got = a.map
  /\ at = "raised" => Contents[a.file].clipgt # "whole" /\ Contents[a.file].xodr = "unaligned"

SceneInv ==
  /\ SceneTypeOK
  /\ Apart(loaded, artifacts)
  /\ \A x \in 1..Len(artifacts) :
       /\ artifacts[x].attempted = TRUE => Right(artifacts[x])
       /\ \A r \in Readers : artifacts[x].lock = r =>
            reader[r].artifact = x /\ reader[r].at \in Loading \cup {"return"}
  /\ \A r \in Readers : reader[r].at # "idle" => Fits(r, reader[r].at, Mine(r), reader[r].got)

LEMMA NoMapIsNone ==
  /\ NoMap \notin Readers /\ NoMap \notin Maps /\ Empty \in Maps
  /\ Contents \in [Files -> [clipgt : {"none", "whole", "broken"},
                             xodr   : {"none", "whole", "unaligned"}]]
  /\ CacheSize \in Nat
  BY SceneMapsAssumption DEF Maps, Empty

LEMMA WithoutApart ==
  ASSUME NEW s \in Seq(Nat), NEW t \in Seq(Nat), NEW i \in 1..Len(s), IsWithout(t, s, i),
         NEW g, Apart(s, g)
  PROVE  /\ Apart(t, g)
         /\ \A k \in 1..Len(t) : \E m \in 1..Len(s) : m # i /\ t[k] = s[m]
<1> DEFINE shift(k) == IF k < i THEN k ELSE k + 1
<1>1. /\ Len(s) \in Nat /\ Len(t) \in Nat /\ Len(t) = Len(s) - 1
      /\ \A k \in 1..Len(t) : t[k] = s[shift(k)]
  BY LenProperties DEF IsWithout
<1> DEFINE ls == Len(s)
           lt == Len(t)
<1>2. ls \in Nat /\ lt \in Nat /\ lt = ls - 1 /\ i \in Nat /\ i \in 1..ls
  BY <1>1
<1> HIDE DEF ls, lt
<1>3. \A k \in 1..lt : shift(k) \in 1..ls /\ shift(k) # i
  BY <1>2
<1>4. \A k, m \in 1..lt : shift(k) = shift(m) => k = m
  BY <1>2
<1> HIDE DEF shift
<1> USE DEF ls, lt
<1>5. \A k \in 1..Len(t) : t[k] \in 1..Len(g)
  BY <1>1, <1>3 DEF Apart
<1>6. ASSUME NEW k \in 1..Len(t), NEW m \in 1..Len(t), g[t[k]].file = g[t[m]].file
      PROVE  k = m
  <2>1. /\ shift(k) \in 1..Len(s) /\ shift(m) \in 1..Len(s)
        /\ g[s[shift(k)]].file = g[s[shift(m)]].file
    BY <1>1, <1>3, <1>6
  <2>2. shift(k) = shift(m)
    BY <2>1 DEF Apart
  <2>3. QED
    BY <1>4, <2>2
<1>7. QED
  BY <1>1, <1>3, <1>5, <1>6 DEF Apart

(* What the LRU cache does with a hit and with a new artifact.               *)
LEMMA UsedApart ==
  ASSUME loaded \in Seq(Nat), Len(loaded) <= CacheSize, Apart(loaded, artifacts),
         NEW g, Len(artifacts) \in Nat, Len(g) \in Nat,
         \A y \in 1..Len(artifacts) : y \in 1..Len(g) /\ g[y].file = artifacts[y].file,
         NEW x \in 1..Len(g),
         \A i \in 1..Len(loaded) : loaded[i] # x => g[loaded[i]].file # g[x].file
  PROVE  Used(x) \in Seq(Nat) /\ Len(Used(x)) <= CacheSize /\ Apart(Used(x), g)
<1> DEFINE s == loaded
           i == CHOOSE k \in DOMAIN loaded : loaded[k] = x
           others == IF x \in ToSet(loaded) THEN RemoveAt(loaded, i) ELSE loaded
           kept == IF Len(others) = CacheSize THEN Tail(others) ELSE others
           Free(t) == /\ t \in Seq(Nat) /\ Len(t) <= CacheSize /\ Apart(t, g)
                      /\ \A k \in 1..Len(t) : g[t[k]].file # g[x].file
<1>1. CacheSize \in Nat /\ Len(s) \in Nat /\ DOMAIN s = 1..Len(s) /\ s \in Seq(Nat)
  BY NoMapIsNone, LenProperties
<1>2. Apart(s, g)
  BY DEF Apart
<1>3. Free(others)
  <2>1. CASE x \in ToSet(loaded)
    <3>1. \E k \in DOMAIN s : s[k] = x
      BY <2>1 DEF ToSet
    <3>2. i \in 1..Len(s) /\ s[i] = x
      BY <1>1, <3>1
    <3> HIDE DEF i
    <3> DEFINE t == RemoveAt(s, i)
    <3>3. t \in Seq(Nat) /\ IsWithout(t, s, i)
      BY <1>1, <3>2, RemoveIsWithout
    <3>4. others = t
      BY <2>1
    <3> HIDE DEF t, others
    <3>5. /\ Apart(t, g) /\ \A k \in 1..Len(t) : \E m \in 1..Len(s) : m # i /\ t[k] = s[m]
      BY <1>1, <1>2, <3>2, <3>3, WithoutApart
    <3>6. Len(t) <= CacheSize
      BY <1>1, <3>3 DEF IsWithout
    <3>7. ASSUME NEW k \in 1..Len(t)
          PROVE  g[t[k]].file # g[x].file
      <4>1. PICK m \in 1..Len(s) : m # i /\ t[k] = s[m]
        BY <3>5
      <4>2. g[s[m]].file = g[s[i]].file => m = i
        BY <1>2, <3>2 DEF Apart
      <4>3. QED
        BY <3>2, <4>1, <4>2
    <3>8. QED
      BY <3>3, <3>4, <3>5, <3>6, <3>7
  <2>2. CASE x \notin ToSet(loaded)
    <3>1. others = s /\ \A k \in 1..Len(s) : s[k] # x
      BY <1>1, <2>2 DEF ToSet
    <3>2. QED
      BY <1>1, <1>2, <3>1
  <2>3. QED
    BY <2>1, <2>2
<1> HIDE DEF others
<1>4. CASE CacheSize = 0
  <2>1. Used(x) = <<>> /\ <<>> \in Seq(Nat) /\ Len(<<>>) = 0
    BY <1>4 DEF Used
  <2>2. QED
    BY <1>1, <2>1 DEF Apart
<1>5. CASE CacheSize # 0
  <2>1. Free(kept) /\ Len(kept) < CacheSize
    <3>1. CASE Len(others) = CacheSize
      <4> DEFINE t == Tail(others)
      <4>1. others \in Seq(Nat) /\ Len(others) \in Nat /\ others # <<>>
        BY <1>1, <1>3, <1>5, <3>1, LenProperties
      <4>2. t \in Seq(Nat) /\ IsWithout(t, others, 1) /\ 1 \in 1..Len(others)
        BY <4>1, TailIsWithout
      <4>3. kept = t
        BY <3>1
      <4> HIDE DEF t, kept
      <4>4. /\ Apart(t, g)
            /\ \A k \in 1..Len(t) : \E m \in 1..Len(others) : m # 1 /\ t[k] = others[m]
        BY <1>3, <4>1, <4>2, WithoutApart
      <4>5. Len(t) < CacheSize /\ Len(t) <= CacheSize
        BY <1>1, <3>1, <4>2 DEF IsWithout
      <4>6. QED
        BY <1>3, <4>2, <4>3, <4>4, <4>5
    <3>2. CASE Len(others) # CacheSize
      <4>1. others \in Seq(Nat) /\ Len(others) \in Nat
        BY <1>3, LenProperties
      <4>2. QED
        BY <1>1, <1>3, <3>2, <4>1
    <3>3. QED
      BY <3>1, <3>2
  <2>2. Used(x) = Append(kept, x)
    BY <1>5 DEF Used, others
  <2> HIDE DEF kept
  <2> DEFINE q == Append(kept, x)
  <2>3. kept \in Seq(Nat) /\ Len(kept) \in Nat /\ x \in Nat
    BY <2>1, LenProperties
  <2>4. /\ q \in Seq(Nat) /\ Len(q) = Len(kept) + 1
        /\ q[Len(kept) + 1] = x /\ \A k \in 1..Len(kept) : q[k] = kept[k]
    BY <2>3, AppendProperties
  <2> HIDE DEF q
  <2>5. \A k \in 1..Len(q) : k \in 1..Len(kept) \/ k = Len(kept) + 1
    BY <2>3, <2>4
  <2>6. \A k \in 1..Len(q) : q[k] \in 1..Len(g)
    BY <2>1, <2>4, <2>5 DEF Apart
  <2>7. ASSUME NEW k \in 1..Len(q), NEW m \in 1..Len(q), g[q[k]].file = g[q[m]].file
        PROVE  k = m
    <3>1. CASE k \in 1..Len(kept) /\ m \in 1..Len(kept)
      BY <2>1, <2>4, <2>7, <3>1 DEF Apart
    <3>2. CASE k \in 1..Len(kept) /\ m = Len(kept) + 1
      BY <2>1, <2>4, <2>7, <3>2
    <3>3. CASE k = Len(kept) + 1 /\ m \in 1..Len(kept)
      BY <2>1, <2>4, <2>7, <3>3
    <3>4. QED
      BY <2>5, <3>1, <3>2, <3>3
  <2>8. Len(q) <= CacheSize
    BY <1>1, <2>1, <2>3, <2>4
  <2>9. QED
    BY <2>2, <2>4, <2>6, <2>7, <2>8 DEF Apart, q
<1>6. QED
  BY <1>4, <1>5

(* A reader goes on, and with it at most its artifact, which is its own to   *)
(* change while nobody else holds the lock.                                  *)
LEMMA ReaderMoves ==
  ASSUME SceneInv, NEW r \in Readers, NEW n \in Reading, NEW a \in Artifact, NEW x,
         x = reader[r].artifact, reader[r].at # "idle", n.artifact = x,
         a.file = artifacts[x].file,
         \/ a = artifacts[x]
         \/ /\ artifacts[x].lock \in {r, NoMap} /\ a.lock \in {r, NoMap}
            /\ artifacts[x].attempted = TRUE => a.attempted = TRUE /\ a.map = artifacts[x].map,
         a.lock = r => n.at \in Loading \cup {"return"},
         a.attempted = TRUE => Right(a),
         n.at # "idle" => Fits(r, n.at, a, n.got),
         loaded' = loaded, reader' = [reader EXCEPT ![r] = n],
         artifacts' = [artifacts EXCEPT ![x] = a]
  PROVE  SceneInv'
<1>1. /\ artifacts \in Seq(Artifact) /\ x \in 1..Len(artifacts) /\ Len(artifacts) \in Nat
      /\ reader \in [Readers -> Reading] /\ loaded \in Seq(Nat) /\ Len(loaded) <= CacheSize
      /\ \A q \in Readers : reader[q].at # "idle" => reader[q].artifact \in 1..Len(artifacts)
  BY LenProperties DEF SceneInv, SceneTypeOK
<1>2. /\ artifacts' \in Seq(Artifact) /\ Len(artifacts') = Len(artifacts) /\ artifacts'[x] = a
      /\ \A y \in 1..Len(artifacts) : y # x => artifacts'[y] = artifacts[y]
  BY <1>1, ExceptSeq
<1>3. /\ reader' \in [Readers -> Reading] /\ reader'[r] = n
      /\ \A q \in Readers : q # r => reader'[q] = reader[q]
  BY <1>1
<1>4. \A y \in 1..Len(artifacts) : artifacts'[y].file = artifacts[y].file
  BY <1>2
<1>5. SceneTypeOK'
  BY <1>1, <1>2, <1>3 DEF SceneTypeOK
<1>6. Apart(loaded', artifacts')
  BY <1>2, <1>4 DEF SceneInv, Apart
<1>7. ASSUME NEW y \in 1..Len(artifacts')
      PROVE  /\ artifacts'[y].attempted = TRUE => Right(artifacts'[y])
             /\ \A q \in Readers : artifacts'[y].lock = q =>
                  reader'[q].artifact = y /\ reader'[q].at \in Loading \cup {"return"}
  <2>1. artifacts'[y].attempted = TRUE => Right(artifacts'[y])
    BY <1>2 DEF SceneInv
  <2>2. ASSUME NEW q \in Readers, artifacts'[y].lock = q
        PROVE  reader'[q].artifact = y /\ reader'[q].at \in Loading \cup {"return"}
    <3>1. CASE y # x
      <4>1. artifacts[y].lock = q /\ reader[q].artifact = y /\ reader[q].at \in Loading \cup {"return"}
        BY <1>2, <2>2, <3>1 DEF SceneInv
      <4>2. q # r
        BY <3>1, <4>1
      <4>3. QED
        BY <1>3, <4>1, <4>2
    <3>2. CASE y = x /\ q = r
      BY <1>2, <1>3, <2>2, <3>2
    <3>3. CASE y = x /\ q # r
      <4>1. artifacts[x].lock = q
        BY <1>2, <2>2, <3>3, NoMapIsNone
      <4>2. reader[q].artifact = x /\ reader[q].at \in Loading \cup {"return"}
        BY <1>1, <4>1 DEF SceneInv
      <4>3. QED
        BY <1>3, <3>3, <4>2
    <3>4. QED
      BY <3>1, <3>2, <3>3
  <2>3. QED
    BY <2>1, <2>2
<1>8. ASSUME NEW q \in Readers, reader'[q].at # "idle"
      PROVE  Fits(q, reader'[q].at, artifacts'[reader'[q].artifact], reader'[q].got)
  <2>1. CASE q = r
    BY <1>2, <1>3, <1>8, <2>1
  <2>2. CASE q # r
    <3> DEFINE y == reader[q].artifact
    <3>1. /\ reader'[q] = reader[q] /\ y \in 1..Len(artifacts)
          /\ Fits(q, reader[q].at, artifacts[y], reader[q].got)
      BY <1>1, <1>3, <1>8, <2>2 DEF SceneInv, Mine
    <3>2. CASE y # x \/ a = artifacts[x]
      BY <1>2, <3>1, <3>2
    <3>3. CASE y = x /\ a # artifacts[x]
      <4>1. /\ artifacts[x].lock # q
            /\ artifacts[x].attempted = TRUE => a.attempted = TRUE /\ a.map = artifacts[x].map
        BY <2>2, <3>3, NoMapIsNone
      <4>2. Fits(q, reader[q].at, artifacts[x], reader[q].got)
        BY <3>1, <3>3
      <4>3. reader[q].at \notin Loading
        BY <4>1, <4>2 DEF Fits
      <4>4. Fits(q, reader[q].at, a, reader[q].got)
        BY <4>1, <4>2, <4>3 DEF Fits, Loading
      <4>5. QED
        BY <1>2, <3>1, <3>3, <4>4
    <3>4. QED
      BY <3>2, <3>3
  <2>3. QED
    BY <2>1, <2>2
<1>9. QED
  BY <1>5, <1>6, <1>7, <1>8 DEF SceneInv, Mine

(* The facts about a reader that is not idle, and its artifact.              *)
LEMMA ReaderFacts ==
  ASSUME SceneInv, NEW r \in Readers, reader[r].at # "idle"
  PROVE  /\ reader[r] \in Reading /\ reader[r].artifact \in 1..Len(artifacts)
         /\ Mine(r) \in Artifact /\ Mine(r) = artifacts[reader[r].artifact]
         /\ Fits(r, reader[r].at, Mine(r), reader[r].got)
         /\ Mine(r).attempted = TRUE => Right(Mine(r))
         /\ Mine(r).lock = r => reader[r].at \in Loading \cup {"return"}
         /\ artifacts \in Seq(Artifact) /\ reader \in [Readers -> Reading]
<1>1. artifacts \in Seq(Artifact) /\ reader \in [Readers -> Reading]
  BY DEF SceneInv, SceneTypeOK
<1>2. reader[r].artifact \in 1..Len(artifacts) /\ reader[r] \in Reading
  BY <1>1 DEF SceneInv, SceneTypeOK
<1>3. Mine(r) \in Artifact
  BY <1>1, <1>2, ElementOfSeq DEF Mine
<1>4. QED
  BY <1>1, <1>2, <1>3 DEF SceneInv, Mine

LEMMA WithSame ==
  ASSUME NEW r \in Readers, artifacts \in Seq(Artifact), reader[r].artifact \in 1..Len(artifacts)
  PROVE  artifacts = With(r, Mine(r))
<1> DEFINE x == reader[r].artifact
           u == [artifacts EXCEPT ![x] = artifacts[x]]
<1>1. artifacts[x] \in Artifact /\ x \in 1..Len(artifacts)
  BY ElementOfSeq
<1> HIDE DEF x
<1>2. /\ u \in Seq(Artifact) /\ Len(u) = Len(artifacts)
      /\ \A j \in 1..Len(artifacts) : u[j] = IF j = x THEN artifacts[x] ELSE artifacts[j]
  BY <1>1, ExceptSeq
<1> HIDE DEF u
<1>3. \A j \in 1..Len(artifacts) : u[j] = artifacts[j]
  BY <1>2
<1>4. u = artifacts
  BY <1>2, <1>3, SeqEqual
<1>5. QED
  BY <1>4 DEF With, Mine, u, x

LEMMA LoadStep ==
  ASSUME SceneInv, NEW r \in Readers,
         \/ CreateMap(r) \/ LoadClipgt(r) \/ LoadXodr(r) \/ Finalize(r) \/ MarkAttempted(r)
  PROVE  SceneInv'
<1> DEFINE x == reader[r].artifact
           m == Mine(r)
           has == Contents[m.file]
<1>0. reader[r].at \in Loading /\ reader[r].at # "idle" /\ loaded' = loaded
  BY DEF CreateMap, LoadClipgt, LoadXodr, Finalize, MarkAttempted, Loading
<1>1. /\ reader[r] \in Reading /\ x \in 1..Len(artifacts) /\ m \in Artifact /\ m = artifacts[x]
      /\ Fits(r, reader[r].at, m, reader[r].got) /\ m.lock = r /\ m.attempted = FALSE
      /\ artifacts \in Seq(Artifact) /\ reader \in [Readers -> Reading]
  BY <1>0, ReaderFacts DEF Fits
<1>2. has \in [clipgt : {"none", "whole", "broken"}, xodr : {"none", "whole", "unaligned"}]
  BY <1>1, NoMapIsNone DEF Artifact
<1> HIDE DEF m
<1>3. ASSUME NEW a \in Artifact, NEW place \in Loading \cup {"return", "raised"},
             artifacts' = With(r, a), GoTo(r, place), a.file = m.file,
             IF place = "raised" THEN a.lock = NoMap ELSE a.lock = r,
             a.attempted = TRUE => Right(a), Fits(r, place, a, reader[r].got)
      PROVE  SceneInv'
  <2> DEFINE n == [reader[r] EXCEPT !.at = place]
  <2>1. n \in Reading /\ n.artifact = x /\ n.at = place /\ n.got = reader[r].got
    BY <1>1, <1>3 DEF Reading
  <2>2. reader' = [reader EXCEPT ![r] = n] /\ artifacts' = [artifacts EXCEPT ![x] = a]
    BY <1>3 DEF GoTo, With
  <2>3. a.lock = r => place \in Loading \cup {"return"}
    BY <1>3, NoMapIsNone
  <2>4. a.file = artifacts[x].file /\ artifacts[x].lock \in {r, NoMap} /\ a.lock \in {r, NoMap}
        /\ artifacts[x].attempted = FALSE
    BY <1>1, <1>3
  <2> HIDE DEF n, x
  <2>5. QED
    BY <1>0, <1>3, <2>1, <2>2, <2>3, <2>4, ReaderMoves DEF x
<1>4. CASE CreateMap(r)
  <2> DEFINE a == [m EXCEPT !.map = Empty]
  <2>1. artifacts' = With(r, a) /\ GoTo(r, "clipgt")
    BY <1>4 DEF CreateMap, m
  <2>2. a \in Artifact /\ a.file = m.file /\ a.lock = r /\ a.attempted = FALSE /\ a.map = Empty
    BY <1>1, NoMapIsNone DEF Artifact
  <2> HIDE DEF a
  <2>3. Fits(r, "clipgt", a, reader[r].got)
    BY <2>2 DEF Fits, Loading
  <2>4. QED
    BY <1>3, <2>1, <2>2, <2>3 DEF Loading
<1>5. ASSUME NEW p \in {"clipgt", "remnant", "xodr"}, m.map \in Maps
      PROVE  LET a == Plus(r, p) IN
             /\ a \in Artifact /\ a.file = m.file /\ a.lock = r /\ a.attempted = FALSE
             /\ a.map \in Maps /\ a.map.parts = m.map.parts \cup {p}
  BY <1>1, <1>5 DEF Artifact, Maps, Plus, m
<1>6. CASE LoadClipgt(r)
  <2>1. m.map = Empty /\ m.map \in Maps /\ m.map.parts = {}
    BY <1>1, <1>6, NoMapIsNone DEF LoadClipgt, Fits, Empty
  <2>2. CASE has.clipgt = "whole"
    <3> DEFINE a == Plus(r, "clipgt")
    <3>1. artifacts' = With(r, a) /\ GoTo(r, "finalize")
      BY <1>6, <2>2 DEF LoadClipgt, m
    <3>2. /\ a \in Artifact /\ a.file = m.file /\ a.lock = r /\ a.attempted = FALSE
          /\ a.map \in Maps /\ a.map.parts = {"clipgt"}
      BY <1>5, <2>1
    <3> HIDE DEF a
    <3>3. Fits(r, "finalize", a, reader[r].got)
      BY <2>2, <3>2 DEF Fits, Loading, Filled
    <3>4. QED
      BY <1>3, <3>1, <3>2, <3>3 DEF Loading
  <2>3. CASE has.clipgt = "broken"
    <3> DEFINE b == Plus(r, "remnant")
    <3>1. artifacts' \in {artifacts, With(r, b)} /\ GoTo(r, "xodr")
      BY <1>6, <2>3 DEF LoadClipgt, m
    <3>2. PICK a \in {m, b} : artifacts' = With(r, a)
      BY <1>1, <3>1, WithSame DEF m
    <3>3. /\ b \in Artifact /\ b.file = m.file /\ b.lock = r /\ b.attempted = FALSE /\ b.map \in Maps
      BY <1>5, <2>1
    <3> HIDE DEF b
    <3>4. /\ a \in Artifact /\ a.file = m.file /\ a.lock = r /\ a.attempted = FALSE /\ a.map \in Maps
      BY <1>1, <2>1, <3>2, <3>3
    <3>5. Fits(r, "xodr", a, reader[r].got)
      BY <2>3, <3>4 DEF Fits, Loading
    <3>6. QED
      BY <1>3, <3>1, <3>2, <3>4, <3>5 DEF Loading
  <2>4. CASE has.clipgt = "none"
    <3>1. artifacts' = With(r, m) /\ GoTo(r, "xodr")
      BY <1>1, <1>6, <2>4, WithSame DEF LoadClipgt, m
    <3>2. Fits(r, "xodr", m, reader[r].got)
      BY <1>1, <2>1, <2>4 DEF Fits, Loading
    <3>3. QED
      BY <1>1, <1>3, <3>1, <3>2 DEF Loading
  <2>5. QED
    BY <1>2, <2>2, <2>3, <2>4
<1>7. CASE LoadXodr(r)
  <2>1. m.map \in Maps /\ has.clipgt # "whole"
    BY <1>1, <1>7 DEF LoadXodr, Fits
  <2>2. CASE has.xodr = "whole"
    <3> DEFINE a == Plus(r, "xodr")
    <3>1. artifacts' = With(r, a) /\ GoTo(r, "finalize")
      BY <1>7, <2>2 DEF LoadXodr, m
    <3>2. /\ a \in Artifact /\ a.file = m.file /\ a.lock = r /\ a.attempted = FALSE
          /\ a.map \in Maps /\ "xodr" \in a.map.parts
      BY <1>5, <2>1
    <3> HIDE DEF a
    <3>3. Fits(r, "finalize", a, reader[r].got)
      BY <2>1, <2>2, <3>2 DEF Fits, Loading, Filled
    <3>4. QED
      BY <1>3, <3>1, <3>2, <3>3 DEF Loading
  <2>3. CASE has.xodr = "unaligned"
    <3> DEFINE a == [m EXCEPT !.lock = NoMap]
    <3>1. artifacts' = With(r, a) /\ GoTo(r, "raised")
      BY <1>7, <2>3 DEF LoadXodr, m
    <3>2. a \in Artifact /\ a.file = m.file /\ a.lock = NoMap /\ a.attempted = FALSE
      BY <1>1 DEF Artifact
    <3> HIDE DEF a
    <3>3. Fits(r, "raised", a, reader[r].got)
      BY <2>1, <2>3, <3>2 DEF Fits, Loading
    <3>4. QED
      BY <1>3, <3>1, <3>2, <3>3
  <2>4. CASE has.xodr = "none"
    <3> DEFINE a == [m EXCEPT !.map = NoMap, !.attempted = TRUE]
    <3>1. artifacts' = With(r, a) /\ GoTo(r, "return")
      BY <1>7, <2>4 DEF LoadXodr, m
    <3>2. a \in Artifact /\ a.file = m.file /\ a.lock = r /\ a.attempted = TRUE /\ a.map = NoMap
      BY <1>1 DEF Artifact
    <3> HIDE DEF a
    <3>3. Fits(r, "return", a, reader[r].got) /\ Right(a)
      BY <2>1, <2>4, <3>2 DEF Fits, Loading, Right, Unmapped
    <3>4. QED
      BY <1>3, <3>1, <3>2, <3>3
  <2>5. QED
    BY <1>2, <2>2, <2>3, <2>4
<1>8. CASE Finalize(r)
  <2> DEFINE a == [m EXCEPT !.map.final = TRUE]
  <2>1. artifacts' = With(r, a) /\ GoTo(r, "mark")
    BY <1>8 DEF Finalize, m
  <2>2. Filled(m) /\ m.map \in Maps
    BY <1>1, <1>8 DEF Finalize, Fits, Filled
  <2>3. /\ a \in Artifact /\ a.file = m.file /\ a.lock = r /\ a.attempted = FALSE
        /\ a.map \in Maps /\ a.map.parts = m.map.parts /\ a.map.final
    BY <1>1, <2>2 DEF Artifact, Maps
  <2> HIDE DEF a
  <2>4. Filled(a)
    BY <2>2, <2>3 DEF Filled
  <2>5. Fits(r, "mark", a, reader[r].got)
    BY <2>3, <2>4 DEF Fits, Loading
  <2>6. QED
    BY <1>3, <2>1, <2>3, <2>5 DEF Loading
<1>9. CASE MarkAttempted(r)
  <2> DEFINE a == [m EXCEPT !.attempted = TRUE]
  <2>1. artifacts' = With(r, a) /\ GoTo(r, "return")
    BY <1>9 DEF MarkAttempted, m
  <2>2. Filled(m) /\ m.map.final
    BY <1>1, <1>9 DEF MarkAttempted, Fits
  <2>3. /\ a \in Artifact /\ a.file = m.file /\ a.lock = r /\ a.attempted = TRUE /\ a.map = m.map
    BY <1>1 DEF Artifact
  <2> HIDE DEF a
  <2>4. Right(a)
    BY <2>2, <2>3 DEF Filled, Right
  <2>5. Fits(r, "return", a, reader[r].got)
    BY <2>3 DEF Fits, Loading
  <2>6. QED
    BY <1>3, <2>1, <2>3, <2>4, <2>5
<1>10. QED
  BY <1>4, <1>6, <1>7, <1>8, <1>9

LEMMA PassStep ==
  ASSUME SceneInv, NEW r \in Readers,
         Check(r) \/ AcquireLock(r) \/ ReturnMap(r) \/ LeaveScene(r)
  PROVE  SceneInv'
<1> DEFINE x == reader[r].artifact
           m == Mine(r)
<1>0. reader[r].at # "idle" /\ loaded' = loaded
  BY DEF Check, AcquireLock, ReturnMap, LeaveScene
<1>1. /\ reader[r] \in Reading /\ x \in 1..Len(artifacts) /\ m \in Artifact /\ m = artifacts[x]
      /\ Fits(r, reader[r].at, m, reader[r].got) /\ (m.attempted = TRUE => Right(m))
      /\ m.lock = r => reader[r].at \in Loading \cup {"return"}
      /\ artifacts \in Seq(Artifact) /\ reader \in [Readers -> Reading]
  BY <1>0, ReaderFacts
<1>2. artifacts = With(r, m)
  BY <1>1, WithSame
<1> HIDE DEF m
<1>3. ASSUME NEW n \in Reading, n.artifact = x, reader' = [reader EXCEPT ![r] = n],
             NEW a \in {m, [m EXCEPT !.lock = NoMap], [m EXCEPT !.lock = r]}, artifacts' = With(r, a),
             a # m => m.lock \in {r, NoMap},
             a.lock = r => n.at \in Loading \cup {"return"},
             n.at # "idle" => Fits(r, n.at, a, n.got)
      PROVE  SceneInv'
  <2>1. a \in Artifact /\ a.file = m.file /\ a.map = m.map /\ a.attempted = m.attempted
    BY <1>1, <1>3 DEF Artifact
  <2>2. \/ a = artifacts[x]
        \/ /\ artifacts[x].lock \in {r, NoMap} /\ a.lock \in {r, NoMap}
           /\ artifacts[x].attempted = TRUE => a.attempted = TRUE /\ a.map = artifacts[x].map
    <3>1. CASE a # m
      <4>1. m.lock \in {r, NoMap}
        BY <1>3, <3>1
      <4>2. a.lock \in {r, NoMap}
        BY <1>1, <1>3, <3>1 DEF Artifact
      <4>3. QED
        BY <1>1, <2>1, <4>1, <4>2
    <3>2. QED
      BY <1>1, <3>1
  <2>3. a.attempted = TRUE => Right(a)
    BY <1>1, <2>1 DEF Right, Filled, Unmapped
  <2>4. artifacts' = [artifacts EXCEPT ![x] = a]
    BY <1>3 DEF With
  <2>5. a.file = artifacts[x].file /\ n.artifact = x /\ x = reader[r].artifact
    BY <1>1, <1>3, <2>1
  <2> HIDE DEF x
  <2>6. QED
    BY <1>0, <1>3, <2>1, <2>2, <2>3, <2>4, <2>5, ReaderMoves
<1>4. CASE Check(r)
  <2> DEFINE n == [reader[r] EXCEPT !.at = IF m.attempted THEN "return" ELSE "lock"]
  <2>1. reader' = [reader EXCEPT ![r] = n] /\ artifacts' = With(r, m) /\ reader[r].at = "check"
    BY <1>2, <1>4 DEF Check, GoTo, m
  <2>2. /\ n \in Reading /\ n.artifact = x /\ n.at \in {"return", "lock"}
        /\ n.at = "return" => m.attempted = TRUE
    BY <1>1 DEF Reading, Artifact
  <2>3. ~(m.lock = r)
    BY <1>1, <2>1 DEF Loading
  <2> HIDE DEF n
  <2>4. Fits(r, n.at, m, n.got)
    BY <2>2 DEF Fits, Loading
  <2>5. QED
    BY <1>3, <2>1, <2>2, <2>3, <2>4
<1>5. CASE AcquireLock(r)
  <2> DEFINE n == [reader[r] EXCEPT !.at = IF m.attempted THEN "return" ELSE "create"]
             a == [m EXCEPT !.lock = r]
  <2>1. /\ reader' = [reader EXCEPT ![r] = n] /\ artifacts' = With(r, a) /\ m.lock = NoMap
    BY <1>5 DEF AcquireLock, GoTo, m
  <2>2. /\ n \in Reading /\ n.artifact = x /\ n.at \in {"return", "create"}
        /\ n.at = "return" => m.attempted = TRUE
        /\ n.at = "create" => m.attempted = FALSE
    BY <1>1 DEF Reading, Artifact, Loading
  <2>3. a.lock = r /\ a.attempted = m.attempted
    BY <1>1 DEF Artifact
  <2>4. Fits(r, n.at, a, n.got)
    <3> HIDE DEF n, a
    <3>1. QED
      BY <2>2, <2>3 DEF Fits, Loading
  <2>5. n.at \in Loading \cup {"return"}
    BY <2>2 DEF Loading
  <2> HIDE DEF n
  <2>6. QED
    BY <1>3, <2>1, <2>2, <2>4, <2>5
<1>6. CASE ReturnMap(r)
  <2> DEFINE n == [reader[r] EXCEPT !.at = "served", !.got = m.map]
             a == IF m.lock = r THEN [m EXCEPT !.lock = NoMap] ELSE m
  <2>1. reader' = [reader EXCEPT ![r] = n] /\ artifacts' = With(r, a) /\ reader[r].at = "return"
    <3>1. x # 0
      BY <1>1
    <3>2. reader' = [reader EXCEPT ![r] = n] /\ reader[r].at = "return"
      BY <1>6 DEF ReturnMap, m
    <3>3. artifacts' = IF m.lock = r THEN With(r, [m EXCEPT !.lock = NoMap]) ELSE artifacts
      BY <1>6, <3>1 DEF ReturnMap, Holds, m
    <3>4. QED
      BY <1>2, <3>2, <3>3
  <2>2. n \in Reading /\ n.artifact = x /\ n.at = "served" /\ n.got = m.map
    BY <1>1 DEF Reading, Artifact
  <2>3. a.lock # r /\ a.attempted = m.attempted /\ a.map = m.map /\ (a # m => m.lock = r)
    BY <1>1, NoMapIsNone DEF Artifact
  <2>4. m.attempted = TRUE
    BY <1>1, <2>1 DEF Fits
  <2>5. a \in {m, [m EXCEPT !.lock = NoMap], [m EXCEPT !.lock = r]}
    OBVIOUS
  <2> HIDE DEF n, a
  <2>6. Fits(r, n.at, a, n.got)
    BY <2>2, <2>3, <2>4 DEF Fits, Loading
  <2>7. QED
    BY <1>3, <2>1, <2>2, <2>3, <2>5, <2>6
<1>7. CASE LeaveScene(r)
  <2> DEFINE n == [reader[r] EXCEPT !.at = "idle"]
  <2>1. /\ reader' = [reader EXCEPT ![r] = n] /\ artifacts' = With(r, m)
        /\ reader[r].at \in {"served", "raised"}
    BY <1>2, <1>7 DEF LeaveScene, GoTo
  <2>2. n \in Reading /\ n.artifact = x /\ n.at = "idle"
    BY <1>1 DEF Reading
  <2>3. ~(m.lock = r)
    BY <1>1, <2>1 DEF Loading
  <2> HIDE DEF n
  <2>4. QED
    BY <1>3, <2>1, <2>2, <2>3
<1>8. QED
  BY <1>4, <1>5, <1>6, <1>7

LEMMA DataSourceStep ==
  ASSUME SceneInv, NEW r \in Readers, NEW f \in Files, GetDataSource(r, f)
  PROVE  SceneInv'
<1> DEFINE hits == {y \in ToSet(loaded) : artifacts[y].file = f}
           x == IF hits = {} THEN Len(artifacts) + 1 ELSE CHOOSE y \in hits : TRUE
           g == IF hits = {} THEN Append(artifacts, NewArtifact(f)) ELSE artifacts
           n == [at |-> "check", artifact |-> x, got |-> NoMap]
<1>1. /\ artifacts \in Seq(Artifact) /\ Len(artifacts) \in Nat /\ reader \in [Readers -> Reading]
      /\ loaded \in Seq(Nat) /\ Len(loaded) <= CacheSize /\ Apart(loaded, artifacts)
      /\ DOMAIN loaded = 1..Len(loaded)
      /\ \A y \in 1..Len(artifacts) :
           /\ artifacts[y].attempted = TRUE => Right(artifacts[y])
           /\ \A q \in Readers : artifacts[y].lock = q =>
                reader[q].artifact = y /\ reader[q].at \in Loading \cup {"return"}
      /\ \A q \in Readers : reader[q].at # "idle" =>
           /\ reader[q].artifact \in 1..Len(artifacts)
           /\ Fits(q, reader[q].at, artifacts[reader[q].artifact], reader[q].got)
  BY LenProperties DEF SceneInv, SceneTypeOK, Mine
<1>2. /\ reader[r].at = "idle" /\ artifacts' = g /\ loaded' = Used(x)
      /\ reader' = [reader EXCEPT ![r] = n]
  BY DEF GetDataSource
<1>3. /\ NewArtifact(f) \in Artifact /\ NewArtifact(f).file = f /\ NewArtifact(f).attempted = FALSE
      /\ NewArtifact(f).lock = NoMap
  BY DEF NewArtifact, Artifact
<1>4. /\ g \in Seq(Artifact) /\ Len(g) \in Nat /\ x \in 1..Len(g) /\ g[x].file = f
      /\ \A y \in 1..Len(artifacts) : y \in 1..Len(g) /\ g[y] = artifacts[y]
      /\ \A y \in 1..Len(g) :
           y \in 1..Len(artifacts) \/ (g[y].attempted = FALSE /\ g[y].lock = NoMap)
      /\ \A i \in 1..Len(loaded) : loaded[i] # x => artifacts[loaded[i]].file # f
  <2>1. CASE hits = {}
    <3> DEFINE new == NewArtifact(f)
    <3>1. x = Len(artifacts) + 1 /\ g = Append(artifacts, new)
      BY <2>1
    <3>2. new \in Artifact
      BY <1>3
    <3>3. \A i \in 1..Len(loaded) : artifacts[loaded[i]].file # f
      <4>1. \A i \in 1..Len(loaded) : loaded[i] \in ToSet(loaded)
        BY <1>1 DEF ToSet
      <4>2. QED
        BY <2>1, <4>1
    <3> HIDE DEF new, g, x
    <3>4. /\ g \in Seq(Artifact) /\ Len(g) = Len(artifacts) + 1 /\ g[Len(artifacts) + 1] = new
          /\ \A y \in 1..Len(artifacts) : g[y] = artifacts[y]
      BY <1>1, <3>1, <3>2, AppendProperties
    <3>5. \A y \in 1..Len(g) : y \in 1..Len(artifacts) \/ y = Len(artifacts) + 1
      BY <1>1, <3>4
    <3>6. Len(g) \in Nat /\ x \in 1..Len(g) /\ g[x].file = f
      BY <1>1, <1>3, <3>1, <3>4 DEF new
    <3>7. \A y \in 1..Len(artifacts) : y \in 1..Len(g) /\ g[y] = artifacts[y]
      BY <1>1, <3>4
    <3>8. ASSUME NEW y \in 1..Len(g)
          PROVE  y \in 1..Len(artifacts) \/ (g[y].attempted = FALSE /\ g[y].lock = NoMap)
      <4>1. new.attempted = FALSE /\ new.lock = NoMap
        BY <1>3 DEF new
      <4>2. y \in 1..Len(artifacts) \/ g[y] = new
        BY <3>4, <3>5
      <4>3. QED
        BY <4>1, <4>2
    <3>9. QED
      BY <3>3, <3>4, <3>6, <3>7, <3>8
  <2>2. CASE hits # {}
    <3>1. x \in hits /\ g = artifacts
      BY <2>2
    <3>2. PICK i \in 1..Len(loaded) : loaded[i] = x
      BY <1>1, <3>1 DEF ToSet
    <3>3. x \in 1..Len(artifacts) /\ artifacts[x].file = f
      BY <1>1, <3>1, <3>2 DEF Apart
    <3> HIDE DEF x, g, hits
    <3>4. ASSUME NEW k \in 1..Len(loaded), loaded[k] # x
          PROVE  artifacts[loaded[k]].file # f
      BY <1>1, <3>2, <3>3, <3>4 DEF Apart
    <3>5. g \in Seq(Artifact) /\ Len(g) \in Nat /\ x \in 1..Len(g) /\ g[x].file = f
      BY <1>1, <3>1, <3>3
    <3>6. \A y \in 1..Len(artifacts) : y \in 1..Len(g) /\ g[y] = artifacts[y]
      BY <3>1
    <3>7. \A y \in 1..Len(g) :
             y \in 1..Len(artifacts) \/ (g[y].attempted = FALSE /\ g[y].lock = NoMap)
      BY <3>1
    <3>8. QED
      BY <3>4, <3>5, <3>6, <3>7
  <2>3. QED
    BY <2>1, <2>2
<1> HIDE DEF x, g
<1>5. /\ Used(x) \in Seq(Nat) /\ Len(Used(x)) <= CacheSize /\ Apart(Used(x), g)
  <2>1. \A i \in 1..Len(loaded) : loaded[i] \in 1..Len(artifacts)
    BY <1>1 DEF Apart
  <2>2. \A i \in 1..Len(loaded) : loaded[i] # x => g[loaded[i]].file # g[x].file
    BY <1>4, <2>1
  <2>3. \A y \in 1..Len(artifacts) : y \in 1..Len(g) /\ g[y].file = artifacts[y].file
    BY <1>4
  <2>4. QED
    BY <1>1, <1>4, <2>2, <2>3, UsedApart
<1>6. n \in Reading /\ n.at = "check" /\ n.artifact = x
  BY <1>4 DEF Reading
<1> HIDE DEF n
<1>7. /\ reader' \in [Readers -> Reading] /\ reader'[r] = n
      /\ \A q \in Readers : q # r => reader'[q] = reader[q]
  BY <1>1, <1>2, <1>6
<1>8. SceneTypeOK'
  BY <1>1, <1>2, <1>4, <1>5, <1>6, <1>7 DEF SceneTypeOK
<1>9. ASSUME NEW y \in 1..Len(g)
      PROVE  /\ g[y].attempted = TRUE => Right(g[y])
             /\ \A q \in Readers : g[y].lock = q =>
                  reader'[q].artifact = y /\ reader'[q].at \in Loading \cup {"return"}
  <2>1. CASE y \in 1..Len(artifacts)
    <3>1. g[y].attempted = TRUE => Right(g[y])
      BY <1>1, <1>4, <2>1
    <3>2. ASSUME NEW q \in Readers, g[y].lock = q
          PROVE  reader'[q].artifact = y /\ reader'[q].at \in Loading \cup {"return"}
      <4>1. reader[q].artifact = y /\ reader[q].at \in Loading \cup {"return"}
        BY <1>1, <1>4, <2>1, <3>2
      <4>2. q # r
        BY <1>2, <4>1 DEF Loading
      <4>3. QED
        BY <1>7, <4>1, <4>2
    <3>3. QED
      BY <3>1, <3>2
  <2>2. CASE y \notin 1..Len(artifacts)
    BY <1>4, <2>2, NoMapIsNone
  <2>3. QED
    BY <2>1, <2>2
<1>10. ASSUME NEW q \in Readers, reader'[q].at # "idle"
       PROVE  Fits(q, reader'[q].at, g[reader'[q].artifact], reader'[q].got)
  <2>1. CASE q = r
    BY <1>6, <1>7, <2>1 DEF Fits, Loading
  <2>2. CASE q # r
    BY <1>1, <1>4, <1>7, <1>10, <2>2
  <2>3. QED
    BY <2>1, <2>2
<1>11. QED
  BY <1>2, <1>5, <1>8, <1>9, <1>10 DEF SceneInv, Mine

LEMMA SceneStart == SceneMapsInit => SceneInv
<1> SUFFICES ASSUME SceneMapsInit
             PROVE  SceneInv
  OBVIOUS
<1>1. /\ loaded = <<>> /\ artifacts = <<>> /\ CacheSize \in Nat
      /\ reader = [r \in Readers |-> [at |-> "idle", artifact |-> 0, got |-> NoMap]]
  BY NoMapIsNone DEF SceneMapsInit
<1>2. /\ loaded \in Seq(Nat) /\ Len(loaded) = 0 /\ artifacts \in Seq(Artifact) /\ Len(artifacts) = 0
  BY <1>1
<1>3. reader \in [Readers -> Reading] /\ \A r \in Readers : reader[r].at = "idle"
  BY <1>1 DEF Reading
<1>4. \A i \in 1..0 : FALSE
  OBVIOUS
<1>5. QED
  BY <1>1, <1>2, <1>3, <1>4 DEF SceneInv, SceneTypeOK, Apart

(* However the rollouts of a worker take turns at the cache and at the lock, *)
(* a load leaves an artifact right or as if it had never begun.              *)
THEOREM ScenesFit == SceneMapsSpec => []SceneInv
<1>1. SceneInv /\ [SceneMapsNext]_sceneVars => SceneInv'
  <2> SUFFICES ASSUME SceneInv, [SceneMapsNext]_sceneVars
               PROVE  SceneInv'
    OBVIOUS
  <2>1. CASE SceneMapsNext
    <3>1. PICK r \in Readers :
            \/ \E f \in Files : GetDataSource(r, f)
            \/ Check(r) \/ AcquireLock(r) \/ CreateMap(r) \/ LoadClipgt(r) \/ LoadXodr(r)
            \/ Finalize(r) \/ MarkAttempted(r) \/ ReturnMap(r) \/ LeaveScene(r)
      BY <2>1 DEF SceneMapsNext
    <3>2. CASE \E f \in Files : GetDataSource(r, f)
      BY <3>2, DataSourceStep
    <3>3. CASE Check(r) \/ AcquireLock(r) \/ ReturnMap(r) \/ LeaveScene(r)
      BY <3>3, PassStep
    <3>4. CASE \/ CreateMap(r) \/ LoadClipgt(r) \/ LoadXodr(r) \/ Finalize(r) \/ MarkAttempted(r)
      BY <3>4, LoadStep
    <3>5. QED
      BY <3>1, <3>2, <3>3, <3>4
  <2>2. CASE UNCHANGED sceneVars
    BY <2>2 DEF sceneVars, SceneInv, SceneTypeOK, Apart, Mine
  <2>3. QED
    BY <2>1, <2>2
<1>2. QED
  BY <1>1, SceneStart, PTL DEF SceneMapsSpec

(* Each rollout gets the finished map of its scene, whole, from the source   *)
(* that is preferred, or none where there is none, and a load that raised    *)
(* leaves nothing that passes for a map (artifact.py's map property and      *)
(* _load_map, and artifact_cache.py): for every set of files and contents,   *)
(* any number of readers and size of the cache.                              *)
THEOREM MapsAreWhole == SceneMapsSpec => []MapsWhole
<1>1. SceneInv => MapsWhole
  <2> SUFFICES ASSUME SceneInv
               PROVE  MapsWhole
    OBVIOUS
  <2>1. /\ loaded \in Seq(Nat) /\ DOMAIN loaded = 1..Len(loaded) /\ Len(loaded) <= CacheSize
        /\ Apart(loaded, artifacts)
    BY LenProperties DEF SceneInv, SceneTypeOK
  <2>2. ASSUME NEW r \in Readers, reader[r].at \in {"served", "raised"}
        PROVE  LET has == Contents[Mine(r).file]  got == reader[r].got IN
               /\ reader[r].at = "served" =>
                    /\ got = NoMap <=> has.clipgt # "whole" /\ has.xodr = "none"
                    /\ got # NoMap =>
                         /\ got.final /\ got = Mine(r).map
                         /\ IF has.clipgt = "whole" THEN got.parts = {"clipgt"} ELSE "xodr" \in got.parts
               /\ reader[r].at = "raised" => has.clipgt # "whole" /\ has.xodr = "unaligned"
    <3> DEFINE m == Mine(r)
    <3>1. Fits(r, reader[r].at, m, reader[r].got) /\ (m.attempted = TRUE => Right(m))
      BY <2>2, ReaderFacts
    <3> HIDE DEF m
    <3>2. CASE reader[r].at = "served"
      <4>1. reader[r].got = m.map /\ Right(m)
        BY <3>1, <3>2 DEF Fits
      <4>2. QED
        BY <3>2, <4>1, NoMapIsNone DEF Right, Filled, Unmapped, m
    <3>3. CASE reader[r].at = "raised"
      BY <3>1, <3>3 DEF Fits, m
    <3>4. QED
      BY <2>2, <3>2, <3>3
  <2>3. QED
    BY <2>1, <2>2 DEF MapsWhole, Apart
<1>2. QED
  BY <1>1, ScenesFit, PTL

-----------------------------------------------------------------------------
(* The startup of the engine (DaemonStartup)                                 *)

\* What the checks have established, each of the configuration alone.
HaveAddresses == \A s \in Active : config.endpoints[s] # <<>>
SameVersions  ==
  \A s \in Active : \A i, k \in DOMAIN config.endpoints[s] :
    VersionAt[config.endpoints[s][i]] = VersionAt[config.endpoints[s][k]]
ScenesThere   == \A p \in SceneProbes : Incompatible(p) = {}
Buildable     == Loadable /\ (\A s \in Active : CapacityOf(s) > 0) /\ config.nrWorkers >= 1
Answerable    ==
  (Affine /\ "renderer" \in Active) => ToSet(config.endpoints["renderer"]) \subseteq Introspects

\* The field of an active service has the version of its first address, and
\* no other field has one.
VersionsRecorded ==
  /\ \A s \in Active : versions[VersionField[s]] = VersionAt[config.endpoints[s][1]]
  /\ \A f \in VersionFields :
       (\A s \in Active : VersionField[s] # f) => versions[f] = SkipVersion

\* Every rollout that is taken finds a slot.
LimitFits == inFlight \in Nat /\ \A s \in Active : inFlight \in 1..CapacityOf(s)

\* The places of startup from which a check has passed.
PlacesWithScenes  == {"load", "spawn", "warm", "started"}
PlacesWithVersions == {"scenes"} \cup PlacesWithScenes
PlacesWithContext == {"spawn", "warm", "started"}
PlacesOutside  == {"leaving", "failed", "stopped"}

\* What each place of startup knows: the checks it has behind it, its calls,
\* its workers and its scheduler.
ChecksPassed ==
  /\ boot = "versions" => DOMAIN probes = VersionProbes /\ HaveAddresses
  /\ boot \in PlacesWithVersions => HaveAddresses /\ SameVersions /\ VersionsRecorded
  /\ boot = "scenes" => DOMAIN probes = SceneProbes
  /\ boot \in PlacesWithScenes => ScenesThere
  /\ boot \in PlacesWithContext => Buildable /\ LimitFits
  /\ boot = "started" => Answerable

NothingLeft ==
  /\ boot \notin {"versions", "scenes", "leaving"} => Pending = {}
  /\ dispatcher = "running" => boot \in {"warm", "started", "undo"}
  /\ boot \in PlacesOutside => spawned = 0 \/ spawnFailed

WorkersFit ==
  /\ spawned \in 0..config.nrWorkers
  /\ boot \in {"parse", "versions", "scenes", "load"} => spawned = 0
  /\ spawned > 0 => config.ports >= config.nrWorkers
  /\ boot \in {"warm", "started"} => spawned = config.nrWorkers /\ dispatcher = "running"

BootPlaces == {"parse", "undo", "stopping", "versions"} \cup PlacesWithVersions \cup PlacesOutside

StartupInv ==
  /\ config \in Setups /\ boot \in BootPlaces
  /\ ChecksPassed /\ NothingLeft /\ WorkersFit

LEMMA SetupOf ==
  ASSUME StartupInv
  PROVE  /\ config.endpoints \in [ServiceNames -> Seq(DOMAIN VersionAt)]
         /\ config.concurrent \in [ServiceNames -> Nat]
         /\ config.nrWorkers \in Nat /\ config.ports \in Nat /\ config.files \in Seq(STRING)
         /\ Active \subseteq ServiceNames
BY StartupAssumption DEF StartupInv, Active

\* The checks that passed stay passed: the configuration does not change.
LEMMA ConfigSame ==
  ASSUME config' = config
  PROVE  /\ HaveAddresses' = HaveAddresses /\ SameVersions' = SameVersions
         /\ ScenesThere' = ScenesThere /\ Buildable' = Buildable /\ Answerable' = Answerable
         /\ VersionProbes' = VersionProbes /\ SceneProbes' = SceneProbes
         /\ versions' = versions => VersionsRecorded' = VersionsRecorded
         /\ inFlight' = inFlight => LimitFits' = LimitFits
<1>1. Active' = Active
  BY DEF Active
<1>2. HaveAddresses' = HaveAddresses
  BY <1>1 DEF HaveAddresses
<1>3. SameVersions' = SameVersions
  BY <1>1 DEF SameVersions
<1>4. SceneProbes' = SceneProbes
  BY <1>1 DEF SceneProbes
<1>5. VersionProbes' = VersionProbes
  BY <1>1 DEF VersionProbes, ProbesOf
<1>6. ASSUME NEW p PROVE Incompatible(p)' = Incompatible(p)
  BY DEF Incompatible, Validated, AddressAt
<1>7. ScenesThere' = ScenesThere
  BY <1>4, <1>6 DEF ScenesThere
<1>8. Buildable' = Buildable
  BY <1>1 DEF Buildable, Loadable, CapacityOf
<1>9. Answerable' = Answerable
  BY <1>1 DEF Answerable, Affine
<1>10. versions' = versions => VersionsRecorded' = VersionsRecorded
  BY <1>1 DEF VersionsRecorded, VersionField
<1>11. inFlight' = inFlight => LimitFits' = LimitFits
  BY <1>1 DEF LimitFits, CapacityOf
<1> QED BY <1>2, <1>3, <1>4, <1>5, <1>7, <1>8, <1>9, <1>10, <1>11

LEMMA StartupStarts == StartupInit => StartupInv
<1> SUFFICES ASSUME StartupInit PROVE StartupInv
  OBVIOUS
<1>1. config \in Setups /\ boot = "parse" /\ spawned = 0 /\ dispatcher = "none" /\ probes = <<>>
  BY DEF StartupInit
<1>2. Pending = {}
  BY <1>1 DEF Pending
<1>3. config.nrWorkers \in Nat
  BY <1>1, StartupAssumption
<1> QED BY <1>1, <1>2, <1>3 DEF StartupInv, BootPlaces, PlacesWithVersions, PlacesWithScenes, PlacesWithContext, PlacesOutside,
           ChecksPassed, NothingLeft, WorkersFit

LEMMA FieldsApart ==
  /\ \A s \in ServiceNames : VersionField[s] \in VersionFields
  /\ \A s, t \in ServiceNames : VersionField[s] = VersionField[t] => s = t
BY StartupAssumption DEF VersionField, VersionFields

LEMMA CanonicalRecords ==
  ASSUME StartupInv
  PROVE  /\ \A s \in Active : Canonical[VersionField[s]] = VersionAt[config.endpoints[s][1]]
         /\ \A f \in VersionFields : (\A s \in Active : VersionField[s] # f) => Canonical[f] = SkipVersion
<1> DEFINE Of(f) == {s \in Active : VersionField[s] = f}
<1>1. \A f \in VersionFields :
        Canonical[f] = IF Of(f) = {} THEN SkipVersion
                       ELSE VersionAt[AddressAt(<<CHOOSE s \in Of(f) : TRUE, 1>>)]
  BY DEF Canonical
<1>2. ASSUME NEW s \in Active PROVE Canonical[VersionField[s]] = VersionAt[config.endpoints[s][1]]
  <2>1. s \in ServiceNames /\ VersionField[s] \in VersionFields
    BY SetupOf, FieldsApart
  <2>2. Of(VersionField[s]) = {s}
    <3>1. \A t \in Active : VersionField[t] = VersionField[s] => t = s
      BY <2>1, SetupOf, FieldsApart
    <3> QED BY <3>1
  <2>3. (CHOOSE t \in Of(VersionField[s]) : TRUE) = s
    BY <2>2
  <2>4. Canonical[VersionField[s]] = VersionAt[AddressAt(<<s, 1>>)]
    BY <1>1, <2>1, <2>2, <2>3
  <2> QED BY <2>4 DEF AddressAt
<1>3. ASSUME NEW f \in VersionFields, \A s \in Active : VersionField[s] # f PROVE Canonical[f] = SkipVersion
  <2>1. Of(f) = {}
    BY <1>3
  <2> QED BY <1>1, <2>1
<1> QED BY <1>2, <1>3

LEMMA ConsistentAddresses ==
  ASSUME DOMAIN probes = VersionProbes, Consistent PROVE SameVersions
<1> SUFFICES ASSUME NEW s \in Active, NEW i \in DOMAIN config.endpoints[s], NEW k \in DOMAIN config.endpoints[s]
             PROVE  VersionAt[config.endpoints[s][i]] = VersionAt[config.endpoints[s][k]]
  BY DEF SameVersions
<1>1. <<s, i>> \in VersionProbes /\ <<s, k>> \in VersionProbes
  BY DEF VersionProbes, ProbesOf
<1>2. VersionAt[AddressAt(<<s, i>>)] = VersionAt[AddressAt(<<s, k>>)]
  BY <1>1 DEF Consistent
<1> QED BY <1>2 DEF AddressAt

LEMMA ParseStep ==
  ASSUME StartupInv, ParseConfig PROVE StartupInv'
<1>1. /\ boot = "parse" /\ UNCHANGED <<config, versions, inFlight, spawned, spawnFailed, dispatcher>>
      /\ spawned = 0 /\ dispatcher # "running" /\ config' = config
  BY DEF ParseConfig, StartupInv, WorkersFit, NothingLeft
<1>2. CASE RendererValid /\ \A s \in Active : config.endpoints[s] # <<>>
  <2>1. boot' = "versions" /\ probes' = Calling(VersionProbes)
    BY <1>2 DEF ParseConfig, GoOn
  <2>2. DOMAIN probes' = VersionProbes'
    BY <1>1, <2>1, ConfigSame DEF Calling
  <2>3. HaveAddresses'
    BY <1>1, <1>2, ConfigSame DEF HaveAddresses
  <2> QED BY <1>1, <2>1, <2>2, <2>3 DEF StartupInv, BootPlaces, PlacesWithVersions, PlacesWithScenes,
             PlacesWithContext, PlacesOutside, ChecksPassed, NothingLeft, WorkersFit
<1>3. CASE ~(RendererValid /\ \A s \in Active : config.endpoints[s] # <<>>)
  <2>1. boot' = "leaving"
    BY <1>3 DEF ParseConfig, GoOn
  <2> QED BY <1>1, <2>1 DEF StartupInv, BootPlaces, PlacesWithVersions, PlacesWithScenes,
             PlacesWithContext, PlacesOutside, ChecksPassed, NothingLeft, WorkersFit
<1> QED BY <1>2, <1>3

LEMMA CheckVersionsStep ==
  ASSUME StartupInv, CheckVersions PROVE StartupInv'
<1>1. /\ boot = "versions" /\ UNCHANGED <<config, inFlight, spawned, spawnFailed, dispatcher>>
      /\ spawned = 0 /\ dispatcher # "running" /\ config' = config
      /\ DOMAIN probes = VersionProbes /\ HaveAddresses
  BY DEF CheckVersions, StartupInv, WorkersFit, NothingLeft, ChecksPassed
<1>2. CASE Consistent /\ PhysicsAgrees
  <2>1. boot' = "scenes" /\ probes' = Calling(SceneProbes) /\ versions' = Canonical
    BY <1>2 DEF CheckVersions, GoOn
  <2>2. DOMAIN probes' = SceneProbes'
    BY <1>1, <2>1, ConfigSame DEF Calling
  <2>3. HaveAddresses' /\ SameVersions'
    BY <1>1, <1>2, ConfigSame, ConsistentAddresses
  <2>4. VersionsRecorded'
    <3>1. Active' = Active /\ VersionField' = VersionField
      BY <1>1 DEF Active, VersionField
    <3> QED BY <1>1, <2>1, <3>1, CanonicalRecords DEF VersionsRecorded
  <2> QED BY <1>1, <2>1, <2>2, <2>3, <2>4 DEF StartupInv, BootPlaces, PlacesWithVersions, PlacesWithScenes,
             PlacesWithContext, PlacesOutside, ChecksPassed, NothingLeft, WorkersFit
<1>3. CASE ~(Consistent /\ PhysicsAgrees)
  <2>1. boot' = "leaving"
    BY <1>3 DEF CheckVersions, GoOn
  <2> QED BY <1>1, <2>1 DEF StartupInv, BootPlaces, PlacesWithVersions, PlacesWithScenes,
             PlacesWithContext, PlacesOutside, ChecksPassed, NothingLeft, WorkersFit
<1> QED BY <1>2, <1>3

LEMMA CheckScenesStep ==
  ASSUME StartupInv, CheckScenes PROVE StartupInv'
<1>1. /\ boot = "scenes" /\ UNCHANGED <<config, probes, versions, inFlight, spawned, spawnFailed, dispatcher>>
      /\ spawned = 0 /\ dispatcher # "running" /\ config' = config /\ versions' = versions
      /\ DOMAIN probes = SceneProbes /\ HaveAddresses /\ SameVersions /\ VersionsRecorded
  BY DEF CheckScenes, StartupInv, WorkersFit, NothingLeft, ChecksPassed, PlacesWithVersions
<1>2. Pending' = {}
  BY DEF CheckScenes, Pending
<1>3. CASE \A p \in DOMAIN probes : Incompatible(p) = {}
  <2>1. boot' = "load" /\ ScenesThere
    BY <1>1, <1>3 DEF CheckScenes, GoOn, ScenesThere
  <2> QED BY <1>1, <1>2, <2>1, ConfigSame DEF StartupInv, BootPlaces, PlacesWithVersions, PlacesWithScenes,
             PlacesWithContext, PlacesOutside, ChecksPassed, NothingLeft, WorkersFit
<1>4. CASE ~(\A p \in DOMAIN probes : Incompatible(p) = {})
  <2>1. boot' = "leaving"
    BY <1>4 DEF CheckScenes, GoOn
  <2> QED BY <1>1, <2>1 DEF StartupInv, BootPlaces, PlacesWithVersions, PlacesWithScenes,
             PlacesWithContext, PlacesOutside, ChecksPassed, NothingLeft, WorkersFit
<1> QED BY <1>3, <1>4

\* compute_max_in_flight is a number of rollouts every active service has
\* slots for.
LEMMA LimitOfPools ==
  ASSUME StartupInv, Buildable
  PROVE  InFlightLimit \in Nat /\ \A s \in Active : InFlightLimit \in 1..CapacityOf(s)
<1>1. \A s \in Active : CapacityOf(s) \in Nat
  <2> SUFFICES ASSUME NEW s \in Active PROVE CapacityOf(s) \in Nat
    OBVIOUS
  <2>1. config.endpoints[s] \in Seq(DOMAIN VersionAt) /\ config.concurrent[s] \in Nat
    BY SetupOf
  <2>2. Len(config.endpoints[s]) \in Nat
    BY <2>1, LenProperties
  <2> QED BY <2>1, <2>2 DEF CapacityOf
<1>2. CASE Active = {}
  <2> DEFINE n == config.nrWorkers * SkipCap
  <2>1. n \in Nat
    BY SetupOf, StartupAssumption
  <2> HIDE DEF n
  <2>2. Max({1, n}) \in Nat
    <3>1. \E x \in {1, n} : \A y \in {1, n} : x >= y
      BY <2>1
    <3> QED BY <2>1, <3>1 DEF Max
  <2> QED BY <1>2, <2>2 DEF InFlightLimit, n
<1>3. CASE Active # {}
  <2> DEFINE P == {CapacityOf(s) : s \in Active}
  <2>1. P \in SUBSET Nat /\ P # {}
    BY <1>1, <1>3
  <2>2. \A c \in P : c > 0
    BY DEF Buildable
  <2>3. Min(P) \in P /\ \A c \in P : Min(P) <= c
    <3> HIDE DEF P
    <3> QED BY <2>1, LeastOf
  <2>4. InFlightLimit = Min(P)
    BY <1>3 DEF InFlightLimit
  <2>5. InFlightLimit \in Nat /\ InFlightLimit > 0
    BY <2>1, <2>2, <2>3, <2>4
  <2>6. \A s \in Active : InFlightLimit <= CapacityOf(s)
    BY <2>3, <2>4
  <2> QED BY <1>1, <2>5, <2>6
<1> QED BY <1>2, <1>3

LEMMA BuildStep ==
  ASSUME StartupInv, BuildContext PROVE StartupInv'
<1>1. /\ boot = "load" /\ UNCHANGED <<config, probes, versions, spawned, spawnFailed, dispatcher>>
      /\ spawned = 0 /\ dispatcher # "running" /\ config' = config /\ versions' = versions
      /\ HaveAddresses /\ SameVersions /\ VersionsRecorded /\ ScenesThere /\ Pending = {}
  BY DEF BuildContext, StartupInv, WorkersFit, NothingLeft, ChecksPassed, PlacesWithVersions, PlacesWithScenes
<1>2. Pending' = {}
  BY <1>1 DEF Pending
<1>3. CASE Buildable
  <2>1. boot' = "spawn" /\ inFlight' = InFlightLimit
    BY <1>3 DEF BuildContext, GoOn, Buildable
  <2>2. LimitFits'
    <3>1. Active' = Active /\ \A s \in Active : CapacityOf(s)' = CapacityOf(s)
      BY <1>1 DEF Active, CapacityOf
    <3> QED BY <1>3, <2>1, <3>1, LimitOfPools DEF LimitFits
  <2>3. Buildable'
    BY <1>1, <1>3, ConfigSame
  <2> QED BY <1>1, <1>2, <2>1, <2>2, <2>3, ConfigSame DEF StartupInv, BootPlaces, PlacesWithVersions,
             PlacesWithScenes, PlacesWithContext, PlacesOutside, ChecksPassed, NothingLeft, WorkersFit
<1>4. CASE ~Buildable
  <2>1. boot' = "leaving"
    BY <1>4 DEF BuildContext, GoOn, Buildable
  <2> QED BY <1>1, <2>1 DEF StartupInv, BootPlaces, PlacesWithVersions, PlacesWithScenes,
             PlacesWithContext, PlacesOutside, ChecksPassed, NothingLeft, WorkersFit
<1> QED BY <1>3, <1>4

\* What the checks before the workers established is kept by the steps that
\* start them.
LEMMA ContextKept ==
  ASSUME StartupInv, boot \in PlacesWithContext, UNCHANGED <<config, probes, versions, inFlight>>
  PROVE  /\ HaveAddresses' /\ SameVersions' /\ VersionsRecorded' /\ ScenesThere' /\ Buildable' /\ LimitFits'
         /\ Pending' = {}
<1>1. /\ HaveAddresses /\ SameVersions /\ VersionsRecorded /\ ScenesThere /\ Buildable /\ LimitFits
      /\ Pending = {}
  BY DEF StartupInv, ChecksPassed, NothingLeft, PlacesWithVersions, PlacesWithScenes, PlacesWithContext
<1>2. config' = config /\ versions' = versions /\ inFlight' = inFlight
  OBVIOUS
<1>3. Pending' = {}
  BY <1>1 DEF Pending
<1> QED BY <1>1, <1>2, <1>3, ConfigSame

LEMMA WorkersStart ==
  ASSUME StartupInv, NoPort \/ SpawnWorker \/ SpawnFails \/ MakeScheduler PROVE StartupInv'
<1>1. /\ boot = "spawn" /\ UNCHANGED <<config, probes, versions, inFlight>> /\ config \in Setups
      /\ spawned \in 0..config.nrWorkers /\ config.nrWorkers \in Nat /\ config.ports \in Nat
      /\ spawned > 0 => config.ports >= config.nrWorkers
      /\ dispatcher # "running"
  BY SetupOf DEF NoPort, SpawnWorker, SpawnFails, MakeScheduler, StartupInv, WorkersFit, NothingLeft
<1>2. /\ HaveAddresses' /\ SameVersions' /\ VersionsRecorded' /\ ScenesThere' /\ Buildable' /\ LimitFits'
      /\ Pending' = {} /\ config' \in Setups
  BY <1>1, ContextKept DEF PlacesWithContext
<1>3. CASE NoPort
  <2>1. boot' = "leaving" /\ spawned = 0 /\ spawned' = spawned /\ dispatcher' = dispatcher
    BY <1>1, <1>3 DEF NoPort
  <2> QED BY <1>1, <1>2, <2>1 DEF StartupInv, BootPlaces, PlacesWithVersions, PlacesWithScenes,
             PlacesWithContext, PlacesOutside, ChecksPassed, NothingLeft, WorkersFit
<1>4. CASE SpawnWorker
  <2>1. /\ boot' = "spawn" /\ spawned' = spawned + 1 /\ config.ports >= config.nrWorkers
        /\ spawned < config.nrWorkers /\ dispatcher' = dispatcher /\ config' = config
    BY <1>1, <1>4 DEF SpawnWorker
  <2>2. spawned' \in 0..config'.nrWorkers /\ config'.ports >= config'.nrWorkers
    BY <1>1, <2>1
  <2> QED BY <1>1, <1>2, <2>1, <2>2 DEF StartupInv, BootPlaces, PlacesWithVersions, PlacesWithScenes,
             PlacesWithContext, PlacesOutside, ChecksPassed, NothingLeft, WorkersFit
<1>5. CASE SpawnFails
  <2>1. /\ boot' = "leaving" /\ spawnFailed' = TRUE /\ spawned' = spawned /\ dispatcher' = dispatcher
        /\ config' = config
    BY <1>1, <1>5 DEF SpawnFails
  <2> QED BY <1>1, <1>2, <2>1 DEF StartupInv, BootPlaces, PlacesWithVersions, PlacesWithScenes,
             PlacesWithContext, PlacesOutside, ChecksPassed, NothingLeft, WorkersFit
<1>6. CASE MakeScheduler
  <2>1. /\ boot' = (IF Affine THEN "warm" ELSE "started") /\ spawned' = spawned /\ config' = config
        /\ spawned = config.nrWorkers /\ dispatcher' = "running"
    BY <1>1, <1>6 DEF MakeScheduler
  <2>2. Affine' = Affine
    BY <2>1 DEF Affine
  <2>3. boot' \in {"warm", "started"} /\ (boot' = "started" => Answerable')
    BY <2>1, <2>2 DEF Answerable
  <2>4. /\ spawned' \in 0..config'.nrWorkers /\ spawned' = config'.nrWorkers
        /\ spawned' > 0 => config'.ports >= config'.nrWorkers
    BY <1>1, <2>1
  <2> QED BY <1>2, <2>1, <2>3, <2>4 DEF StartupInv, BootPlaces, PlacesWithVersions, PlacesWithScenes,
             PlacesWithContext, PlacesOutside, ChecksPassed, NothingLeft, WorkersFit
<1> QED BY <1>3, <1>4, <1>5, <1>6

LEMMA WarmStep ==
  ASSUME StartupInv, WarmStart PROVE StartupInv'
<1>1. /\ boot = "warm" /\ UNCHANGED <<config, probes, versions, inFlight, spawned, spawnFailed, dispatcher>>
      /\ WorkersFit /\ dispatcher = "running" /\ spawned = config.nrWorkers /\ config \in Setups
  BY DEF WarmStart, StartupInv, WorkersFit
<1>2. /\ HaveAddresses' /\ SameVersions' /\ VersionsRecorded' /\ ScenesThere' /\ Buildable' /\ LimitFits'
      /\ Pending' = {} /\ config' \in Setups
  BY <1>1, ContextKept DEF PlacesWithContext
<1>3. boot' \in {"started", "undo"} /\ (boot' = "started" => Answerable)
  BY DEF WarmStart, Answerable
<1>4. Answerable' = Answerable
  BY <1>1, ConfigSame
<1> QED BY <1>1, <1>2, <1>3, <1>4 DEF StartupInv, BootPlaces, PlacesWithVersions, PlacesWithScenes,
           PlacesWithContext, PlacesOutside, ChecksPassed, NothingLeft, WorkersFit

LEMMA InterruptStep ==
  ASSUME StartupInv, Interrupt PROVE StartupInv'
<1>1. /\ UNCHANGED <<config, probes, versions, inFlight, spawned, spawnFailed, dispatcher>>
      /\ config \in Setups /\ spawned \in 0..config.nrWorkers
      /\ spawned > 0 => config.ports >= config.nrWorkers
  BY DEF Interrupt, StartupInv, WorkersFit
<1>2. CASE boot \in {"versions", "scenes"} /\ boot' = "leaving"
  <2>1. spawned = 0 /\ dispatcher # "running"
    BY <1>2 DEF StartupInv, WorkersFit, NothingLeft
  <2> QED BY <1>1, <1>2, <2>1 DEF StartupInv, BootPlaces, PlacesWithVersions, PlacesWithScenes,
             PlacesWithContext, PlacesOutside, ChecksPassed, NothingLeft, WorkersFit
<1>3. CASE boot = "warm" /\ boot' = "undo"
  <2>1. Pending' = {}
    BY <1>1, <1>3, ContextKept DEF PlacesWithContext
  <2> QED BY <1>1, <1>3, <2>1 DEF StartupInv, BootPlaces, PlacesWithVersions, PlacesWithScenes,
             PlacesWithContext, PlacesOutside, ChecksPassed, NothingLeft, WorkersFit
<1> QED BY <1>2, <1>3 DEF Interrupt

LEMMA ShutdownStep ==
  ASSUME StartupInv, StopScheduler \/ StopAllWorkers \/ LeaveStartup PROVE StartupInv'
<1>1. /\ UNCHANGED <<config, probes, versions, inFlight, spawnFailed>>
      /\ config \in Setups /\ spawned \in 0..config.nrWorkers /\ config.nrWorkers \in Nat
      /\ spawned > 0 => config.ports >= config.nrWorkers
  BY SetupOf DEF StopScheduler, StopAllWorkers, LeaveStartup, StartupInv, WorkersFit
<1>2. Pending' = {}
  <2>1. Pending = {}
    BY DEF StopScheduler, StopAllWorkers, LeaveStartup, StartupInv, NothingLeft
  <2> QED BY <1>1, <2>1 DEF Pending
<1>3. CASE StopScheduler
  <2>1. dispatcher' = "stopped" /\ boot' \in {"undo", "stopping"} /\ spawned' = spawned
    BY <1>3 DEF StopScheduler
  <2> QED BY <1>1, <1>2, <2>1 DEF StartupInv, BootPlaces, PlacesWithVersions, PlacesWithScenes,
             PlacesWithContext, PlacesOutside, ChecksPassed, NothingLeft, WorkersFit
<1>4. CASE StopAllWorkers
  <2>1. dispatcher = "stopped" /\ dispatcher' = dispatcher /\ boot' \in {"leaving", "stopped"} /\ spawned' = 0
    BY <1>4 DEF StopAllWorkers
  <2> QED BY <1>1, <1>2, <2>1 DEF StartupInv, BootPlaces, PlacesWithVersions, PlacesWithScenes,
             PlacesWithContext, PlacesOutside, ChecksPassed, NothingLeft, WorkersFit
<1>5. CASE LeaveStartup
  <2>1. /\ boot = "leaving" /\ boot' = "failed" /\ spawned' = spawned /\ dispatcher' = dispatcher
        /\ spawned = 0 \/ spawnFailed
        /\ dispatcher # "running"
    BY <1>5 DEF LeaveStartup, StartupInv, NothingLeft, PlacesOutside
  <2> QED BY <1>1, <1>2, <2>1 DEF StartupInv, BootPlaces, PlacesWithVersions, PlacesWithScenes,
             PlacesWithContext, PlacesOutside, ChecksPassed, NothingLeft, WorkersFit
<1> QED BY <1>3, <1>4, <1>5

\* An answer, a failure or a cancellation of a call: there are calls only while
\* a gather waits or startup leaves.
LEMMA ProbeStep ==
  ASSUME StartupInv, NEW p \in DOMAIN probes, Answers(p) \/ ProbeFails(p) \/ ProbeCancelled(p)
  PROVE  StartupInv'
<1>1. /\ UNCHANGED <<config, versions, inFlight, spawned, spawnFailed, dispatcher>>
      /\ config \in Setups /\ boot \in {"versions", "scenes", "leaving"} /\ WorkersFit
      /\ spawned = 0 \/ spawnFailed
      /\ dispatcher # "running" /\ boot' \in {boot, "leaving"} /\ DOMAIN probes' = DOMAIN probes
  BY DEF Answers, ProbeFails, ProbeCancelled, StartupInv, NothingLeft, WorkersFit, PlacesOutside
<1>2. WorkersFit'
  BY <1>1 DEF WorkersFit
<1>3. NothingLeft'
  BY <1>1 DEF NothingLeft
<1>4. ChecksPassed'
  BY <1>1, ConfigSame DEF StartupInv, ChecksPassed, PlacesWithVersions, PlacesWithScenes, PlacesWithContext
<1> QED BY <1>1, <1>2, <1>3, <1>4 DEF StartupInv, BootPlaces, PlacesWithVersions, PlacesOutside

LEMMA StartupStep ==
  StartupInv /\ [StartupNext]_startupVars => StartupInv'
<1> SUFFICES ASSUME StartupInv, [StartupNext]_startupVars PROVE StartupInv'
  OBVIOUS
<1>1. CASE UNCHANGED startupVars
  <2>1. UNCHANGED <<config, boot, probes, versions, inFlight, spawned, spawnFailed, dispatcher>>
    BY <1>1 DEF startupVars
  <2>2. Pending' = Pending
    BY <2>1 DEF Pending
  <2>3. ChecksPassed'
    BY <2>1, ConfigSame DEF StartupInv, ChecksPassed
  <2> QED BY <2>1, <2>2, <2>3 DEF StartupInv, NothingLeft, WorkersFit
<1>2. CASE StartupNext
  BY <1>2, ParseStep, CheckVersionsStep, CheckScenesStep, BuildStep, WorkersStart, WarmStep,
     InterruptStep, ShutdownStep, ProbeStep DEF StartupNext
<1> QED BY <1>1, <1>2

\* Whatever fails or is interrupted on the way, at each place of startup the
\* checks before it hold of the configuration, and no call, worker or
\* scheduler runs that the place does not account for.
THEOREM ChecksAreKept == StartupSpec => []StartupInv
BY StartupStarts, StartupStep, PTL DEF StartupSpec

LEMMA FilesApart ==
  ASSUME NEW S, NEW f \in Seq(S), IsInjective(f)
  PROVE  Cardinality(ToSet(f)) = Len(f)
<1>1. Len(f) \in Nat /\ DOMAIN f = 1..Len(f) /\ f \in [1..Len(f) -> S]
  BY LenProperties
<1>2. ToSet(f) = {f[i] : i \in 1..Len(f)}
  BY <1>1 DEF ToSet
<1>3. f \in [1..Len(f) -> ToSet(f)]
  BY <1>1, <1>2
<1>4. f \in Bijection(1..Len(f), ToSet(f))
  BY <1>2, <1>3 DEF Bijection, Injection, Surjection
<1> QED BY <1>1, <1>4, FS_CountingElements DEF ExistsBijection

\* compute_num_consumers_per_worker rounds up, and never by a whole round.
LEMMA CeilingIsTight ==
  ASSUME NEW m \in Nat, NEW w \in Nat \ {0}
  PROVE  w * ((m + w - 1) \div w) \in m..(m + w - 1)
<1> DEFINE q == (m + w - 1) \div w
<1>1. q \in Int /\ m + w - 1 \in Nat
  OBVIOUS
<1>2. w * q <= m + w - 1 /\ m + w - 1 < w * q + w
  OBVIOUS
<1> HIDE DEF q
<1>3. w * q \in Int
  BY <1>1
<1>4. w * q \in m..(m + w - 1)
  BY <1>2, <1>3
<1> QED BY <1>4 DEF q

LEMMA StartedIsWhole ==
  ASSUME StartupInv, boot = "started"
  PROVE  /\ \A p \in VersionProbes : versions[VersionField[p[1]]] = VersionAt[AddressAt(p)]
         /\ \A f \in VersionFields :
              versions[f] = SkipVersion <=> \A s \in Active : VersionField[s] # f
         /\ \A s \in ServiceNames \ RuntimeInfo.skipped :
              RuntimeInfo.rollouts \in 1..RuntimeInfo.capacity[s]
         /\ spawned = RuntimeInfo.workers /\ dispatcher = "running"
         /\ spawned * ConsumersEach \in inFlight..(inFlight + spawned - 1)
         /\ Cardinality(RuntimeInfo.scenes) = Len(config.files)
<1>1. /\ HaveAddresses /\ SameVersions /\ VersionsRecorded /\ Buildable /\ LimitFits
      /\ spawned = config.nrWorkers /\ dispatcher = "running"
  BY DEF StartupInv, ChecksPassed, WorkersFit, PlacesWithVersions, PlacesWithScenes, PlacesWithContext
<1>2. \A s \in Active : 1 \in DOMAIN config.endpoints[s] /\ config.endpoints[s][1] \in DOMAIN VersionAt
  <2> SUFFICES ASSUME NEW s \in Active
               PROVE  1 \in DOMAIN config.endpoints[s] /\ config.endpoints[s][1] \in DOMAIN VersionAt
    OBVIOUS
  <2>1. config.endpoints[s] \in Seq(DOMAIN VersionAt) /\ config.endpoints[s] # <<>>
    BY <1>1, SetupOf DEF HaveAddresses
  <2>2. Len(config.endpoints[s]) \in Nat /\ Len(config.endpoints[s]) # 0
        /\ DOMAIN config.endpoints[s] = 1..Len(config.endpoints[s])
    BY <2>1, LenProperties, EmptySeq
  <2>3. 1 \in 1..Len(config.endpoints[s])
    BY <2>2
  <2> QED BY <2>1, <2>2, <2>3, ElementOfSeq
<1>3. ASSUME NEW p \in VersionProbes PROVE versions[VersionField[p[1]]] = VersionAt[AddressAt(p)]
  <2>1. PICK s \in Active : p \in ProbesOf(s)
    BY DEF VersionProbes
  <2>2. PICK i \in DOMAIN config.endpoints[s] : p = <<s, i>>
    BY <2>1 DEF ProbesOf
  <2>3. VersionAt[config.endpoints[s][1]] = VersionAt[config.endpoints[s][i]]
    BY <1>1, <1>2 DEF SameVersions
  <2>4. AddressAt(p) = config.endpoints[s][i] /\ p[1] = s
    BY <2>2 DEF AddressAt
  <2> QED BY <1>1, <2>3, <2>4 DEF VersionsRecorded
<1>4. ASSUME NEW f \in VersionFields
      PROVE  versions[f] = SkipVersion <=> \A s \in Active : VersionField[s] # f
  <2>1. ASSUME NEW s \in Active, VersionField[s] = f PROVE versions[f] # SkipVersion
    BY <1>1, <1>2, <2>1, StartupAssumption DEF VersionsRecorded
  <2>2. (\A s \in Active : VersionField[s] # f) => versions[f] = SkipVersion
    BY <1>1 DEF VersionsRecorded
  <2> QED BY <2>1, <2>2
<1>5. /\ RuntimeInfo.rollouts = inFlight /\ RuntimeInfo.workers = config.nrWorkers
      /\ RuntimeInfo.scenes = ToSet(config.files) /\ RuntimeInfo.skipped = config.skip
      /\ RuntimeInfo.capacity = [s \in ServiceNames |-> IF s \in Active THEN CapacityOf(s) ELSE 0]
  BY DEF RuntimeInfo
<1>6. ASSUME NEW s \in ServiceNames \ config.skip PROVE inFlight \in 1..RuntimeInfo.capacity[s]
  <2>1. s \in Active /\ RuntimeInfo.capacity[s] = CapacityOf(s)
    BY <1>5 DEF Active
  <2> QED BY <1>1, <2>1 DEF LimitFits
<1>7. spawned * ConsumersEach \in inFlight..(inFlight + spawned - 1)
  <2>1. inFlight \in Nat /\ config.nrWorkers \in Nat \ {0}
    BY <1>1, SetupOf DEF LimitFits, Buildable
  <2>2. config.nrWorkers * ConsumersEach \in inFlight..(inFlight + config.nrWorkers - 1)
    BY <2>1, CeilingIsTight DEF ConsumersEach
  <2> QED BY <1>1, <2>2
<1>8. Cardinality(ToSet(config.files)) = Len(config.files)
  BY <1>1, SetupOf, FilesApart DEF Buildable, Loadable
<1> QED BY <1>1, <1>3, <1>4, <1>5, <1>6, <1>7, <1>8

\* What a started runtime tells and logs is true of every address it uses, its
\* limit fits the pools and the consumers, and one that gives up leaves only
\* the workers nobody knows of.
THEOREM StartupIsWhole == StartupSpec => []StartsWhole
<1>1. StartupInv => StartsWhole
  <2> SUFFICES ASSUME StartupInv PROVE StartsWhole
    OBVIOUS
  <2>1. boot = "started" => ScenesThere /\ Answerable
    BY DEF StartupInv, ChecksPassed, PlacesWithScenes
  <2>2. boot \in {"failed", "stopped"} => /\ Pending = {} /\ dispatcher # "running"
                                          /\ spawned = 0 \/ spawnFailed
    BY DEF StartupInv, NothingLeft, PlacesOutside
  <2> QED BY <2>1, <2>2, StartedIsWhole DEF StartsWhole, ScenesThere, Answerable
<1> QED BY ChecksAreKept, <1>1, PTL

----------------------------------------------------------------------------
(* The images of a worker (RenderSession)                                    *)

Sources == Renderers \cup {"file"}
Definitions == [site : Sites, by : Sources, camera : CameraNames, replaced : SUBSET Fields]

\* An image asked for or handed on.
Images == [camera : Configured, frame : Nat, mask : BOOLEAN, definition : Definitions]

RollerState ==
  [at : {"idle", "session", "entered", "driving", "rendering", "raised"},
   site : Sites, renderer : Renderers, told : [Configured -> Definitions] \cup {<<>>},
   masks : BOOLEAN, frame : Nat, left : SUBSET Configured,
   request : Seq(Images), handed : Seq(Images), sent : SUBSET Images]

\* What the catalog has for a scene is whole, from one source, and for the
\* cameras of the scene, of which those with overrides are some.
CatalogFits(s) ==
  Known(s) => \E by \in Sources, C \in SUBSET HasCameras[s] :
    /\ catalog[s] = [c \in C |-> Definition(s, by, c, Replaced(c))]
    /\ DOMAIN worker.overrides \subseteq C
    /\ worker.kind = "video" => by = "file" /\ C = HasCameras[s]

\* The driver was told what the catalog g has.
ToldBy(g, x) ==
  /\ g[x.site] # NoDefinitions /\ Configured \subseteq DOMAIN g[x.site]
  /\ x.told = [c \in Configured |-> g[x.site][c]]

Truthful(x, m) ==
  \A i \in 1..Len(m) : /\ m[i].definition = x.told[m[i].camera]
                       /\ m[i].mask = (m[i].camera \in RigMasks)

CamerasOf(m, k) == {m[i].camera : i \in {j \in 1..Len(m) : m[j].frame = k}}
CamerasIn(m) == {m[i].camera : i \in 1..Len(m)}
OncePerCamera(m) == \A i, k \in 1..Len(m) : m[i].camera = m[k].camera => i = k

RequestFits(bundling, x) ==
  /\ \A i \in 1..Len(x.request) : x.request[i].frame = x.frame
  /\ OncePerCamera(x.request) /\ Truthful(x, x.request)
  /\ CamerasIn(x.request) \subseteq Due[x.frame] \ x.left
  /\ x.at = "driving" => x.request = <<>>
  /\ x.at = "rendering" /\ bundling = "none" => Len(x.request) = 1

\* A frame is over when all its cameras are handed on; of the frame under way,
\* a camera is left, asked for or handed on.
HandedFits(x, z) ==
  /\ Truthful(x, z)
  /\ \A i \in 1..Len(z) : z[i].frame \in 1..x.frame
  /\ \A i, k \in 1..Len(z) : k < i => ~(z[i].frame < z[k].frame)
  /\ \A i, k \in 1..Len(z) :
       z[i].frame = z[k].frame /\ z[i].camera = z[k].camera => i = k
  /\ \A k \in 1..(x.frame - 1) : CamerasOf(z, k) = Due[k]
  /\ CamerasOf(z, x.frame) = Due[x.frame] \ (x.left \cup CamerasIn(x.request))
  /\ x.left \subseteq Due[x.frame]

RollerFits(bundling, g, x) ==
  /\ x \in RollerState
  /\ x.at \in {"session", "entered"} => x.frame = 1 /\ x.handed = <<>> /\ x.request = <<>> /\ x.sent = {}
  /\ x.at \in {"driving", "rendering"} =>
       /\ x.frame \in 1..Len(Due) /\ ToldBy(g, x) /\ RequestFits(bundling, x) /\ HandedFits(x, x.handed)
       /\ x.sent = ForDriver(x.handed)

RenderInv ==
  /\ worker \in WorkerSetups
  /\ DOMAIN catalog = Sites /\ \A s \in Sites : CatalogFits(s)
  /\ DOMAIN roller = Rollers /\ roller = [r \in Rollers |-> roller[r]]
  /\ \A r \in Rollers : RollerFits(worker.bundling, catalog, roller[r])

(* SetToSeq lists a finite set, each element once.                           *)
LEMMA SetIsListed ==
  ASSUME NEW S, IsFiniteSet(S)
  PROVE  /\ SetToSeq(S) \in Seq(S) /\ Len(SetToSeq(S)) = Cardinality(S) /\ Cardinality(S) \in Nat
         /\ \A i, k \in 1..Cardinality(S) : SetToSeq(S)[i] = SetToSeq(S)[k] => i = k
         /\ {SetToSeq(S)[i] : i \in 1..Cardinality(S)} = S
<1> DEFINE n == Cardinality(S)
           l == SetToSeq(S)
<1>1. n \in Nat /\ \E f \in [1..n -> S] : IsInjective(f)
  BY FS_CardinalityType DEF ExistsBijection, Bijection, Injection
<1>2. l \in [1..n -> S] /\ IsInjective(l)
  BY <1>1 DEF SetToSeq
<1> HIDE DEF l, n
<1>3. l \in Seq(S) /\ Len(l) = n /\ DOMAIN l = 1..n
  BY <1>1, <1>2
<1>4. Cardinality(ToSet(l)) = n
  BY <1>2, <1>3, FilesApart
<1>5. ToSet(l) = {l[i] : i \in 1..n}
  BY <1>3 DEF ToSet
<1>6. ToSet(l) \in SUBSET S
  BY <1>2, <1>5
<1>7. ToSet(l) = S
  BY <1>4, <1>6, FS_Subset DEF n
<1> QED BY <1>1, <1>2, <1>3, <1>5, <1>7 DEF l, n, IsInjective

LEMMA RenderConstants ==
  /\ Sites # {} /\ Renderers # {} /\ IsFiniteSet(Configured) /\ Configured \subseteq CameraNames
  /\ Due \in Seq(SUBSET Configured) /\ Len(Due) \in Nat \ {0} /\ Strangers \cap CameraNames = {}
  /\ \A k \in 1..Len(Due) : Due[k] \subseteq Configured
  /\ \A s \in Sites : HasCameras[s] \subseteq CameraNames
  /\ Idle \in RollerState /\ Idle.at = "idle" /\ Idle.frame = 1 /\ Idle.handed = <<>> /\ Idle.request = <<>>
  /\ Idle.sent = {}
<1>1. Len(Due) \in Nat \ {0} /\ \A k \in 1..Len(Due) : Due[k] \subseteq Configured
  BY RenderAssumption, LenProperties, EmptySeq
<1>2. <<>> \in Seq(Images)
  BY EmptySeq
<1>3. Idle \in RollerState
  BY <1>2, RenderAssumption DEF Idle, RollerState
<1> QED BY <1>1, <1>3, RenderAssumption DEF Idle

LEMMA RollerStep ==
  ASSUME RenderInv, worker' = worker,
         DOMAIN catalog' = Sites, \A s \in Sites : CatalogFits(s)',
         \A s \in Sites : Known(s) => catalog'[s] = catalog[s],
         NEW r \in Rollers, NEW y, roller' = [roller EXCEPT ![r] = y],
         RollerFits(worker.bundling, catalog', y)
  PROVE  RenderInv'
<1>1. DOMAIN roller' = Rollers /\ roller'[r] = y /\ \A q \in Rollers \ {r} : roller'[q] = roller[q]
  BY DEF RenderInv
<1>2. ASSUME NEW q \in Rollers, q # r PROVE RollerFits(worker.bundling, catalog', roller[q])
  <2> DEFINE x == roller[q]
  <2>1. RollerFits(worker.bundling, catalog, x)
    BY DEF RenderInv
  <2>2. x.site \in Sites
    BY <2>1 DEF RollerFits, RollerState
  <2>3. ToldBy(catalog, x) => ToldBy(catalog', x)
    BY <2>2 DEF ToldBy, Known
  <2> HIDE DEF x
  <2>4. RollerFits(worker.bundling, catalog', x)
    BY <2>1, <2>3 DEF RollerFits
  <2> QED BY <2>4 DEF x
<1>3. roller' = [q \in Rollers |-> roller'[q]]
  BY <1>1 DEF RenderInv
<1> QED BY <1>1, <1>2, <1>3 DEF RenderInv

(* An action that leaves the catalog alone.                                  *)
LEMMA RollerMoves ==
  ASSUME RenderInv, worker' = worker, catalog' = catalog,
         NEW r \in Rollers, NEW y, roller' = [roller EXCEPT ![r] = y],
         RollerFits(worker.bundling, catalog, y)
  PROVE  RenderInv'
<1>1. DOMAIN catalog' = Sites /\ \A s \in Sites : CatalogFits(s)'
  BY DEF RenderInv, CatalogFits, Known, Replaced
<1> QED BY <1>1, RollerStep

LEMMA PlaceFits ==
  ASSUME NEW x, NEW b, NEW g, NEW h, RollerFits(b, g, x), NEW p \in {"entered", "raised"},
         p = "entered" => x.at = "session"
  PROVE  RollerFits(b, h, [x EXCEPT !.at = p])
BY DEF RollerFits, RollerState

LEMMA DefinitionIs ==
  ASSUME RenderInv, NEW s \in Sites, NEW by \in Sources, NEW c \in CameraNames
  PROVE  /\ Definition(s, by, c, Replaced(c)) \in Definitions
         /\ Definition(s, by, c, Replaced(c)).site = s
         /\ Definition(s, by, c, Replaced(c)).by = by
         /\ Definition(s, by, c, Replaced(c)).camera = c
         /\ Definition(s, by, c, Replaced(c)).replaced = Replaced(c)
<1>1. Replaced(c) \in SUBSET Fields
  BY RenderAssumption DEF RenderInv, Replaced
<1> QED BY <1>1 DEF Definition, Definitions

(* A new entry of the catalog: there was none, or the same one.              *)
LEMMA CatalogStep ==
  ASSUME RenderInv, worker' = worker, NEW s \in Sites, NEW by \in Sources, NEW C \in SUBSET HasCameras[s],
         catalog' = [catalog EXCEPT ![s] = [c \in C |-> Definition(s, by, c, Replaced(c))]],
         DOMAIN worker.overrides \subseteq C, worker.kind = "video" => by = "file" /\ C = HasCameras[s],
         worker.kind # "video" => ~Known(s)
  PROVE  /\ DOMAIN catalog' = Sites /\ \A t \in Sites : CatalogFits(t)'
         /\ \A t \in Sites : Known(t) => catalog'[t] = catalog[t]
<1>1. DOMAIN catalog' = Sites /\ catalog'[s] = [c \in C |-> Definition(s, by, c, Replaced(c))]
      /\ \A t \in Sites \ {s} : catalog'[t] = catalog[t]
  BY DEF RenderInv
<1>2. \A c : Replaced(c)' = Replaced(c)
  BY DEF Replaced
<1>3. CatalogFits(s)'
  <2>1. [c \in C |-> Definition(s, by, c, Replaced(c))] = [c \in C |-> Definition(s, by, c, Replaced(c)')]
    BY <1>2
  <2> QED BY <1>1, <2>1 DEF CatalogFits
<1>4. ASSUME NEW t \in Sites \ {s} PROVE CatalogFits(t)'
  <2>1. CatalogFits(t)
    BY DEF RenderInv
  <2>2. Known(t)' => Known(t)
    BY <1>1 DEF Known
  <2>3. CASE Known(t)
    <3>1. PICK b \in Sources, D \in SUBSET HasCameras[t] :
            /\ catalog[t] = [c \in D |-> Definition(t, b, c, Replaced(c))]
            /\ DOMAIN worker.overrides \subseteq D
            /\ worker.kind = "video" => b = "file" /\ D = HasCameras[t]
      BY <2>1, <2>3 DEF CatalogFits
    <3>2. catalog'[t] = [c \in D |-> Definition(t, b, c, Replaced(c)')]
      BY <1>1, <1>2, <3>1
    <3> QED BY <3>1, <3>2 DEF CatalogFits
  <2> QED BY <2>2, <2>3 DEF CatalogFits
<1>5. Known(s) => catalog'[s] = catalog[s]
  <2> SUFFICES ASSUME Known(s) PROVE catalog'[s] = catalog[s]
    OBVIOUS
  <2>1. worker.kind = "video" /\ by = "file" /\ C = HasCameras[s]
    OBVIOUS
  <2>2. PICK b \in Sources, D \in SUBSET HasCameras[s] :
            /\ catalog[s] = [c \in D |-> Definition(s, b, c, Replaced(c))]
            /\ b = "file" /\ D = HasCameras[s]
    BY <2>1 DEF RenderInv, CatalogFits
  <2> QED BY <1>1, <2>1, <2>2
<1> QED BY <1>1, <1>3, <1>4, <1>5

LEMMA MergeStep ==
  ASSUME RenderInv, NEW r \in Rollers, Merge(r) PROVE RenderInv'
<1> DEFINE x == roller[r]  y == [x EXCEPT !.at = "entered"]
<1>1. /\ worker' = worker /\ roller' = [roller EXCEPT ![r] = y] /\ worker.kind = "sensorsim"
      /\ x.at = "session"
  BY DEF Merge, Move
<1>2. RollerFits(worker.bundling, catalog, x) /\ x.site \in Sites /\ x.renderer \in Renderers
  BY DEF RenderInv, RollerFits, RollerState
<1>3. RollerFits(worker.bundling, catalog', y)
  <2> HIDE DEF x
  <2> QED BY <1>1, <1>2, PlaceFits
<1>4. CASE Known(x.site)
  <2>1. catalog' = catalog
    BY <1>4 DEF Merge
  <2> HIDE DEF x, y
  <2> QED BY <1>1, <1>3, <2>1, RollerMoves
<1>5. CASE ~Known(x.site)
  <2>1. PICK s \in Sites, by \in Sources : s = x.site /\ by = x.renderer
    BY <1>2 DEF Sources
  <2>2. PICK C : C = Answered(r)
    OBVIOUS
  <2>3. C \in SUBSET HasCameras[s] /\ DOMAIN worker.overrides \subseteq C
    BY <1>5, <2>1, <2>2 DEF Answered, Merge, Mergeable
  <2>4. catalog' = [catalog EXCEPT ![s] = [c \in C |-> Definition(s, by, c, Replaced(c))]]
    BY <1>5, <2>1, <2>2 DEF Merge, Merged
  <2>5. ~Known(s)
    BY <1>5, <2>1
  <2>6. /\ DOMAIN catalog' = Sites /\ \A t \in Sites : CatalogFits(t)'
        /\ \A t \in Sites : Known(t) => catalog'[t] = catalog[t]
    BY <1>1, <2>3, <2>4, <2>5, CatalogStep
  <2> HIDE DEF x, y
  <2> QED BY <1>1, <1>3, <2>6, RollerStep
<1> QED BY <1>4, <1>5

LEMMA RegisterStep ==
  ASSUME RenderInv, NEW r \in Rollers, Register(r) PROVE RenderInv'
<1> DEFINE x == roller[r]
<1>1. worker' = worker /\ worker.kind = "video" /\ x.at = "session"
  BY DEF Register
<1>2. RollerFits(worker.bundling, catalog, x) /\ x.site \in Sites
  BY DEF RenderInv, RollerFits, RollerState
<1>3. PICK p \in {"entered", "raised"} : roller' = [roller EXCEPT ![r] = [x EXCEPT !.at = p]]
  BY DEF Register, Move
<1>4. RollerFits(worker.bundling, catalog', [x EXCEPT !.at = p])
  <2> HIDE DEF x
  <2> QED BY <1>1, <1>2, PlaceFits
<1>5. CASE catalog' = catalog
  <2> HIDE DEF x
  <2> QED BY <1>1, <1>3, <1>4, <1>5, RollerMoves
<1>6. CASE catalog' # catalog
  <2>1. PICK s \in Sites : s = x.site
    BY <1>2
  <2>2. /\ catalog' = [catalog EXCEPT ![s] = [c \in HasCameras[s] |-> Definition(s, "file", c, Replaced(c))]]
        /\ DOMAIN worker.overrides \subseteq HasCameras[s]
    BY <1>6, <2>1 DEF Register
  <2>3. "file" \in Sources /\ HasCameras[s] \in SUBSET HasCameras[s]
    BY DEF Sources
  <2>4. /\ DOMAIN catalog' = Sites /\ \A t \in Sites : CatalogFits(t)'
        /\ \A t \in Sites : Known(t) => catalog'[t] = catalog[t]
    BY <1>1, <2>2, <2>3, CatalogStep
  <2> HIDE DEF x
  <2> QED BY <1>1, <1>3, <1>4, <2>4, RollerStep
<1> QED BY <1>5, <1>6

LEMMA FailStep ==
  ASSUME RenderInv, NEW r \in Rollers, worker' = worker, catalog' = catalog, Move(r, "raised")
  PROVE  RenderInv'
<1>1. RollerFits(worker.bundling, catalog, roller[r])
  BY DEF RenderInv
<1>2. RollerFits(worker.bundling, catalog, [roller[r] EXCEPT !.at = "raised"])
  BY <1>1, PlaceFits
<1>3. roller' = [roller EXCEPT ![r] = [roller[r] EXCEPT !.at = "raised"]]
  BY DEF Move
<1> QED BY <1>2, <1>3, RollerMoves

LEMMA EnterStep ==
  ASSUME RenderInv, NEW r \in Rollers, EnterSession(r) PROVE RenderInv'
<1>1. worker' = worker /\ catalog' = catalog
  BY Zenon DEF EnterSession
<1>2. PICK s \in Sites, n \in Renderers :
        roller' = [roller EXCEPT ![r] = [Idle EXCEPT !.at = "session", !.site = s, !.renderer = n]]
  BY Zenon DEF EnterSession
<1>3. PICK y : y = [Idle EXCEPT !.at = "session", !.site = s, !.renderer = n]
  OBVIOUS
<1>4. RollerFits(worker.bundling, catalog, y)
  BY <1>3, RenderConstants DEF RollerFits, RollerState
<1>5. roller' = [roller EXCEPT ![r] = y]
  BY <1>2, <1>3, Zenon
<1> QED BY <1>1, <1>4, <1>5, RollerMoves

LEMMA LeaveStep ==
  ASSUME RenderInv, NEW r \in Rollers, LeaveSession(r) PROVE RenderInv'
<1>1. RollerFits(worker.bundling, catalog, Idle)
  BY RenderConstants DEF RollerFits
<1>2. worker' = worker /\ catalog' = catalog /\ roller' = [roller EXCEPT ![r] = Idle]
  BY DEF LeaveSession
<1> QED BY <1>1, <1>2, RollerMoves

(* The definitions of the catalog are whole.                                 *)
LEMMA CatalogHolds ==
  ASSUME RenderInv, NEW s \in Sites, Known(s), NEW c \in DOMAIN catalog[s]
  PROVE  /\ catalog[s][c] \in Definitions /\ catalog[s][c].site = s /\ catalog[s][c].camera = c
         /\ catalog[s][c].replaced = Replaced(c)
         /\ \A d \in DOMAIN catalog[s] : catalog[s][c].by = catalog[s][d].by
         /\ DOMAIN worker.overrides \subseteq HasCameras[s]
<1>1. PICK by \in Sources, C \in SUBSET HasCameras[s] :
        /\ catalog[s] = [d \in C |-> Definition(s, by, d, Replaced(d))]
        /\ DOMAIN worker.overrides \subseteq C
  BY DEF RenderInv, CatalogFits
<1>2. C \subseteq CameraNames /\ DOMAIN catalog[s] = C
  BY <1>1, RenderConstants
<1>3. \A d \in C : /\ catalog[s][d] \in Definitions /\ catalog[s][d].site = s
                   /\ catalog[s][d].camera = d /\ catalog[s][d].by = by
                   /\ catalog[s][d].replaced = Replaced(d)
  BY <1>1, <1>2, DefinitionIs
<1> QED BY <1>1, <1>2, <1>3

LEMMA TellStep ==
  ASSUME RenderInv, NEW r \in Rollers, TellDriver(r) PROVE RenderInv'
<1>1. worker' = worker /\ catalog' = catalog
  BY DEF TellDriver
<1>2. PICK s, x : s = roller[r].site /\ x = roller[r]
  OBVIOUS
<1>3. /\ x \in RollerState /\ s \in Sites /\ s = x.site
      /\ x.frame = 1 /\ x.handed = <<>> /\ x.request = <<>> /\ x.sent = {}
  BY <1>2 DEF RenderInv, TellDriver, RollerFits, RollerState
<1>4. CASE ~(Known(s) /\ Configured \subseteq DOMAIN catalog[s])
  <2>1. Move(r, "raised")
    BY <1>2, <1>4 DEF TellDriver
  <2> QED BY <1>1, <2>1, FailStep
<1>5. CASE Known(s) /\ Configured \subseteq DOMAIN catalog[s]
  <2>1. PICK told : told = [c \in Configured |-> catalog[s][c]]
    OBVIOUS
  <2>2. PICK y : y = [x EXCEPT !.at = "driving", !.left = Due[1], !.told = told]
    OBVIOUS
  <2>3. roller' = [roller EXCEPT ![r] = [roller[r] EXCEPT !.at = "driving", !.left = Due[1], !.told = told]]
    BY <1>2, <1>5, <2>1 DEF TellDriver
  <2>4. roller' = [roller EXCEPT ![r] = y]
    BY <1>2, <2>2, <2>3
  <2>5. told \in [Configured -> Definitions]
    <3>1. \A c \in Configured : catalog[s][c] \in Definitions
      BY <1>3, <1>5, CatalogHolds
    <3> QED BY <2>1, <3>1
  <2>6. 1 \in 1..Len(Due) /\ Due[1] \subseteq Configured
    BY RenderConstants
  <2>7. y \in RollerState
    BY <1>3, <2>2, <2>5, <2>6 DEF RollerState
  <2>8. /\ y.at = "driving" /\ y.left = Due[1] /\ y.told = told /\ y.site = s
        /\ y.frame = 1 /\ y.handed = <<>> /\ y.request = <<>> /\ y.sent = {}
    BY <1>3, <2>2 DEF RollerState
  <2>9. ToldBy(catalog, y)
    BY <1>5, <2>1, <2>8 DEF ToldBy, Known
  <2>10. Len(<<>>) = 0 /\ 1..0 = {} /\ 1..(1 - 1) = {}
    OBVIOUS
  <2>11. RequestFits(worker.bundling, y)
    BY <2>8, <2>10 DEF RequestFits, OncePerCamera, Truthful, CamerasIn
  <2>12. HandedFits(y, y.handed)
    BY <2>8, <2>10 DEF HandedFits, Truthful, CamerasIn, CamerasOf
  <2>13. y.sent = ForDriver(y.handed)
    <3>1. DOMAIN <<>> = {}
      OBVIOUS
    <3> QED BY <2>8, <3>1 DEF ForDriver
  <2>14. RollerFits(worker.bundling, catalog, y)
    BY <2>6, <2>7, <2>8, <2>9, <2>11, <2>12, <2>13 DEF RollerFits
  <2> QED BY <1>1, <2>4, <2>14, RollerMoves
<1> QED BY <1>4, <1>5

LEMMA NextShutterStep ==
  ASSUME RenderInv, NEW r \in Rollers, NextShutter(r) PROVE RenderInv'
<1>1. PICK x, k : x = roller[r] /\ k = x.frame + 1
  OBVIOUS
<1>2. /\ worker' = worker /\ catalog' = catalog
      /\ x.at = "driving" /\ x.left = {} /\ x.frame < Len(Due)
  BY <1>1 DEF NextShutter
<1>3. /\ RollerFits(worker.bundling, catalog, x) /\ x \in RollerState
      /\ x.frame \in 1..Len(Due) /\ ToldBy(catalog, x) /\ RequestFits(worker.bundling, x) /\ HandedFits(x, x.handed)
      /\ x.sent = ForDriver(x.handed)
  BY <1>1, <1>2 DEF RenderInv, RollerFits
<1>4. x.frame \in Nat /\ k \in Nat /\ k \in 1..Len(Due) /\ x.frame = k - 1 /\ x.frame \in 1..k
  BY <1>1, <1>2, <1>3, RenderConstants
<1>5. PICK y : y = [x EXCEPT !.frame = k, !.left = Due[k]]
  OBVIOUS
<1>6. roller' = [roller EXCEPT ![r] = y]
  <2>1. roller' = [roller EXCEPT ![r] = [roller[r] EXCEPT !.frame = roller[r].frame + 1, !.left = Due[roller[r].frame + 1]]]
    BY DEF NextShutter
  <2> QED BY <1>1, <1>5, <2>1
<1>7. Due[k] \subseteq Configured
  BY <1>4, RenderConstants
<1>8. y \in RollerState
  BY <1>3, <1>4, <1>5, <1>7 DEF RollerState
<1>9. /\ y.at = "driving" /\ y.left = Due[k] /\ y.told = x.told /\ y.site = x.site
      /\ y.frame = k /\ y.handed = x.handed /\ y.request = x.request /\ y.sent = x.sent
  BY <1>2, <1>3, <1>5 DEF RollerState
<1>10. ToldBy(catalog, y)
  BY <1>3, <1>9 DEF ToldBy
<1>11. x.request = <<>> /\ Len(<<>>) = 0 /\ 1..0 = {}
  BY <1>2, <1>3 DEF RequestFits
<1>12. RequestFits(worker.bundling, y)
  BY <1>9, <1>11 DEF RequestFits, OncePerCamera, Truthful, CamerasIn
<1>13. HandedFits(y, y.handed)
  <2>1. CamerasIn(x.request) = {}
    BY <1>11 DEF CamerasIn
  <2>2. PICK h \in Seq(Images) : h = x.handed
    BY <1>3 DEF RollerState
  <2>3. Len(h) \in Nat /\ \A i \in 1..Len(h) : h[i].frame \in 1..(k - 1)
    BY <1>3, <1>4, <2>2, LenProperties DEF HandedFits
  <2>4. CamerasOf(h, k) = {}
    BY <1>4, <2>3 DEF CamerasOf
  <2>5. \A j \in 1..(k - 1) : CamerasOf(h, j) = Due[j]
    <3>1. \A j \in 1..(k - 1) : j = x.frame \/ j \in 1..(x.frame - 1)
      BY <1>4
    <3>2. CamerasOf(h, x.frame) = Due[x.frame]
      BY <1>2, <1>3, <2>1, <2>2 DEF HandedFits
    <3> QED BY <1>3, <2>2, <3>1, <3>2 DEF HandedFits
  <2>6. Truthful(y, h)
    BY <1>3, <1>9, <2>2 DEF HandedFits, Truthful
  <2>7. \A i \in 1..Len(h) : h[i].frame \in 1..k
    BY <1>4, <2>3
  <2>8. /\ \A i, j \in 1..Len(h) : j < i => ~(h[i].frame < h[j].frame)
        /\ \A i, j \in 1..Len(h) : h[i].frame = h[j].frame /\ h[i].camera = h[j].camera => i = j
    BY <1>3, <2>2 DEF HandedFits
  <2>9. CamerasOf(h, k) = Due[k] \ (Due[k] \cup CamerasIn(y.request))
    BY <2>4
  <2> QED BY <1>9, <2>2, <2>5, <2>6, <2>7, <2>8, <2>9 DEF HandedFits
<1>14. RollerFits(worker.bundling, catalog, y)
  BY <1>3, <1>4, <1>8, <1>9, <1>10, <1>12, <1>13 DEF RollerFits
<1> QED BY <1>2, <1>6, <1>14, RollerMoves

LEMMA MasksStep ==
  ASSUME RenderInv, NEW r \in Rollers, GetEgoMasks(r) PROVE RenderInv'
<1>1. PICK x, y : x = roller[r] /\ y = [x EXCEPT !.masks = TRUE]
  OBVIOUS
<1>2. worker' = worker /\ catalog' = catalog /\ x.at = "driving" /\ roller' = [roller EXCEPT ![r] = y]
  BY <1>1 DEF GetEgoMasks
<1>3. RollerFits(worker.bundling, catalog, x)
  BY <1>1 DEF RenderInv
<1>4. /\ y \in RollerState /\ y.at = x.at /\ y.left = x.left /\ y.told = x.told /\ y.site = x.site
      /\ y.frame = x.frame /\ y.handed = x.handed /\ y.request = x.request /\ y.sent = x.sent
  BY <1>1, <1>3 DEF RollerFits, RollerState
<1>5. RollerFits(worker.bundling, catalog, y)
  BY <1>2, <1>3, <1>4 DEF RollerFits, ToldBy, RequestFits, HandedFits, Truthful
<1> QED BY <1>2, <1>5, RollerMoves

(* A request has an item for each of its cameras, with what the driver was   *)
(* told.                                                                     *)
LEMMA RequestIs ==
  ASSUME RenderInv, NEW r \in Rollers, roller[r].at = "driving", NEW now \in SUBSET roller[r].left
  PROVE  /\ IsFiniteSet(now) /\ RequestOfFrame(r, now) \in Seq(Images)
         /\ Len(RequestOfFrame(r, now)) = Cardinality(now)
         /\ \A i \in 1..Len(RequestOfFrame(r, now)) : RequestOfFrame(r, now)[i].frame = roller[r].frame
         /\ OncePerCamera(RequestOfFrame(r, now)) /\ Truthful(roller[r], RequestOfFrame(r, now))
         /\ CamerasIn(RequestOfFrame(r, now)) = now
<1>1. PICK x : x = roller[r]
  OBVIOUS
<1>2. x \in RollerState /\ ToldBy(catalog, x)
  BY <1>1 DEF RenderInv, RollerFits
<1>3. now \in SUBSET Configured /\ IsFiniteSet(now) /\ now \subseteq CameraNames
  <2>1. now \in SUBSET Configured
    BY <1>1, <1>2 DEF RollerState
  <2> QED BY <2>1, RenderConstants, FS_Subset
<1>4. PICK l, n : l = SetToSeq(now) /\ n = Cardinality(now)
  OBVIOUS
<1>5. /\ l \in Seq(now) /\ Len(l) = n /\ n \in Nat /\ DOMAIN l = 1..n
      /\ \A i, k \in 1..n : l[i] = l[k] => i = k
      /\ {l[i] : i \in 1..n} = now
  <2>1. /\ l \in Seq(now) /\ Len(l) = n /\ n \in Nat
        /\ \A i, k \in 1..n : l[i] = l[k] => i = k
        /\ {l[i] : i \in 1..n} = now
    <3>1. /\ SetToSeq(now) \in Seq(now) /\ Len(SetToSeq(now)) = Cardinality(now)
          /\ Cardinality(now) \in Nat
          /\ \A i, k \in 1..Cardinality(now) : SetToSeq(now)[i] = SetToSeq(now)[k] => i = k
          /\ {SetToSeq(now)[i] : i \in 1..Cardinality(now)} = now
      BY <1>3, SetIsListed
    <3> QED BY Zenon, <1>4, <3>1
  <2>2. DOMAIN l = 1..n
    BY <2>1, LenProperties
  <2> QED BY Zenon, <2>1, <2>2
<1>6. x.site \in Sites /\ Known(x.site) /\ Configured \subseteq DOMAIN catalog[x.site] /\ x.frame \in Nat
      /\ \A c \in Configured : x.told[c] = catalog[x.site][c]
  BY <1>2 DEF ToldBy, Known, RollerState
<1>7. \A c \in Configured : catalog[x.site][c] \in Definitions
  BY <1>6, CatalogHolds
<1>8. PICK q : q = RequestOfFrame(r, now)
  OBVIOUS
<1>9. q = [i \in 1..n |-> [camera |-> l[i], frame |-> x.frame, mask |-> l[i] \in RigMasks,
                           definition |-> catalog[x.site][l[i]]]]
  BY <1>1, <1>4, <1>5, <1>8 DEF RequestOfFrame
<1>10. \A i \in 1..n : l[i] \in Configured
  BY <1>3, <1>5
<1>11. \A i \in 1..n : /\ q[i].camera = l[i] /\ q[i].frame = x.frame
                       /\ q[i].mask = (l[i] \in RigMasks) /\ q[i].definition = catalog[x.site][l[i]]
  BY <1>9
<1>12. \A i \in 1..n : q[i] \in Images
  <2> SUFFICES ASSUME NEW i \in 1..n PROVE q[i] \in Images
    OBVIOUS
  <2>1. q[i] = [camera |-> l[i], frame |-> x.frame, mask |-> l[i] \in RigMasks,
                definition |-> catalog[x.site][l[i]]]
    BY <1>9
  <2>2. l[i] \in Configured /\ x.frame \in Nat /\ (l[i] \in RigMasks) \in BOOLEAN
        /\ catalog[x.site][l[i]] \in Definitions
    BY <1>6, <1>7, <1>10
  <2> QED BY <2>1, <2>2 DEF Images
<1>13. q \in Seq(Images) /\ Len(q) = n
  BY <1>5, <1>9, <1>12
<1>14. OncePerCamera(q) /\ CamerasIn(q) = now
  BY <1>5, <1>11, <1>13 DEF OncePerCamera, CamerasIn
<1>15. Truthful(x, q)
  BY <1>6, <1>10, <1>11, <1>13 DEF Truthful
<1> QED BY <1>1, <1>3, <1>4, <1>8, <1>11, <1>13, <1>14, <1>15

LEMMA RenderStep ==
  ASSUME RenderInv, NEW r \in Rollers, Render(r) PROVE RenderInv'
<1>1. PICK x : x = roller[r]
  OBVIOUS
<1>2. PICK now \in SUBSET roller[r].left :
        /\ IF worker.bundling = "none" THEN Cardinality(now) = 1 ELSE now = roller[r].left
        /\ roller' = [roller EXCEPT ![r].at = "rendering", ![r].request = RequestOfFrame(r, now),
                                    ![r].left = @ \ now]
  BY Zenon DEF Render
<1>3. /\ worker' = worker /\ catalog' = catalog /\ x.at = "driving" /\ now \in SUBSET x.left
      /\ worker.bundling = "none" => Cardinality(now) = 1
  <2>1. worker' = worker /\ catalog' = catalog /\ roller[r].at = "driving"
    BY Zenon DEF Render
  <2>2. worker.bundling = "none" => Cardinality(now) = 1
    BY <1>2, Zenon
  <2> QED BY <1>1, <2>1, <2>2
<1>4. PICK q : q = RequestOfFrame(r, now)
  OBVIOUS
<1>5. PICK y : y = [x EXCEPT !.at = "rendering", !.request = q, !.left = x.left \ now]
  OBVIOUS
<1>6. roller' = [roller EXCEPT ![r] = y]
  BY <1>1, <1>2, <1>4, <1>5
<1>7. /\ RollerFits(worker.bundling, catalog, x) /\ x \in RollerState
      /\ x.frame \in 1..Len(Due) /\ ToldBy(catalog, x) /\ RequestFits(worker.bundling, x) /\ HandedFits(x, x.handed)
      /\ x.sent = ForDriver(x.handed)
  BY <1>1, <1>3 DEF RenderInv, RollerFits
<1>8. /\ q \in Seq(Images) /\ Len(q) = Cardinality(now)
      /\ \A i \in 1..Len(q) : q[i].frame = x.frame
      /\ OncePerCamera(q) /\ Truthful(x, q) /\ CamerasIn(q) = now
  BY <1>1, <1>3, <1>4, RequestIs
<1>9. y \in RollerState
  BY <1>4, <1>5, <1>7, <1>8 DEF RollerState
<1>10. /\ y.at = "rendering" /\ y.left = x.left \ now /\ y.told = x.told /\ y.site = x.site
      /\ y.frame = x.frame /\ y.handed = x.handed /\ y.request = q /\ y.sent = x.sent
  BY <1>5, <1>7 DEF RollerState
<1>11. ToldBy(catalog, y)
  BY <1>7, <1>10 DEF ToldBy
<1>12. x.left \subseteq Due[x.frame] /\ CamerasIn(x.request) = {}
  <2>1. x.request = <<>>
    BY <1>3, <1>7 DEF RequestFits
  <2> QED BY <1>7, <2>1 DEF HandedFits, CamerasIn
<1>13. RequestFits(worker.bundling, y)
  <2>1. Truthful(y, q)
    BY <1>8, <1>10 DEF Truthful
  <2> QED BY <1>3, <1>8, <1>10, <1>12, <2>1 DEF RequestFits
<1>14. HandedFits(y, y.handed)
  <2>1. x.left = (x.left \ now) \cup now
    BY <1>3
  <2>2. CamerasOf(x.handed, x.frame) = Due[x.frame] \ ((x.left \ now) \cup now)
    BY <1>7, <1>12, <2>1 DEF HandedFits
  <2>3. Truthful(y, x.handed)
    BY <1>7, <1>10 DEF HandedFits, Truthful
  <2> QED BY <1>7, <1>8, <1>10, <1>12, <2>2, <2>3 DEF HandedFits
<1>15. RollerFits(worker.bundling, catalog, y)
  BY <1>7, <1>9, <1>10, <1>11, <1>13, <1>14 DEF RollerFits
<1> QED BY <1>3, <1>6, <1>15, RollerMoves

AfterHandOn(x, m) ==
  [x EXCEPT !.at = "driving", !.request = <<>>, !.handed = x.handed \o m, !.sent = x.sent \cup ForDriver(m)]

(* What is handed on completes the request of a roller.                      *)
LEMMA HandOnFits ==
  ASSUME NEW b, NEW g, NEW x, RollerFits(b, g, x), x.at = "rendering",
         NEW m \in Seq(Images), \A i \in 1..Len(m) : m[i].frame = x.frame,
         OncePerCamera(m), Truthful(x, m), CamerasIn(m) = CamerasIn(x.request),
         NEW y, y = AfterHandOn(x, m)
  PROVE  RollerFits(b, g, y)
<1>1. /\ x \in RollerState /\ x.frame \in 1..Len(Due) /\ ToldBy(g, x)
      /\ RequestFits(b, x) /\ HandedFits(x, x.handed) /\ x.sent = ForDriver(x.handed)
  BY DEF RollerFits
<1>2. PICK h, z, n, l : h = x.handed /\ z = h \o m /\ n = Len(h) /\ l = Len(m)
  OBVIOUS
<1>3. h \in Seq(Images) /\ n \in Nat /\ l \in Nat /\ x.frame \in Nat
  BY <1>1, <1>2, LenProperties DEF RollerState
<1>4. /\ z \in Seq(Images) /\ Len(z) = n + l
      /\ \A i \in 1..(n + l) : z[i] = IF i <= n THEN h[i] ELSE m[i - n]
  BY <1>2, <1>3, ConcatProperties
<1>5. \A i \in 1..n : i \in 1..(n + l) /\ z[i] = h[i]
  BY <1>3, <1>4
<1>6. \A i \in 1..l : n + i \in 1..(n + l) /\ z[n + i] = m[i]
  <2> SUFFICES ASSUME NEW i \in 1..l PROVE n + i \in 1..(n + l) /\ z[n + i] = m[i]
    OBVIOUS
  <2>1. n + i \in 1..(n + l) /\ ~(n + i <= n) /\ (n + i) - n = i
    BY <1>3
  <2> QED BY <1>4, <2>1
<1>7. \A i \in 1..(n + l) : i \in 1..n \/ \E k \in 1..l : i = n + k
  <2> SUFFICES ASSUME NEW i \in 1..(n + l), i \notin 1..n PROVE \E k \in 1..l : i = n + k
    OBVIOUS
  <2>1. i - n \in 1..l /\ i = n + (i - n)
    BY <1>3
  <2> QED BY <2>1
<1>8. DOMAIN h = 1..n /\ DOMAIN m = 1..l /\ DOMAIN z = 1..(n + l)
  BY <1>2, <1>3, <1>4, LenProperties
<1>8a. ForDriver(z) = ForDriver(h) \cup ForDriver(m)
  <2>1. ForDriver(z) \subseteq ForDriver(h) \cup ForDriver(m)
    <3> SUFFICES ASSUME NEW j \in 1..(n + l), z[j].camera = DriverCamera
                 PROVE  z[j] \in ForDriver(h) \cup ForDriver(m)
      BY <1>8 DEF ForDriver
    <3>1. CASE j \in 1..n
      BY <1>5, <1>8, <3>1 DEF ForDriver
    <3>2. CASE j \notin 1..n
      <4>1. PICK o \in 1..l : j = n + o
        BY <1>7, <3>2
      <4>2. z[j] = m[o] /\ m[o].camera = DriverCamera
        BY <1>6, <4>1
      <4> QED BY <1>8, <4>2 DEF ForDriver
    <3> QED BY <3>1, <3>2
  <2>2. ForDriver(h) \subseteq ForDriver(z)
    BY <1>5, <1>8 DEF ForDriver
  <2>3. ForDriver(m) \subseteq ForDriver(z)
    <3> SUFFICES ASSUME NEW j \in 1..l, m[j].camera = DriverCamera PROVE m[j] \in ForDriver(z)
      BY <1>8 DEF ForDriver
    <3>1. n + j \in DOMAIN z /\ z[n + j] = m[j]
      BY <1>6, <1>8
    <3> QED BY <3>1 DEF ForDriver
  <2> QED BY <2>1, <2>2, <2>3
<1>8b. ForDriver(m) \in SUBSET Images
  <2>1. \A i \in 1..l : m[i] \in Images
    BY <1>2, ElementOfSeq
  <2> QED BY <1>8, <2>1 DEF ForDriver
<1>8c. /\ y.at = "driving" /\ y.left = x.left /\ y.told = x.told /\ y.site = x.site
       /\ y.frame = x.frame /\ y.handed = z /\ y.request = <<>> /\ y \in RollerState
       /\ y.sent = x.sent \cup ForDriver(m)
  <2>1. z \in Seq(Images) /\ <<>> \in Seq(Images) /\ x.sent \cup ForDriver(m) \in SUBSET Images
    BY <1>1, <1>4, <1>8b, EmptySeq DEF RollerState
  <2> QED BY <1>1, <1>2, <2>1 DEF RollerState, AfterHandOn
<1>8d. y.sent = ForDriver(y.handed)
  BY <1>1, <1>2, <1>8a, <1>8c
<1>9. ToldBy(g, y)
  BY <1>1, <1>8c DEF ToldBy
<1>10. RequestFits(b, y)
  BY <1>8c DEF RequestFits, OncePerCamera, Truthful, CamerasIn
<1>11. Truthful(y, z)
  <2>1. \A i \in 1..n : h[i].definition = y.told[h[i].camera] /\ h[i].mask = (h[i].camera \in RigMasks)
    BY <1>1, <1>2, <1>8c DEF HandedFits, Truthful
  <2>2. \A i \in 1..l : m[i].definition = y.told[m[i].camera] /\ m[i].mask = (m[i].camera \in RigMasks)
    BY <1>2, <1>8c DEF Truthful
  <2> QED BY <1>4, <1>5, <1>6, <1>7, <2>1, <2>2 DEF Truthful
<1>12. /\ \A i \in 1..n : h[i].frame \in 1..x.frame
       /\ \A i \in 1..l : m[i].frame = x.frame
       /\ \A i, k \in 1..n : k < i => ~(h[i].frame < h[k].frame)
       /\ \A i, k \in 1..n : h[i].frame = h[k].frame /\ h[i].camera = h[k].camera => i = k
       /\ CamerasOf(h, x.frame) = Due[x.frame] \ (x.left \cup CamerasIn(x.request))
       /\ x.left \subseteq Due[x.frame]
       /\ \A k \in 1..(x.frame - 1) : CamerasOf(h, k) = Due[k]
  BY <1>1, <1>2 DEF HandedFits
<1>13. \A i \in 1..(n + l) : z[i].frame \in 1..x.frame
  <2>1. x.frame \in 1..x.frame
    BY <1>1, <1>3
  <2> QED BY <1>5, <1>6, <1>7, <1>12, <2>1
<1>14. \A i, k \in 1..(n + l) : k < i => ~(z[i].frame < z[k].frame)
  <2> SUFFICES ASSUME NEW i \in 1..(n + l), NEW k \in 1..(n + l), k < i PROVE ~(z[i].frame < z[k].frame)
    OBVIOUS
  <2>1. CASE i \in 1..n
    <3>1. k \in 1..n
      BY <1>3, <2>1
    <3> QED BY <1>5, <1>12, <2>1, <3>1
  <2>2. CASE i \notin 1..n
    <3>1. z[i].frame = x.frame
      BY <1>6, <1>7, <1>12, <2>2
    <3> QED BY <1>3, <1>13, <3>1
  <2> QED BY <2>1, <2>2
<1>15. \A i \in 1..n, k \in 1..l : h[i].frame = x.frame => h[i].camera # m[k].camera
  <2> SUFFICES ASSUME NEW i \in 1..n, NEW k \in 1..l, h[i].frame = x.frame PROVE h[i].camera # m[k].camera
    OBVIOUS
  <2>1. h[i].camera \in CamerasOf(h, x.frame)
    BY <1>2 DEF CamerasOf
  <2>2. m[k].camera \in CamerasIn(x.request)
    BY <1>2 DEF CamerasIn
  <2> QED BY <1>12, <2>1, <2>2
<1>16. \A i, k \in 1..(n + l) : z[i].frame = z[k].frame /\ z[i].camera = z[k].camera => i = k
  <2>1. \A i, k \in 1..l : m[i].camera = m[k].camera => i = k
    BY <1>2 DEF OncePerCamera
  <2> SUFFICES ASSUME NEW i \in 1..(n + l), NEW k \in 1..(n + l),
                      z[i].frame = z[k].frame, z[i].camera = z[k].camera
               PROVE i = k
    OBVIOUS
  <2>2. CASE i \in 1..n /\ k \in 1..n
    BY <1>5, <1>12, <2>2
  <2>3. CASE i \in 1..n /\ k \notin 1..n
    <3>1. PICK j \in 1..l : k = n + j
      BY <1>7, <2>3
    <3> QED BY <1>5, <1>6, <1>12, <1>15, <2>3, <3>1
  <2>4. CASE i \notin 1..n /\ k \in 1..n
    <3>1. PICK j \in 1..l : i = n + j
      BY <1>7, <2>4
    <3> QED BY <1>5, <1>6, <1>12, <1>15, <2>4, <3>1
  <2>5. CASE i \notin 1..n /\ k \notin 1..n
    <3>1. PICK j \in 1..l, o \in 1..l : i = n + j /\ k = n + o
      BY <1>7, <2>5
    <3> QED BY <1>6, <2>1, <3>1
  <2> QED BY <2>2, <2>3, <2>4, <2>5
<1>17. \A k \in 1..(x.frame - 1) : CamerasOf(z, k) = Due[k]
  <2> SUFFICES ASSUME NEW k \in 1..(x.frame - 1) PROVE CamerasOf(z, k) = CamerasOf(h, k)
    BY <1>12
  <2>1. \A i \in 1..l : z[n + i].frame # k
    <3>1. x.frame # k
      BY <1>3
    <3>2. \A i \in 1..l : z[n + i] = m[i] /\ m[i].frame = x.frame
      BY <1>6, <1>12
    <3> QED BY Zenon, <3>1, <3>2
  <2>2. {j \in 1..(n + l) : z[j].frame = k} = {j \in 1..n : h[j].frame = k}
    BY <1>5, <1>7, <2>1
  <2> QED BY <1>2, <1>4, <1>5, <2>2 DEF CamerasOf
<1>18. CamerasOf(z, x.frame) = CamerasOf(h, x.frame) \cup CamerasIn(m)
  <2>1. CamerasOf(z, x.frame) \subseteq CamerasOf(h, x.frame) \cup CamerasIn(m)
    <3> SUFFICES ASSUME NEW j \in 1..(n + l), z[j].frame = x.frame
                 PROVE  z[j].camera \in CamerasOf(h, x.frame) \cup CamerasIn(m)
      BY <1>4 DEF CamerasOf
    <3>1. CASE j \in 1..n
      BY <1>2, <1>5, <3>1 DEF CamerasOf
    <3>2. CASE j \notin 1..n
      <4>1. PICK o \in 1..l : j = n + o
        BY <1>7, <3>2
      <4>2. z[j] = m[o]
        BY <1>6, <4>1
      <4>3. m[o].camera \in CamerasIn(m)
        BY Zenon, <1>2 DEF CamerasIn
      <4> QED BY <4>2, <4>3
    <3> QED BY <3>1, <3>2
  <2>2. CamerasOf(h, x.frame) \subseteq CamerasOf(z, x.frame)
    BY <1>2, <1>4, <1>5 DEF CamerasOf
  <2>3. CamerasIn(m) \subseteq CamerasOf(z, x.frame)
    <3> SUFFICES ASSUME NEW j \in 1..l PROVE m[j].camera \in CamerasOf(z, x.frame)
      BY <1>2 DEF CamerasIn
    <3>1. n + j \in 1..Len(z) /\ z[n + j].frame = x.frame /\ z[n + j].camera = m[j].camera
      BY <1>4, <1>6, <1>12
    <3> QED BY <3>1 DEF CamerasOf
  <2> QED BY <2>1, <2>2, <2>3
<1>19. CamerasOf(z, x.frame) = Due[x.frame] \ (x.left \cup CamerasIn(y.request))
  <2>1. CamerasIn(y.request) = {}
    BY <1>8c DEF CamerasIn
  <2>2. CamerasIn(x.request) \subseteq Due[x.frame] \ x.left
    BY <1>1 DEF RequestFits
  <2> QED BY <1>12, <1>18, <2>1, <2>2
<1>20. HandedFits(y, y.handed)
  <2>1. /\ \A i \in 1..Len(z) : z[i].frame \in 1..y.frame
        /\ \A i, k \in 1..Len(z) : k < i => ~(z[i].frame < z[k].frame)
        /\ \A i, k \in 1..Len(z) : z[i].frame = z[k].frame /\ z[i].camera = z[k].camera => i = k
    BY <1>4, <1>8c, <1>13, <1>14, <1>16
  <2>2. /\ \A k \in 1..(y.frame - 1) : CamerasOf(z, k) = Due[k]
        /\ CamerasOf(z, y.frame) = Due[y.frame] \ (y.left \cup CamerasIn(y.request))
        /\ y.left \subseteq Due[y.frame]
    BY <1>8c, <1>12, <1>17, <1>19
  <2>3. HandedFits(y, z)
    BY <1>11, <2>1, <2>2 DEF HandedFits
  <2>4. y.handed = z
    BY <1>8c
  <2> QED BY <2>3, <2>4
<1> QED BY <1>1, <1>8c, <1>8d, <1>9, <1>10, <1>20 DEF RollerFits

\* The image p is of the camera c as the driver of the roller in state x was told.
PictureFits(p, c, x) ==
  /\ p \in Images /\ p.camera = c /\ p.frame = x.frame
  /\ p.definition = x.told[c] /\ p.mask = (c \in RigMasks)

LEMMA PictureIs ==
  ASSUME RenderInv, NEW r \in Rollers, roller[r].at = "rendering",
         NEW i \in 1..Len(roller[r].request), NEW c, c = roller[r].request[i].camera
  PROVE  PictureFits(Picture(r, i, c), c, roller[r])
<1>1. PICK x, q : x = roller[r] /\ q = x.request
  OBVIOUS
<1>2. x \in RollerState /\ RequestFits(worker.bundling, x)
  BY <1>1 DEF RenderInv, RollerFits
<1>3. q[i] \in Images
  BY <1>1, <1>2, ElementOfSeq DEF RollerState
<1>4. q[i].frame = x.frame /\ q[i].definition = x.told[c] /\ q[i].mask = (c \in RigMasks) /\ q[i].camera = c
  BY <1>1, <1>2 DEF RequestFits, Truthful
<1>5. Picture(r, i, c) = [camera |-> c, frame |-> q[i].frame, mask |-> q[i].mask, definition |-> q[i].definition]
  BY <1>1 DEF Picture
<1>6. c \in Configured /\ q[i].frame \in Nat /\ q[i].mask \in BOOLEAN /\ q[i].definition \in Definitions
  BY <1>3, <1>4 DEF Images
<1> QED BY <1>1, <1>4, <1>5, <1>6 DEF PictureFits, Images

LEMMA HandOnStep ==
  ASSUME RenderInv, NEW r \in Rollers, roller[r].at = "rendering", NEW m, HandOn(r, m),
         m \in Seq(Images), \A i \in 1..Len(m) : m[i].frame = roller[r].frame,
         OncePerCamera(m), Truthful(roller[r], m), CamerasIn(m) = CamerasIn(roller[r].request)
  PROVE  RenderInv'
<1>1. PICK x : x = roller[r]
  OBVIOUS
<1>2. PICK y : y = AfterHandOn(x, m)
  OBVIOUS
<1>3. worker' = worker /\ catalog' = catalog
  BY Zenon DEF HandOn
<1>4. roller' = [roller EXCEPT ![r] = y]
  <2>1. roller' = [roller EXCEPT ![r].at = "driving", ![r].request = <<>>, ![r].handed = @ \o m,
                                 ![r].sent = @ \cup ForDriver(m)]
    BY Zenon DEF HandOn
  <2> QED BY <1>1, <1>2, <2>1 DEF AfterHandOn
<1>5. RollerFits(worker.bundling, catalog, x)
  BY <1>1 DEF RenderInv
<1>6. RollerFits(worker.bundling, catalog, y)
  BY <1>1, <1>2, <1>5, HandOnFits
<1> QED BY <1>3, <1>4, <1>6, RollerMoves

\* The pictures for the items of the request q that of names, which are each of
\* them once.
Pictures(r, q, n, of) == [i \in 1..n |-> Picture(r, of[i], q[of[i]].camera)]
EachOnce(q, n, of) ==
  /\ \A i, k \in 1..n : q[of[i]].camera = q[of[k]].camera => i = k
  /\ {q[of[i]].camera : i \in 1..n} = CamerasIn(q)

LEMMA PicturesStep ==
  ASSUME RenderInv, NEW r \in Rollers, roller[r].at = "rendering", NEW q, q = roller[r].request,
         NEW n \in Nat, NEW of \in [1..n -> 1..Len(q)], EachOnce(q, n, of),
         NEW m, m = Pictures(r, q, n, of), HandOn(r, m)
  PROVE  RenderInv'
<1>1. PICK x : x = roller[r]
  OBVIOUS
<1>2. m = [i \in 1..n |-> Picture(r, of[i], q[of[i]].camera)]
  BY DEF Pictures
<1>3. \A i \in 1..n : /\ m[i] \in Images /\ m[i].camera = q[of[i]].camera
                      /\ m[i].frame = x.frame
                      /\ m[i].definition = x.told[q[of[i]].camera]
                      /\ m[i].mask = (q[of[i]].camera \in RigMasks)
  <2> SUFFICES ASSUME NEW i \in 1..n
               PROVE  /\ m[i] \in Images /\ m[i].camera = q[of[i]].camera
                      /\ m[i].frame = x.frame
                      /\ m[i].definition = x.told[q[of[i]].camera]
                      /\ m[i].mask = (q[of[i]].camera \in RigMasks)
    OBVIOUS
  <2>1. PICK j \in 1..Len(q) : j = of[i]
    OBVIOUS
  <2>2. PICK c : c = q[j].camera
    OBVIOUS
  <2>3. m[i] = Picture(r, j, c)
    BY <1>2, <2>1, <2>2
  <2>4. j \in 1..Len(roller[r].request) /\ c = roller[r].request[j].camera
    BY <2>1, <2>2
  <2>5. PictureFits(Picture(r, j, c), c, roller[r])
    BY <2>4, PictureIs
  <2>6. c = q[of[i]].camera
    BY Zenon, <2>1, <2>2
  <2> QED BY Zenon, <1>1, <2>3, <2>5, <2>6 DEF PictureFits
<1>4. m \in Seq(Images) /\ Len(m) = n
  BY <1>2, <1>3
<1>5. OncePerCamera(m)
  BY <1>3, <1>4 DEF OncePerCamera, EachOnce
<1>6. Truthful(x, m)
  <2>1. ASSUME NEW i \in 1..n
        PROVE  m[i].definition = x.told[m[i].camera] /\ m[i].mask = (m[i].camera \in RigMasks)
    BY Zenon, <1>3
  <2>2. Len(m) = n
    BY <1>4
  <2> QED BY Zenon, <2>1, <2>2 DEF Truthful
<1>7. CamerasIn(m) = CamerasIn(q)
  <2>1. CamerasIn(m) = {m[i].camera : i \in 1..n}
    BY <1>4 DEF CamerasIn
  <2>2. \A i \in 1..n : m[i].camera = q[of[i]].camera
    BY Zenon, <1>3
  <2>3. {m[i].camera : i \in 1..n} = {q[of[i]].camera : i \in 1..n}
    <3>1. {m[i].camera : i \in 1..n} \subseteq {q[of[i]].camera : i \in 1..n}
      BY <2>2
    <3>2. {q[of[i]].camera : i \in 1..n} \subseteq {m[i].camera : i \in 1..n}
      BY <2>2
    <3> QED BY <3>1, <3>2
  <2> QED BY Zenon, <2>1, <2>3 DEF EachOnce
<1>8. \A i \in 1..Len(m) : m[i].frame = roller[r].frame
  BY <1>1, <1>3, <1>4
<1> QED BY <1>1, <1>4, <1>5, <1>6, <1>7, <1>8, HandOnStep

LEMMA RequestList ==
  ASSUME RenderInv, NEW r \in Rollers, roller[r].at = "rendering"
  PROVE  /\ roller[r].request \in Seq(Images) /\ Len(roller[r].request) \in Nat
         /\ DOMAIN roller[r].request = 1..Len(roller[r].request)
         /\ OncePerCamera(roller[r].request)
         /\ worker.bundling = "none" => Len(roller[r].request) = 1
<1>1. roller[r] \in RollerState /\ RequestFits(worker.bundling, roller[r])
  BY DEF RenderInv, RollerFits
<1>2. roller[r].request \in Seq(Images)
  BY <1>1 DEF RollerState
<1> QED BY <1>1, <1>2, LenProperties DEF RequestFits

LEMMA AnswerOneStep ==
  ASSUME RenderInv, NEW r \in Rollers, AnswerOne(r) PROVE RenderInv'
<1>1. roller[r].at = "rendering" /\ worker.bundling = "none"
      /\ HandOn(r, <<Picture(r, 1, roller[r].request[1].camera)>>)
  BY DEF AnswerOne
<1>2. PICK q, n : q = roller[r].request /\ n = 1
  OBVIOUS
<1>3. Len(q) = 1
  BY <1>1, <1>2, RequestList
<1>4. PICK of : of = [i \in 1..n |-> 1]
  OBVIOUS
<1>5. of \in [1..n -> 1..Len(q)] /\ 1..n = {1} /\ n \in Nat /\ of[1] = 1
  BY <1>2, <1>3, <1>4
<1>6. EachOnce(q, n, of)
  BY <1>2, <1>3, <1>5 DEF CamerasIn, EachOnce
<1>7. PICK m : m = Pictures(r, q, n, of)
  OBVIOUS
<1>8. <<Picture(r, 1, q[1].camera)>> = m
  BY <1>5, <1>7 DEF Pictures
<1>9. HandOn(r, m)
  BY <1>1, <1>2, <1>8
<1> QED BY <1>1, <1>2, <1>5, <1>6, <1>7, <1>9, PicturesStep

LEMMA AnswerAggregatedStep ==
  ASSUME RenderInv, NEW r \in Rollers, AnswerAggregated(r) PROVE RenderInv'
<1>1. roller[r].at = "rendering"
      /\ HandOn(r, [i \in DOMAIN roller[r].request |-> Picture(r, i, roller[r].request[i].camera)])
  BY DEF AnswerAggregated
<1>2. PICK q, n : q = roller[r].request /\ n = Len(q)
  OBVIOUS
<1>3. n \in Nat /\ DOMAIN q = 1..n /\ OncePerCamera(q)
  BY <1>1, <1>2, RequestList
<1>4. PICK of : of = [i \in 1..n |-> i]
  OBVIOUS
<1>5. of \in [1..n -> 1..Len(q)] /\ \A i \in 1..n : of[i] = i
  BY <1>2, <1>4
<1>6. EachOnce(q, n, of)
  BY <1>2, <1>3, <1>5 DEF OncePerCamera, CamerasIn, EachOnce
<1>7. PICK m : m = Pictures(r, q, n, of)
  OBVIOUS
<1>8. [i \in DOMAIN q |-> Picture(r, i, q[i].camera)] = m
  BY <1>3, <1>5, <1>7 DEF Pictures
<1>9. HandOn(r, m)
  BY <1>1, <1>2, <1>8
<1> QED BY <1>1, <1>2, <1>3, <1>5, <1>6, <1>7, <1>9, PicturesStep

(* An acceptable batch has a picture of each camera that was asked for.      *)
LEMMA AnswerBatchStep ==
  ASSUME RenderInv, NEW r \in Rollers, AnswerBatch(r) PROVE RenderInv'
<1>1. PICK q, l : q = roller[r].request /\ l = Len(q) + 1
  OBVIOUS
<1>2. roller[r].at = "rendering"
      /\ \E s \in SeqOf(AnswerItems(r), l) :
           IF Acceptable(r, s)
           THEN HandOn(r, [i \in DOMAIN s |-> Picture(r, s[i].of, s[i].camera)])
           ELSE Fails(r)
  BY <1>1 DEF AnswerBatch
<1>3. q \in Seq(Images) /\ Len(q) \in Nat /\ DOMAIN q = 1..Len(q) /\ OncePerCamera(q)
  BY <1>1, <1>2, RequestList
<1>4. ASSUME Fails(r) PROVE RenderInv'
  BY <1>4, FailStep DEF Fails
<1>5. ASSUME NEW s \in SeqOf(AnswerItems(r), l), Acceptable(r, s),
             HandOn(r, [i \in DOMAIN s |-> Picture(r, s[i].of, s[i].camera)])
      PROVE  RenderInv'
  <2>1. PICK n \in 0..l : s \in [1..n -> AnswerItems(r)]
    BY <1>5 DEF SeqOf
  <2>2. n \in Nat /\ DOMAIN s = 1..n
    BY <1>1, <1>3, <2>1
  <2>3. \A i \in 1..Len(q) : q[i].camera \in CameraNames
    <3>1. \A i \in 1..Len(q) : q[i] \in Images
      BY <1>3, ElementOfSeq
    <3> QED BY <3>1, RenderConstants DEF Images
  <2>4. PICK asked : asked = {q[i].camera : i \in DOMAIN q}
    OBVIOUS
  <2>5. /\ \A i \in 1..n : s[i].camera \in CamerasIn(q)
        /\ \A i, k \in 1..n : s[i].camera = s[k].camera => i = k
        /\ CamerasIn(q) \subseteq {s[i].camera : i \in 1..n}
    <3>1. asked = CamerasIn(q)
      BY <1>3, <2>4 DEF CamerasIn
    <3>2. /\ \A i \in DOMAIN s : s[i].camera \in asked
          /\ \A i, k \in DOMAIN s : s[i].camera = s[k].camera => i = k
          /\ asked \subseteq {s[i].camera : i \in DOMAIN s}
      BY <1>1, <1>5, <2>4 DEF Acceptable
    <3> QED BY <2>2, <3>1, <3>2
  <2>6. \A i \in 1..n : s[i].of \in 1..Len(q) /\ s[i].camera = q[s[i].of].camera
    <3> SUFFICES ASSUME NEW i \in 1..n PROVE s[i].of \in 1..Len(q) /\ s[i].camera = q[s[i].of].camera
      OBVIOUS
    <3>1. s[i] \in AnswerItems(r)
      BY <2>1
    <3>2. s[i].camera \in CameraNames
      BY <2>3, <2>5 DEF CamerasIn
    <3>3. \A t \in Strangers : s[i].camera # t
      BY <3>2, RenderConstants
    <3>4. PICK k \in DOMAIN q, b \in BOOLEAN : s[i] = [camera |-> q[k].camera, success |-> b, of |-> k]
      BY <1>1, <3>1, <3>3 DEF AnswerItems
    <3> QED BY <1>3, <3>4
  <2>7. PICK of : of = [i \in 1..n |-> s[i].of]
    OBVIOUS
  <2>8. of \in [1..n -> 1..Len(q)] /\ \A i \in 1..n : of[i] = s[i].of /\ q[of[i]].camera = s[i].camera
    BY <2>6, <2>7
  <2>9. EachOnce(q, n, of)
    <3>1. \A i, k \in 1..n : q[of[i]].camera = q[of[k]].camera => i = k
      BY <2>5, <2>8
    <3>2. {q[of[i]].camera : i \in 1..n} = {s[i].camera : i \in 1..n}
      BY <2>8
    <3>3. {s[i].camera : i \in 1..n} \subseteq CamerasIn(q)
      BY <2>5
    <3> QED BY <2>5, <3>1, <3>2, <3>3 DEF EachOnce
  <2>10. PICK m : m = Pictures(r, q, n, of)
    OBVIOUS
  <2>11. [i \in DOMAIN s |-> Picture(r, s[i].of, s[i].camera)] = m
    BY <2>2, <2>8, <2>10 DEF Pictures
  <2>12. HandOn(r, m)
    BY <1>5, <2>11
  <2> QED BY <1>1, <1>2, <2>2, <2>8, <2>9, <2>10, <2>12, PicturesStep
<1> QED BY <1>2, <1>4, <1>5

LEMMA RenderStart == RenderInit => RenderInv
<1> SUFFICES ASSUME RenderInit PROVE RenderInv
  OBVIOUS
<1>1. \A r \in Rollers : roller[r] = Idle
  BY DEF RenderInit
<1>2. \A r \in Rollers : RollerFits(worker.bundling, catalog, roller[r])
  BY <1>1, RenderConstants DEF RollerFits
<1>3. \A s \in Sites : CatalogFits(s)
  BY DEF RenderInit, CatalogFits, Known
<1> QED BY <1>2, <1>3 DEF RenderInit, RenderInv

LEMMA RenderSteps ==
  RenderInv /\ [RenderNext]_renderVars => RenderInv'
<1> SUFFICES ASSUME RenderInv, [RenderNext]_renderVars PROVE RenderInv'
  OBVIOUS
<1>1. CASE UNCHANGED renderVars
  <2>1. worker' = worker /\ catalog' = catalog /\ roller' = roller
    BY <1>1 DEF renderVars
  <2>2. \A s \in Sites : CatalogFits(s)'
    BY <2>1 DEF RenderInv, CatalogFits, Known, Replaced
  <2> QED BY <2>1, <2>2 DEF RenderInv
<1>2. ASSUME NEW r \in Rollers, MergeRaises(r) PROVE RenderInv'
  BY <1>2, FailStep DEF MergeRaises, Fails
<1>3. ASSUME NEW r \in Rollers, CallFails(r) PROVE RenderInv'
  BY <1>3, FailStep DEF CallFails, Fails
<1> QED BY <1>1, <1>2, <1>3, EnterStep, LeaveStep, MergeStep, RegisterStep, TellStep, MasksStep,
           RenderStep, AnswerOneStep, AnswerBatchStep, AnswerAggregatedStep, NextShutterStep DEF RenderNext

\* However the sessions of a worker's rollouts overlap and whatever their
\* renderers answer, every image a driver gets is of the definition it was told,
\* one per camera and frame, in order.
THEOREM ImagesAreAsTold == RenderSpec => []RenderedAsTold
<1>1. RenderInv => RenderedAsTold
  <2> SUFFICES ASSUME RenderInv, NEW r \in Rollers, roller[r].at \in {"driving", "rendering"},
                      NEW x, x = roller[r]
               PROVE  LET of(k) == {c \in Configured : \E i \in DOMAIN x.handed :
                                       x.handed[i].frame = k /\ x.handed[i].camera = c}
                      IN  /\ \A c \in Configured :
                               x.told[c].site = x.site /\ x.told[c].replaced = Replaced(c) /\ x.told[c].camera = c
                          /\ \A c, d \in Configured : x.told[c].by = x.told[d].by
                          /\ \A i \in DOMAIN x.handed :
                               /\ x.handed[i].definition = x.told[x.handed[i].camera]
                               /\ x.handed[i].mask <=> x.handed[i].camera \in RigMasks
                               /\ \A k \in 1 .. i : x.handed[k].frame <= x.handed[i].frame
                               /\ \A k \in 1 .. i - 1 : \/ x.handed[k].frame # x.handed[i].frame
                                                        \/ x.handed[k].camera # x.handed[i].camera
                          /\ worker.kind = "sensorsim" =>
                               /\ \A k \in 1 .. x.frame - 1 : of(k) = Due[k]
                               /\ of(x.frame) = Due[x.frame]
                                    \ (x.left \cup {x.request[i].camera : i \in DOMAIN x.request})
                          /\ \A p \in x.sent :
                               /\ p.camera = DriverCamera /\ p.definition = x.told[DriverCamera]
                               /\ \A q \in x.sent : p.frame = q.frame => p = q
                          /\ \A k \in 1 .. x.frame :
                               (\E p \in x.sent : p.frame = k) <=> DriverCamera \in of(k)
                          /\ DOMAIN worker.overrides \subseteq HasCameras[x.site]
    BY DEF RenderedAsTold
  <2> DEFINE of(k) == {c \in Configured : \E i \in DOMAIN x.handed :
                                       x.handed[i].frame = k /\ x.handed[i].camera = c}
  <2>1. /\ x \in RollerState /\ x.frame \in 1..Len(Due) /\ ToldBy(catalog, x)
        /\ RequestFits(worker.bundling, x) /\ HandedFits(x, x.handed) /\ x.sent = ForDriver(x.handed)
    BY DEF RenderInv, RollerFits
  <2>2. PICK h, q, n : h = x.handed /\ q = x.request /\ n = Len(h)
    OBVIOUS
  <2>3. /\ h \in Seq(Images) /\ n \in Nat /\ DOMAIN h = 1..n /\ q \in Seq(Images) /\ DOMAIN q = 1..Len(q)
        /\ x.site \in Sites
    BY <2>1, <2>2, LenProperties DEF RollerState
  <2>4. \A i \in 1..n : h[i].frame \in Nat /\ h[i].camera \in Configured
    <3>1. \A i \in 1..n : h[i] \in Images
      BY <2>2, <2>3, ElementOfSeq
    <3> QED BY <3>1 DEF Images
  <2>5. /\ \A c \in Configured : /\ x.told[c].site = x.site /\ x.told[c].replaced = Replaced(c)
                                 /\ x.told[c].camera = c
        /\ \A c, d \in Configured : x.told[c].by = x.told[d].by
        /\ DOMAIN worker.overrides \subseteq HasCameras[x.site]
    <3>1. Known(x.site) /\ \A c \in Configured : c \in DOMAIN catalog[x.site] /\ x.told[c] = catalog[x.site][c]
      BY <2>1 DEF ToldBy, Known
    <3>2. \A c \in Configured : /\ x.told[c].site = x.site /\ x.told[c].replaced = Replaced(c)
                                /\ x.told[c].camera = c
      BY <2>3, <3>1, CatalogHolds
    <3>3. \A c, d \in Configured : x.told[c].by = x.told[d].by
      BY <2>3, <3>1, CatalogHolds
    <3>4. DOMAIN worker.overrides \subseteq HasCameras[x.site]
      BY <2>3, <3>1 DEF RenderInv, CatalogFits
    <3> QED BY <3>2, <3>3, <3>4
  <2>6. \A i \in 1..n : h[i].definition = x.told[h[i].camera] /\ (h[i].mask <=> h[i].camera \in RigMasks)
    BY <2>1, <2>2 DEF HandedFits, Truthful
  <2>7. \A i \in 1..n : /\ \A k \in 1..i : h[k].frame <= h[i].frame
                        /\ \A k \in 1..(i - 1) : h[k].frame # h[i].frame \/ h[k].camera # h[i].camera
    <3> SUFFICES ASSUME NEW i \in 1..n
                 PROVE  /\ \A k \in 1..i : h[k].frame <= h[i].frame
                        /\ \A k \in 1..(i - 1) : h[k].frame # h[i].frame \/ h[k].camera # h[i].camera
      OBVIOUS
    <3>1. \A k \in 1..i : k \in 1..n /\ (k = i \/ k < i)
      BY <2>3
    <3>2. \A k \in 1..(i - 1) : k \in 1..n /\ k # i
      BY <2>3
    <3>3. \A k \in 1..n : k < i => ~(h[i].frame < h[k].frame)
      BY <2>1, <2>2 DEF HandedFits
    <3>4. \A k \in 1..n : h[i].frame = h[k].frame /\ h[i].camera = h[k].camera => i = k
      BY <2>1, <2>2 DEF HandedFits
    <3>5. \A k \in 1..i : h[k].frame <= h[i].frame
      BY <2>4, <3>1, <3>3
    <3> QED BY <3>2, <3>4, <3>5
  <2>8. \A k : of(k) = CamerasOf(h, k)
    <3> SUFFICES ASSUME NEW k PROVE of(k) = CamerasOf(h, k)
      OBVIOUS
    <3>1. \A c : c \in CamerasOf(h, k) <=> \E i \in 1..n : h[i].frame = k /\ h[i].camera = c
      BY <2>2 DEF CamerasOf
    <3>2. \A c : c \in of(k) <=> c \in Configured /\ \E i \in 1..n : h[i].frame = k /\ h[i].camera = c
      BY <2>2, <2>3
    <3> QED BY <2>4, <3>1, <3>2
  <2>9. {q[i].camera : i \in DOMAIN q} = CamerasIn(q)
    BY <2>3 DEF CamerasIn
  <2>10. /\ \A k \in 1 .. x.frame - 1 : of(k) = Due[k]
         /\ of(x.frame) = Due[x.frame] \ (x.left \cup {q[i].camera : i \in DOMAIN q})
    <3> HIDE DEF of
    <3> QED BY <2>1, <2>2, <2>8, <2>9 DEF HandedFits
  <2>11. \A p : p \in x.sent <=> \E i \in 1..n : p = h[i] /\ h[i].camera = DriverCamera
    BY <2>1, <2>2, <2>3 DEF ForDriver
  <2>12. \A p \in x.sent : /\ p.camera = DriverCamera /\ p.definition = x.told[DriverCamera]
                            /\ \A o \in x.sent : p.frame = o.frame => p = o
    <3>1. \A i, k \in 1..n : h[i].frame = h[k].frame /\ h[i].camera = h[k].camera => i = k
      BY <2>1, <2>2 DEF HandedFits
    <3> SUFFICES ASSUME NEW p \in x.sent
                 PROVE  /\ p.camera = DriverCamera /\ p.definition = x.told[DriverCamera]
                        /\ \A o \in x.sent : p.frame = o.frame => p = o
      OBVIOUS
    <3>2. PICK i \in 1..n : p = h[i] /\ h[i].camera = DriverCamera
      BY <2>11
    <3>3. ASSUME NEW o \in x.sent, p.frame = o.frame PROVE p = o
      <4>1. PICK k \in 1..n : o = h[k] /\ h[k].camera = DriverCamera
        BY <2>11
      <4>2. i = k
        BY <3>1, <3>2, <3>3, <4>1
      <4> QED BY <3>2, <4>1, <4>2
    <3> QED BY <2>6, <3>2, <3>3
  <2>13. \A k \in 1 .. x.frame : (\E p \in x.sent : p.frame = k) <=> DriverCamera \in of(k)
    <3> SUFFICES ASSUME NEW k \in 1 .. x.frame
                 PROVE  (\E p \in x.sent : p.frame = k) <=> DriverCamera \in CamerasOf(h, k)
      BY <2>8
    <3>1. DriverCamera \in CamerasOf(h, k) <=> \E i \in 1..n : h[i].frame = k /\ h[i].camera = DriverCamera
      BY <2>2 DEF CamerasOf
    <3> QED BY <2>11, <3>1
  <2>14. \A i \in DOMAIN x.handed :
          /\ x.handed[i].definition = x.told[x.handed[i].camera]
          /\ x.handed[i].mask <=> x.handed[i].camera \in RigMasks
          /\ \A k \in 1 .. i : x.handed[k].frame <= x.handed[i].frame
          /\ \A k \in 1 .. i - 1 : \/ x.handed[k].frame # x.handed[i].frame
                                   \/ x.handed[k].camera # x.handed[i].camera
    BY <2>2, <2>3, <2>6, <2>7
  <2>15. of(x.frame) = Due[x.frame] \ (x.left \cup {x.request[i].camera : i \in DOMAIN x.request})
    BY <2>2, <2>10
  <2>16. \A k \in 1 .. x.frame - 1 : of(k) = Due[k]
    BY <2>10
  <2> QED BY <2>5, <2>12, <2>13, <2>14, <2>15, <2>16
<1> QED BY RenderStart, RenderSteps, <1>1, PTL DEF RenderSpec
----------------------------------------------------------------------------
(* What a wizard chooses (SceneSets)                                         *)

Increasing(s, n) == \A i, j \in 1..n : i < j => s[i] < s[j]

(* Any finite set of naturals can be listed in order. *)
LEMMA Listable ==
  ASSUME NEW S \in SUBSET Nat, IsFiniteSet(S)
  PROVE  \E s \in [1..Cardinality(S) -> S] : Increasing(s, Cardinality(S))
<1> DEFINE Lists(T) == \E s \in [1..Cardinality(T) -> T] : Increasing(s, Cardinality(T))
           Bad == {n \in Nat : \E T \in SUBSET S : IsFiniteSet(T) /\ Cardinality(T) = n /\ ~Lists(T)}
<1>1. SUFFICES ASSUME Bad # {} PROVE FALSE
  <2>1. Cardinality(S) \in Nat
    BY FS_CardinalityType
  <2>2. QED
    BY <2>1
<1> DEFINE m == Min(Bad)
<1>2. m \in Bad /\ \A k \in Bad : m <= k
  BY <1>1, LeastOf
<1> HIDE DEF m
<1>3. PICK T \in SUBSET S : IsFiniteSet(T) /\ Cardinality(T) = m /\ ~Lists(T)
  BY <1>2
<1>4. m \in Nat
  BY <1>2
<1>5. CASE T = {}
  <2>1. Cardinality(T) = 0
    BY <1>5, FS_EmptySet
  <2>2. [i \in 1..0 |-> 0] \in [1..0 -> T] /\ Increasing([i \in 1..0 |-> 0], 0)
    BY DEF Increasing
  <2>3. QED
    BY <1>3, <2>1, <2>2
<1>6. CASE T # {}
  <2> DEFINE x == Min(T)
             U == T \ {x}
  <2>1. x \in T /\ \A k \in T : x <= k
    BY <1>6, LeastOf
  <2> HIDE DEF x
  <2>2. IsFiniteSet(U) /\ Cardinality(U) = m - 1
    BY <1>3, <2>1, FS_RemoveElement
  <2>3. m - 1 \in Nat
    BY <2>2, FS_CardinalityType
  <2>4. m - 1 \notin Bad
    BY <1>2, <1>4
  <2>5. Lists(U)
    BY <2>2, <2>3, <2>4
  <2>6. PICK s \in [1..(m - 1) -> U] : Increasing(s, m - 1)
    BY <2>2, <2>5
  <2> DEFINE r == [i \in 1..m |-> IF i = 1 THEN x ELSE s[i - 1]]
  <2>7. \A i \in 1..m : i # 1 => i - 1 \in 1..(m - 1)
    BY <1>4
  <2>8. r \in [1..m -> T]
    BY <2>1, <2>6, <2>7
  <2>9. \A i, j \in 1..m : i < j => r[i] < r[j]
    <3>1. SUFFICES ASSUME NEW i \in 1..m, NEW j \in 1..m, i < j PROVE r[i] < r[j]
      OBVIOUS
    <3>2. j # 1 /\ j - 1 \in 1..(m - 1)
      BY <1>4, <3>1
    <3>3. r[j] = s[j - 1] /\ s[j - 1] \in U
      BY <2>6, <3>2
    <3>4. CASE i = 1
      <4>1. r[i] = x /\ x \in Nat /\ s[j - 1] \in Nat /\ x # s[j - 1] /\ x <= s[j - 1]
        BY <2>1, <3>3, <3>4
      <4>2. QED
        BY <3>3, <4>1
    <3>5. CASE i # 1
      <4>1. i - 1 \in 1..(m - 1) /\ i - 1 < j - 1
        BY <1>4, <3>1, <3>5
      <4>2. r[i] = s[i - 1]
        BY <3>5
      <4>3. QED
        BY <2>6, <3>2, <3>3, <4>1, <4>2 DEF Increasing
    <3>6. QED
      BY <3>4, <3>5
  <2>10. Increasing(r, m)
    BY <2>9 DEF Increasing
  <2>11. QED
    BY <1>3, <2>8, <2>10
<1>7. QED
  BY <1>5, <1>6

(* InOrder lists every element. *)
LEMMA InOrderLists ==
  ASSUME NEW S \in SUBSET Nat, IsFiniteSet(S)
  PROVE  /\ Cardinality(S) \in Nat
         /\ InOrder(S) \in [1..Cardinality(S) -> S]
         /\ Increasing(InOrder(S), Cardinality(S))
         /\ \A x \in S : \E i \in 1..Cardinality(S) : InOrder(S)[i] = x
<1> DEFINE n == Cardinality(S)
           s == InOrder(S)
<1>1. n \in Nat
  BY FS_CardinalityType
<1>2. s \in [1..n -> S] /\ Increasing(s, n)
  BY Listable DEF InOrder, Increasing
<1>0. S \subseteq Nat
  OBVIOUS
<1> HIDE DEF n, s
<1>3. \A i, j \in 1..n : i # j => s[i] # s[j]
  <2>1. SUFFICES ASSUME NEW i \in 1..n, NEW j \in 1..n, i # j PROVE s[i] # s[j]
    OBVIOUS
  <2>2. i \in Nat /\ j \in Nat
    BY <1>1
  <2>5. s[i] \in S /\ s[j] \in S
    BY <1>2
  <2>6. s[i] \in Nat /\ s[j] \in Nat
    BY <1>0, <2>5
  <2>3. (i < j => s[i] < s[j]) /\ (j < i => s[j] < s[i])
    BY <1>2, <2>1 DEF Increasing
  <2>4. QED
    BY <2>1, <2>2, <2>3, <2>6
<1>4. s \in Injection(1..n, S)
  BY <1>2, <1>3 DEF Injection, IsInjective
<1>5. IsFiniteSet(1..n) /\ Cardinality(1..n) = Cardinality(S)
  BY <1>1, FS_Interval DEF n
<1>6. s \in Surjection(1..n, S)
  BY <1>4, <1>5, FS_Injection
<1>7. QED
  BY <1>1, <1>2, <1>6 DEF n, s, Surjection

(* All that the catalog files and the local directory list. *)
Rows == RowsIn(catalogs) \cup ToSet(catalogs.directory)

LEMMA RowsAre ==
  ASSUME catalogs \in Catalogs, demand \in [Wizards -> Demands], NEW w \in Wizards
  PROVE  /\ RowsFor(w) \subseteq Rows /\ IsFiniteSet(RowsFor(w))
         /\ demand[w].limit \in Nat
         /\ \A row \in Rows : /\ row.scene \in Nat /\ row.modified \in Nat /\ row.uuid \in Uuids
                              /\ row.uuid # NoFile /\ row.repository \in Repositories
<1>1. /\ IsFiniteSet(RowsIn(catalogs)) /\ IsFiniteSet(ToSet(catalogs.directory))
      /\ \A row \in Rows : /\ row.scene \in Nat /\ row.modified \in Nat
                           /\ row.uuid # NoFile /\ row.repository \in Repositories
  BY SceneSetsAssumption DEF Rows
<1>2. ScannedRows \subseteq ToSet(catalogs.directory) /\ IsFiniteSet(ScannedRows)
  <2>1. ScannedRows \subseteq ToSet(catalogs.directory)
    BY DEF ScannedRows
  <2>2. QED
    BY <1>1, <2>1, FS_Subset
<1>3. RowsFor(w) \subseteq Rows /\ IsFiniteSet(RowsFor(w))
  BY <1>1, <1>2 DEF RowsFor, Rows
<1>4. \A row \in Rows : row.uuid \in Uuids
  BY DEF Rows, Uuids, UuidsIn
<1>5. demand[w].limit \in Nat
  BY SceneSetsAssumption
<1>6. QED
  BY <1>1, <1>3, <1>4, <1>5

(* What is wanted of the rows can be listed. *)
LEMMA WantedAre ==
  ASSUME catalogs \in Catalogs, demand \in [Wizards -> Demands], NEW w \in Wizards, Selectable(w)
  PROVE  Wanted(w) \in SUBSET Nat /\ IsFiniteSet(Wanted(w))
<1> DEFINE R == RowsFor(w)
           f == [row \in R |-> row.scene]
<1>1. Wanted(w) \subseteq ScenesIn(R)
  BY DEF Selectable
<1>2. IsFiniteSet(R) /\ R \subseteq Rows /\ \A row \in Rows : row.scene \in Nat
  BY RowsAre
<1>3. f \in Surjection(R, ScenesIn(R))
  BY DEF Surjection, ScenesIn
<1>4. IsFiniteSet(ScenesIn(R))
  BY <1>2, <1>3, FS_Surjection
<1>5. ScenesIn(R) \subseteq Nat
  BY <1>2 DEF ScenesIn
<1>6. IsFiniteSet(Wanted(w))
  BY <1>1, <1>4, FS_Subset
<1>7. QED
  BY <1>1, <1>5, <1>6

(* The first scenes are some of those that are wanted, in order; the others come *)
(* after them, and are left out only for the limit.                              *)
LEMMA FirstScenesAre ==
  ASSUME catalogs \in Catalogs, demand \in [Wizards -> Demands], NEW w \in Wizards, Selectable(w)
  PROVE  \E k \in Nat :
           /\ FirstScenes(w) \in [1..k -> Wanted(w)] /\ Increasing(FirstScenes(w), k)
           /\ k = 0 => Wanted(w) = {}
           /\ \A x \in Wanted(w) : \/ \E i \in 1..k : FirstScenes(w)[i] = x
                                   \/ demand[w].limit = k /\ \A i \in 1..k : FirstScenes(w)[i] < x
<1> DEFINE W == Wanted(w)
           m == Cardinality(W)
           s == InOrder(W)
           n == demand[w].limit
<1>1. W \in SUBSET Nat /\ IsFiniteSet(W)
  BY WantedAre
<1>2. W \subseteq Nat
  BY <1>1
<1>3. /\ m \in Nat /\ s \in [1..m -> W] /\ Increasing(s, m)
      /\ \A x \in W : \E i \in 1..m : s[i] = x
  BY <1>1, InOrderLists
<1>4. m = 0 => W = {}
  BY <1>1, FS_EmptySet
<1>5. n \in Nat
  BY RowsAre
<1>6. FirstScenes(w) = IF n > 0 /\ Len(s) > n THEN SubSeq(s, 1, n) ELSE s
  BY DEF FirstScenes
<1> HIDE DEF W, m, s, n
<1>7. Len(s) = m
  BY <1>3, ListOf
<1>8. CASE n > 0 /\ m > n
  <2> DEFINE t == SubSeq(s, 1, n)
  <2>1. \A i \in 1..n : s[i] \in W
    BY <1>3, <1>5, <1>8
  <2>2. /\ t \in Seq(W) /\ Len(t) = n /\ \A i \in 1..n : t[i] = s[i]
    <3>1. /\ t \in Seq(W) /\ Len(t) = IF 1 <= n THEN n - 1 + 1 ELSE 0
          /\ \A i \in 1 .. n - 1 + 1 : t[i] = s[1 + i - 1]
      BY <1>5, <2>1, SubSeqProperties
    <3>2. QED
      BY <1>5, <1>8, <3>1
  <2>3. t \in [1..n -> W]
    BY <2>2, LenProperties
  <2> HIDE DEF t
  <2>4. Increasing(t, n)
    <3>1. \A i, j \in 1..n : i \in 1..m /\ j \in 1..m
      BY <1>3, <1>5, <1>8
    <3>2. QED
      BY <1>3, <2>2, <3>1 DEF Increasing
  <2>5. \A x \in W : (\E i \in 1..n : t[i] = x) \/ (\A i \in 1..n : t[i] < x)
    <3>1. SUFFICES ASSUME NEW x \in W, ~(\E i \in 1..n : t[i] = x), NEW i \in 1..n PROVE t[i] < x
      OBVIOUS
    <3>2. PICK j \in 1..m : s[j] = x
      BY <1>3
    <3>3. j \notin 1..n
      BY <2>2, <3>1, <3>2
    <3>4. i \in 1..m /\ i < j
      BY <1>3, <1>5, <1>8, <3>3
    <3>5. QED
      BY <1>3, <2>2, <3>2, <3>4 DEF Increasing
  <2>6. FirstScenes(w) = t
    BY <1>6, <1>7, <1>8 DEF t
  <2>7. n \in Nat \ {0}
    BY <1>5, <1>8
  <2>8. QED
    BY <2>3, <2>4, <2>5, <2>6, <2>7 DEF W, n
<1>9. CASE ~(n > 0 /\ m > n)
  <2>1. FirstScenes(w) = s
    BY <1>6, <1>7, <1>9
  <2>2. QED
    BY <1>3, <1>4, <2>1 DEF W
<1>10. QED
  BY <1>8, <1>9

(* A choice has an artifact of each of the first scenes. *)
LEMMA ChoiceIsRight ==
  ASSUME catalogs \in Catalogs, demand \in [Wizards -> Demands], NEW w \in Wizards, Selectable(w),
         chosen[w] \in Selections(w)
  PROVE  chosen[w] \in Seq(Rows) /\ ChosenRight(w)
<1>1. PICK k \in Nat :
        /\ FirstScenes(w) \in [1..k -> Wanted(w)] /\ Increasing(FirstScenes(w), k)
        /\ k = 0 => Wanted(w) = {}
        /\ \A x \in Wanted(w) : \/ \E i \in 1..k : FirstScenes(w)[i] = x
                                \/ demand[w].limit = k /\ \A i \in 1..k : FirstScenes(w)[i] < x
  BY FirstScenesAre
<1> DEFINE c == chosen[w]
           first == FirstScenes(w)
<1>2. c \in [1..k -> RowsFor(w)] /\ \A i \in 1..k : c[i] \in NewestOf(w, first[i])
  BY <1>1 DEF Selections
<1>3. c \in Seq(RowsFor(w)) /\ Len(c) = k
  BY <1>2, ListOf
<1>4. RowsFor(w) \subseteq Rows /\ \A row \in Rows : row.scene \in Nat /\ row.modified \in Nat
  BY RowsAre
<1>5. c \in Seq(Rows)
  BY <1>3, <1>4, SeqMonotonic
<1>6. c = <<>> => Wanted(w) = {}
  BY <1>1, <1>3, EmptySeq
<1>7. \A i \in 1..k : /\ c[i].scene = first[i]
                      /\ \A row \in RowsFor(w) : row.scene = first[i] => row.modified <= c[i].modified
  BY <1>2 DEF NewestOf
<1> HIDE DEF c, first
<1>8. \A i \in 1..k : first[i] \in Wanted(w)
  BY <1>1 DEF first
<1>9. DOMAIN c = 1..k
  BY <1>2
<1>10. \A i, j \in 1..k : i < j => c[i].scene < c[j].scene
  BY <1>1, <1>7 DEF Increasing, first
<1>11. ASSUME NEW i \in 1..k, NEW row \in RowsFor(w), row.scene \in Wanted(w), row.scene \notin ScenesIn(ToSet(c))
       PROVE  demand[w].limit = k /\ row.scene > c[i].scene
  <2>1. \A j \in 1..k : first[j] # row.scene
    <3>1. SUFFICES ASSUME NEW j \in 1..k, first[j] = row.scene PROVE FALSE
      OBVIOUS
    <3>2. c[j] \in ToSet(c) /\ c[j].scene = row.scene
      BY <1>7, <1>9, <3>1 DEF ToSet
    <3>3. QED
      BY <1>11, <3>2 DEF ScenesIn
  <2>2. demand[w].limit = k /\ first[i] < row.scene
    BY <1>1, <1>11, <2>1 DEF first
  <2>3. first[i] \in Nat /\ row.scene \in Nat
    <3>1. first[i] = c[i].scene /\ c[i] \in Rows /\ row \in Rows
      BY <1>2, <1>4, <1>7
    <3>2. QED
      BY <1>4, <3>1
  <2>4. QED
    BY <1>7, <2>2, <2>3
<1>12. ChosenRight(w)
  BY <1>3, <1>6, <1>7, <1>8, <1>9, <1>10, <1>11 DEF ChosenRight, c
<1>13. QED
  BY <1>5, <1>12 DEF c
----------------------------------------------------------------------------
(* The wizards, the cache and the directories (SceneSets)                    *)

Phases == {"query", "refused", "list", "hf", "s3", "directory", "link", "ready", "raised"}
DownloadStates == {"none", "waits", "here", "failed", "asks", "loads", "done"}

SetsTypeOK ==
  /\ catalogs \in Catalogs /\ demand \in [Wizards -> Demands] /\ fetch \in [Wizards -> Phases]
  /\ chosen \in [Wizards -> Seq(Rows)] /\ unlinked \in [Wizards -> Seq(Uuids)]
  /\ download \in [Wizards -> [Uuids -> DownloadStates]] /\ cache \in [Uuids -> Uuids \cup {"another", NoFile}]

(* From the query on a wizard keeps to one choice. *)
Picked(w) ==
  /\ fetch[w] \in {"list", "hf", "s3", "directory", "link", "ready"} =>
       Selectable(w) /\ chosen[w] \in Selections(w)
  /\ fetch[w] \in {"list", "hf", "s3", "directory", "link"} => chosen[w] # <<>>
  /\ fetch[w] = "refused" => ~Selectable(w)

(* Not a scene of the local directory, which needs no download and no link. *)
Linked(w) == fetch[w] = "ready" /\ ~demand[w].local

(* What is done is in the cache, and a phase ends when its artifacts are there; only *)
(* artifacts of Swiftstack go under a lock.                                           *)
Fetched(w) ==
  /\ fetch[w] = "query" => \A u \in Uuids : download[w][u] = "none"
  /\ \A u \in Uuids : download[w][u] \in {"asks", "loads"} => u \in From(w, "swiftstack")
  /\ \A u \in Uuids : download[w][u] = "done" => Exists(u)
  /\ fetch[w] = "hf" =>
       \A u \in From(w, "huggingface") : Exists(u) \/ download[w][u] \in {"waits", "here", "failed"}
  /\ fetch[w] \in {"s3", "directory", "link"} \/ Linked(w) => \A u \in From(w, "huggingface") : Exists(u)
  /\ fetch[w] \in {"directory", "link"} \/ Linked(w) => \A u \in From(w, "swiftstack") : Exists(u)

(* What is not yet linked is on the list of the wizard. *)
Linking(w) ==
  /\ fetch[w] = "link" =>
       /\ unlinked[w] \in Seq(ChosenUuids(w)) /\ unlinked[w] # <<>>
       /\ \A u \in ChosenUuids(w) :
            <<ChosenUuids(w), u>> \in links \/ \E i \in DOMAIN unlinked[w] : unlinked[w][i] = u
  /\ Linked(w) => \A u \in ChosenUuids(w) : <<ChosenUuids(w), u>> \in links

WizardInv(w) == Picked(w) /\ Fetched(w) /\ Linking(w)

MayHold(u, file) == file = NoFile \/ (file = Content(u) /\ (u \in Mislabelled => u \in Unchecked))

CacheInv ==
  /\ \A u \in Uuids : MayHold(u, cache[u])
  /\ \A l \in links : l[2] \in l[1]

SetsInv == SetsTypeOK /\ CacheInv /\ \A w \in Wizards : WizardInv(w)

(* The cache and the directories only grow, and no one changes what is looked for. *)
Grows ==
  /\ UNCHANGED <<catalogs, demand>> /\ links \subseteq links'
  /\ \A u \in Uuids : cache'[u] = cache[u] \/ (cache'[u] = Content(u) /\ MayHold(u, cache'[u]))

(* A step leaves a wizard as it is. *)
Still(w) ==
  /\ fetch'[w] = fetch[w] /\ chosen'[w] = chosen[w]
  /\ download'[w] = download[w] /\ unlinked'[w] = unlinked[w]

LEMMA LooksForTheSame ==
  ASSUME UNCHANGED <<catalogs, demand>>, NEW w \in Wizards
  PROVE  /\ Uuids' = Uuids /\ Rows' = Rows /\ Unchecked' = Unchecked
         /\ Selectable(w)' = Selectable(w) /\ Selections(w)' = Selections(w)
<1>1. Uuids' = Uuids /\ Rows' = Rows /\ Unchecked' = Unchecked
  BY DEF Uuids, Rows, Unchecked
<1>2. RowsFor(w)' = RowsFor(w)
  BY DEF RowsFor, ScannedRows
<1>3. Suite(w)' = Suite(w)
  BY <1>2 DEF Suite
<1>4. Wanted(w)' = Wanted(w)
  BY <1>3 DEF Wanted, BySuite
<1>5. Selectable(w)' = Selectable(w)
  BY <1>2, <1>3, <1>4 DEF Selectable, BySuite, CatalogsLoad, ScannedRows
<1>6. FirstScenes(w)' = FirstScenes(w)
  BY <1>4 DEF FirstScenes
<1>7. \A x : NewestOf(w, x)' = NewestOf(w, x)
  BY <1>2 DEF NewestOf
<1>8. Selections(w)' = Selections(w)
  BY <1>2, <1>6, <1>7 DEF Selections
<1>9. QED
  BY <1>1, <1>5, <1>8

LEMMA ChosenTheSame ==
  ASSUME NEW w \in Wizards, chosen'[w] = chosen[w]
  PROVE  ChosenUuids(w)' = ChosenUuids(w) /\ \A r : From(w, r)' = From(w, r)
<1>1. ChosenUuids(w)' = ChosenUuids(w)
  BY DEF ChosenUuids
<1>2. QED
  BY <1>1 DEF From

LEMMA ChosenAre ==
  ASSUME SetsTypeOK, NEW w \in Wizards
  PROVE  /\ ChosenUuids(w) \subseteq Uuids /\ NoFile \notin ChosenUuids(w)
         /\ \A r : From(w, r) \subseteq ChosenUuids(w)
         /\ \A i \in DOMAIN chosen[w] : chosen[w][i] \in Rows
<1>1. catalogs \in Catalogs /\ demand \in [Wizards -> Demands] /\ chosen[w] \in Seq(Rows)
  BY DEF SetsTypeOK
<1>2. \A i \in DOMAIN chosen[w] : chosen[w][i] \in Rows
  BY <1>1, LenProperties, ElementOfSeq
<1>3. \A row \in Rows : row.uuid \in Uuids /\ row.uuid # NoFile
  BY <1>1, RowsAre
<1>4. QED
  BY <1>2, <1>3 DEF ChosenUuids, UuidsOf, From

LEMMA Kept ==
  ASSUME SetsTypeOK, Grows
  PROVE  \A u \in Uuids : Exists(u) => Exists(u)'
<1>1. \A u \in Uuids : u # NoFile
  BY SceneSetsAssumption DEF SetsTypeOK, Uuids, UuidsIn
<1>2. \A u \in Uuids : Content(u) # NoFile
  BY <1>1 DEF Content, NoFile
<1>3. QED
  BY <1>2 DEF Grows, Exists

(* What others do breaks nothing for a wizard. *)
LEMMA Undisturbed ==
  ASSUME SetsTypeOK, Grows, NEW w \in Wizards, Still(w), WizardInv(w)
  PROVE  WizardInv(w)'
<1>1. /\ UNCHANGED <<catalogs, demand>> /\ links \subseteq links'
      /\ fetch'[w] = fetch[w] /\ chosen'[w] = chosen[w]
      /\ download'[w] = download[w] /\ unlinked'[w] = unlinked[w]
  BY DEF Grows, Still
<1>2. Uuids' = Uuids /\ Selectable(w)' = Selectable(w) /\ Selections(w)' = Selections(w)
  BY <1>1, LooksForTheSame
<1>3. ChosenUuids(w)' = ChosenUuids(w) /\ \A r : From(w, r)' = From(w, r)
  BY <1>1, ChosenTheSame
<1>4. Linked(w)' = Linked(w)
  BY <1>1 DEF Linked
<1>5. Picked(w)'
  BY <1>1, <1>2 DEF WizardInv, Picked
<1>6. Fetched(w)'
  <2>1. ChosenUuids(w) \subseteq Uuids /\ \A r : From(w, r) \subseteq ChosenUuids(w)
    BY ChosenAre
  <2>2. \A u \in Uuids : Exists(u) => Exists(u)'
    BY Kept
  <2>3. QED
    BY <1>1, <1>2, <1>3, <1>4, <2>1, <2>2 DEF WizardInv, Fetched
<1>7. Linking(w)'
  BY <1>1, <1>3, <1>4 DEF WizardInv, Linking
<1>8. QED
  BY <1>5, <1>6, <1>7 DEF WizardInv

LEMMA SetsStart == SceneSetsInit => SetsInv
<1> SUFFICES ASSUME SceneSetsInit PROVE SetsInv
  OBVIOUS
<1>1. SetsTypeOK
  <2>1. <<>> \in Seq(Rows) /\ <<>> \in Seq(Uuids)
    BY EmptySeq
  <2>2. QED
    BY <2>1 DEF SceneSetsInit, SetsTypeOK, Phases, DownloadStates
<1>2. CacheInv
  BY DEF SceneSetsInit, CacheInv, MayHold
<1>3. \A w \in Wizards : WizardInv(w)
  BY DEF SceneSetsInit, WizardInv, Picked, Fetched, Linking, Linked
<1>4. QED
  BY <1>1, <1>2, <1>3 DEF SetsInv

(* Most steps leave the choice of a wizard and what it has linked. *)
LEMMA QueryScenesKeeps ==
  ASSUME SetsInv, NEW w \in Wizards, QueryScenes(w)
  PROVE  SetsTypeOK' /\ Grows /\ (\A v \in Wizards \ {w} : Still(v)) /\ WizardInv(w)'
<1>1. /\ SetsTypeOK /\ WizardInv(w)
      /\ UNCHANGED <<catalogs, demand, download, unlinked, cache, links>> /\ fetch[w] = "query"
  BY DEF SetsInv, QueryScenes
<1>2. /\ Uuids' = Uuids /\ Rows' = Rows
      /\ Selectable(w)' = Selectable(w) /\ Selections(w)' = Selections(w)
  BY <1>1, LooksForTheSame
<1>3. CASE ~Selectable(w)
  <2>1. fetch' = [fetch EXCEPT ![w] = "refused"] /\ chosen' = chosen
    BY <1>3 DEF QueryScenes
  <2>2. SetsTypeOK'
    BY <1>1, <1>2, <2>1 DEF SetsTypeOK, Phases
  <2>3. fetch'[w] = "refused"
    BY <1>1, <2>1 DEF SetsTypeOK
  <2>4. WizardInv(w)'
    <3>1. Picked(w)' /\ Linking(w)'
      BY <1>2, <1>3, <2>3 DEF Picked, Linking, Linked
    <3>2. Fetched(w)'
      BY <1>1, <1>2, <2>3 DEF WizardInv, Fetched, Linked, Exists
    <3>3. QED
      BY <3>1, <3>2 DEF WizardInv
  <2>5. QED
    BY <1>1, <2>1, <2>2, <2>4 DEF Grows, Still, SetsTypeOK
<1>4. CASE Selectable(w)
  <2>1. PICK choice \in Selections(w) :
          /\ chosen' = [chosen EXCEPT ![w] = choice]
          /\ fetch' = [fetch EXCEPT ![w] = IF demand[w].local \/ choice = <<>> THEN "ready" ELSE "list"]
    BY <1>4 DEF QueryScenes
  <2>2. /\ chosen'[w] = choice /\ fetch'[w] = (IF demand[w].local \/ choice = <<>> THEN "ready" ELSE "list")
        /\ \A v \in Wizards \ {w} : Still(v)
    BY <1>1, <2>1 DEF SetsTypeOK, Still
  <2>3. choice \in Seq(Rows)
    <3>1. PICK k \in Nat : FirstScenes(w) \in [1..k -> Wanted(w)]
      BY <1>1, <1>4, FirstScenesAre DEF SetsTypeOK
    <3>2. choice \in [1..k -> RowsFor(w)]
      BY <2>1, <3>1 DEF Selections
    <3>3. RowsFor(w) \subseteq Rows
      BY <1>1, RowsAre DEF SetsTypeOK
    <3>4. QED
      BY <3>2, <3>3, ListOf, SeqMonotonic
  <2>4. SetsTypeOK'
    <3>1. fetch' \in [Wizards -> Phases] /\ chosen' \in [Wizards -> Seq(Rows)]
      BY <1>1, <2>1, <2>3 DEF SetsTypeOK, Phases
    <3>2. QED
      BY <1>1, <1>2, <3>1 DEF SetsTypeOK
  <2>5. ASSUME Linked(w)' PROVE ChosenUuids(w)' = {}
    <3>1. choice = <<>>
      BY <1>1, <2>2, <2>5 DEF Linked
    <3>2. QED
      BY <2>2, <3>1 DEF ChosenUuids, UuidsOf
  <2>8. Picked(w)' /\ Linking(w)'
    BY <1>1, <1>2, <1>4, <2>1, <2>2, <2>5 DEF Picked, Linking
  <2>6. Fetched(w)'
    <3>1. \A u \in Uuids : download'[w][u] = "none"
      BY <1>1 DEF WizardInv, Fetched
    <3>2. Linked(w)' => \A r : From(w, r)' = {}
      BY <2>5 DEF From
    <3>3. QED
      BY <1>2, <2>2, <3>1, <3>2 DEF Fetched
  <2>7. QED
    BY <1>1, <2>2, <2>4, <2>6, <2>8 DEF WizardInv, Grows
<1>5. QED
  BY <1>3, <1>4

LEMMA ListMissingKeeps ==
  ASSUME SetsInv, NEW w \in Wizards, ListMissing(w)
  PROVE  SetsTypeOK' /\ Grows /\ (\A v \in Wizards \ {w} : Still(v)) /\ WizardInv(w)'
<1>1. /\ SetsTypeOK /\ WizardInv(w) /\ fetch[w] = "list"
      /\ UNCHANGED <<catalogs, demand, chosen, unlinked, cache, links>>
  BY DEF SetsInv, ListMissing
<1> DEFINE listed == [u \in Uuids |-> IF u \in From(w, "huggingface") /\ ~Exists(u) THEN "waits" ELSE "none"]
<1>2. \/ fetch' = [fetch EXCEPT ![w] = "raised"] /\ download' = download
      \/ fetch' = [fetch EXCEPT ![w] = "hf"] /\ download' = [download EXCEPT ![w] = listed]
  BY DEF ListMissing
<1>3. /\ Uuids' = Uuids /\ Rows' = Rows
      /\ Selectable(w)' = Selectable(w) /\ Selections(w)' = Selections(w)
      /\ \A r : From(w, r)' = From(w, r)
  BY <1>1, LooksForTheSame, ChosenTheSame
<1>4. CASE fetch' = [fetch EXCEPT ![w] = "raised"] /\ download' = download
  <2>1. fetch'[w] = "raised" /\ \A v \in Wizards \ {w} : Still(v)
    BY <1>1, <1>4 DEF SetsTypeOK, Still
  <2>2. SetsTypeOK'
    BY <1>1, <1>3, <1>4 DEF SetsTypeOK, Phases
  <2>3. WizardInv(w)'
    BY <1>1, <1>3, <1>4, <2>1 DEF WizardInv, Picked, Fetched, Linking, Linked, Exists
  <2>4. QED
    BY <1>1, <2>1, <2>2, <2>3 DEF Grows
<1>5. CASE fetch' = [fetch EXCEPT ![w] = "hf"] /\ download' = [download EXCEPT ![w] = listed]
  <2>1. fetch'[w] = "hf" /\ download'[w] = listed /\ \A v \in Wizards \ {w} : Still(v)
    BY <1>1, <1>5 DEF SetsTypeOK, Still
  <2>2. SetsTypeOK'
    <3>1. listed \in [Uuids -> DownloadStates]
      BY DEF DownloadStates
    <3>2. QED
      BY <1>1, <1>3, <1>5, <3>1 DEF SetsTypeOK, Phases
  <2>3. Picked(w)' /\ Linking(w)'
    BY <1>1, <1>3, <2>1 DEF WizardInv, Picked, Linking, Linked
  <2>4. Fetched(w)'
    <3>1. \A r : From(w, r) \subseteq Uuids
      BY <1>1, ChosenAre
    <3>2. QED
      BY <1>1, <1>3, <2>1, <3>1 DEF Fetched, Linked, Exists
  <2>5. QED
    BY <1>1, <2>1, <2>2, <2>3, <2>4 DEF WizardInv, Grows
<1>6. QED
  BY <1>2, <1>4, <1>5

(* A download moves on: to be done when the artifact is there, and to fail or to be *)
(* here only when it is of Hugging Face, or when its wizard raises.                  *)
LEMMA DownloadKeeps ==
  ASSUME SetsInv, NEW w \in Wizards, NEW u \in Uuids, NEW to \in DownloadStates,
         download' = [download EXCEPT ![w][u] = to],
         UNCHANGED <<catalogs, demand, chosen, unlinked, links>>,
         fetch' = fetch \/ fetch' = [fetch EXCEPT ![w] = "raised"],
         cache' = cache \/ (cache' = [cache EXCEPT ![u] = Content(u)] /\ MayHold(u, Content(u))),
         fetch[w] # "query", to \in {"asks", "loads"} => u \in From(w, "swiftstack"),
         to = "done" => Exists(u)',
         to \in {"here", "failed"} \/ Exists(u)' \/ download[w][u] \in {"asks", "loads"}
  PROVE  SetsTypeOK' /\ Grows /\ (\A v \in Wizards \ {w} : Still(v)) /\ WizardInv(w)'
<1>1. SetsTypeOK /\ WizardInv(w)
  BY DEF SetsInv
<1>2. /\ Uuids' = Uuids /\ Rows' = Rows
      /\ Selectable(w)' = Selectable(w) /\ Selections(w)' = Selections(w)
      /\ ChosenUuids(w)' = ChosenUuids(w) /\ \A r : From(w, r)' = From(w, r)
  BY LooksForTheSame, ChosenTheSame
<1>3. Grows
  BY <1>1 DEF Grows, SetsTypeOK
<1>9. fetch'[w] # "query"
  BY <1>1 DEF SetsTypeOK
<1>4. /\ download'[w][u] = to /\ \A x \in Uuids \ {u} : download'[w][x] = download[w][x]
      /\ \A v \in Wizards \ {w} : Still(v)
      /\ fetch'[w] = fetch[w] \/ fetch'[w] = "raised"
  BY <1>1 DEF SetsTypeOK, Still
<1>5. SetsTypeOK'
  <2>1. download' \in [Wizards -> [Uuids -> DownloadStates]]
    BY <1>1 DEF SetsTypeOK
  <2>2. fetch' \in [Wizards -> Phases]
    BY <1>1 DEF SetsTypeOK, Phases
  <2>3. cache' \in [Uuids -> Uuids \cup {"another", NoFile}]
    BY <1>1 DEF SetsTypeOK, Content
  <2>4. QED
    BY <1>1, <1>2, <2>1, <2>2, <2>3 DEF SetsTypeOK
<1>6. Picked(w)' /\ Linking(w)'
  BY <1>1, <1>2, <1>4 DEF WizardInv, Picked, Linking, Linked
<1>7. Fetched(w)'
  <2>1. \A x \in Uuids : Exists(x) => Exists(x)'
    BY <1>1, <1>3, Kept
  <2>2. \A r : From(w, r) \subseteq Uuids
    BY <1>1, ChosenAre
  <2>3. \A x \in Uuids : download'[w][x] = "done" => Exists(x)'
    BY <1>1, <1>4, <2>1 DEF WizardInv, Fetched
  <2>4. fetch[w] = "hf" =>
          \A x \in From(w, "huggingface") : Exists(x)' \/ download'[w][x] \in {"waits", "here", "failed"}
    BY <1>1, <1>4, <2>1, <2>2 DEF WizardInv, Fetched
  <2>5. Linked(w)' => Linked(w)
    BY <1>4 DEF Linked
  <2>6. QED
    BY <1>1, <1>2, <1>4, <1>9, <2>1, <2>2, <2>3, <2>4, <2>5 DEF WizardInv, Fetched
<1>8. QED
  BY <1>3, <1>4, <1>5, <1>6, <1>7 DEF WizardInv

LEMMA DownloadStepsKeep ==
  ASSUME SetsInv, NEW w \in Wizards, NEW u \in Uuids,
         GetFromHub(w, u) \/ KeepIfRight(w, u) \/ LockFile(w, u) \/ LoadFile(w, u) \/ FailFile(w, u)
  PROVE  SetsTypeOK' /\ Grows /\ (\A v \in Wizards \ {w} : Still(v)) /\ WizardInv(w)'
<1>1. /\ u # NoFile /\ cache \in [Uuids -> Uuids \cup {"another", NoFile}]
      /\ SetsTypeOK /\ WizardInv(w)
  BY SceneSetsAssumption DEF SetsInv, SetsTypeOK, Uuids, UuidsIn
<1>2. cache' = [cache EXCEPT ![u] = Content(u)] => Exists(u)'
  BY <1>1 DEF Exists, Content, NoFile
<1>9. /\ download[w][u] # "none" => fetch[w] # "query"
      /\ download[w][u] \in {"asks", "loads"} => u \in From(w, "swiftstack")
  BY <1>1 DEF WizardInv, Fetched
<1>10. From(w, "swiftstack") \subseteq Unchecked
  BY <1>1, ChosenAre DEF From, Unchecked, Rows, UuidsIn
<1>3. CASE GetFromHub(w, u)
  <2>1. PICK to \in {"here", "failed"} : download' = [download EXCEPT ![w][u] = to]
    BY <1>3 DEF GetFromHub
  <2>2. to \in DownloadStates /\ to # "done"
    BY DEF DownloadStates
  <2>3. UNCHANGED <<catalogs, demand, chosen, unlinked, links, fetch, cache>> /\ fetch[w] # "query"
    BY <1>3 DEF GetFromHub
  <2>4. QED
    BY <2>1, <2>2, <2>3, DownloadKeeps
<1>4. CASE KeepIfRight(w, u)
  <2>1. UNCHANGED <<catalogs, demand, chosen, unlinked, links, fetch>> /\ fetch[w] # "query"
    BY <1>4, <1>9 DEF KeepIfRight
  <2>2. CASE u \in Mislabelled
    <3>1. download' = [download EXCEPT ![w][u] = "failed"] /\ cache' = cache
      BY <1>4, <2>2 DEF KeepIfRight
    <3>2. QED
      BY <2>1, <3>1, DownloadKeeps DEF DownloadStates
  <2>3. CASE u \notin Mislabelled
    <3>1. /\ download' = [download EXCEPT ![w][u] = "done"] /\ cache' = [cache EXCEPT ![u] = Content(u)]
          /\ MayHold(u, Content(u))
      BY <1>4, <2>3 DEF KeepIfRight, Content, MayHold
    <3>2. QED
      BY <1>2, <2>1, <3>1, DownloadKeeps DEF DownloadStates
  <2>4. QED
    BY <2>2, <2>3
<1>5. CASE LockFile(w, u)
  <2>1. /\ UNCHANGED <<catalogs, demand, chosen, unlinked, links, fetch, cache>> /\ download[w][u] = "asks"
        /\ fetch[w] # "query" /\ u \in From(w, "swiftstack")
    BY <1>5, <1>9 DEF LockFile
  <2>2. CASE Exists(u)
    <3>1. download' = [download EXCEPT ![w][u] = "done"] /\ Exists(u)'
      BY <1>5, <2>1, <2>2 DEF LockFile, Exists
    <3>2. QED
      BY <2>1, <3>1, DownloadKeeps DEF DownloadStates
  <2>3. CASE ~Exists(u)
    <3>1. download' = [download EXCEPT ![w][u] = "loads"]
      BY <1>5, <2>3 DEF LockFile
    <3>2. QED
      BY <2>1, <3>1, DownloadKeeps DEF DownloadStates
  <2>4. QED
    BY <2>2, <2>3
<1>6. CASE LoadFile(w, u)
  <2>1. /\ UNCHANGED <<catalogs, demand, chosen, unlinked, links, fetch>>
        /\ download' = [download EXCEPT ![w][u] = "done"] /\ cache' = [cache EXCEPT ![u] = Content(u)]
        /\ fetch[w] # "query" /\ MayHold(u, Content(u))
    BY <1>6, <1>9, <1>10 DEF LoadFile, MayHold
  <2>2. QED
    BY <1>2, <2>1, DownloadKeeps DEF DownloadStates
<1>7. CASE FailFile(w, u)
  <2>1. /\ UNCHANGED <<catalogs, demand, chosen, unlinked, links, cache>> /\ download[w][u] = "loads"
        /\ download' = [download EXCEPT ![w][u] = "failed"] /\ fetch' = [fetch EXCEPT ![w] = "raised"]
        /\ fetch[w] # "query"
    BY <1>7, <1>9 DEF FailFile
  <2>2. QED
    BY <2>1, DownloadKeeps DEF DownloadStates
<1>8. QED
  BY <1>3, <1>4, <1>5, <1>6, <1>7

LEMMA EndHubKeeps ==
  ASSUME SetsInv, NEW w \in Wizards, EndHub(w)
  PROVE  SetsTypeOK' /\ Grows /\ (\A v \in Wizards \ {w} : Still(v)) /\ WizardInv(w)'
<1>1. /\ SetsTypeOK /\ WizardInv(w) /\ fetch[w] = "hf"
      /\ UNCHANGED <<catalogs, demand, chosen, unlinked, cache, links>>
  BY DEF SetsInv, EndHub
<1>2. /\ Uuids' = Uuids /\ Rows' = Rows
      /\ Selectable(w)' = Selectable(w) /\ Selections(w)' = Selections(w)
      /\ \A r : From(w, r)' = From(w, r)
  BY <1>1, LooksForTheSame, ChosenTheSame
<1>3. \A r : From(w, r) \subseteq Uuids
  BY <1>1, ChosenAre
<1>4. CASE Downloads(w, "failed") # {}
  <2>1. fetch' = [fetch EXCEPT ![w] = "raised"] /\ download' = download
    BY <1>4 DEF EndHub
  <2>2. fetch'[w] = "raised" /\ \A v \in Wizards \ {w} : Still(v)
    BY <1>1, <2>1 DEF SetsTypeOK, Still
  <2>3. SetsTypeOK'
    BY <1>1, <1>2, <2>1 DEF SetsTypeOK, Phases
  <2>4. WizardInv(w)'
    BY <1>1, <1>2, <2>1, <2>2 DEF WizardInv, Picked, Fetched, Linking, Linked, Exists
  <2>5. QED
    BY <1>1, <2>2, <2>3, <2>4 DEF Grows
<1>5. CASE Downloads(w, "failed") = {}
  <2> DEFINE asked == [u \in Uuids |-> IF u \in From(w, "swiftstack") THEN "asks" ELSE "none"]
  <2>1. fetch' = [fetch EXCEPT ![w] = "s3"] /\ download' = [download EXCEPT ![w] = asked]
    BY <1>5 DEF EndHub
  <2>2. fetch'[w] = "s3" /\ download'[w] = asked /\ \A v \in Wizards \ {w} : Still(v)
    BY <1>1, <2>1 DEF SetsTypeOK, Still
  <2>3. SetsTypeOK'
    <3>1. asked \in [Uuids -> DownloadStates]
      BY DEF DownloadStates
    <3>2. QED
      BY <1>1, <1>2, <2>1, <3>1 DEF SetsTypeOK, Phases
  <2>4. \A u \in From(w, "huggingface") : Exists(u)
    <3>1. \A u \in Uuids : download[w][u] \notin {"waits", "here", "failed"}
      BY <1>5 DEF EndHub, Downloads
    <3>2. QED
      BY <1>1, <1>3, <3>1 DEF WizardInv, Fetched
  <2>5. Picked(w)' /\ Linking(w)'
    BY <1>1, <1>2, <2>2 DEF WizardInv, Picked, Linking, Linked
  <2>6. Fetched(w)'
    BY <1>1, <1>2, <2>2, <2>4 DEF Fetched, Linked, Exists
  <2>7. QED
    BY <1>1, <2>2, <2>3, <2>5, <2>6 DEF WizardInv, Grows
<1>6. QED
  BY <1>4, <1>5

LEMMA EndTasksKeeps ==
  ASSUME SetsInv, NEW w \in Wizards, EndTasks(w)
  PROVE  SetsTypeOK' /\ Grows /\ (\A v \in Wizards \ {w} : Still(v)) /\ WizardInv(w)'
<1>1. /\ SetsTypeOK /\ WizardInv(w) /\ fetch[w] = "s3" /\ fetch' = [fetch EXCEPT ![w] = "directory"]
      /\ UNCHANGED <<catalogs, demand, chosen, download, unlinked, cache, links>>
  BY DEF SetsInv, EndTasks
<1>2. /\ Uuids' = Uuids /\ Rows' = Rows
      /\ Selectable(w)' = Selectable(w) /\ Selections(w)' = Selections(w)
      /\ \A r : From(w, r)' = From(w, r)
  BY <1>1, LooksForTheSame, ChosenTheSame
<1>3. fetch'[w] = "directory" /\ \A v \in Wizards \ {w} : Still(v)
  BY <1>1 DEF SetsTypeOK, Still
<1>4. SetsTypeOK'
  BY <1>1, <1>2 DEF SetsTypeOK, Phases
<1>5. \A u \in From(w, "swiftstack") : Exists(u)
  <2>1. \A u \in From(w, "swiftstack") : u \in Uuids /\ download[w][u] = "done"
    BY DEF EndTasks, Downloads
  <2>2. QED
    BY <1>1, <2>1 DEF WizardInv, Fetched
<1>6. Picked(w)' /\ Linking(w)'
  BY <1>1, <1>2, <1>3 DEF WizardInv, Picked, Linking, Linked
<1>7. Fetched(w)'
  BY <1>1, <1>2, <1>3, <1>5 DEF WizardInv, Fetched, Linked, Exists
<1>8. QED
  BY <1>1, <1>3, <1>4, <1>6, <1>7 DEF WizardInv, Grows

LEMMA LockDirectoryKeeps ==
  ASSUME SetsInv, NEW w \in Wizards, LockDirectory(w)
  PROVE  SetsTypeOK' /\ Grows /\ (\A v \in Wizards \ {w} : Still(v)) /\ WizardInv(w)'
<1> DEFINE listed == [i \in DOMAIN chosen[w] |-> chosen[w][i].uuid]
<1>1. /\ SetsTypeOK /\ WizardInv(w) /\ fetch[w] = "directory" /\ fetch' = [fetch EXCEPT ![w] = "link"]
      /\ unlinked' = [unlinked EXCEPT ![w] = listed]
      /\ UNCHANGED <<catalogs, demand, chosen, download, cache, links>>
  BY DEF SetsInv, LockDirectory
<1>2. /\ Uuids' = Uuids /\ Rows' = Rows
      /\ Selectable(w)' = Selectable(w) /\ Selections(w)' = Selections(w)
      /\ ChosenUuids(w)' = ChosenUuids(w) /\ \A r : From(w, r)' = From(w, r)
  BY <1>1, LooksForTheSame, ChosenTheSame
<1>3. fetch'[w] = "link" /\ unlinked'[w] = listed /\ \A v \in Wizards \ {w} : Still(v)
  BY <1>1 DEF SetsTypeOK, Still
<1>4. chosen[w] \in Seq(Rows) /\ chosen[w] # <<>>
  <2>1. Selectable(w) /\ chosen[w] \in Selections(w) /\ chosen[w] # <<>>
    BY <1>1 DEF WizardInv, Picked
  <2>2. QED
    BY <1>1, <2>1, ChoiceIsRight DEF SetsTypeOK
<1>5. /\ listed \in Seq(ChosenUuids(w)) /\ listed # <<>>
      /\ \A u \in ChosenUuids(w) : \E i \in DOMAIN listed : listed[i] = u
  <2>1. Len(chosen[w]) \in Nat \ {0} /\ DOMAIN chosen[w] = 1..Len(chosen[w])
    BY <1>4, EmptySeq, LenProperties
  <2>2. listed \in [1..Len(chosen[w]) -> ChosenUuids(w)]
    BY <2>1 DEF ChosenUuids, UuidsOf
  <2>3. listed \in Seq(ChosenUuids(w)) /\ Len(listed) = Len(chosen[w])
    BY <2>1, <2>2, ListOf
  <2>4. listed # <<>>
    BY <2>1, <2>3, EmptySeq
  <2>5. QED
    BY <2>3, <2>4 DEF ChosenUuids, UuidsOf
<1> HIDE DEF listed
<1>6. SetsTypeOK'
  <2>1. ChosenUuids(w) \subseteq Uuids
    BY <1>1, ChosenAre
  <2>2. listed \in Seq(Uuids)
    BY <1>5, <2>1, SeqMonotonic
  <2>3. QED
    BY <1>1, <1>2, <2>2 DEF SetsTypeOK, Phases
<1>7. Picked(w)' /\ Linking(w)'
  BY <1>1, <1>2, <1>3, <1>5 DEF WizardInv, Picked, Linking, Linked
<1>8. Fetched(w)'
  BY <1>1, <1>2, <1>3 DEF WizardInv, Fetched, Linked, Exists
<1>9. QED
  BY <1>1, <1>3, <1>6, <1>7, <1>8 DEF WizardInv, Grows

LEMMA LinkNextKeeps ==
  ASSUME SetsInv, NEW w \in Wizards, LinkNext(w)
  PROVE  /\ SetsTypeOK' /\ Grows /\ (\A v \in Wizards \ {w} : Still(v)) /\ WizardInv(w)'
         /\ \A l \in links' : l[2] \in l[1]
<1> DEFINE dir == ChosenUuids(w)
           rest == unlinked[w]
<1>1. /\ SetsTypeOK /\ WizardInv(w) /\ CacheInv /\ fetch[w] = "link"
      /\ links' = links \cup {<<dir, Head(rest)>>} /\ unlinked' = [unlinked EXCEPT ![w] = Tail(rest)]
      /\ UNCHANGED <<catalogs, demand, chosen, download, cache>>
  BY DEF SetsInv, LinkNext
<1>2. PICK next \in {"raised", "ready", "link"} :
        /\ fetch' = [fetch EXCEPT ![w] = next]
        /\ next = "ready" => Len(rest) = 1
        /\ next = "link" => Len(rest) # 1
  BY DEF LinkNext
<1>3. /\ Uuids' = Uuids /\ Rows' = Rows
      /\ Selectable(w)' = Selectable(w) /\ Selections(w)' = Selections(w)
      /\ ChosenUuids(w)' = dir /\ \A r : From(w, r)' = From(w, r)
  BY <1>1, LooksForTheSame, ChosenTheSame
<1>4. /\ fetch'[w] = next /\ unlinked'[w] = Tail(rest) /\ \A v \in Wizards \ {w} : Still(v)
  BY <1>1, <1>2 DEF SetsTypeOK, Still
<1>5. /\ rest \in Seq(dir) /\ rest # <<>>
      /\ \A u \in dir : <<dir, u>> \in links \/ \E i \in DOMAIN rest : rest[i] = u
  BY <1>1 DEF WizardInv, Linking
<1> HIDE DEF dir, rest
<1>6. /\ Head(rest) \in dir /\ Tail(rest) \in Seq(dir) /\ Len(Tail(rest)) = Len(rest) - 1
      /\ \A i \in 1..Len(Tail(rest)) : Tail(rest)[i] = rest[i + 1]
  BY <1>5, HeadTailProperties
<1>7. /\ Len(rest) \in Nat \ {0} /\ DOMAIN rest = 1..Len(rest) /\ DOMAIN Tail(rest) = 1..Len(Tail(rest))
      /\ Head(rest) = rest[1]
  BY <1>5, <1>6, EmptySeq, LenProperties
<1>8. \A u \in dir : <<dir, u>> \in links' \/ \E i \in DOMAIN Tail(rest) : Tail(rest)[i] = u
  <2>1. SUFFICES ASSUME NEW u \in dir, <<dir, u>> \notin links' PROVE \E i \in DOMAIN Tail(rest) : Tail(rest)[i] = u
    OBVIOUS
  <2>2. PICK i \in DOMAIN rest : rest[i] = u
    BY <1>1, <1>5, <2>1
  <2>3. i # 1
    BY <1>1, <1>7, <2>1, <2>2
  <2>4. i - 1 \in 1..Len(Tail(rest)) /\ (i - 1) + 1 = i
    BY <1>6, <1>7, <2>2, <2>3
  <2>5. Tail(rest)[i - 1] = u
    BY <1>6, <2>2, <2>4
  <2>6. QED
    BY <1>7, <2>4, <2>5
<1>9. SetsTypeOK'
  <2>1. Tail(rest) \in Seq(Uuids)
    <3>1. dir \subseteq Uuids
      BY <1>1, ChosenAre DEF dir
    <3>2. QED
      BY <1>6, <3>1, SeqMonotonic
  <2>2. QED
    BY <1>1, <1>2, <1>3, <2>1 DEF SetsTypeOK, Phases
<1>10. Picked(w)'
  BY <1>1, <1>2, <1>3, <1>4 DEF WizardInv, Picked
<1>11. Fetched(w)'
  BY <1>1, <1>2, <1>3, <1>4 DEF WizardInv, Fetched, Linked, Exists
<1>12. Linking(w)'
  <2>1. next = "link" => Tail(rest) # <<>>
    <3>1. next = "link" => Len(Tail(rest)) # 0
      BY <1>2, <1>6, <1>7
    <3>2. Tail(rest) = <<>> => Len(Tail(rest)) = 0
      BY EmptySeq
    <3>3. QED
      BY <3>1, <3>2
  <2>2. next = "ready" => DOMAIN Tail(rest) = {}
    BY <1>2, <1>6, <1>7
  <2>3. QED
    BY <1>3, <1>4, <1>6, <1>8, <2>1, <2>2 DEF Linking, Linked
<1>13. \A l \in links' : l[2] \in l[1]
  BY <1>1, <1>6 DEF CacheInv
<1>14. QED
  BY <1>1, <1>4, <1>9, <1>10, <1>11, <1>12, <1>13 DEF WizardInv, Grows

LEMMA RunAgainKeeps ==
  ASSUME SetsInv, NEW w \in Wizards, RunAgain(w)
  PROVE  SetsTypeOK' /\ Grows /\ (\A v \in Wizards \ {w} : Still(v)) /\ WizardInv(w)'
<1> DEFINE none == [u \in Uuids |-> "none"]
<1>1. /\ SetsTypeOK /\ fetch' = [fetch EXCEPT ![w] = "query"] /\ chosen' = [chosen EXCEPT ![w] = <<>>]
      /\ download' = [download EXCEPT ![w] = none] /\ unlinked' = [unlinked EXCEPT ![w] = <<>>]
      /\ UNCHANGED <<catalogs, demand, cache, links>>
  BY DEF SetsInv, RunAgain
<1>2. Uuids' = Uuids /\ Rows' = Rows
  BY <1>1, LooksForTheSame
<1>3. fetch'[w] = "query" /\ download'[w] = none /\ \A v \in Wizards \ {w} : Still(v)
  BY <1>1 DEF SetsTypeOK, Still
<1>4. SetsTypeOK'
  <2>1. <<>> \in Seq(Rows) /\ <<>> \in Seq(Uuids) /\ none \in [Uuids -> DownloadStates]
    BY EmptySeq DEF DownloadStates
  <2>2. QED
    BY <1>1, <1>2, <2>1 DEF SetsTypeOK, Phases
<1>5. WizardInv(w)'
  BY <1>2, <1>3 DEF WizardInv, Picked, Fetched, Linking, Linked
<1>6. QED
  BY <1>1, <1>3, <1>4, <1>5 DEF Grows

LEMMA SetsSteps == SetsInv /\ [SceneSetsNext]_setVars => SetsInv'
<1> SUFFICES ASSUME SetsInv, [SceneSetsNext]_setVars PROVE SetsInv'
  OBVIOUS
<1>1. CASE UNCHANGED setVars
  <2>1. Grows /\ \A w \in Wizards : Still(w)
    BY <1>1 DEF Grows, Still, setVars
  <2>2. \A w \in Wizards : WizardInv(w)'
    BY <2>1, Undisturbed DEF SetsInv
  <2>3. SetsTypeOK' /\ CacheInv'
    BY <1>1 DEF SetsInv, SetsTypeOK, CacheInv, MayHold, Unchecked, setVars, Uuids, Rows
  <2>4. QED
    BY <2>2, <2>3 DEF SetsInv
<1>2. ASSUME NEW w \in Wizards,
             SetsTypeOK', Grows, \A v \in Wizards \ {w} : Still(v), WizardInv(w)',
             links' = links \/ \A l \in links' : l[2] \in l[1]
      PROVE  SetsInv'
  <2>1. \A v \in Wizards \ {w} : WizardInv(v)'
    BY <1>2, Undisturbed DEF SetsInv
  <2>2. CacheInv'
    <3>1. Uuids' = Uuids /\ Unchecked' = Unchecked
      BY <1>2, LooksForTheSame DEF Grows
    <3>2. \A l \in links' : l[2] \in l[1]
      BY <1>2 DEF SetsInv, CacheInv
    <3>3. \A u \in Uuids : MayHold(u, cache[u])
      BY DEF SetsInv, CacheInv
    <3>4. \A u \in Uuids : MayHold(u, cache'[u])
      BY <1>2, <3>3 DEF Grows
    <3>5. QED
      BY <3>1, <3>2, <3>4 DEF CacheInv, MayHold
  <2>3. QED
    BY <1>2, <2>1, <2>2 DEF SetsInv
<1>3. CASE SceneSetsNext
  <2>1. PICK w \in Wizards :
          \/ QueryScenes(w) \/ ListMissing(w) \/ EndHub(w) \/ EndTasks(w)
          \/ LockDirectory(w) \/ LinkNext(w) \/ RunAgain(w)
          \/ \E u \in Uuids : GetFromHub(w, u) \/ KeepIfRight(w, u) \/ LockFile(w, u) \/ LoadFile(w, u) \/ FailFile(w, u)
    BY <1>3 DEF SceneSetsNext
  <2>2. CASE QueryScenes(w)
    BY <1>2, <2>2, QueryScenesKeeps DEF QueryScenes
  <2>3. CASE ListMissing(w)
    BY <1>2, <2>3, ListMissingKeeps DEF ListMissing
  <2>4. CASE EndHub(w)
    BY <1>2, <2>4, EndHubKeeps DEF EndHub
  <2>5. CASE EndTasks(w)
    BY <1>2, <2>5, EndTasksKeeps DEF EndTasks
  <2>6. CASE LockDirectory(w)
    BY <1>2, <2>6, LockDirectoryKeeps DEF LockDirectory
  <2>7. CASE LinkNext(w)
    BY <1>2, <2>7, LinkNextKeeps
  <2>8. CASE RunAgain(w)
    BY <1>2, <2>8, RunAgainKeeps DEF RunAgain
  <2>9. ASSUME NEW u \in Uuids,
               GetFromHub(w, u) \/ KeepIfRight(w, u) \/ LockFile(w, u) \/ LoadFile(w, u) \/ FailFile(w, u)
        PROVE  SetsInv'
    <3>1. SetsTypeOK' /\ Grows /\ (\A v \in Wizards \ {w} : Still(v)) /\ WizardInv(w)'
      BY <2>9, DownloadStepsKeep
    <3>2. links' = links
      BY <2>9 DEF GetFromHub, KeepIfRight, LockFile, LoadFile, FailFile
    <3>3. QED
      BY <1>2, <3>1, <3>2
  <2>10. QED
    BY <2>1, <2>2, <2>3, <2>4, <2>5, <2>6, <2>7, <2>8, <2>9
<1>4. QED
  BY <1>1, <1>3

(* A suite of valid catalogs that load is refused only when it is empty. *)
LEMMA RefusedForNothing ==
  ASSUME catalogs \in Catalogs, NEW w \in Wizards, ~Selectable(w), CatalogsValid, CatalogsLoad,
         \A k \in DOMAIN catalogs.files : FilesOf(catalogs)[k] # <<>>,
         demand[w].suite # "", ~demand[w].named, ~demand[w].local
  PROVE  Suite(w) = {}
<1>1. ASSUME NEW entry \in EntriesIn(catalogs) PROVE entry[2] \in ScenesIn(RowsIn(catalogs))
  <2>1. PICK j \in DOMAIN catalogs.suites : entry \in ToSet(SuitesOf(catalogs)[j])
    BY <1>1 DEF EntriesIn
  <2>2. PICK k \in DOMAIN catalogs.files : SuitesPass(SuitesOf(catalogs)[j], FilesOf(catalogs)[k])
    BY <2>1 DEF CatalogsValid
  <2>3. entry[2] \in ScenesIn(ToSet(FilesOf(catalogs)[k]))
    BY <2>1, <2>2 DEF SuitesPass
  <2>4. ToSet(FilesOf(catalogs)[k]) \subseteq RowsIn(catalogs)
    BY <2>2 DEF RowsIn
  <2>5. QED
    BY <2>3, <2>4 DEF ScenesIn
<1>2. Suite(w) \subseteq ScenesIn(RowsIn(catalogs))
  BY <1>1 DEF Suite
<1>3. RowsFor(w) = RowsIn(catalogs) /\ BySuite(w) /\ Wanted(w) = Suite(w)
  BY DEF RowsFor, BySuite, Wanted
<1>4. QED
  BY <1>2, <1>3 DEF Selectable

(* The scenes of a run are those that were asked for and all there, whoever fails, is *)
(* killed or shares the cache meanwhile.  scenes/sceneset.py USDZManager.             *)
THEOREM SceneSetsAreComplete == SceneSetsSpec => []SceneSetsComplete
<1>1. SetsInv => SceneSetsComplete
  <2> SUFFICES ASSUME SetsInv PROVE SceneSetsComplete
    OBVIOUS
  <2>1. SetsTypeOK /\ CacheInv
    BY DEF SetsInv
  <2>2. ASSUME NEW w \in Wizards, Linked(w) PROVE DirectoryWhole(w)
    <3>1. WizardInv(w)
      BY DEF SetsInv
    <3>2. SUFFICES ASSUME NEW u \in ChosenUuids(w), RepositoryOf(w, u) # "local" PROVE Exists(u)
      BY <2>2, <3>1 DEF WizardInv, Linking, DirectoryWhole
    <3> DEFINE row == CHOOSE r \in ToSet(chosen[w]) : r.uuid = u
    <3>3. row \in ToSet(chosen[w]) /\ row.uuid = u
      BY DEF ChosenUuids, UuidsOf, ToSet
    <3> HIDE DEF row
    <3>4. PICK i \in DOMAIN chosen[w] : row = chosen[w][i]
      BY <3>3 DEF ToSet
    <3>5. row.repository \in Repositories
      <4>1. \A r \in Rows : r.repository \in Repositories
        BY <2>1, RowsAre DEF SetsTypeOK
      <4>2. row \in Rows
        BY <2>1, <3>4, ChosenAre
      <4>3. QED
        BY <4>1, <4>2
    <3>6. row.repository # "local"
      BY <3>2 DEF RepositoryOf, row
    <3>7. u \in From(w, row.repository)
      BY <3>3, <3>4 DEF From
    <3>8. u \in From(w, "huggingface") \/ u \in From(w, "swiftstack")
      BY <3>5, <3>6, <3>7 DEF Repositories
    <3>9. QED
      BY <2>2, <3>1, <3>8 DEF WizardInv, Fetched
  <2>3. ASSUME NEW w \in Wizards, fetch[w] \in {"list", "ready"} PROVE ChosenRight(w)
    <3>1. Selectable(w) /\ chosen[w] \in Selections(w)
      BY <2>3 DEF SetsInv, WizardInv, Picked
    <3>2. QED
      BY <2>1, <3>1, ChoiceIsRight DEF SetsTypeOK
  <2>4. ASSUME NEW w \in Wizards, fetch[w] = "refused", CatalogsValid, CatalogsLoad,
               \A k \in DOMAIN catalogs.files : FilesOf(catalogs)[k] # <<>>,
               demand[w].suite # "", ~demand[w].named, ~demand[w].local
        PROVE  Suite(w) = {}
    <3>1. ~Selectable(w)
      BY <2>4 DEF SetsInv, WizardInv, Picked
    <3>2. QED
      BY <2>1, <2>4, <3>1, RefusedForNothing DEF SetsTypeOK
  <2>5. QED
    BY <2>1, <2>2, <2>3, <2>4 DEF SceneSetsComplete, CacheInv, MayHold, Linked
<1> QED BY SetsStart, SetsSteps, <1>1, PTL DEF SceneSetsSpec

----------------------------------------------------------------------------
(* The jobs of an array (Aggregation)                                        *)

Stages == {"simulating", "finished", "locked", "read", "truncated", "last", "ended"}

ArrayTypeOK ==
  /\ allow \in BOOLEAN /\ jobAt \in [ArrayJobs -> Stages] /\ failures \in [ArrayJobs -> BOOLEAN]
  /\ left \subseteq ArrayJobs /\ succeeded \subseteq ArrayJobs /\ kills \in Nat
  /\ tally \in Nat \cup {Unreadable} /\ previous \in [ArrayJobs -> Nat]
  /\ counted \in Seq(ArrayJobs) /\ summaries \in Seq([by : ArrayJobs, of : SUBSET ArrayJobs, listed : SUBSET ArrayJobs])

(* Who is at the counter holds the lock, and what it has read is still true. *)
CounterHeld ==
  /\ arrayLock = {j \in ArrayJobs : jobAt[j] \in {"locked", "read", "truncated"}}
  /\ \A i, j \in arrayLock : i = j
  /\ \A j \in ArrayJobs : jobAt[j] \in {"read", "truncated"} => previous[j] = Len(counted)
  /\ tally # Unreadable => tally = Len(counted)

(* What has been counted, and what rests on it, whoever was killed. *)
CountsKept ==
  /\ \A j \in ArrayJobs : jobAt[j] # "simulating" => j \in left
  /\ succeeded \subseteq ToSet(counted)
  /\ \A j \in ArrayJobs : jobAt[j] = "last" => j \in ToSet(counted)
  /\ summaries # <<>> \/ (\E j \in ArrayJobs : jobAt[j] = "last") => Len(counted) >= Cardinality(ArrayJobs)

(* While none is killed, a job is counted once, unless it is kept out, and the one *)
(* that is counted last aggregates.                                                *)
NoneKilled ==
  /\ tally = Unreadable => \E j \in ArrayJobs : jobAt[j] = "truncated"
  /\ Cardinality(ToSet(counted)) = Len(counted)
  /\ \A j \in ArrayJobs :
       /\ j \in ToSet(counted) => jobAt[j] \in {"last", "ended"} /\ j \notin KeptOut
       /\ jobAt[j] = "ended" => j \in KeptOut \/ j \in ToSet(counted)
       /\ jobAt[j] = "ended" /\ j \in ToSet(counted) => j \in succeeded
       /\ j \in KeptOut => jobAt[j] = "ended"
       /\ jobAt[j] = "last" => summaries = <<>>
  /\ \A i, j \in ArrayJobs : jobAt[i] = "last" /\ jobAt[j] = "last" => i = j
  /\ Len(counted) = Cardinality(ArrayJobs) => summaries # <<>> \/ \E j \in ArrayJobs : jobAt[j] = "last"
  /\ summaries # <<>> => Len(summaries) = 1 /\ summaries[1].of = ArrayJobs

ArrayInv == ArrayTypeOK /\ CounterHeld /\ CountsKept /\ (kills = 0 => NoneKilled)

LEMMA OneMoreIn ==
  ASSUME NEW S, NEW s \in Seq(S), NEW x \in S
  PROVE  /\ Append(s, x) \in Seq(S) /\ Len(Append(s, x)) = Len(s) + 1 /\ Len(s) \in Nat
         /\ ToSet(Append(s, x)) = ToSet(s) \cup {x}
<1> DEFINE r == Append(s, x)
<1>1. /\ r \in Seq(S) /\ Len(r) = Len(s) + 1 /\ Len(s) \in Nat
      /\ \A i \in 1..Len(s) : r[i] = s[i]
      /\ r[Len(s) + 1] = x
  BY AppendProperties, LenProperties
<1>2. DOMAIN s = 1..Len(s) /\ DOMAIN r = 1..(Len(s) + 1)
  BY <1>1, LenProperties
<1> HIDE DEF r
<1>3. ToSet(s) \cup {x} \subseteq ToSet(r)
  <2>1. \A i \in 1..Len(s) : i \in 1..(Len(s) + 1)
    BY <1>1
  <2>2. Len(s) + 1 \in 1..(Len(s) + 1)
    BY <1>1
  <2>3. QED
    BY <1>1, <1>2, <2>1, <2>2 DEF ToSet
<1>4. ToSet(r) \subseteq ToSet(s) \cup {x}
  <2>1. \A i \in 1..(Len(s) + 1) : i \in 1..Len(s) \/ i = Len(s) + 1
    BY <1>1
  <2>2. QED
    BY <1>1, <1>2, <2>1 DEF ToSet
<1>5. QED
  BY <1>1, <1>3, <1>4 DEF r

LEMMA CountedAre ==
  ASSUME ArrayTypeOK
  PROVE  /\ ToSet(counted) \subseteq ArrayJobs /\ IsFiniteSet(ToSet(counted))
         /\ Cardinality(ToSet(counted)) \in Nat /\ Cardinality(ArrayJobs) \in Nat /\ Len(counted) \in Nat
         /\ Cardinality(ToSet(counted)) <= Cardinality(ArrayJobs)
         /\ Cardinality(ToSet(counted)) = Cardinality(ArrayJobs) => ToSet(counted) = ArrayJobs
<1>1. counted \in Seq(ArrayJobs) /\ IsFiniteSet(ArrayJobs)
  BY ArrayAssumption DEF ArrayTypeOK
<1>2. ToSet(counted) \subseteq ArrayJobs
  BY <1>1, LenProperties, ElementOfSeq DEF ToSet
<1>3. QED
  BY <1>1, <1>2, FS_Subset, FS_CardinalityType, LenProperties

LEMMA ArrayStart == ArrayInit => ArrayInv
<1> SUFFICES ASSUME ArrayInit PROVE ArrayInv
  OBVIOUS
<1>1. ArrayTypeOK
  BY EmptySeq DEF ArrayInit, ArrayTypeOK, Stages
<1>2. /\ Len(counted) = 0 /\ ToSet(counted) = {} /\ Cardinality(ToSet(counted)) = 0
      /\ Cardinality(ArrayJobs) # 0
  <2>1. Len(counted) = 0 /\ DOMAIN counted = {}
    BY EmptySeq DEF ArrayInit
  <2>2. ToSet(counted) = {}
    BY <2>1 DEF ToSet
  <2>3. QED
    BY <2>1, <2>2, FS_EmptySet, ArrayAssumption
<1>3. CounterHeld /\ CountsKept
  BY <1>2 DEF ArrayInit, CounterHeld, CountsKept, Unreadable
<1>4. NoneKilled
  BY <1>2 DEF ArrayInit, NoneKilled, KeptOut, Unreadable
<1>5. QED
  BY <1>1, <1>3, <1>4 DEF ArrayInv

LEMMA SimulatedKeeps ==
  ASSUME ArrayInv, NEW j \in ArrayJobs, NEW fails \in BOOLEAN, Simulated(j, fails)
  PROVE  ArrayInv'
<1> DEFINE to == IF fails /\ ~allow THEN "ended" ELSE "finished"
<1>1. /\ ArrayTypeOK /\ jobAt[j] = "simulating" /\ jobAt' = [jobAt EXCEPT ![j] = to]
      /\ failures' = [failures EXCEPT ![j] = fails] /\ left' = left \cup {j}
      /\ UNCHANGED <<allow, tally, summaries, previous, arrayLock, succeeded, kills, counted>>
  BY DEF ArrayInv, Simulated, Moves
<1>2. ArrayTypeOK'
  BY <1>1 DEF ArrayTypeOK, Stages
<1>3. /\ jobAt'[j] = to /\ failures'[j] = fails
      /\ \A i \in ArrayJobs \ {j} : jobAt'[i] = jobAt[i] /\ failures'[i] = failures[i]
  BY <1>1 DEF ArrayTypeOK
<1>4. CounterHeld'
  BY <1>1, <1>3 DEF ArrayInv, CounterHeld
<1>5. CountsKept'
  BY <1>1, <1>3 DEF ArrayInv, CountsKept
<1>6. ASSUME kills = 0 PROVE NoneKilled'
  <2>1. NoneKilled
    BY <1>6 DEF ArrayInv
  <2>2. j \notin ToSet(counted) /\ j \notin KeptOut
    BY <1>1, <2>1 DEF NoneKilled
  <2>3. KeptOut' = IF fails /\ ~allow THEN KeptOut \cup {j} ELSE KeptOut
    BY <1>1, <1>3, <2>2 DEF KeptOut
  <2>4. QED
    BY <1>1, <1>3, <2>1, <2>2, <2>3 DEF NoneKilled
<1>7. QED
  BY <1>1, <1>2, <1>4, <1>5, <1>6 DEF ArrayInv

LEMMA LockKeeps ==
  ASSUME ArrayInv, NEW j \in ArrayJobs, Lock(j)
  PROVE  ArrayInv'
<1>1. /\ ArrayTypeOK /\ jobAt[j] = "finished" /\ jobAt' = [jobAt EXCEPT ![j] = "locked"]
      /\ arrayLock = {} /\ arrayLock' = {j}
      /\ UNCHANGED <<allow, failures, left, tally, summaries, previous, succeeded, kills, counted>>
  BY DEF ArrayInv, Lock, Moves, arrayFiles
<1>2. ArrayTypeOK'
  BY <1>1 DEF ArrayTypeOK, Stages
<1>3. jobAt'[j] = "locked" /\ \A i \in ArrayJobs \ {j} : jobAt'[i] = jobAt[i]
  BY <1>1 DEF ArrayTypeOK
<1>4. CounterHeld'
  BY <1>1, <1>3 DEF ArrayInv, CounterHeld
<1>5. CountsKept'
  BY <1>1, <1>3 DEF ArrayInv, CountsKept
<1>6. ASSUME kills = 0 PROVE NoneKilled'
  BY <1>1, <1>3, <1>6 DEF ArrayInv, NoneKilled, KeptOut
<1>7. QED
  BY <1>1, <1>2, <1>4, <1>5, <1>6 DEF ArrayInv

LEMMA ReadTallyKeeps ==
  ASSUME ArrayInv, NEW j \in ArrayJobs, ReadTally(j)
  PROVE  ArrayInv'
<1>1. /\ ArrayTypeOK /\ CounterHeld /\ CountsKept /\ jobAt[j] = "locked" /\ j \in arrayLock
      /\ UNCHANGED <<allow, failures, left, tally, summaries, succeeded, kills, counted>>
  BY DEF ArrayInv, ReadTally, Moves, arrayFiles, CounterHeld
<1>2. CASE tally = Unreadable
  <2>1. jobAt' = [jobAt EXCEPT ![j] = "ended"] /\ arrayLock' = {} /\ previous' = previous
    BY <1>2 DEF ReadTally, Moves
  <2>2. ArrayTypeOK'
    BY <1>1, <2>1 DEF ArrayTypeOK, Stages
  <2>3. jobAt'[j] = "ended" /\ \A i \in ArrayJobs \ {j} : jobAt'[i] = jobAt[i]
    BY <1>1, <2>1 DEF ArrayTypeOK
  <2>4. CounterHeld'
    BY <1>1, <2>1, <2>3 DEF CounterHeld
  <2>5. CountsKept'
    BY <1>1, <2>3 DEF CountsKept
  <2>6. kills # 0
    <3>1. SUFFICES ASSUME NoneKilled PROVE FALSE
      BY DEF ArrayInv
    <3>2. PICK i \in ArrayJobs : jobAt[i] = "truncated"
      BY <1>2, <3>1 DEF NoneKilled
    <3>3. QED
      BY <1>1, <3>2 DEF CounterHeld
  <2>7. QED
    BY <1>1, <2>2, <2>4, <2>5, <2>6 DEF ArrayInv
<1>3. CASE tally # Unreadable
  <2>1. /\ jobAt' = [jobAt EXCEPT ![j] = "read"] /\ previous' = [previous EXCEPT ![j] = tally]
        /\ arrayLock' = arrayLock
    BY <1>3 DEF ReadTally, Moves
  <2>2. ArrayTypeOK'
    BY <1>1, <1>3, <2>1 DEF ArrayTypeOK, Stages
  <2>3. /\ jobAt'[j] = "read" /\ previous'[j] = tally
        /\ \A i \in ArrayJobs \ {j} : jobAt'[i] = jobAt[i] /\ previous'[i] = previous[i]
    BY <1>1, <2>1 DEF ArrayTypeOK
  <2>4. CounterHeld'
    BY <1>1, <1>3, <2>1, <2>3 DEF CounterHeld
  <2>5. CountsKept'
    BY <1>1, <2>3 DEF CountsKept
  <2>6. ASSUME kills = 0 PROVE NoneKilled'
    BY <1>1, <1>3, <2>3, <2>6 DEF ArrayInv, NoneKilled, KeptOut
  <2>7. QED
    BY <1>1, <2>2, <2>4, <2>5, <2>6 DEF ArrayInv
<1>4. QED
  BY <1>2, <1>3

LEMMA TruncateKeeps ==
  ASSUME ArrayInv, NEW j \in ArrayJobs, Truncate(j)
  PROVE  ArrayInv'
<1>1. /\ ArrayTypeOK /\ CounterHeld /\ CountsKept
      /\ jobAt[j] = "read" /\ jobAt' = [jobAt EXCEPT ![j] = "truncated"] /\ tally' = Unreadable
      /\ UNCHANGED <<allow, failures, left, summaries, previous, arrayLock, succeeded, kills, counted>>
  BY DEF ArrayInv, Truncate, Moves
<1>2. ArrayTypeOK'
  BY <1>1 DEF ArrayTypeOK, Stages
<1>3. jobAt'[j] = "truncated" /\ \A i \in ArrayJobs \ {j} : jobAt'[i] = jobAt[i]
  BY <1>1 DEF ArrayTypeOK
<1>4. CounterHeld'
  BY <1>1, <1>3 DEF CounterHeld
<1>5. CountsKept'
  BY <1>1, <1>3 DEF CountsKept
<1>6. ASSUME kills = 0 PROVE NoneKilled'
  BY <1>1, <1>3, <1>6 DEF ArrayInv, NoneKilled, KeptOut
<1>7. QED
  BY <1>1, <1>2, <1>4, <1>5, <1>6 DEF ArrayInv

LEMMA WriteTallyKeeps ==
  ASSUME ArrayInv, NEW j \in ArrayJobs, WriteTally(j)
  PROVE  ArrayInv'
<1> DEFINE last == previous[j] >= Cardinality(ArrayJobs) - 1
           to == IF last THEN "last" ELSE "ended"
<1>1. /\ ArrayTypeOK /\ CounterHeld /\ CountsKept
      /\ jobAt[j] = "truncated" /\ jobAt' = [jobAt EXCEPT ![j] = to]
      /\ tally' = previous[j] + 1 /\ arrayLock' = {} /\ counted' = Append(counted, j)
      /\ succeeded' = (IF last THEN succeeded ELSE succeeded \cup {j})
      /\ UNCHANGED <<allow, failures, left, summaries, previous, kills>>
  BY DEF ArrayInv, WriteTally, Moves
<1>2. jobAt'[j] = to /\ \A i \in ArrayJobs \ {j} : jobAt'[i] = jobAt[i]
  BY <1>1 DEF ArrayTypeOK
<1>3. /\ counted' \in Seq(ArrayJobs) /\ Len(counted') = Len(counted) + 1 /\ Len(counted) \in Nat
      /\ ToSet(counted') = ToSet(counted) \cup {j}
  BY <1>1, OneMoreIn DEF ArrayTypeOK
<1>4. previous[j] = Len(counted) /\ j \in arrayLock /\ \A i \in arrayLock : i = j
  BY <1>1 DEF CounterHeld
<1>5. Cardinality(ArrayJobs) \in Nat
  BY <1>1, CountedAre
<1>6. ArrayTypeOK'
  <2>1. jobAt' \in [ArrayJobs -> Stages] /\ tally' \in Nat /\ succeeded' \subseteq ArrayJobs
    BY <1>1 DEF ArrayTypeOK, Stages
  <2>2. QED
    BY <1>1, <1>3, <2>1 DEF ArrayTypeOK
<1>7. CounterHeld'
  <2>1. \A i \in ArrayJobs : jobAt'[i] \notin {"locked", "read", "truncated"}
    BY <1>1, <1>2, <1>4 DEF CounterHeld
  <2>2. QED
    BY <1>1, <1>3, <1>4, <2>1 DEF CounterHeld
<1>8. last <=> Len(counted') >= Cardinality(ArrayJobs)
  BY <1>3, <1>4, <1>5
<1>9. CountsKept'
  <2>1. \A i \in ArrayJobs : jobAt'[i] # "simulating" => i \in left'
    BY <1>1, <1>2 DEF CountsKept
  <2>2. succeeded' \subseteq ToSet(counted')
    BY <1>1, <1>3 DEF CountsKept
  <2>3. \A i \in ArrayJobs : jobAt'[i] = "last" => i \in ToSet(counted')
    BY <1>1, <1>2, <1>3 DEF CountsKept
  <2>4. summaries' # <<>> \/ (\E i \in ArrayJobs : jobAt'[i] = "last") => Len(counted') >= Cardinality(ArrayJobs)
    <3>1. SUFFICES ASSUME summaries # <<>> \/ (\E i \in ArrayJobs \ {j} : jobAt[i] = "last") \/ last
                   PROVE  Len(counted') >= Cardinality(ArrayJobs)
      BY <1>1, <1>2
    <3>2. last \/ Len(counted) >= Cardinality(ArrayJobs)
      BY <1>1, <3>1 DEF CountsKept
    <3>3. QED
      BY <1>3, <1>5, <1>8, <3>2
  <2>5. QED
    BY <1>1, <2>1, <2>2, <2>3, <2>4 DEF CountsKept
<1>10. ASSUME kills = 0 PROVE NoneKilled'
  <2>1. NoneKilled
    BY <1>10 DEF ArrayInv
  <2>2. j \notin ToSet(counted) /\ j \notin KeptOut
    BY <1>1, <2>1 DEF NoneKilled
  <2>3. Cardinality(ToSet(counted')) = Len(counted')
    <3>1. IsFiniteSet(ToSet(counted)) /\ Cardinality(ToSet(counted)) = Len(counted)
      BY <1>1, <2>1, CountedAre DEF NoneKilled
    <3>2. QED
      BY <1>3, <2>2, <3>1, FS_AddElement
  <2>4. Len(counted') <= Cardinality(ArrayJobs)
    <3>1. ToSet(counted') \subseteq ArrayJobs
      BY <1>1, <1>3, CountedAre
    <3>2. Cardinality(ToSet(counted')) <= Cardinality(ArrayJobs)
      BY <3>1, FS_Subset, ArrayAssumption
    <3>3. QED
      BY <2>3, <3>2
  <2>5. summaries = <<>> /\ \A i \in ArrayJobs : jobAt[i] # "last"
    <3>1. Len(counted) < Cardinality(ArrayJobs)
      BY <1>3, <1>5, <2>4
    <3>2. QED
      BY <1>1, <1>3, <1>5, <3>1 DEF CountsKept
  <2>6. last <=> Len(counted') = Cardinality(ArrayJobs)
    BY <1>3, <1>5, <1>8, <2>4
  <2>7. KeptOut' = KeptOut
    BY <1>1 DEF KeptOut
  <2> HIDE DEF last
  <2>8. tally' # Unreadable
    BY <1>1 DEF ArrayTypeOK, Unreadable
  <2>9. \A i \in ArrayJobs :
          /\ i \in ToSet(counted') => jobAt'[i] \in {"last", "ended"} /\ i \notin KeptOut'
          /\ jobAt'[i] = "ended" => i \in KeptOut' \/ i \in ToSet(counted')
          /\ jobAt'[i] = "ended" /\ i \in ToSet(counted') => i \in succeeded'
          /\ i \in KeptOut' => jobAt'[i] = "ended"
          /\ jobAt'[i] = "last" => summaries' = <<>>
    <3>1. SUFFICES ASSUME NEW i \in ArrayJobs
                   PROVE  /\ i \in ToSet(counted') => jobAt'[i] \in {"last", "ended"} /\ i \notin KeptOut'
                          /\ jobAt'[i] = "ended" => i \in KeptOut' \/ i \in ToSet(counted')
                          /\ jobAt'[i] = "ended" /\ i \in ToSet(counted') => i \in succeeded'
                          /\ i \in KeptOut' => jobAt'[i] = "ended"
                          /\ jobAt'[i] = "last" => summaries' = <<>>
      OBVIOUS
    <3>2. CASE i = j
      BY <1>1, <1>2, <1>3, <2>2, <2>5, <2>7, <3>2
    <3>3. CASE i # j
      BY <1>1, <1>2, <1>3, <2>1, <2>5, <2>7, <3>3 DEF NoneKilled
    <3>4. QED
      BY <3>2, <3>3
  <2>10. QED
    BY <1>1, <1>2, <2>3, <2>5, <2>6, <2>8, <2>9 DEF NoneKilled
<1>11. QED
  BY <1>1, <1>6, <1>7, <1>9, <1>10 DEF ArrayInv

LEMMA AggregateKeeps ==
  ASSUME ArrayInv, NEW j \in ArrayJobs, Aggregate(j)
  PROVE  ArrayInv'
<1> DEFINE made == [by |-> j, of |-> left, listed |-> {j} \cap {i \in ArrayJobs : failures[i]}]
<1>1. /\ ArrayTypeOK /\ CounterHeld /\ CountsKept
      /\ jobAt[j] = "last" /\ jobAt' = [jobAt EXCEPT ![j] = "ended"]
      /\ summaries' = Append(summaries, made) /\ succeeded' = succeeded \cup {j}
      /\ UNCHANGED <<allow, failures, left, tally, previous, arrayLock, kills, counted>>
  BY DEF ArrayInv, Aggregate, Moves
<1>2. jobAt'[j] = "ended" /\ \A i \in ArrayJobs \ {j} : jobAt'[i] = jobAt[i]
  BY <1>1 DEF ArrayTypeOK
<1>3. made \in [by : ArrayJobs, of : SUBSET ArrayJobs, listed : SUBSET ArrayJobs] /\ made.of = left
  BY <1>1 DEF ArrayTypeOK
<1> HIDE DEF made
<1>4. ArrayTypeOK'
  <2>1. summaries' \in Seq([by : ArrayJobs, of : SUBSET ArrayJobs, listed : SUBSET ArrayJobs])
    BY <1>1, <1>3, AppendProperties DEF ArrayTypeOK
  <2>2. QED
    BY <1>1, <2>1 DEF ArrayTypeOK, Stages
<1>5. CounterHeld'
  BY <1>1, <1>2 DEF CounterHeld
<1>6. CountsKept'
  BY <1>1, <1>2 DEF CountsKept
<1>7. ASSUME kills = 0 PROVE NoneKilled'
  <2>1. NoneKilled
    BY <1>7 DEF ArrayInv
  <2>2. summaries = <<>> /\ \A i \in ArrayJobs \ {j} : jobAt[i] # "last"
    BY <1>1, <2>1 DEF NoneKilled
  <2>3. Len(summaries') = 1 /\ summaries'[1] = made /\ summaries' # <<>>
    <3>1. /\ Len(summaries) = 0 /\ Len(summaries') = Len(summaries) + 1
          /\ summaries'[Len(summaries) + 1] = made
      BY <1>1, <1>3, <2>2, EmptySeq, AppendProperties DEF ArrayTypeOK
    <3>2. Len(<<>>) # Len(summaries')
      BY <3>1, <2>2
    <3>3. QED
      BY <3>1, <3>2
  <2>4. ToSet(counted) = ArrayJobs
    BY <1>1, <2>1, CountedAre DEF NoneKilled, CountsKept
  <2>5. left = ArrayJobs
    <3>1. \A i \in ArrayJobs : jobAt[i] # "simulating"
      BY <2>1, <2>4 DEF NoneKilled
    <3>2. QED
      BY <1>1, <3>1 DEF CountsKept, ArrayTypeOK
  <2>6. KeptOut' = KeptOut
    BY <1>1 DEF KeptOut
  <2>7. QED
    BY <1>1, <1>2, <1>3, <2>1, <2>2, <2>3, <2>4, <2>5, <2>6 DEF NoneKilled
<1>8. QED
  BY <1>1, <1>4, <1>5, <1>6, <1>7 DEF ArrayInv

LEMMA KillJobKeeps ==
  ASSUME ArrayInv, NEW j \in ArrayJobs, KillJob(j)
  PROVE  ArrayInv'
<1>1. /\ ArrayTypeOK /\ CounterHeld /\ CountsKept /\ kills' = kills + 1
      /\ jobAt' = [jobAt EXCEPT ![j] = "simulating"] /\ arrayLock' = arrayLock \ {j}
      /\ UNCHANGED <<allow, failures, left, tally, summaries, previous, succeeded, counted>>
  BY DEF ArrayInv, KillJob, Moves, arrayFiles
<1>2. jobAt'[j] = "simulating" /\ \A i \in ArrayJobs \ {j} : jobAt'[i] = jobAt[i]
  BY <1>1 DEF ArrayTypeOK
<1>3. ArrayTypeOK' /\ kills' # 0
  BY <1>1 DEF ArrayTypeOK, Stages
<1>4. CounterHeld'
  BY <1>1, <1>2 DEF CounterHeld
<1>5. CountsKept'
  BY <1>1, <1>2 DEF CountsKept
<1>6. QED
  BY <1>3, <1>4, <1>5 DEF ArrayInv

LEMMA ArraySteps == ArrayInv /\ [ArrayNext]_arrayVars => ArrayInv'
<1> SUFFICES ASSUME ArrayInv, [ArrayNext]_arrayVars PROVE ArrayInv'
  OBVIOUS
<1>1. CASE UNCHANGED arrayVars
  BY <1>1 DEF ArrayInv, ArrayTypeOK, CounterHeld, CountsKept, NoneKilled, KeptOut, arrayVars, arrayFiles
<1>2. CASE ArrayNext
  BY <1>2, SimulatedKeeps, LockKeeps, ReadTallyKeeps, TruncateKeeps, WriteTallyKeeps, AggregateKeeps,
     KillJobKeeps DEF ArrayNext
<1>3. QED
  BY <1>1, <1>2

(* However the jobs of an array cross at the counter, and whichever are killed and run *)
(* again: the one that is counted last aggregates, once while none is killed, and no   *)
(* count is lost.  simulate/__main__.py, eval/aggregation.                             *)
THEOREM ArrayAggregatesOnce == ArraySpec => []AggregatesOnce
<1>1. ArrayInv => AggregatesOnce
  <2> SUFFICES ASSUME ArrayInv PROVE AggregatesOnce
    OBVIOUS
  <2>1. ArrayTypeOK /\ CounterHeld /\ CountsKept
    BY DEF ArrayInv
  <2>2. ASSUME kills = 0
        PROVE  /\ Len(summaries) <= 1
               /\ \A k \in DOMAIN summaries : summaries[k].of = ArrayJobs /\ KeptOut = {}
               /\ Quiet /\ KeptOut = {} => Len(summaries) = 1 /\ succeeded = ArrayJobs
               /\ Quiet => succeeded = ArrayJobs \ KeptOut
    <3>1. NoneKilled
      BY <2>2 DEF ArrayInv
    <3>2. summaries = <<>> \/ (Len(summaries) = 1 /\ summaries[1].of = ArrayJobs)
      BY <3>1 DEF NoneKilled
    <3>3. Len(summaries) \in {0, 1} /\ DOMAIN summaries = 1..Len(summaries)
      BY <2>1, <3>2, EmptySeq, LenProperties DEF ArrayTypeOK
    <3>4. summaries # <<>> => ToSet(counted) = ArrayJobs
      BY <2>1, <3>1, CountedAre DEF NoneKilled, CountsKept
    <3>5. summaries # <<>> => KeptOut = {}
      BY <3>1, <3>4 DEF NoneKilled, KeptOut
    <3>6. \A k \in DOMAIN summaries : summaries # <<>> /\ k = 1
      <4>1. \A k \in 1..Len(summaries) : k = 1 /\ Len(summaries) = 1
        BY <3>3
      <4>2. Len(summaries) = 1 => summaries # <<>>
        BY EmptySeq
      <4>3. QED
        BY <3>3, <4>1, <4>2
    <3>7. Quiet => succeeded = ArrayJobs \ KeptOut
      BY <2>1, <3>1 DEF Quiet, NoneKilled, CountsKept, ArrayTypeOK
    <3>8. ASSUME Quiet, KeptOut = {} PROVE Len(summaries) = 1
      <4>1. ToSet(counted) = ArrayJobs
        BY <2>1, <3>1, <3>8, CountedAre DEF Quiet, NoneKilled
      <4>2. Len(counted) = Cardinality(ArrayJobs)
        BY <3>1, <4>1 DEF NoneKilled
      <4>3. \A j \in ArrayJobs : jobAt[j] # "last"
        BY <3>8 DEF Quiet
      <4>4. summaries # <<>>
        BY <3>1, <4>2, <4>3 DEF NoneKilled
      <4>5. QED
        BY <3>2, <4>4
    <3>9. Quiet /\ KeptOut = {} => succeeded = ArrayJobs
      BY <3>7
    <3>10. Len(summaries) <= 1
      BY <3>3
    <3>11. \A k \in DOMAIN summaries : summaries[k].of = ArrayJobs /\ KeptOut = {}
      <4>1. SUFFICES ASSUME NEW k \in DOMAIN summaries PROVE summaries[k].of = ArrayJobs /\ KeptOut = {}
        OBVIOUS
      <4>2. k = 1 /\ summaries # <<>>
        BY <3>6
      <4>3. QED
        BY <3>2, <3>5, <4>2
    <3>12. QED
      BY <3>7, <3>8, <3>9, <3>10, <3>11
  <2>3. tally # Unreadable => tally = Len(counted)
    BY <2>1 DEF CounterHeld
  <2>4. summaries # <<>> => Len(counted) >= Cardinality(ArrayJobs)
    BY <2>1 DEF CountsKept
  <2>5. \A j \in succeeded : j \in ToSet(counted)
    BY <2>1 DEF CountsKept
  <2>6. QED
    BY <2>2, <2>3, <2>4, <2>5 DEF AggregatesOnce
<1> QED BY ArrayStart, ArraySteps, <1>1, PTL DEF ArraySpec

----------------------------------------------------------------------------
(* The score of a rollout (Evaluation)                                       *)

PoseState == [at : Nat, met : Situations \cup {Uneventful}, last : Sides \cup {"none"}]
ImageState == [end : Nat, black : BOOLEAN]
Failures == {"none", "collision", "offroad", "image", "ground_truth"}

EvaluationTypeOK ==
  /\ timing \in Timings /\ poses \in Seq(PoseState) /\ Len(poses) >= 2 /\ frames \in Seq(ImageState)

(* The ego is logged once per control step, with one of the sides that were touched. *)
PosesFit ==
  /\ poses[1].at = 0
  /\ \A k \in 2 .. Len(poses) : poses[k].at = timing.firstPolicy + (k - 2) * timing.control
  /\ \A k \in 3 .. Len(poses) :
       /\ poses[k].met \in Situations
       /\ IF poses[k].met.touched = {} THEN poses[k].last = "none" ELSE poses[k].last \in poses[k].met.touched

FramesInOrder == \A j, k \in DOMAIN frames : j < k => frames[j].end < frames[k].end

(* What a verdict on the driver's own steps, up to step end, says. *)
Fair(verdict, end) ==
  LET one == Cardinality(poses[end].met.touched) = 1
  IN  /\ verdict.incident = Happened(end)
      /\ verdict.offroad = poses[end].met.offroad
      /\ verdict.atFault => {"front", "lateral"} \cap poses[end].met.touched # {}
      /\ one /\ "rear" \notin poses[end].met.touched => verdict.atFault
      /\ verdict.score > 0 => end > 2 /\ ~verdict.atFault /\ ~verdict.offroad
      /\ ~verdict.atFault /\ ~verdict.offroad /\ ~timing.short => verdict.score = Min({end - 2, Saturation})

VerdictFits(verdict) ==
  /\ verdict.failed = "none" /\ HandoverFits /\ Driven # {} =>
       LET black(k) == \E image \in ImageAt(poses[k].at) : image.black
       IN  /\ verdict.outcome = IF \E k \in Driven : black(k) THEN "removed" ELSE "scored"
           /\ verdict.outcome = "scored" => Fair(verdict, Max(Counted))
  /\ verdict.outcome = "scored" => verdict.failed \notin {"collision", "ground_truth"}

(* Nothing is logged after the evaluation, which is of all there is. *)
ReportFits == report = NoReport \/ VerdictFits(report)

EvaluationInv == EvaluationTypeOK /\ PosesFit /\ FramesInOrder /\ ReportFits

(* An image goes behind those that end before it. *)
LEMMA ImageGoesInOrder ==
  ASSUME NEW s \in Seq(ImageState), NEW image \in ImageState,
         \A j, k \in DOMAIN s : j < k => s[j].end < s[k].end,
         \A k \in DOMAIN s : s[k].end # image.end
  PROVE  /\ AddImage(s, image) \in Seq(ImageState)
         /\ \A j, k \in DOMAIN AddImage(s, image) : j < k => AddImage(s, image)[j].end < AddImage(s, image)[k].end
<1> DEFINE n == Len(s)
           r == AddImage(s, image)
<1>1. n \in Nat /\ DOMAIN s = 1..n /\ \A k \in 1..n : s[k] \in ImageState
  BY LenProperties, ElementOfSeq
<1>2. image.end \in Nat /\ \A k \in 1..n : s[k].end \in Nat
  BY <1>1 DEF ImageState
<1> HIDE DEF n
<1> DEFINE later == {k \in 1..n : image.end < s[k].end}
<1>3. PICK m \in 0..n : /\ \A k \in 1..m : s[k].end < image.end
                        /\ \A k \in (m + 1)..n : image.end < s[k].end
  <2>1. CASE later = {}
    <3>1. \A k \in 1..n : s[k].end < image.end
      BY <1>1, <1>2, <2>1
    <3>2. n \in 0..n /\ (n + 1)..n = {}
      BY <1>1
    <3>3. QED
      BY <3>1, <3>2
  <2>2. CASE later # {}
    <3>1. later \in SUBSET Nat
      BY <1>1
    <3>2. Min(later) \in later /\ \A k \in later : Min(later) <= k
      BY <2>2, <3>1, LeastOf
    <3> DEFINE l == Min(later)
    <3> HIDE DEF l
    <3>3. l \in 1..n /\ image.end < s[l].end /\ \A k \in 1..n : image.end < s[k].end => l <= k
      BY <3>2 DEF l
    <3>4. l - 1 \in 0..n
      BY <1>1, <3>3
    <3>5. \A k \in 1..(l - 1) : s[k].end < image.end
      <4>1. \A k \in 1..(l - 1) : k \in 1..n /\ ~(l <= k)
        BY <1>1, <3>3
      <4>2. QED
        BY <1>1, <1>2, <3>3, <4>1
    <3>6. \A k \in (l - 1 + 1)..n : image.end < s[k].end
      <4>1. \A k \in (l - 1 + 1)..n : k \in 1..n /\ (k = l \/ l < k)
        BY <1>1, <3>3
      <4>2. \A k \in (l - 1 + 1)..n : k # l => s[l].end < s[k].end
        BY <1>1, <3>3, <4>1
      <4>3. QED
        BY <1>2, <3>3, <4>1, <4>2
    <3>7. QED
      BY <3>4, <3>5, <3>6
  <2>3. QED
    BY <2>1, <2>2
<1>4. CASE s = <<>> \/ image.end >= Last(s).end
  <2>1. r = Append(s, image)
    BY <1>4 DEF AddImage
  <2>2. /\ r \in Seq(ImageState) /\ Len(r) = n + 1
        /\ \A k \in 1..n : r[k] = s[k]
        /\ r[n + 1] = image
    BY <2>1, AppendProperties DEF n
  <2>3. DOMAIN r = 1..(n + 1)
    BY <2>2, LenProperties
  <2>4. \A k \in 1..n : s[k].end < image.end
    <3>1. CASE n = 0
      BY <3>1
    <3>2. CASE n # 0
      <4>1. Last(s) = s[n] /\ n \in 1..n /\ s # <<>>
        BY <1>1, <3>2, EmptySeq DEF Last, n
      <4>2. s[n].end <= image.end /\ s[n].end # image.end
        BY <1>1, <1>2, <1>4, <4>1
      <4>3. \A k \in 1..n : k = n \/ s[k].end < s[n].end
        BY <1>1, <4>1
      <4>4. QED
        BY <1>2, <4>1, <4>2, <4>3
    <3>3. QED
      BY <3>1, <3>2
  <2> HIDE DEF r
  <2>5. \A j, k \in 1..(n + 1) : j < k => r[j].end < r[k].end
    <3>1. SUFFICES ASSUME NEW j \in 1..(n + 1), NEW k \in 1..(n + 1), j < k PROVE r[j].end < r[k].end
      OBVIOUS
    <3>2. j \in 1..n /\ (k \in 1..n \/ k = n + 1)
      BY <1>1, <3>1
    <3>3. QED
      BY <1>1, <2>2, <2>4, <3>1, <3>2
  <2>6. QED
    BY <2>2, <2>3, <2>5 DEF r
<1>5. CASE ~(s = <<>> \/ image.end >= Last(s).end)
  <2> DEFINE earlier == {k \in DOMAIN s : s[k].end < image.end}
             front == SubSeq(s, 1, m)
             back == SubSeq(s, m + 1, n)
  <2>1. earlier = 1..m
    <3>1. \A k \in 1..n : k \in 1..m \/ k \in (m + 1)..n
      BY <1>1
    <3>2. \A k \in 1..m : k \in 1..n
      BY <1>1
    <3>3. \A k \in (m + 1)..n : ~(s[k].end < image.end)
      <4>1. \A k \in (m + 1)..n : k \in 1..n
        BY <1>1
      <4>2. QED
        BY <1>2, <1>3, <4>1
    <3>4. QED
      BY <1>1, <1>3, <3>1, <3>2, <3>3
  <2>2. Cardinality(earlier) = m
    <3>1. m \in Nat
      BY <1>1
    <3>2. Cardinality(1..m) = m
      BY <3>1, FS_Interval
    <3> HIDE DEF earlier
    <3>3. QED
      BY <2>1, <3>2
  <2>3. r = front \o <<image>> \o back
    <3>1. r = InsertAt(s, m + 1, image)
      BY <1>5, <2>2 DEF AddImage
    <3>2. (m + 1) - 1 = m
      BY <1>1
    <3>3. InsertAt(s, m + 1, image) = SubSeq(s, 1, (m + 1) - 1) \o <<image>> \o SubSeq(s, m + 1, Len(s))
      BY DEF InsertAt
    <3>4. SubSeq(s, 1, (m + 1) - 1) = front /\ SubSeq(s, m + 1, Len(s)) = back
      BY <3>2 DEF n
    <3>5. QED
      BY <3>1, <3>3, <3>4
  <2>4. front \in Seq(ImageState) /\ Len(front) = m /\ \A i \in 1..m : front[i] = s[i]
    <3>1. \A i \in 1..m : s[i] \in ImageState
      BY <1>1
    <3>2. /\ front \in Seq(ImageState) /\ Len(front) = IF 1 <= m THEN m - 1 + 1 ELSE 0
          /\ \A i \in 1 .. m - 1 + 1 : front[i] = s[1 + i - 1]
      BY <3>1, SubSeqProperties
    <3>3. QED
      BY <3>2
  <2>5. back \in Seq(ImageState) /\ Len(back) = n - m /\ \A i \in 1..(n - m) : back[i] = s[m + i]
    <3>1. \A i \in (m + 1)..n : s[i] \in ImageState
      BY <1>1
    <3>2. /\ back \in Seq(ImageState) /\ Len(back) = IF m + 1 <= n THEN n - (m + 1) + 1 ELSE 0
          /\ \A i \in 1 .. n - (m + 1) + 1 : back[i] = s[m + 1 + i - 1]
      BY <1>1, <3>1, SubSeqProperties
    <3>3. QED
      BY <1>1, <3>2
  <2> HIDE DEF r, front, back
  <2> DEFINE half == front \o <<image>>
  <2>6. /\ <<image>> \in Seq(ImageState) /\ Len(<<image>>) = 1 /\ <<image>>[1] = image
    OBVIOUS
  <2>7. /\ half \in Seq(ImageState) /\ Len(half) = m + 1
        /\ \A i \in 1..(m + 1) : half[i] = IF i <= m THEN s[i] ELSE image
    <3>1. /\ half \in Seq(ImageState) /\ Len(half) = m + 1
          /\ \A i \in 1..(m + 1) : half[i] = IF i <= m THEN front[i] ELSE <<image>>[i - m]
      BY <2>4, <2>6, ConcatProperties
    <3>2. \A i \in 1..(m + 1) : (i <= m => i \in 1..m) /\ (~(i <= m) => i - m = 1)
      OBVIOUS
    <3>3. QED
      BY <2>4, <2>6, <3>1, <3>2
  <2> HIDE DEF half
  <2>8. /\ r \in Seq(ImageState) /\ Len(r) = n + 1
        /\ \A i \in 1..(n + 1) : r[i] = IF i <= m THEN s[i] ELSE IF i = m + 1 THEN image ELSE s[i - 1]
    <3> DEFINE joined == half \o back
    <3>0. r = joined
      BY <2>3 DEF half
    <3>1. /\ joined \in Seq(ImageState) /\ Len(joined) = (m + 1) + (n - m)
          /\ \A i \in 1..((m + 1) + (n - m)) : joined[i] = IF i <= m + 1 THEN half[i] ELSE back[i - (m + 1)]
      <4>1. /\ joined \in Seq(ImageState) /\ Len(joined) = Len(half) + Len(back)
            /\ \A i \in 1..(Len(half) + Len(back)) :
                 joined[i] = IF i <= Len(half) THEN half[i] ELSE back[i - Len(half)]
        BY <2>5, <2>7, ConcatProperties
      <4> HIDE DEF joined
      <4>2. QED
        BY <2>5, <2>7, <4>1
    <3> HIDE DEF joined
    <3>2. \A i \in 1..(n + 1) : /\ i <= m + 1 => i \in 1..(m + 1)
                                /\ ~(i <= m + 1) => i - (m + 1) \in 1..(n - m) /\ m + (i - (m + 1)) = i - 1
                                /\ ~(i <= m + 1) => ~(i <= m) /\ i # m + 1
      BY <1>1
    <3>3. (m + 1) + (n - m) = n + 1
      BY <1>1
    <3>4. \A i \in 1..(n + 1) : i <= m + 1 => r[i] = IF i <= m THEN s[i] ELSE image
      BY <2>7, <3>0, <3>1, <3>2, <3>3
    <3>5. \A i \in 1..(n + 1) : ~(i <= m + 1) => r[i] = s[i - 1]
      BY <2>5, <3>0, <3>1, <3>2, <3>3
    <3>6. \A i \in 1..(n + 1) : i <= m + 1 /\ ~(i <= m) => i = m + 1
      BY <1>1
    <3>7. \A i \in 1..(n + 1) : r[i] = IF i <= m THEN s[i] ELSE IF i = m + 1 THEN image ELSE s[i - 1]
      BY <1>1, <3>2, <3>4, <3>5, <3>6
    <3>8. QED
      BY <3>0, <3>1, <3>3, <3>7
  <2>9. DOMAIN r = 1..(n + 1)
    BY <2>8, LenProperties
  <2>10. \A j, k \in 1..(n + 1) : j < k => r[j].end < r[k].end
    <3>1. SUFFICES ASSUME NEW j \in 1..(n + 1), NEW k \in 1..(n + 1), j < k PROVE r[j].end < r[k].end
      OBVIOUS
    <3>2. CASE k <= m
      <4>1. j \in 1..n /\ k \in 1..n /\ j <= m
        BY <1>1, <3>1, <3>2
      <4>2. QED
        BY <1>1, <2>8, <3>1, <3>2, <4>1
    <3>3. CASE k = m + 1
      <4>1. j \in 1..m /\ j <= m
        BY <1>1, <3>1, <3>3
      <4>2. r[j] = s[j] /\ r[k] = image
        BY <2>8, <3>3, <4>1
      <4>3. QED
        BY <1>3, <4>1, <4>2
    <3>4. CASE k > m + 1
      <4>1. k - 1 \in 1..n /\ k - 1 \in (m + 1)..n /\ r[k] = s[k - 1]
        BY <1>1, <2>8, <3>4
      <4>2. CASE j <= m
        <5>1. j \in 1..n /\ j < k - 1 /\ r[j] = s[j]
          BY <1>1, <2>8, <3>4, <4>2
        <5>2. QED
          BY <1>1, <4>1, <5>1
      <4>3. CASE j = m + 1
        BY <1>3, <2>8, <4>1, <4>3
      <4>4. CASE j > m + 1
        <5>1. j - 1 \in 1..n /\ j - 1 < k - 1 /\ r[j] = s[j - 1]
          BY <1>1, <2>8, <3>1, <4>4
        <5>2. QED
          BY <1>1, <4>1, <5>1
      <4>5. QED
        BY <1>1, <4>2, <4>3, <4>4
    <3>5. QED
      BY <1>1, <3>2, <3>3, <3>4
  <2>11. QED
    BY <2>8, <2>9, <2>10 DEF r
<1>6. QED
  BY <1>4, <1>5

(* A part of some rows, and what is found in it. *)
IsPart(part, S, rows, a, b) ==
  /\ part \in Seq(S) /\ Len(part) = b - a + 1 /\ part # <<>>
  /\ \A i \in 1..(b - a + 1) : part[i] = rows[a + i - 1]
  /\ \A column : \A i \in 1..(b - a + 1) : i \in Hits(part, column) <=> a + i - 1 \in Hits(rows, column)

LEMMA PartOf ==
  ASSUME NEW S, NEW rows \in Seq(S), NEW a \in Nat \ {0}, NEW b \in Nat, a <= b, b <= Len(rows)
  PROVE  IsPart(SubSeq(rows, a, b), S, rows, a, b)
<1> DEFINE part == SubSeq(rows, a, b)
<1>1. Len(rows) \in Nat /\ DOMAIN rows = 1..Len(rows)
  BY LenProperties
<1>2. \A i \in a..b : rows[i] \in S
  <2>1. \A i \in a..b : i \in 1..Len(rows)
    BY <1>1
  <2>2. QED
    BY <2>1, ElementOfSeq
<1>3. /\ part \in Seq(S) /\ Len(part) = b - a + 1
      /\ \A i \in 1..(b - a + 1) : part[i] = rows[a + i - 1]
  BY <1>2, SubSeqProperties
<1> HIDE DEF part
<1>4. DOMAIN part = 1..(b - a + 1)
  BY <1>3, LenProperties
<1>5. part # <<>>
  <2>1. Len(part) # 0
    BY <1>3
  <2>2. QED
    BY <2>1, EmptySeq
<1>6. \A column : \A i \in 1..(b - a + 1) : i \in Hits(part, column) <=> a + i - 1 \in Hits(rows, column)
  <2>1. \A i \in 1..(b - a + 1) : a + i - 1 \in DOMAIN rows
    BY <1>1
  <2>2. QED
    BY <1>3, <1>4, <2>1 DEF Hits
<1>7. QED
  BY <1>3, <1>5, <1>6 DEF part, IsPart

(* What comes after the first event is removed, if there is one. *)
LEMMA CutAfter ==
  ASSUME NEW S, NEW rows \in Seq(S), rows # <<>>, NEW column
  PROVE  \E e \in 1..Len(rows) :
           /\ RemoveAfter(rows, column) = SubSeq(rows, 1, e)
           /\ \A k \in 1..(e - 1) : k \notin Hits(rows, column)
           /\ e = Len(rows) \/ e \in Hits(rows, column)
<1> DEFINE n == Len(rows)
<1>1. n \in Nat \ {0} /\ DOMAIN rows = 1..n
  BY EmptySeq, LenProperties
<1> HIDE DEF n
<1>2. Hits(rows, column) \subseteq 1..n
  BY <1>1 DEF Hits
<1>3. CASE Hits(rows, column) = {}
  <2>1. RemoveAfter(rows, column) = SubSeq(rows, 1, n)
    BY <1>3, SubSeqFull DEF RemoveAfter, n
  <2>2. n \in 1..n
    BY <1>1
  <2>3. QED
    BY <1>3, <2>1, <2>2 DEF n
<1>4. CASE Hits(rows, column) # {}
  <2> DEFINE e == Min(Hits(rows, column))
  <2>1. e \in Hits(rows, column) /\ \A k \in Hits(rows, column) : e <= k
    <3>1. Hits(rows, column) \in SUBSET Nat
      BY <1>1, <1>2
    <3>2. QED
      BY <1>4, <3>1, LeastOf
  <2>2. RemoveAfter(rows, column) = SubSeq(rows, 1, e)
    BY <1>4 DEF RemoveAfter
  <2> HIDE DEF e
  <2>3. e \in 1..n /\ \A k \in 1..(e - 1) : ~(e <= k)
    BY <1>1, <1>2, <2>1
  <2>4. QED
    BY <2>1, <2>2, <2>3 DEF n
<1>5. QED
  BY <1>3, <1>4

(* What is kept of some rows: from the first that is relevant to the first event. *)
LEMMA RowsKept ==
  ASSUME NEW S, NEW rows \in Seq(S), NEW d \in 1..Len(rows), Hits(rows, "relevant") = d..Len(rows),
         \A k \in d..Len(rows) : k \notin Hits(rows, "black")
  PROVE  \E e \in d..Len(rows) :
           /\ Modified(rows) = SubSeq(rows, d, e)
           /\ \A k \in d..(e - 1) : k \notin Hits(rows, "incident") /\ k \notin Hits(rows, "far")
           /\ e = Len(rows) \/ e \in Hits(rows, "incident") \/ e \in Hits(rows, "far")
<1> DEFINE n == Len(rows)
           driven == RemoveBefore(rows, "relevant")
           shown == RemoveIfAny(driven, "black")
<1>1. n \in Nat /\ d \in Nat \ {0} /\ d <= n
  BY LenProperties
<1> HIDE DEF n
<1>2. driven = SubSeq(rows, d, n)
  <2>1. d \in d..n
    BY <1>1
  <2>2. d..n \in SUBSET Nat
    BY <1>1
  <2>3. Min(d..n) \in d..n /\ \A k \in d..n : Min(d..n) <= k
    BY <2>1, <2>2, LeastOf
  <2>4. Min(d..n) = d
    BY <1>1, <2>1, <2>3
  <2>5. Hits(rows, "relevant") # {}
    BY <2>1 DEF n
  <2>6. QED
    BY <2>4, <2>5 DEF RemoveBefore, n
<1>3. /\ driven \in Seq(S) /\ Len(driven) = n - d + 1 /\ driven # <<>>
      /\ \A column : \A i \in 1..(n - d + 1) : i \in Hits(driven, column) <=> d + i - 1 \in Hits(rows, column)
      /\ \A i \in 1..(n - d + 1) : driven[i] = rows[d + i - 1]
  <2>1. n <= Len(rows)
    BY <1>1 DEF n
  <2> DEFINE kept == SubSeq(rows, d, n)
  <2>2. IsPart(kept, S, rows, d, n)
    BY <1>1, <2>1, PartOf
  <2> HIDE DEF kept, driven
  <2>3. driven = kept
    BY <1>2 DEF kept
  <2>4. QED
    BY <2>2, <2>3 DEF IsPart
<1>4. shown = driven
  <2>1. Hits(driven, "black") \subseteq 1..(n - d + 1)
    BY <1>3, LenProperties DEF Hits
  <2>2. \A i \in 1..(n - d + 1) : d + i - 1 \in d..n
    BY <1>1
  <2>3. Hits(driven, "black") = {}
    BY <1>3, <2>1, <2>2 DEF n
  <2>4. QED
    BY <2>3 DEF RemoveIfAny
<1>5. Modified(rows) = RemoveAfter(RemoveAfter(driven, "incident"), "far")
  BY <1>4 DEF Modified
<1> HIDE DEF driven, shown
<1>6. PICK f \in 1..(n - d + 1) :
        /\ RemoveAfter(driven, "incident") = SubSeq(driven, 1, f)
        /\ \A k \in 1..(f - 1) : k \notin Hits(driven, "incident")
        /\ f = n - d + 1 \/ f \in Hits(driven, "incident")
  BY <1>3, CutAfter
<1> DEFINE part == SubSeq(driven, 1, f)
<1>7. /\ part \in Seq(S) /\ Len(part) = f /\ part # <<>>
      /\ \A column : \A i \in 1..f : i \in Hits(part, column) <=> i \in Hits(driven, column)
  <2>0. 1 \in Nat \ {0} /\ f \in Nat /\ 1 <= f /\ f <= Len(driven)
    BY <1>1, <1>3
  <2>1. IsPart(part, S, driven, 1, f)
    BY <1>3, <2>0, PartOf
  <2>2. f - 1 + 1 = f /\ \A i \in 1..f : 1 + i - 1 = i
    BY <1>1
  <2> HIDE DEF part
  <2>3. QED
    BY <2>1, <2>2 DEF IsPart
<1>8. PICK g \in 1..f :
        /\ RemoveAfter(part, "far") = SubSeq(part, 1, g)
        /\ \A k \in 1..(g - 1) : k \notin Hits(part, "far")
        /\ g = f \/ g \in Hits(part, "far")
  BY <1>7, CutAfter
<1> DEFINE e == d + g - 1
<1>9. e \in d..n /\ f \in 1..(n - d + 1) /\ g \in 1..f
  BY <1>1
<1>10. Modified(rows) = SubSeq(rows, d, e)
  <2>1. Modified(rows) = SubSeq(SubSeq(SubSeq(rows, d, n), 1, f), 1, g)
    BY <1>2, <1>5, <1>6, <1>8
  <2>2. SubSeq(SubSeq(rows, d, n), 1, f) = SubSeq(rows, d, d + f - 1)
    <3>1. d \in 1..n /\ n \in 1..n /\ 1 \in 1..(n - d + 1) /\ d + 1 - 1 = d
      BY <1>1
    <3>2. SubSeq(SubSeq(rows, d, n), 1, f) = SubSeq(rows, d + 1 - 1, d + f - 1)
      BY <3>1, SubSeqOfSubSeq DEF n
    <3>3. QED
      BY <3>1, <3>2
  <2>3. SubSeq(SubSeq(rows, d, d + f - 1), 1, g) = SubSeq(rows, d, e)
    <3>1. /\ d \in 1..n /\ d + f - 1 \in 1..n /\ 1 \in 1..((d + f - 1) - d + 1) /\ g \in 1..((d + f - 1) - d + 1)
          /\ d + 1 - 1 = d
      BY <1>1
    <3>2. SubSeq(SubSeq(rows, d, d + f - 1), 1, g) = SubSeq(rows, d + 1 - 1, d + g - 1)
      BY <3>1, SubSeqOfSubSeq DEF n
    <3>3. QED
      BY <3>1, <3>2
  <2>4. QED
    BY <2>1, <2>2, <2>3
<1>11. ASSUME NEW k \in d..(e - 1)
       PROVE  k \notin Hits(rows, "incident") /\ k \notin Hits(rows, "far")
  <2> DEFINE i == k - d + 1
  <2>1. i \in 1..(g - 1) /\ i \in 1..(f - 1) /\ i \in 1..f /\ i \in 1..(n - d + 1) /\ d + i - 1 = k
    BY <1>1
  <2> HIDE DEF i
  <2>2. i \notin Hits(driven, "incident") /\ i \notin Hits(driven, "far")
    BY <1>6, <1>7, <1>8, <2>1
  <2>3. QED
    BY <1>3, <2>1, <2>2
<1>12. e = n \/ e \in Hits(rows, "incident") \/ e \in Hits(rows, "far")
  <2>1. g \in 1..f /\ g \in 1..(n - d + 1)
    BY <1>1
  <2>2. CASE g = f
    <3>1. f = n - d + 1 => e = n
      BY <1>1, <2>2
    <3>2. QED
      BY <1>3, <1>6, <2>1, <2>2, <3>1
  <2>3. CASE g \in Hits(part, "far")
    BY <1>3, <1>7, <2>1, <2>3
  <2>4. QED
    BY <1>8, <2>2, <2>3
<1>13. QED
  BY <1>9, <1>10, <1>11, <1>12 DEF n

(* A black frame that was shown to the driver leaves none. *)
LEMMA RowsDropped ==
  ASSUME NEW S, NEW rows \in Seq(S), NEW d \in 1..Len(rows), Hits(rows, "relevant") = d..Len(rows),
         NEW k \in d..Len(rows), k \in Hits(rows, "black")
  PROVE  Modified(rows) = <<>>
<1> DEFINE n == Len(rows)
           driven == RemoveBefore(rows, "relevant")
<1>1. n \in Nat /\ d \in Nat \ {0} /\ d <= n
  BY LenProperties
<1> HIDE DEF n
<1>2. driven = SubSeq(rows, d, n)
  <2>1. d \in d..n
    BY <1>1
  <2>2. d..n \in SUBSET Nat
    BY <1>1
  <2>3. Min(d..n) \in d..n /\ \A j \in d..n : Min(d..n) <= j
    BY <2>1, <2>2, LeastOf
  <2>4. Min(d..n) = d
    BY <1>1, <2>1, <2>3
  <2>5. Hits(rows, "relevant") # {}
    BY <2>1 DEF n
  <2>6. QED
    BY <2>4, <2>5 DEF RemoveBefore, n
<1>3. \A i \in 1..(n - d + 1) : i \in Hits(driven, "black") <=> d + i - 1 \in Hits(rows, "black")
  <2>1. n <= Len(rows)
    BY <1>1 DEF n
  <2> DEFINE kept == SubSeq(rows, d, n)
  <2>2. IsPart(kept, S, rows, d, n)
    BY <1>1, <2>1, PartOf
  <2> HIDE DEF kept, driven
  <2>3. driven = kept
    BY <1>2 DEF kept
  <2>4. QED
    BY <2>2, <2>3 DEF IsPart
<1>4. k - d + 1 \in 1..(n - d + 1) /\ d + (k - d + 1) - 1 = k
  BY <1>1 DEF n
<1> HIDE DEF driven
<1>5. k - d + 1 \in Hits(driven, "black")
  BY <1>3, <1>4
<1>6. RemoveIfAny(driven, "black") = <<>>
  BY <1>5 DEF RemoveIfAny
<1>7. \A column : RemoveAfter(<<>>, column) = <<>>
  <2>1. \A column : Hits(<<>>, column) = {}
    BY DEF Hits
  <2>2. QED
    BY <2>1 DEF RemoveAfter
<1>8. QED
  BY <1>6, <1>7 DEF Modified, driven

(* Multiples of a control step. *)
LEMMA StepsApart ==
  ASSUME NEW a \in Int, NEW b \in Int, NEW c \in Nat \ {0}, a > b
  PROVE  a * c >= b * c + c
<1> DEFINE t == a - b - 1
<1>1. t \in Nat /\ a = (b + 1) + t
  OBVIOUS
<1> HIDE DEF t
<1>2. a * c = (b + 1) * c + t * c
  BY <1>1
<1>3. (b + 1) * c = b * c + c
  OBVIOUS
<1>4. t * c >= 0
  BY <1>1
<1>5. t * c \in Int /\ b * c \in Int
  BY <1>1
<1>6. QED
  BY <1>2, <1>3, <1>4, <1>5

LEMMA WholeSteps ==
  ASSUME NEW f \in Nat, NEW c \in Nat \ {0}, f % c = 0
  PROVE  \E q \in Nat : f = q * c
<1> DEFINE q == f \div c
<1>1. f = c * q + (f % c)
  OBVIOUS
<1>2. q \in Nat
  OBVIOUS
<1> HIDE DEF q
<1>3. f = q * c
  BY <1>1, <1>2
<1>4. QED
  BY <1>2, <1>3

(* The driver's own steps are the rows that ScenarioEvaluator marks. *)
LEMMA HandoverIsMarked ==
  ASSUME EvaluationAssumption, EvaluationTypeOK, PosesFit, HandoverFits, Driven # {}
  PROVE  \E d \in 3..Len(poses) :
           Driven = d..Len(poses) /\ {k \in 1..Len(poses) : Relevant(poses[k])} = d..Len(poses)
<1> DEFINE n == Len(poses)
           c == timing.control
           r == timing.renderStart
<1>1. timing \in Timing
  BY DEF EvaluationAssumption, EvaluationTypeOK
<1>2. /\ c \in Nat \ {0} /\ r \in Nat /\ timing.force \in Nat /\ r < c
      /\ timing.firstPolicy = r /\ timing.force % c = 0
  BY <1>1 DEF Timing, HandoverFits
<1>3. n \in Nat /\ n >= 2
  BY LenProperties DEF EvaluationTypeOK
<1>4. PICK q \in Nat : timing.force = q * c
  BY <1>2, WholeSteps
<1>5. poses[1].at = 0 /\ \A k \in 2..n : poses[k].at = r + (k - 2) * c
  BY <1>2 DEF PosesFit
<1> HIDE DEF c, r, n
<1>6. ASSUME NEW k \in 3..n
      PROVE  /\ poses[k].at > r + timing.force <=> k >= q + 3
             /\ poses[k].at >= timing.force + c <=> k >= q + 3
  <2> DEFINE a == k - 2
  <2>1. a \in Nat /\ poses[k].at = r + a * c /\ (k >= q + 3 <=> a > q)
    BY <1>2, <1>3, <1>5
  <2> HIDE DEF a
  <2>2. a * c \in Int /\ q * c \in Int
    BY <1>2, <2>1
  <2>3. CASE a > q
    <3>1. a * c >= q * c + c
      BY <1>2, <2>1, <2>3, StepsApart
    <3>2. QED
      BY <1>2, <1>4, <2>1, <2>2, <2>3, <3>1
  <2>4. CASE a = q
    BY <1>2, <1>4, <2>1, <2>2, <2>4
  <2>5. CASE a < q
    <3>1. q * c >= a * c + c
      BY <1>2, <2>1, <2>5, StepsApart
    <3>2. QED
      BY <1>2, <1>4, <2>1, <2>2, <2>5, <3>1
  <2>6. QED
    BY <2>1, <2>3, <2>4, <2>5
<1>7. Driven = {k \in 3..n : poses[k].at > r + timing.force}
  BY DEF Driven, n, r
<1>8. PICK b \in 3..n : b >= q + 3
  BY <1>6, <1>7
<1> DEFINE d == q + 3
<1>9. d \in 3..n /\ \A k \in 3..n : k >= d <=> k \in d..n
  BY <1>3, <1>8
<1>10. Driven = d..n
  <2>1. \A k \in d..n : k \in 3..n /\ k >= d
    BY <1>3
  <2>2. QED
    BY <1>6, <1>7, <1>9, <2>1
<1>11. \A k \in 1..2 : ~(poses[k].at >= timing.force + c)
  <2>1. poses[2].at = r
    <3>1. 2 \in 2..n /\ 2 - 2 = 0 /\ 0 * c = 0
      BY <1>2, <1>3
    <3>2. QED
      BY <1>2, <1>5, <3>1
  <2>2. ~(poses[1].at >= timing.force + c) /\ ~(poses[2].at >= timing.force + c)
    BY <1>2, <1>5, <2>1
  <2>3. \A k \in 1..2 : k = 1 \/ k = 2
    OBVIOUS
  <2>4. QED
    BY <2>2, <2>3
<1>12. {k \in 1..n : Relevant(poses[k])} = d..n
  <2>1. \A k \in 1..n : Relevant(poses[k]) <=> poses[k].at >= timing.force + c
    BY DEF Relevant, FirstDriven, c
  <2>2. \A k \in 1..n : k \in 1..2 \/ k \in 3..n
    BY <1>3
  <2>3. \A k \in d..n : k \in 1..n /\ k \in 3..n /\ k >= d
    BY <1>3
  <2>4. QED
    BY <1>6, <1>9, <1>11, <2>1, <2>2, <2>3
<1>13. QED
  BY <1>9, <1>10, <1>12 DEF n

(* What the scorers find at the times of a rollout for which none raised. *)
RowsOf == [k \in DOMAIN poses |-> Row(poses[k], "none")]

LEMMA RowsFit ==
  ASSUME EvaluationAssumption, EvaluationTypeOK, PosesFit
  PROVE  /\ RowsOf \in Seq({RowsOf[k] : k \in 1..Len(poses)}) /\ Len(RowsOf) = Len(poses)
         /\ \A k \in 1..Len(poses) : RowsOf[k].at = poses[k].at
         /\ \A k \in 1..Len(poses) : k \in Hits(RowsOf, "relevant") <=> Relevant(poses[k])
         /\ \A k \in 1..Len(poses) :
              k \in Hits(RowsOf, "black") <=> \E image \in ImageAt(poses[k].at) : image.black
         /\ \A k \in 3..Len(poses) :
              /\ k \in Hits(RowsOf, "incident") <=> Happened(k)
              /\ k \in Hits(RowsOf, "far") <=> poses[k].met.far
              /\ k \in Hits(RowsOf, "offroad") <=> poses[k].met.offroad
              /\ k \in Hits(RowsOf, "atFault") <=> poses[k].last \in {"front", "lateral"}
         /\ \A column : Hits(RowsOf, column) \subseteq 1..Len(poses)
<1> DEFINE n == Len(poses)
           S == {RowsOf[k] : k \in 1..n}
<1>1. n \in Nat /\ DOMAIN poses = 1..n
  BY LenProperties DEF EvaluationTypeOK
<1> HIDE DEF n
<1>2. RowsOf \in [1..n -> S]
  BY <1>1 DEF RowsOf
<1>3. RowsOf \in Seq(S) /\ Len(RowsOf) = n
  <2>1. RowsOf \in Seq(S)
    BY <1>1, <1>2, SeqDef
  <2>2. DOMAIN RowsOf = 1..n
    BY <1>2
  <2>3. QED
    BY <1>1, <2>1, <2>2, LenProperties
<1>4. DOMAIN RowsOf = 1..n /\ \A k \in 1..n : RowsOf[k] = Row(poses[k], "none")
  BY <1>1 DEF RowsOf
<1>5. \A column : \A k \in 1..n : k \in Hits(RowsOf, column) <=> Row(poses[k], "none")[column]
  BY <1>4 DEF Hits
<1>6. \A k \in 1..n : RowsOf[k].at = poses[k].at
  BY <1>4 DEF Row
<1>7. \A k \in 1..n : k \in Hits(RowsOf, "relevant") <=> Relevant(poses[k])
  <2>1. \A k \in 1..n : Row(poses[k], "none")["relevant"] = Relevant(poses[k])
    BY DEF Row
  <2>2. QED
    BY <1>5, <2>1, Zenon
<1>8. \A k \in 1..n : k \in Hits(RowsOf, "black") <=> \E image \in ImageAt(poses[k].at) : image.black
  <2>1. \A k \in 1..n : Row(poses[k], "none")["black"] = SawBlack(poses[k], "none")
    BY DEF Row
  <2>2. \A k \in 1..n : SawBlack(poses[k], "none") <=> \E image \in ImageAt(poses[k].at) : image.black
    BY DEF SawBlack
  <2>3. QED
    BY <1>5, <2>1, <2>2, Zenon
<1>9. ASSUME NEW k \in 3..n
      PROVE  /\ k \in Hits(RowsOf, "incident") <=> Happened(k)
             /\ k \in Hits(RowsOf, "far") <=> poses[k].met.far
             /\ k \in Hits(RowsOf, "offroad") <=> poses[k].met.offroad
             /\ k \in Hits(RowsOf, "atFault") <=> poses[k].last \in {"front", "lateral"}
  <2>1. k \in 1..n
    BY <1>1
  <2>2. poses[k].last # "none" <=> poses[k].met.touched # {}
    <3>1. poses[k].met \in Situations
      BY DEF PosesFit, n
    <3>2. poses[k].met.touched \subseteq Sides
      BY <3>1 DEF EvaluationAssumption
    <3>3. IF poses[k].met.touched = {} THEN poses[k].last = "none" ELSE poses[k].last \in poses[k].met.touched
      BY DEF PosesFit, n
    <3>4. QED
      BY <3>2, <3>3 DEF Sides
  <2>3. OffRoad(poses[k], "none") <=> poses[k].met.offroad
    BY DEF OffRoad
  <2>4. /\ Row(poses[k], "none")["incident"] <=> poses[k].last # "none" \/ OffRoad(poses[k], "none")
        /\ Row(poses[k], "none")["far"] = poses[k].met.far
        /\ Row(poses[k], "none")["offroad"] = OffRoad(poses[k], "none")
        /\ Row(poses[k], "none")["atFault"] <=> poses[k].last \in {"front", "lateral"}
    BY DEF Row
  <2>5. QED
    BY <1>5, <2>1, <2>2, <2>3, <2>4 DEF Happened
<1>10. \A column : Hits(RowsOf, column) \subseteq 1..n
  BY <1>4 DEF Hits
<1>11. QED
  BY <1>3, <1>6, <1>7, <1>8, <1>9, <1>10 DEF n

(* What is found in a part of some rows that ends where the only find may be. *)
LEMMA OnlyAtTheEnd ==
  ASSUME NEW S, NEW rows, NEW part, NEW d \in Nat \ {0}, NEW e \in Nat, d <= e, IsPart(part, S, rows, d, e),
         NEW column, \A k \in d..(e - 1) : k \notin Hits(rows, column)
  PROVE  Hits(part, column) # {} <=> e \in Hits(rows, column)
<1>1. DOMAIN part = 1..(e - d + 1)
  BY LenProperties DEF IsPart
<1>2. \A i \in 1..(e - d + 1) : i \in Hits(part, column) <=> d + i - 1 \in Hits(rows, column)
  BY DEF IsPart
<1>3. Hits(part, column) \subseteq 1..(e - d + 1)
  BY <1>1 DEF Hits
<1>4. e - d + 1 \in 1..(e - d + 1) /\ d + (e - d + 1) - 1 = e
  OBVIOUS
<1>5. \A i \in 1..(e - d + 1) : i # e - d + 1 => d + i - 1 \in d..(e - 1)
  OBVIOUS
<1>6. \A i \in 1..(e - d + 1) : i # e - d + 1 => i \notin Hits(part, column)
  BY <1>2, <1>5
<1>7. e - d + 1 \in Hits(part, column) <=> e \in Hits(rows, column)
  BY <1>2, <1>4
<1>8. QED
  BY <1>3, <1>6, <1>7

(* What ReportOf says of the driven steps when no scorer raised. *)
Counts(d, e) ==
  /\ e \in d..Len(poses)
  /\ \A k \in d..(e - 1) : ~Happened(k) /\ ~poses[k].met.far
  /\ e = Len(poses) \/ Happened(e) \/ poses[e].met.far

LEMMA DrivenRowsAreKept ==
  ASSUME EvaluationAssumption, EvaluationTypeOK, PosesFit, NEW d \in 3..Len(poses),
         {k \in 1..Len(poses) : Relevant(poses[k])} = d..Len(poses)
  PROVE  /\ (\E k \in d..Len(poses) : \E image \in ImageAt(poses[k].at) : image.black) => Modified(RowsOf) = <<>>
         /\ (\A k \in d..Len(poses) : ~\E image \in ImageAt(poses[k].at) : image.black) =>
              \E e \in d..Len(poses) : Counts(d, e) /\ Modified(RowsOf) = SubSeq(RowsOf, d, e)
<1> DEFINE n == Len(poses)
           S == {RowsOf[k] : k \in 1..n}
           black(k) == \E image \in ImageAt(poses[k].at) : image.black
<1>1. n \in Nat /\ d \in 1..n
  BY LenProperties DEF EvaluationTypeOK
<1>2. /\ RowsOf \in Seq(S) /\ Len(RowsOf) = n
      /\ \A k \in 1..n : k \in Hits(RowsOf, "relevant") <=> Relevant(poses[k])
      /\ \A k \in 1..n : k \in Hits(RowsOf, "black") <=> black(k)
      /\ \A k \in 3..n : /\ k \in Hits(RowsOf, "incident") <=> Happened(k)
                         /\ k \in Hits(RowsOf, "far") <=> poses[k].met.far
      /\ \A column : Hits(RowsOf, column) \subseteq 1..n
  BY RowsFit, Zenon
<1> HIDE DEF S, black
<1>3. {k \in 1..n : Relevant(poses[k])} = d..n
  OBVIOUS
<1> HIDE DEF n
<1>4. Hits(RowsOf, "relevant") = d..Len(RowsOf)
  <2>1. Hits(RowsOf, "relevant") \subseteq 1..n
    BY <1>2
  <2>2. QED
    BY <1>2, <1>3, <2>1
<1>5. \A k \in d..n : k \in 1..n /\ k \in 3..n
  BY <1>1
<1>6. ASSUME NEW k \in d..n, black(k) PROVE Modified(RowsOf) = <<>>
  <2>1. k \in Hits(RowsOf, "black")
    BY <1>2, <1>5, <1>6
  <2>2. QED
    BY <1>1, <1>2, <1>4, <2>1, RowsDropped
<1>7. ASSUME \A k \in d..n : ~black(k)
      PROVE  \E e \in d..n : Counts(d, e) /\ Modified(RowsOf) = SubSeq(RowsOf, d, e)
  <2>1. \A k \in d..n : k \notin Hits(RowsOf, "black")
    BY <1>2, <1>5, <1>7
  <2>2. PICK e \in d..n :
          /\ Modified(RowsOf) = SubSeq(RowsOf, d, e)
          /\ \A k \in d..(e - 1) : k \notin Hits(RowsOf, "incident") /\ k \notin Hits(RowsOf, "far")
          /\ e = n \/ e \in Hits(RowsOf, "incident") \/ e \in Hits(RowsOf, "far")
    BY <1>1, <1>2, <1>4, <2>1, RowsKept
  <2>3. \A k \in d..(e - 1) : k \in 3..n
    BY <1>1
  <2>4. Counts(d, e)
    BY <1>2, <1>5, <2>2, <2>3 DEF Counts, n
  <2>5. QED
    BY <2>2, <2>4
<1>8. QED
  BY <1>6, <1>7 DEF black, n

LEMMA CountedStepsAre ==
  ASSUME EvaluationTypeOK, NEW d \in 3..Len(poses), Driven = d..Len(poses), NEW e, Counts(d, e)
  PROVE  Max(Counted) = e
<1> DEFINE n == Len(poses)
<1>1. n \in Nat /\ e \in d..n
  BY LenProperties DEF EvaluationTypeOK, Counts
<1> HIDE DEF n
<1>2. Driven = d..n /\ d \in 3..n
  BY DEF n
<1>3. /\ \A k \in d..(e - 1) : ~Happened(k) /\ ~poses[k].met.far
      /\ e = n \/ Happened(e) \/ poses[e].met.far
  BY DEF Counts, n
<1>4. \A k \in Counted : k \in d..n /\ k <= e
  <2>1. SUFFICES ASSUME NEW k \in Counted PROVE k \in d..n /\ k <= e
    OBVIOUS
  <2>2. k \in d..n /\ \A j \in d..n : j < k => ~Happened(j) /\ ~poses[j].met.far
    BY <1>2, <2>1 DEF Counted
  <2>3. QED
    BY <1>1, <1>2, <1>3, <2>2
<1>5. e \in Counted
  <2>1. \A j \in d..n : j < e => j \in d..(e - 1)
    BY <1>1, <1>2
  <2>2. QED
    BY <1>1, <1>2, <1>3, <2>1 DEF Counted
<1>6. \A m : (m \in Counted /\ \A k \in Counted : m >= k) <=> m = e
  <2>1. e \in Counted /\ \A k \in Counted : e >= k
    BY <1>1, <1>4, <1>5
  <2>2. \A m \in Counted : (\A k \in Counted : m >= k) => m = e
    <3>1. \A m \in Counted : m \in Nat /\ m <= e
      BY <1>1, <1>2, <1>4
    <3>2. e \in Nat
      BY <1>1, <1>2
    <3>3. QED
      BY <1>5, <3>1, <3>2
  <2>3. QED
    BY <2>1, <2>2
<1>7. QED
  BY <1>6 DEF Max

(* The row of the last step that counts is found by its time. *)
LEMMA TimesTell ==
  ASSUME EvaluationAssumption, EvaluationTypeOK, PosesFit, NEW e \in 3..Len(poses)
  PROVE  \A k \in 1..Len(poses) : poses[k].at = poses[e].at <=> k = e
<1> DEFINE n == Len(poses)
           c == timing.control
           r == timing.firstPolicy
<1>1. timing \in Timing
  BY DEF EvaluationAssumption, EvaluationTypeOK
<1>2. c \in Nat \ {0} /\ r \in Nat
  BY <1>1 DEF Timing
<1>3. n \in Nat /\ n >= 2
  BY LenProperties DEF EvaluationTypeOK
<1>4. poses[1].at = 0 /\ \A k \in 2..n : poses[k].at = r + (k - 2) * c
  BY DEF PosesFit
<1> HIDE DEF c, r, n
<1>5. e \in 3..n
  BY DEF n
<1> DEFINE b == e - 2
<1>6. b \in Nat /\ b > 0 /\ poses[e].at = r + b * c
  BY <1>3, <1>4, <1>5
<1>7. b * c \in Int /\ b * c > 0
  <2> HIDE DEF b
  <2>1. b * c >= 0 * c + c
    BY <1>2, <1>6, StepsApart
  <2>2. 0 * c = 0 /\ b * c \in Int
    BY <1>2, <1>6
  <2>3. QED
    BY <1>2, <2>1, <2>2
<1>8. ASSUME NEW k \in 1..n, k # e PROVE poses[k].at # poses[e].at
  <2>1. CASE k = 1
    BY <1>2, <1>4, <1>6, <1>7, <2>1
  <2>2. CASE k # 1
    <3> DEFINE a == k - 2
    <3>0. k \in 2..n
      BY <1>3, <2>2
    <3>1. a \in Nat /\ a # b /\ poses[k].at = r + a * c
      <4>1. a \in Nat /\ a # b
        BY <1>3, <1>5, <1>8, <3>0
      <4>2. poses[k].at = r + (k - 2) * c
        BY <1>4, <3>0
      <4>3. QED
        BY <4>1, <4>2
    <3> HIDE DEF a, b
    <3>2. a * c \in Int
      BY <1>2, <3>1
    <3>3. a > b => a * c >= b * c + c
      BY <1>2, <1>6, <3>1, StepsApart
    <3>4. b > a => b * c >= a * c + c
      BY <1>2, <1>6, <3>1, StepsApart
    <3>5. a > b \/ b > a
      BY <1>6, <3>1
    <3>6. QED
      BY <1>2, <1>6, <1>7, <3>1, <3>2, <3>3, <3>4, <3>5
  <2>3. QED
    BY <2>1, <2>2
<1>9. QED
  BY <1>8 DEF n

(* A rollout is scored by the one step that may be an incident. *)
LEMMA ScoredByTheEnd ==
  ASSUME EvaluationAssumption, EvaluationTypeOK, PosesFit, NEW d \in 3..Len(poses), NEW e, Counts(d, e),
         Modified(RowsOf) = SubSeq(RowsOf, d, e)
  PROVE  LET atFault == poses[e].last \in {"front", "lateral"}
             offroad == poses[e].met.offroad
         IN  /\ Modified(RowsOf) # <<>>
             /\ Scored(RowsOf, "none") =
                  [outcome |-> "scored", failed |-> "none", incident |-> Happened(e), atFault |-> atFault,
                   offroad |-> offroad, score |-> SceneScore(HardFailure(atFault, offroad), e - 2)]
<1> DEFINE n == Len(poses)
           S == {RowsOf[k] : k \in 1..n}
           kept == Modified(RowsOf)
           any(column) == Hits(kept, column) # {}
           last == CHOOSE k \in DOMAIN RowsOf : RowsOf[k].at = Last(kept).at
           atFault == poses[e].last \in {"front", "lateral"}
           offroad == poses[e].met.offroad
<1>1. /\ n \in Nat /\ d \in Nat \ {0} /\ e \in Nat /\ d <= e /\ e <= n /\ e \in 3..n /\ e \in 1..n
  BY LenProperties DEF EvaluationTypeOK, Counts
<1>2. /\ RowsOf \in Seq(S) /\ Len(RowsOf) = n
      /\ \A k \in 1..n : RowsOf[k].at = poses[k].at
      /\ \A k \in 3..n : /\ k \in Hits(RowsOf, "incident") <=> Happened(k)
                         /\ k \in Hits(RowsOf, "offroad") <=> poses[k].met.offroad
                         /\ k \in Hits(RowsOf, "atFault") <=> poses[k].last \in {"front", "lateral"}
  BY RowsFit, Zenon
<1> HIDE DEF S
<1>3. \A k \in 1..n : poses[k].at = poses[e].at <=> k = e
  BY <1>1, TimesTell
<1>4. ASSUME NEW k \in 3..n
      PROVE  /\ ~Happened(k) => poses[k].last = "none" /\ ~poses[k].met.offroad
             /\ poses[k].met.offroad \in BOOLEAN
  <2>1. /\ poses[k].met \in Situations
        /\ IF poses[k].met.touched = {} THEN poses[k].last = "none" ELSE poses[k].last \in poses[k].met.touched
    BY DEF PosesFit
  <2>2. poses[k].met.offroad \in BOOLEAN
    BY <2>1 DEF EvaluationAssumption
  <2>3. QED
    BY <2>1, <2>2, Zenon DEF Happened
<1>5. \A k \in d..(e - 1) : k \in 3..n /\ ~Happened(k) /\ poses[k].last = "none" /\ ~poses[k].met.offroad
  <2>1. \A k \in d..(e - 1) : k \in 3..n /\ ~Happened(k)
    BY <1>1 DEF Counts
  <2>2. QED
    BY <1>4, <2>1, Zenon
<1> HIDE DEF n, kept
<1>6. IsPart(kept, S, RowsOf, d, e)
  <2>1. IsPart(SubSeq(RowsOf, d, e), S, RowsOf, d, e)
    BY <1>1, <1>2, PartOf
  <2>2. kept = SubSeq(RowsOf, d, e)
    BY DEF kept
  <2>3. QED
    BY <2>1, <2>2, Zenon
<1>7. any("incident") <=> Happened(e)
  <2>1. \A k \in d..(e - 1) : k \notin Hits(RowsOf, "incident")
    BY <1>2, <1>5
  <2>2. any("incident") <=> e \in Hits(RowsOf, "incident")
    BY <1>1, <1>6, <2>1, OnlyAtTheEnd
  <2>3. QED
    BY <1>1, <1>2, <2>2
<1>8. any("offroad") <=> offroad
  <2>1. \A k \in d..(e - 1) : k \notin Hits(RowsOf, "offroad")
    BY <1>2, <1>5, Zenon
  <2>2. any("offroad") <=> e \in Hits(RowsOf, "offroad")
    BY <1>1, <1>6, <2>1, OnlyAtTheEnd
  <2>3. QED
    BY <1>1, <1>2, <2>2
<1>9. any("atFault") <=> atFault
  <2>1. \A k \in d..(e - 1) : k \notin Hits(RowsOf, "atFault")
    <3>1. "none" \notin {"front", "lateral"}
      OBVIOUS
    <3>2. QED
      BY <1>2, <1>5, <3>1, Zenon
  <2>2. any("atFault") <=> e \in Hits(RowsOf, "atFault")
    BY <1>1, <1>6, <2>1, OnlyAtTheEnd
  <2>3. QED
    BY <1>1, <1>2, <2>2
<1>10. last = e
  <2>1. Last(kept) = RowsOf[e]
    <3>1. Len(kept) = e - d + 1 /\ e - d + 1 \in 1..(e - d + 1) /\ d + (e - d + 1) - 1 = e
      BY <1>1, <1>6 DEF IsPart
    <3>2. kept[e - d + 1] = RowsOf[d + (e - d + 1) - 1]
      BY <1>6, <3>1 DEF IsPart
    <3>3. QED
      BY <3>1, <3>2 DEF Last
  <2>2. DOMAIN RowsOf = 1..n
    BY <1>2, LenProperties
  <2>3. \A k \in 1..n : RowsOf[k].at = Last(kept).at <=> k = e
    BY <1>1, <1>2, <1>3, <2>1
  <2>4. e \in DOMAIN RowsOf /\ \A k \in DOMAIN RowsOf : RowsOf[k].at = Last(kept).at <=> k = e
    BY <1>1, <2>2, <2>3
  <2> HIDE DEF kept
  <2>5. QED
    BY <2>4
<1>11. Scored(RowsOf, "none") =
         [outcome |-> "scored", failed |-> "none", incident |-> any("incident"), atFault |-> any("atFault"),
          offroad |-> any("offroad"), score |-> SceneScore(HardFailure(any("atFault"), any("offroad")), last - 2)]
  BY DEF Scored, kept
<1>12. kept # <<>>
  BY <1>6 DEF IsPart
<1>13. /\ any("incident") = Happened(e) /\ any("atFault") = atFault /\ any("offroad") = offroad
  <2>1. Happened(e) \in BOOLEAN /\ offroad \in BOOLEAN
    BY <1>1, <1>4, Zenon DEF Happened
  <2>2. QED
    BY <1>7, <1>8, <1>9, <2>1
<1> HIDE DEF any, last, atFault, offroad
<1>14. QED
  BY <1>10, <1>11, <1>12, <1>13 DEF kept, atFault, offroad

LEMMA TheEndIsFair ==
  ASSUME EvaluationAssumption, EvaluationTypeOK, PosesFit, NEW e \in 3..Len(poses),
         NEW verdict,
         verdict = LET atFault == poses[e].last \in {"front", "lateral"}
                       offroad == poses[e].met.offroad
                   IN  [outcome |-> "scored", failed |-> "none", incident |-> Happened(e), atFault |-> atFault,
                        offroad |-> offroad, score |-> SceneScore(HardFailure(atFault, offroad), e - 2)]
  PROVE  Fair(verdict, e)
<1> DEFINE atFault == poses[e].last \in {"front", "lateral"}
           met == poses[e].met
           score == SceneScore(HardFailure(atFault, met.offroad), e - 2)
<1>1. met \in Situations /\ IF met.touched = {} THEN poses[e].last = "none" ELSE poses[e].last \in met.touched
  BY DEF PosesFit
<1>2. met.touched \subseteq Sides
  BY <1>1 DEF EvaluationAssumption
<1>3. /\ verdict.incident = Happened(e) /\ verdict.atFault = atFault /\ verdict.offroad = met.offroad
      /\ verdict.score = score
  OBVIOUS
<1>4. atFault => {"front", "lateral"} \cap met.touched # {}
  BY <1>1
<1>5. Cardinality(met.touched) = 1 /\ "rear" \notin met.touched => atFault
  <2>1. SUFFICES ASSUME Cardinality(met.touched) = 1, "rear" \notin met.touched PROVE atFault
    OBVIOUS
  <2>2. met.touched # {}
    <3>1. Cardinality({}) # 1
      BY FS_EmptySet
    <3> HIDE DEF met
    <3>2. QED
      BY <2>1, <3>1, Zenon
  <2>3. poses[e].last \in Sides /\ poses[e].last # "rear"
    BY <1>1, <1>2, <2>1, <2>2
  <2>4. QED
    BY <2>3 DEF Sides
<1>6. score > 0 => ~atFault /\ ~met.offroad
  BY DEF SceneScore, HardFailure
<1>7. ~atFault /\ ~met.offroad /\ ~timing.short => score = Min({e - 2, Saturation})
  BY DEF SceneScore, HardFailure, ProgressScore
<1> HIDE DEF atFault, met, score
<1>8. e > 2
  BY LenProperties DEF EvaluationTypeOK
<1>9. QED
  BY <1>3, <1>4, <1>5, <1>6, <1>7, <1>8 DEF Fair, met

(* Whatever a rollout was, its verdict is about the driver's own steps. *)
LEMMA VerdictIsRight ==
  ASSUME EvaluationAssumption, EvaluationTypeOK, PosesFit, NEW failed \in Failures, NEW others \in BOOLEAN
  PROVE  VerdictFits(ReportOf(failed, others))
<1> DEFINE verdict == ReportOf(failed, others)
           black(k) == \E image \in ImageAt(poses[k].at) : image.black
<1>1. verdict.failed = failed
  BY DEF ReportOf, NoReport, Scored
<1>2. ASSUME failed \in {"collision", "ground_truth"} PROVE verdict.outcome # "scored"
  <2> DEFINE as(outcome) == [NoReport EXCEPT !.outcome = outcome, !.failed = failed]
  <2>1. verdict = as("raised") \/ verdict = as("removed")
    <3>1. failed \notin {"none", "offroad"} /\ failed \in {"collision", "ground_truth"}
      BY <1>2
    <3> DEFINE rows == [k \in DOMAIN poses |-> Row(poses[k], failed)]
    <3>2. verdict = IF ~others /\ failed \notin {"none", "offroad"} THEN as("raised")
                    ELSE IF Modified(rows) = <<>> THEN as("removed")
                    ELSE IF failed \in {"collision", "ground_truth"} \/ (failed = "offroad" /\ others)
                      THEN as("raised")
                    ELSE Scored(rows, failed)
      BY DEF ReportOf
    <3> HIDE DEF rows, as, verdict
    <3>3. QED
      BY <3>1, <3>2
  <2>2. as("raised").outcome = "raised" /\ as("removed").outcome = "removed"
    BY DEF NoReport
  <2> HIDE DEF verdict, as
  <2>3. QED
    BY <2>1, <2>2
<1>3. ASSUME failed = "none", HandoverFits, Driven # {}
      PROVE  /\ verdict.outcome = IF \E k \in Driven : black(k) THEN "removed" ELSE "scored"
             /\ verdict.outcome = "scored" => Fair(verdict, Max(Counted))
  <2>1. PICK d \in 3..Len(poses) :
          Driven = d..Len(poses) /\ {k \in 1..Len(poses) : Relevant(poses[k])} = d..Len(poses)
    BY <1>3, HandoverIsMarked
  <2>2. verdict = IF Modified(RowsOf) = <<>> THEN [NoReport EXCEPT !.outcome = "removed", !.failed = "none"]
                  ELSE Scored(RowsOf, "none")
    BY <1>3 DEF ReportOf, RowsOf
  <2>3. /\ (\E k \in Driven : black(k)) => Modified(RowsOf) = <<>>
        /\ (\A k \in Driven : ~black(k)) =>
             \E e \in d..Len(poses) : Counts(d, e) /\ Modified(RowsOf) = SubSeq(RowsOf, d, e)
    BY <2>1, DrivenRowsAreKept, Zenon
  <2> HIDE DEF black, verdict
  <2>4. CASE \E k \in Driven : black(k)
    <3>1. verdict.outcome = "removed"
      BY <2>2, <2>3, <2>4 DEF NoReport
    <3>2. QED
      BY <2>4, <3>1
  <2>5. CASE \A k \in Driven : ~black(k)
    <3>1. PICK e \in d..Len(poses) : Counts(d, e) /\ Modified(RowsOf) = SubSeq(RowsOf, d, e)
      BY <2>3, <2>5
    <3>2. Max(Counted) = e
      BY <2>1, <3>1, CountedStepsAre
    <3> DEFINE atFault == poses[e].last \in {"front", "lateral"}
               offroad == poses[e].met.offroad
    <3>3. verdict = [outcome |-> "scored", failed |-> "none", incident |-> Happened(e), atFault |-> atFault,
                     offroad |-> offroad, score |-> SceneScore(HardFailure(atFault, offroad), e - 2)]
      BY <2>2, <3>1, ScoredByTheEnd
    <3>4. e \in 3..Len(poses)
      BY LenProperties DEF EvaluationTypeOK
    <3>5. Fair(verdict, e)
      BY <3>3, <3>4, TheEndIsFair
    <3>6. verdict.outcome = "scored"
      BY <3>3
    <3>7. QED
      BY <2>5, <3>2, <3>5, <3>6
  <2>6. QED
    BY <2>4, <2>5
<1> HIDE DEF verdict
<1>4. verdict.outcome = "scored" => verdict.failed \notin {"collision", "ground_truth"}
  BY <1>1, <1>2, Zenon
<1>5. VerdictFits(verdict)
  <2>1. verdict.failed = "none" => failed = "none"
    BY <1>1, Zenon
  <2>2. QED
    BY <1>3, <1>4, <2>1, Zenon DEF VerdictFits
<1>6. QED
  BY <1>5 DEF verdict

LEMMA EvaluationStarts ==
  ASSUME EvaluationAssumption, EvaluationInit PROVE EvaluationInv
<1>1. timing \in Timing /\ timing \in Timings
  BY DEF EvaluationAssumption, EvaluationInit
<1>2. timing.firstPolicy \in Nat /\ timing.control \in Nat
  BY <1>1 DEF Timing
<1> DEFINE a == [at |-> 0, met |-> Uneventful, last |-> "none"]
           b == [at |-> timing.firstPolicy, met |-> Uneventful, last |-> "none"]
<1>3. poses = <<a, b>> /\ frames = <<>> /\ report = NoReport
  BY DEF EvaluationInit
<1>4. a \in PoseState /\ b \in PoseState /\ a.at = 0 /\ b.at = timing.firstPolicy
  BY <1>2 DEF PoseState
<1> HIDE DEF a, b
<1>5. poses \in Seq(PoseState) /\ Len(poses) = 2 /\ poses[1].at = 0 /\ poses[2].at = timing.firstPolicy
  BY <1>3, <1>4
<1>6. EvaluationTypeOK
  BY <1>1, <1>3, <1>5 DEF EvaluationTypeOK
<1>7. PosesFit
  <2>1. (2 - 2) * timing.control = 0
    BY <1>2
  <2>2. \A k \in 2 .. 2 : k = 2
    OBVIOUS
  <2>3. 3 .. 2 = {}
    OBVIOUS
  <2>4. QED
    BY <1>2, <1>5, <2>1, <2>2, <2>3 DEF PosesFit
<1>8. FramesInOrder /\ ReportFits
  BY <1>3 DEF FramesInOrder, ReportFits
<1>9. QED
  BY <1>6, <1>7, <1>8 DEF EvaluationInv

LEMMA PosesAreLogged ==
  ASSUME EvaluationAssumption, EvaluationInv, NEW met \in Situations, NEW last \in Sides \cup {"none"},
         LogPoses(met, last)
  PROVE  EvaluationInv'
<1> DEFINE n == Len(poses)
           c == timing.control
           new == [at |-> Now + c, met |-> met, last |-> last]
<1>1. timing \in Timing /\ timing \in Timings /\ poses \in Seq(PoseState) /\ frames \in Seq(ImageState)
  BY DEF EvaluationInv, EvaluationTypeOK, EvaluationAssumption
<1>2. c \in Nat /\ timing.firstPolicy \in Nat
  BY <1>1 DEF Timing
<1>3. n \in Nat /\ n >= 2 /\ \A k \in 1..n : poses[k] \in PoseState
  BY <1>1, LenProperties, ElementOfSeq DEF EvaluationInv, EvaluationTypeOK
<1>4. /\ poses' = Append(poses, new) /\ timing' = timing /\ frames' = frames /\ report' = report
      /\ report = NoReport /\ IF met.touched = {} THEN last = "none" ELSE last \in met.touched
  BY DEF LogPoses
<1>5. Now = timing.firstPolicy + (n - 2) * c
  BY <1>3 DEF Now, Last, EvaluationInv, PosesFit
<1>6. (n - 2) * c \in Nat /\ (n - 2) * c + c = ((n + 1) - 2) * c
  BY <1>2, <1>3
<1> HIDE DEF n, c
<1>7. new.at = timing.firstPolicy + ((n + 1) - 2) * c /\ new.met = met /\ new.last = last
  BY <1>2, <1>5, <1>6
<1>8. new \in PoseState
  BY <1>2, <1>5, <1>6 DEF PoseState
<1> HIDE DEF new
<1>9. /\ poses' \in Seq(PoseState) /\ Len(poses') = n + 1 /\ poses'[n + 1] = new
      /\ \A k \in 1..n : poses'[k] = poses[k]
  BY <1>1, <1>4, <1>8, AppendProperties DEF n
<1>10. EvaluationTypeOK'
  BY <1>1, <1>3, <1>4, <1>9 DEF EvaluationTypeOK
<1>11. PosesFit'
  <2>1. /\ poses[1].at = 0
        /\ \A k \in 2..n : poses[k].at = timing.firstPolicy + (k - 2) * c
        /\ \A k \in 3..n :
             /\ poses[k].met \in Situations
             /\ IF poses[k].met.touched = {} THEN poses[k].last = "none" ELSE poses[k].last \in poses[k].met.touched
    BY DEF EvaluationInv, PosesFit, n, c
  <2>2. poses'[1].at = 0
    BY <1>3, <1>9, <2>1
  <2>3. ASSUME NEW k \in 2 .. n + 1 PROVE poses'[k].at = timing.firstPolicy + (k - 2) * c
    <3>1. CASE k = n + 1
      BY <1>7, <1>9, <3>1
    <3>2. CASE k \in 2..n
      BY <1>9, <2>1, <3>2
    <3>3. QED
      BY <1>3, <3>1, <3>2
  <2>4. ASSUME NEW k \in 3 .. n + 1
        PROVE  /\ poses'[k].met \in Situations
               /\ IF poses'[k].met.touched = {} THEN poses'[k].last = "none"
                  ELSE poses'[k].last \in poses'[k].met.touched
    <3>1. CASE k = n + 1
      BY <1>4, <1>7, <1>9, <3>1
    <3>2. CASE k \in 3..n
      <4>1. poses'[k] = poses[k]
        BY <1>9, <3>2
      <4>2. QED
        BY <2>1, <3>2, <4>1
    <3>3. QED
      BY <1>3, <3>1, <3>2
  <2>5. QED
    BY <1>4, <1>9, <2>2, <2>3, <2>4 DEF PosesFit, c
<1>12. FramesInOrder'
  BY <1>4 DEF EvaluationInv, FramesInOrder
<1>13. ReportFits'
  BY <1>4 DEF ReportFits
<1>14. QED
  BY <1>10, <1>11, <1>12, <1>13 DEF EvaluationInv

LEMMA ImagesAreLogged ==
  ASSUME EvaluationAssumption, EvaluationInv, NEW k, NEW black \in BOOLEAN, LogImage(k, black)
  PROVE  EvaluationInv'
<1> DEFINE image == [end |-> poses[k].at, black |-> black]
<1>1. /\ k \in 2..Len(poses) /\ frames' = AddImage(frames, image) /\ report = NoReport
      /\ timing' = timing /\ poses' = poses /\ report' = report
      /\ \A j \in DOMAIN frames : frames[j].end # poses[k].at
  BY DEF LogImage
<1>2. poses \in Seq(PoseState) /\ frames \in Seq(ImageState)
  BY DEF EvaluationInv, EvaluationTypeOK
<1>3. image \in ImageState
  <2>1. k \in 1..Len(poses)
    BY <1>1, <1>2, LenProperties
  <2>2. poses[k].at \in Nat
    <3>1. poses[k] \in PoseState
      BY <1>2, <2>1, ElementOfSeq
    <3>2. QED
      BY <3>1 DEF PoseState
  <2>3. QED
    BY <2>2 DEF ImageState
<1>4. image.end = poses[k].at
  OBVIOUS
<1> HIDE DEF image
<1>5. /\ frames' \in Seq(ImageState)
      /\ \A i, j \in DOMAIN frames' : i < j => frames'[i].end < frames'[j].end
  BY <1>1, <1>2, <1>3, <1>4, ImageGoesInOrder DEF EvaluationInv, FramesInOrder
<1>6. EvaluationTypeOK'
  BY <1>1, <1>5 DEF EvaluationInv, EvaluationTypeOK
<1>7. PosesFit'
  BY <1>1 DEF EvaluationInv, PosesFit
<1>8. QED
  BY <1>1, <1>5, <1>6, <1>7 DEF EvaluationInv, FramesInOrder, ReportFits

(* What a verdict says does not change with the report. *)
LEMMA VerdictStays ==
  ASSUME timing' = timing, poses' = poses, frames' = frames, VerdictFits(report')
  PROVE  VerdictFits(report)'
<1>1. HandoverFits' <=> HandoverFits
  BY DEF HandoverFits
<1>2. Driven' = Driven
  BY DEF Driven
<1>3. \A k : Happened(k)' <=> Happened(k)
  BY DEF Happened
<1>4. Counted' = Counted
  BY <1>2, <1>3 DEF Counted
<1>5. \A t : ImageAt(t)' = ImageAt(t)
  <2>1. \A t : {k \in DOMAIN frames' : frames'[k].end >= t} = {k \in DOMAIN frames : frames[k].end >= t}
    OBVIOUS
  <2>2. QED
    BY <2>1 DEF ImageAt
<1>6. QED
  BY <1>1, <1>2, <1>3, <1>4, <1>5 DEF VerdictFits, Fair

LEMMA EvaluationSteps ==
  EvaluationAssumption /\ EvaluationInv /\ [EvaluationNext]_evaluationVars => EvaluationInv'
<1> SUFFICES ASSUME EvaluationAssumption, EvaluationInv, [EvaluationNext]_evaluationVars PROVE EvaluationInv'
  OBVIOUS
<1>1. ASSUME NEW met \in Situations, NEW last \in Sides \cup {"none"}, LogPoses(met, last) PROVE EvaluationInv'
  BY <1>1, PosesAreLogged
<1>2. ASSUME NEW k, NEW black \in BOOLEAN, LogImage(k, black) PROVE EvaluationInv'
  BY <1>2, ImagesAreLogged
<1>3. ASSUME NEW failed \in Failures, NEW others \in BOOLEAN, Evaluate(failed, others) PROVE EvaluationInv'
  <2>1. report' = ReportOf(failed, others) /\ timing' = timing /\ poses' = poses /\ frames' = frames
    BY <1>3 DEF Evaluate
  <2>2. VerdictFits(ReportOf(failed, others))
    BY VerdictIsRight DEF EvaluationInv
  <2>3. VerdictFits(report')
    BY <2>1, <2>2, Zenon
  <2>4. VerdictFits(report)'
    BY <2>1, <2>3, VerdictStays
  <2>5. EvaluationTypeOK' /\ PosesFit' /\ FramesInOrder'
    BY <2>1 DEF EvaluationInv, EvaluationTypeOK, PosesFit, FramesInOrder
  <2>6. QED
    BY <2>4, <2>5 DEF EvaluationInv, ReportFits
<1>4. CASE UNCHANGED evaluationVars
  <2>1. report' = report /\ timing' = timing /\ poses' = poses /\ frames' = frames
    BY <1>4 DEF evaluationVars
  <2>2. EvaluationTypeOK' /\ PosesFit' /\ FramesInOrder'
    BY <2>1 DEF EvaluationInv, EvaluationTypeOK, PosesFit, FramesInOrder
  <2>3. CASE report = NoReport
    BY <2>1, <2>2, <2>3 DEF EvaluationInv, ReportFits
  <2>4. CASE VerdictFits(report)
    <3>1. VerdictFits(report')
      BY <2>1, <2>4, Zenon
    <3>2. VerdictFits(report)'
      BY <2>1, <3>1, VerdictStays
    <3>3. QED
      BY <2>2, <3>2 DEF EvaluationInv, ReportFits
  <2>5. QED
    BY <2>3, <2>4 DEF EvaluationInv, ReportFits
<1>5. QED
  BY <1>1, <1>2, <1>3, <1>4 DEF EvaluationNext, Failures

(* When every scorer worked and the driver drove at all, a rollout is scored *)
(* by the driver's own steps, up to the first incident or the first step far *)
(* from the recorded drive: the verdicts of processing.py are those of that  *)
(* step.  Images are kept in the order of their ends, and a rollout whose    *)
(* collision or ground-truth scorer raised is never scored.                  *)
THEOREM StepsAreJudged == EvaluationSpec => []DrivenStepsJudged
<1>1. EvaluationInv => DrivenStepsJudged
  <2> SUFFICES ASSUME EvaluationInv PROVE DrivenStepsJudged
    OBVIOUS
  <2>1. \A j, k \in DOMAIN frames : j < k => frames[j].end < frames[k].end
    BY DEF EvaluationInv, FramesInOrder
  <2>2. CASE report = NoReport
    BY <2>1, <2>2 DEF DrivenStepsJudged, NoReport
  <2>3. CASE VerdictFits(report)
    BY <2>1, <2>3, Zenon DEF DrivenStepsJudged, VerdictFits, Fair
  <2>4. QED
    BY <2>2, <2>3 DEF EvaluationInv, ReportFits
<1>2. EvaluationAssumption /\ EvaluationInit => EvaluationInv
  BY EvaluationStarts
<1> QED BY EvaluationAssumption, EvaluationSteps, <1>1, <1>2, PTL DEF EvaluationSpec
-----------------------------------------------------------------------------
(* A run's ports, job steps and tasks (Deployment)                           *)

JobSteps(boxes) == [of : boxes, alive : BOOLEAN, told : BOOLEAN]

Cancelled(n) == steps[n].told \/ steps[n].of \in uncancelled

(* While steps are cancelled, each that still lives was, or is of a container *)
(* that is yet to be cancelled.                                               *)
CancelsAll ==
  \E boxes : /\ todo \in Seq(boxes) /\ todo # <<>>
             /\ \A n \in DOMAIN steps : steps[n].alive =>
                  Cancelled(n) \/ \E k \in 1 .. Len(todo) : todo[k] = steps[n].of

DeployInv ==
  /\ ports \in Seq(WizardPorts) /\ \A i, j \in 1 .. Len(ports) : i < j => ports[i] < ports[j]
  /\ \E boxes : steps \in Seq(JobSteps(boxes))
  /\ deploy \in {"assign", "up"} => steps = <<>>
  /\ deploy = "cleanup" => CancelsAll
  /\ StepsCancelled

(* What holds of the job steps; ports change in one action only.             *)
StepsInv ==
  /\ \E boxes : steps \in Seq(JobSteps(boxes))
  /\ deploy \in {"assign", "up"} => steps = <<>>
  /\ deploy = "cleanup" => CancelsAll
  /\ StepsCancelled

LEMMA DeployStart == DeployInit => DeployInv
<1> SUFFICES ASSUME DeployInit PROVE DeployInv
  OBVIOUS
<1>1. ports = <<>> /\ steps = <<>> /\ deploy \in {"assign", "raised"}
  BY DEF DeployInit
<1>2. ports \in Seq(WizardPorts) /\ Len(ports) = 0 /\ steps \in Seq(JobSteps({})) /\ Len(steps) = 0
  BY <1>1, EmptySeq
<1> QED
  BY <1>1, <1>2 DEF DeployInv, StepsCancelled

LEMMA AssignPortStep ==
  ASSUME DeployInv, AssignPort
  PROVE  DeployInv'
<1>1. /\ deploy = "assign" /\ UNCHANGED <<steps, plan, uncancelled>>
      /\ \/ deploy' = "raised" /\ UNCHANGED ports
         \/ FreePorts # {} /\ ports' = Append(ports, Min(FreePorts)) /\ deploy' = deploy
  BY DEF AssignPort
<1>2. steps = <<>> /\ (\E boxes : steps \in Seq(JobSteps(boxes))) /\ ports \in Seq(WizardPorts)
  BY <1>1 DEF DeployInv
<1>3. /\ steps' = <<>> /\ (\E boxes : steps' \in Seq(JobSteps(boxes)))
      /\ deploy' # "cleanup" /\ StepsCancelled'
  BY <1>1, <1>2 DEF StepsCancelled
<1>4. CASE ports' = ports
  BY <1>1, <1>3, <1>4 DEF DeployInv
<1>5. CASE FreePorts # {} /\ ports' = Append(ports, Min(FreePorts))
  <2>1. FreePorts \in SUBSET Nat
    BY DeployAssumption DEF FreePorts, WizardPorts
  <2>2. PICK p : p = Min(FreePorts)
    OBVIOUS
  <2>3. p \in FreePorts
    BY <1>5, <2>1, <2>2, LeastOf
  <2>4. p \in WizardPorts /\ (ports = <<>> \/ Last(ports) < p)
    BY <2>3 DEF FreePorts
  <2>5. /\ ports' \in Seq(WizardPorts) /\ Len(ports') = Len(ports) + 1 /\ Len(ports) \in Nat
        /\ (\A i \in 1 .. Len(ports) : ports'[i] = ports[i]) /\ ports'[Len(ports) + 1] = p
    BY <1>2, <1>5, <2>2, <2>4, AppendProperties, LenProperties
  <2>6. \A i \in 1 .. Len(ports) : ports[i] \in Int
    BY <1>2, DeployAssumption, ElementOfSeq DEF WizardPorts
  <2>7. p \in Int
    BY <2>4, DeployAssumption DEF WizardPorts
  <2>8. ASSUME NEW i \in 1 .. Len(ports) PROVE ports[i] < p
    <3>1. Len(ports) \in 1 .. Len(ports) /\ ports # <<>>
      BY <1>2, <2>5, EmptySeq
    <3>2. ports[Len(ports)] < p
      BY <2>4, <3>1 DEF Last
    <3>3. i = Len(ports) \/ ports[i] < ports[Len(ports)]
      BY <2>5, <3>1 DEF DeployInv
    <3> QED
      BY <2>6, <2>7, <3>1, <3>2, <3>3
  <2>9. ASSUME NEW i \in 1 .. Len(ports'), NEW j \in 1 .. Len(ports'), i < j
        PROVE  ports'[i] < ports'[j]
    <3>1. i \in 1 .. Len(ports)
      BY <2>5, <2>9
    <3>2. CASE j \in 1 .. Len(ports)
      BY <2>5, <2>9, <3>1, <3>2 DEF DeployInv
    <3>3. CASE j = Len(ports) + 1
      BY <2>5, <2>8, <3>1, <3>3
    <3> QED
      BY <2>5, <3>2, <3>3
  <2> QED
    BY <1>1, <1>3, <2>5, <2>9 DEF DeployInv
<1> QED
  BY <1>1, <1>4, <1>5

(* An action that leaves ports and job steps alone, and neither takes up nor *)
(* ends their cancellation.                                                  *)
LEMMA StepsUntouched ==
  ASSUME DeployInv, UNCHANGED <<steps, plan, uncancelled>>, deploy' # "cleanup",
         deploy' = "up" => deploy = "assign", deploy' = "assign" => deploy = "assign",
         deploy' = "over" => ~plan.runtime \/ DOMAIN steps = {}
  PROVE  StepsInv'
<1>1. (deploy \in {"assign", "up"})' => steps' = <<>>
  BY DEF DeployInv
<1>2. StepsCancelled'
  BY DEF StepsCancelled
<1> QED
  BY <1>1, <1>2 DEF DeployInv, StepsInv

(* Steps end, or are told to, where they are.                                *)
LEMMA StepsChanged ==
  ASSUME NEW boxes, steps \in Seq(JobSteps(boxes)), NEW tolds,
         steps' = [n \in DOMAIN steps |-> steps'[n]],
         \A n \in DOMAIN steps :
           \E live, told \in BOOLEAN : /\ steps'[n] = [steps[n] EXCEPT !.alive = live, !.told = told]
                                       /\ live => steps[n].alive
                                       /\ steps[n].told \/ n \in tolds => told
  PROVE  /\ steps' \in Seq(JobSteps(boxes)) /\ DOMAIN steps' = DOMAIN steps
         /\ \A n \in DOMAIN steps : /\ steps'[n].of = steps[n].of
                                    /\ steps'[n].alive => steps[n].alive
                                    /\ steps[n].told \/ n \in tolds => steps'[n].told
<1>1. DOMAIN steps = 1 .. Len(steps) /\ Len(steps) \in Nat
  BY LenProperties
<1>2. \A n \in DOMAIN steps : steps[n] \in JobSteps(boxes)
  BY <1>1, ElementOfSeq
<1>3. ASSUME NEW n \in DOMAIN steps
      PROVE  /\ steps'[n] \in JobSteps(boxes) /\ steps'[n].of = steps[n].of
             /\ (steps'[n].alive => steps[n].alive) /\ (steps[n].told \/ n \in tolds => steps'[n].told)
  <2>1. PICK live, told \in BOOLEAN : /\ steps'[n] = [steps[n] EXCEPT !.alive = live, !.told = told]
                                      /\ live => steps[n].alive
                                      /\ steps[n].told \/ n \in tolds => told
    BY <1>3
  <2>2. steps[n] \in [of : boxes, alive : BOOLEAN, told : BOOLEAN]
    BY <1>2 DEF JobSteps
  <2>3. /\ steps'[n] \in [of : boxes, alive : BOOLEAN, told : BOOLEAN]
        /\ steps'[n].of = steps[n].of /\ steps'[n].alive = live /\ steps'[n].told = told
    BY <2>1, <2>2
  <2> QED
    BY <2>1, <2>3 DEF JobSteps
<1>4. DOMAIN steps' = DOMAIN steps
  OBVIOUS
<1>5. steps' \in [1 .. Len(steps) -> JobSteps(boxes)]
  BY <1>1, <1>3, <1>4
<1>6. steps' \in Seq(JobSteps(boxes))
  BY <1>1, <1>5, ListOf
<1> QED
  BY <1>3, <1>4, <1>6

LEMMA StepsEnded ==
  ASSUME NEW boxes, steps \in Seq(JobSteps(boxes)), NEW ended, EndSteps(ended)
  PROVE  /\ steps' \in Seq(JobSteps(boxes)) /\ DOMAIN steps' = DOMAIN steps
         /\ \A n \in DOMAIN steps : /\ steps'[n].of = steps[n].of
                                    /\ steps'[n].alive => steps[n].alive
                                    /\ steps[n].told => steps'[n].told
<1>1. DOMAIN steps = 1 .. Len(steps) /\ \A n \in DOMAIN steps : steps[n] \in JobSteps(boxes)
  BY LenProperties, ElementOfSeq
<1>2. steps' = [n \in DOMAIN steps |-> [steps[n] EXCEPT !.alive = @ /\ n \notin ended]]
  BY DEF EndSteps
<1>5. PICK none : none = {}
  OBVIOUS
<1>3. ASSUME NEW n \in DOMAIN steps
      PROVE  \E live, told \in BOOLEAN : /\ steps'[n] = [steps[n] EXCEPT !.alive = live, !.told = told]
                                         /\ live => steps[n].alive
                                         /\ steps[n].told \/ n \in none => told
  <2>1. steps[n] \in [of : boxes, alive : BOOLEAN, told : BOOLEAN]
    BY <1>1 DEF JobSteps
  <2>2. PICK live \in BOOLEAN : live = (steps[n].alive /\ n \notin ended)
    BY <2>1
  <2>3. PICK told \in BOOLEAN : told = steps[n].told
    BY <2>1
  <2>4. steps'[n] = [steps[n] EXCEPT !.alive = live]
    BY <1>2, <2>2
  <2>5. steps'[n] = [steps[n] EXCEPT !.alive = live, !.told = told]
    BY <2>1, <2>3, <2>4
  <2> QED
    BY <1>5, <2>2, <2>3, <2>5
<1>4. steps' = [n \in DOMAIN steps |-> steps'[n]]
  BY <1>2
<1> QED
  BY <1>3, <1>4, StepsChanged

LEMMA StepsTold ==
  ASSUME NEW boxes, steps \in Seq(JobSteps(boxes)), NEW tolds, TellSteps(tolds)
  PROVE  /\ steps' \in Seq(JobSteps(boxes)) /\ DOMAIN steps' = DOMAIN steps
         /\ \A n \in DOMAIN steps : /\ steps'[n].of = steps[n].of
                                    /\ steps'[n].alive => steps[n].alive
                                    /\ steps[n].told \/ n \in tolds => steps'[n].told
<1>1. DOMAIN steps = 1 .. Len(steps) /\ \A n \in DOMAIN steps : steps[n] \in JobSteps(boxes)
  BY LenProperties, ElementOfSeq
<1>2. steps' = [n \in DOMAIN steps |-> [steps[n] EXCEPT !.told = @ \/ n \in tolds]]
  BY DEF TellSteps
<1>3. ASSUME NEW n \in DOMAIN steps
      PROVE  \E live, told \in BOOLEAN : /\ steps'[n] = [steps[n] EXCEPT !.alive = live, !.told = told]
                                         /\ live => steps[n].alive
                                         /\ steps[n].told \/ n \in tolds => told
  <2>1. steps[n] \in [of : boxes, alive : BOOLEAN, told : BOOLEAN]
    BY <1>1 DEF JobSteps
  <2>2. PICK live \in BOOLEAN : live = steps[n].alive
    BY <2>1
  <2>3. PICK told \in BOOLEAN : told = (steps[n].told \/ n \in tolds)
    BY <2>1
  <2>4. steps'[n] = [steps[n] EXCEPT !.told = told]
    BY <1>2, <2>3
  <2>5. steps'[n] = [steps[n] EXCEPT !.alive = live, !.told = told]
    BY <2>1, <2>2, <2>4
  <2> QED
    BY <2>2, <2>3, <2>5
<1>4. steps' = [n \in DOMAIN steps |-> steps'[n]]
  BY <1>2
<1> QED
  BY <1>3, <1>4, StepsChanged

LEMMA LaunchBoxStep ==
  ASSUME DeployInv, LaunchBox
  PROVE  StepsInv'
<1>1. steps' = Append(steps, Step(Head(todo))) /\ deploy' \in {"launch", "wait"}
  BY DEF LaunchBox
<1>2. PICK boxes : steps \in Seq(JobSteps(boxes))
  BY DEF DeployInv
<1>3. PICK all : all = boxes \cup {Head(todo)}
  OBVIOUS
<1>4. steps \in Seq(JobSteps(all)) /\ Step(Head(todo)) \in JobSteps(all)
  <2>1. JobSteps(boxes) \subseteq JobSteps(all)
    BY <1>3 DEF JobSteps
  <2>2. Seq(JobSteps(boxes)) \subseteq Seq(JobSteps(all))
    BY <2>1
  <2>3. Step(Head(todo)) \in JobSteps(all)
    BY <1>3 DEF JobSteps, Step
  <2> QED
    BY <1>2, <2>2, <2>3
<1>5. steps' \in Seq(JobSteps(all))
  BY <1>1, <1>4, AppendProperties
<1> QED
  BY <1>1, <1>5 DEF StepsInv, StepsCancelled

LEMMA RuntimeEndsStep ==
  ASSUME DeployInv, RuntimeEnds
  PROVE  StepsInv'
<1> DEFINE of == [i \in DOMAIN steps |-> steps[i].of]
           names == ToSet(of)
<1>1. /\ deploy' = IF names = {} THEN "over" ELSE "cleanup"
      /\ todo' = SetToSeq(names) /\ UNCHANGED <<steps, plan, uncancelled>>
  BY DEF RuntimeEnds
<1>2. PICK boxes : steps \in Seq(JobSteps(boxes))
  BY DEF DeployInv
<1>3. DOMAIN steps = 1 .. Len(steps) /\ Len(steps) \in Nat
  BY <1>2, LenProperties
<1>4. IsFiniteSet(DOMAIN steps)
  <2>1. IsFiniteSet(1 .. Len(steps))
    BY <1>3, FS_Interval
  <2> QED
    BY <1>3, <2>1
<1>5. names = {steps[i].of : i \in DOMAIN steps}
  BY DEF ToSet
<1>6. IsFiniteSet(names)
  <2>1. of \in Surjection(DOMAIN steps, names)
    BY <1>5 DEF Surjection
  <2> QED
    BY <1>4, <2>1, FS_Surjection
<1>7. CASE names = {}
  <2>1. DOMAIN steps = {}
    BY <1>5, <1>7
  <2>2. deploy' = "over"
    BY <1>1, <1>7
  <2> QED
    BY <1>1, <2>1, <2>2, StepsUntouched
<1>8. CASE names # {}
  <2> HIDE DEF names
  <2>1. /\ todo' \in Seq(names) /\ Len(todo') = Cardinality(names)
        /\ {todo'[i] : i \in 1 .. Cardinality(names)} = names
    BY <1>1, <1>6, SetIsListed
  <2>2. todo' # <<>>
    <3>1. SUFFICES ASSUME todo' = <<>> PROVE FALSE
      OBVIOUS
    <3>2. Cardinality(names) = 0
      BY <2>1, <3>1, EmptySeq
    <3> QED
      BY <1>8, <2>1, <3>2
  <2>3. ASSUME NEW n \in DOMAIN steps PROVE \E k \in 1 .. Len(todo') : todo'[k] = steps[n].of
    <3>1. steps[n].of \in names
      BY <1>5
    <3> QED
      BY <2>1, <3>1
  <2>4. CancelsAll'
    BY <1>1, <2>1, <2>2, <2>3 DEF CancelsAll
  <2>5. deploy' = "cleanup"
    BY <1>1, <1>8
  <2> QED
    BY <1>1, <1>2, <2>4, <2>5 DEF StepsInv, StepsCancelled
<1> QED
  BY <1>7, <1>8

LEMMA CleanupStepsStep ==
  ASSUME DeployInv, CleanupSteps
  PROVE  StepsInv'
<1> DEFINE reached == {n \in DOMAIN steps : steps[n].of = Head(todo)}
<1>1. /\ deploy = "cleanup" /\ todo' = Tail(todo)
      /\ deploy' = IF Len(todo) = 1 THEN "over" ELSE "cleanup"
  BY DEF CleanupSteps
<1>2. PICK boxes : steps \in Seq(JobSteps(boxes))
  BY DEF DeployInv
<1>3. PICK names : /\ todo \in Seq(names) /\ todo # <<>>
                   /\ \A n \in DOMAIN steps : steps[n].alive =>
                        Cancelled(n) \/ \E k \in 1 .. Len(todo) : todo[k] = steps[n].of
  BY <1>1 DEF DeployInv, CancelsAll
<1>4. /\ steps' \in Seq(JobSteps(boxes)) /\ DOMAIN steps' = DOMAIN steps
      /\ \A n \in DOMAIN steps : /\ steps'[n].of = steps[n].of
                                 /\ steps'[n].alive => steps[n].alive
                                 /\ Cancelled(n) \/ n \in reached => Cancelled(n)'
  <2>1. CASE TellSteps(reached) /\ uncancelled' = uncancelled
    <3> HIDE DEF reached
    <3>1. /\ steps' \in Seq(JobSteps(boxes)) /\ DOMAIN steps' = DOMAIN steps
          /\ \A n \in DOMAIN steps : /\ steps'[n].of = steps[n].of
                                     /\ steps'[n].alive => steps[n].alive
                                     /\ steps[n].told \/ n \in reached => steps'[n].told
      BY <1>2, <2>1, StepsTold
    <3> QED
      BY <2>1, <3>1 DEF Cancelled
  <2>2. CASE uncancelled' = uncancelled \cup {Head(todo)} /\ steps' = steps
    BY <1>2, <2>2 DEF Cancelled
  <2> QED
    BY <2>1, <2>2 DEF CleanupSteps
<1>5. /\ Tail(todo) \in Seq(names) /\ Len(Tail(todo)) = Len(todo) - 1 /\ Len(todo) \in Nat \ {0}
      /\ \A i \in 1 .. Len(Tail(todo)) : Tail(todo)[i] = todo[i + 1]
  BY <1>3, HeadTailProperties, EmptySeq
<1>6. Head(todo) = todo[1]
  BY <1>3
<1>7. ASSUME NEW n \in DOMAIN steps', steps'[n].alive, ~Cancelled(n)'
      PROVE  \E k \in 1 .. Len(todo') : todo'[k] = steps'[n].of
  <2>1. n \in DOMAIN steps /\ steps[n].alive /\ ~Cancelled(n) /\ n \notin reached /\ steps'[n].of = steps[n].of
    BY <1>4, <1>7
  <2>2. PICK k \in 1 .. Len(todo) : todo[k] = steps[n].of
    BY <1>3, <2>1
  <2>3. k # 1
    BY <1>6, <2>1, <2>2
  <2>4. k - 1 \in 1 .. Len(Tail(todo)) /\ Tail(todo)[k - 1] = todo[k]
    BY <1>5, <2>2, <2>3
  <2> QED
    BY <1>1, <2>1, <2>2, <2>4
<1>8. CASE Len(todo) = 1
  <2>1. deploy' = "over"
    BY <1>1, <1>8
  <2>2. \A n \in DOMAIN steps' : steps'[n].alive => Cancelled(n)'
    BY <1>1, <1>5, <1>7, <1>8
  <2> QED
    BY <1>4, <2>1, <2>2 DEF StepsInv, StepsCancelled, Cancelled
<1>9. CASE Len(todo) # 1
  <2>1. deploy' = "cleanup"
    BY <1>1, <1>9
  <2>2. todo' \in Seq(names) /\ todo' # <<>>
    <3>1. Len(Tail(todo)) # 0
      BY <1>5, <1>9
    <3>2. ASSUME Tail(todo) = <<>> PROVE FALSE
      <4>1. Len(Tail(todo)) = Len(<<>>)
        BY ONLY <3>2
      <4> QED
        BY <3>1, <4>1
    <3> QED
      BY <1>1, <1>5, <3>2
  <2>3. CancelsAll'
    BY <1>7, <2>2 DEF CancelsAll
  <2> QED
    BY <1>4, <2>1, <2>3 DEF StepsInv, StepsCancelled
<1> QED
  BY <1>8, <1>9

(* Steps may end by themselves while the deployment goes on, and when they    *)
(* were told to also after it.                                               *)
LEMMA MachineStep ==
  ASSUME DeployInv, Machine \/ \E n \in DOMAIN steps : StepObeys(n)
  PROVE  StepsInv' /\ ports' = ports
<1>1. PICK boxes : steps \in Seq(JobSteps(boxes))
  BY DEF DeployInv
<1>2. UNCHANGED <<deploy, todo, plan, ports, uncancelled>>
  BY DEF Machine, CopyListens, StepDies, ForeignTakes, ForeignLeaves, StepObeys
<1>3. /\ steps' \in Seq(JobSteps(boxes)) /\ DOMAIN steps' = DOMAIN steps
      /\ \A n \in DOMAIN steps : /\ steps'[n].of = steps[n].of /\ (steps'[n].alive => steps[n].alive)
                                 /\ Cancelled(n) => Cancelled(n)'
  <2>1. CASE steps' = steps
    BY <1>1, <1>2, <2>1 DEF Cancelled
  <2>2. CASE steps' # steps
    <3>1. PICK n : EndSteps({n})
      BY <2>2 DEF Machine, CopyListens, StepDies, ForeignTakes, ForeignLeaves, StepObeys
    <3> QED
      BY <1>1, <1>2, <3>1, StepsEnded DEF Cancelled
  <2> QED
    BY <2>1, <2>2
<1>4. ASSUME deploy \in {"assign", "up"} PROVE steps' = <<>>
  <2>1. steps = <<>>
    BY <1>4 DEF DeployInv
  <2>2. DOMAIN steps' = 1 .. Len(steps') /\ Len(steps') \in Nat /\ DOMAIN steps = {}
    BY <1>3, <2>1, LenProperties
  <2>3. ASSUME Len(steps') # 0 PROVE FALSE
    <3>1. 1 \in 1 .. Len(steps')
      BY <2>2, <2>3
    <3>2. 1 \in DOMAIN steps
      BY <1>3, <2>2, <3>1
    <3> QED
      BY <2>2, <3>2
  <2> QED
    BY <1>3, <2>3, EmptySeq
<1>5. ASSUME deploy = "cleanup" PROVE CancelsAll'
  BY <1>2, <1>3, <1>5 DEF DeployInv, CancelsAll
<1>6. StepsCancelled'
  BY <1>2, <1>3 DEF DeployInv, StepsCancelled, Cancelled
<1> QED
  BY <1>2, <1>3, <1>4, <1>5, <1>6 DEF StepsInv

LEMMA DeployStep == DeployInv /\ [DeployNext]_deployVars => DeployInv'
<1> SUFFICES ASSUME DeployInv, [DeployNext]_deployVars PROVE DeployInv'
  OBVIOUS
<1>1. ASSUME StepsInv', ports' = ports PROVE DeployInv'
  BY <1>1 DEF StepsInv, DeployInv
<1>2. CASE AssignPort
  BY <1>2, AssignPortStep
<1>3. CASE GenerateConfigs
  <2>1. /\ deploy = "assign" /\ deploy' \in {"raised", "check", "up", "over"}
        /\ UNCHANGED <<ports, steps, plan, uncancelled>>
    BY <1>3 DEF GenerateConfigs
  <2>2. DOMAIN steps = {}
    BY <2>1 DEF DeployInv
  <2> QED
    BY <1>1, <2>1, <2>2, StepsUntouched
<1>4. CASE CheckMissing
  <2>1. deploy' \in {"last", "launch"} /\ UNCHANGED <<ports, steps, plan, uncancelled>>
    BY <1>4 DEF CheckMissing
  <2> QED
    BY <1>1, <2>1, StepsUntouched
<1>5. CASE LaunchBox
  <2>1. ports' = ports
    BY <1>5 DEF LaunchBox
  <2> QED
    BY <1>1, <1>5, <2>1, LaunchBoxStep
<1>6. CASE FoundOpen
  <2>1. deploy' \in {"check", "wait"} /\ UNCHANGED <<ports, steps, plan, uncancelled>>
    BY <1>6 DEF FoundOpen
  <2> QED
    BY <1>1, <2>1, StepsUntouched
<1>7. CASE PollAgain
  <2>1. deploy' \in {"wait", "timed out", "check"} /\ UNCHANGED <<ports, steps, plan, uncancelled>>
    BY <1>7 DEF PollAgain
  <2> QED
    BY <1>1, <2>1, StepsUntouched
<1>8. CASE StartRuntime
  <2>1. deploy' = (IF plan.runtime THEN "runtime" ELSE "over") /\ UNCHANGED <<ports, steps, plan, uncancelled>>
    BY <1>8 DEF StartRuntime
  <2> QED
    BY <1>1, <2>1, StepsUntouched
<1>9. CASE RuntimeEnds
  <2>1. ports' = ports
    BY <1>9 DEF RuntimeEnds
  <2> QED
    BY <1>1, <1>9, <2>1, RuntimeEndsStep
<1>10. CASE CleanupSteps
  <2>1. ports' = ports
    BY <1>10 DEF CleanupSteps
  <2> QED
    BY <1>1, <1>10, <2>1, CleanupStepsStep
<1>11. CASE ComposeUp
  <2>1. deploy = "up" /\ deploy' \in {"over", "raised"} /\ UNCHANGED <<ports, steps, plan, uncancelled>>
    BY <1>11 DEF ComposeUp
  <2>2. DOMAIN steps = {}
    BY <2>1 DEF DeployInv
  <2> QED
    BY <1>1, <2>1, <2>2, StepsUntouched
<1>12. CASE Machine \/ \E n \in DOMAIN steps : StepObeys(n)
  BY <1>1, <1>12, MachineStep
<1>13. CASE UNCHANGED deployVars
  <2>1. UNCHANGED <<ports, steps, plan, uncancelled, deploy, todo>>
    BY <1>13 DEF deployVars
  <2>2. CancelsAll => CancelsAll'
    BY <2>1 DEF CancelsAll, Cancelled
  <2> QED
    BY <2>1, <2>2 DEF DeployInv, StepsCancelled
<1> QED
  BY <1>2, <1>3, <1>4, <1>5, <1>6, <1>7, <1>8, <1>9, <1>10, <1>11, <1>12, <1>13 DEF DeployNext

(* Every place in the list belongs to one task.                              *)
LEMMA EachSceneOnce == ScenesShared
<1> DEFINE sorted == SetToSeq(SceneIds)
           n == Cardinality(SceneIds)
<1>1. /\ sorted \in Seq(SceneIds) /\ Len(sorted) = n /\ n \in Nat
      /\ \A i, k \in 1..n : sorted[i] = sorted[k] => i = k
      /\ {sorted[i] : i \in 1..n} = SceneIds
  BY DeployAssumption, SetIsListed
<1>2. DOMAIN sorted = 1..n
  BY <1>1, LenProperties
<1> HIDE DEF sorted, n
<1>3. ASSUME NEW count \in 1 .. n + 1, NEW scene \in SceneIds
      PROVE  Cardinality({task \in 0 .. count - 1 : scene \in ScenesOfTask(sorted, count, task)}) = 1
  <2>1. PICK i \in 1..n : sorted[i] = scene
    BY <1>1
  <2>2. PICK own : own = (i - 1) % count
    OBVIOUS
  <2>3. own \in 0 .. count - 1
    BY <1>1, <2>2
  <2>4. \A task \in 0 .. count - 1 : scene \in ScenesOfTask(sorted, count, task) <=> task = own
    <3>1. ASSUME NEW task \in 0 .. count - 1, scene \in ScenesOfTask(sorted, count, task) PROVE task = own
      <4>1. PICK j \in 1..n : (j - 1) % count = task /\ sorted[j] = scene
        BY <1>2, <3>1 DEF ScenesOfTask
      <4> QED
        BY <1>1, <2>1, <2>2, <4>1
    <3>2. scene \in ScenesOfTask(sorted, count, own)
      BY <1>2, <2>1, <2>2 DEF ScenesOfTask
    <3> QED
      BY <3>1, <3>2
  <2>5. {task \in 0 .. count - 1 : scene \in ScenesOfTask(sorted, count, task)} = {own}
    BY <2>3, <2>4
  <2> QED
    BY <2>5, FS_Singleton
<1> QED
  BY <1>3 DEF ScenesShared, sorted, n

(* For any plan, ports and number of ports others take, and whichever steps  *)
(* die: no port is given out twice; a job step outlives the deployment of a  *)
(* runtime only when it was told to end or scancel failed for its container; *)
(* and the tasks of an array share the scenes out.                           *)
THEOREM DeploymentIsOrderly == DeploySpec => [](PortsApart /\ StepsCancelled /\ ScenesShared)
<1>1. DeployInv => PortsApart /\ StepsCancelled
  <2> SUFFICES ASSUME DeployInv PROVE PortsApart /\ StepsCancelled
    OBVIOUS
  <2>1. DOMAIN ports = 1 .. Len(ports) /\ Len(ports) \in Nat /\ \A i \in 1 .. Len(ports) : ports[i] \in WizardPorts
    BY LenProperties, ElementOfSeq DEF DeployInv
  <2>2. \A i \in 1 .. Len(ports) : ports[i] \in Int
    BY <2>1, DeployAssumption DEF WizardPorts
  <2>3. ASSUME NEW i \in DOMAIN ports, NEW j \in DOMAIN ports, i # j PROVE ports[i] # ports[j]
    <3>1. i < j \/ j < i
      BY <2>1, <2>3
    <3>2. ports[i] < ports[j] \/ ports[j] < ports[i]
      BY <2>1, <3>1 DEF DeployInv
    <3> QED
      BY <2>1, <2>2, <3>2
  <2> QED
    BY <2>3 DEF PortsApart, DeployInv
<1>2. ScenesShared
  BY EachSceneOnce
<1> QED
  BY DeployStart, DeployStep, <1>1, <1>2, PTL DEF DeploySpec
=============================================================================
