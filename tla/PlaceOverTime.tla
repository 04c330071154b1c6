--------------------------- MODULE PlaceOverTime ----------------------------
(***************************************************************************)
(* What a trajectory stands for: a place for every instant from its first  *)
(* to its last (path), the rates the dynamic one keeps beside it (rate),   *)
(* and a part derived from it.  No samples, no indices: an operation says  *)
(* what the place at an instant is afterwards.  Times and places are       *)
(* integers, so that straight lines between instants can be compared.      *)
(***************************************************************************)
EXTENDS Integers, FiniteSets, FiniteSetsExt, TLC

CONSTANTS
  Horizon,    \* times are 0..Horizon
  Continued,  \* what the dynamic trajectory may be joined with: [path, rate]
  Lift,       \* per instant, how much higher the other trajectory of a blend is
  Halves      \* per instant, how many halves (0..2) of the other are blended in

VARIABLES
  path,   \* place at every instant covered
  rate,   \* rate at every instant covered
  part    \* place at every instant of a derived trajectory

overTime == <<path, rate, part>>

Nowhere == [t \in {} |-> 0]

\* Straight lines through the values of f at the instants S.
Through(S, f) ==
  IF S = {} THEN Nowhere
  ELSE [t \in Min(S) .. Max(S) |->
          LET a == Max({s \in S : s <= t})
              b == Min({s \in S : s >= t})
          IN  IF a = b THEN f[a] ELSE f[a] + ((f[b] - f[a]) * (t - a)) \div (b - a)]

\* f goes on as g, in a straight line where neither says anything.
Extended(f, g) == Through(DOMAIN f \cup DOMAIN g, f @@ g)

\* g starts after f, or with the instant and the value f ends with.
Continues(f, g) ==
  \/ f = Nowhere \/ g = Nowhere
  \/ Max(DOMAIN f) < Min(DOMAIN g)
  \/ Max(DOMAIN f) = Min(DOMAIN g) /\ f[Max(DOMAIN f)] = g[Min(DOMAIN g)]

OverTimeInit == path = Nowhere /\ rate = Nowhere /\ part = Nowhere

\* g goes on from f in a straight line to one instant and value of its own.
GoesOn(f, g) ==
  LET t == Max(DOMAIN g)
  IN  /\ g # Nowhere /\ (f # Nowhere => t > Max(DOMAIN f))
      /\ g = Extended(f, t :> g[t])

\* g is f, moved as a whole.
IsMoved(f, g) ==
  /\ DOMAIN g = DOMAIN f
  /\ \A s, t \in DOMAIN f : g[s] - f[s] = g[t] - f[t]

\* The dynamic trajectory goes on to a place and a rate, or as another one.
Record ==
  /\ GoesOn(path, path') /\ GoesOn(rate, rate') /\ DOMAIN path' = DOMAIN rate'
  /\ UNCHANGED part

Join ==
  /\ \E other \in Continued :
       /\ Continues(path, other.path)
       /\ path' = Extended(path, other.path) /\ rate' = Extended(rate, other.rate)
  /\ UNCHANGED part

\* It is moved; its rates are its own.
Move == IsMoved(path, path') /\ UNCHANGED <<rate, part>>

\* A part is taken, of the trajectory or of a part: an interval, or straight
\* lines through some of its instants.
TakePart ==
  /\ \E f \in {path, part} :
       \/ \E a, b \in 0 .. Horizon + 1 : part' = [t \in DOMAIN f \cap a .. b - 1 |-> f[t]]
       \/ \E S \in SUBSET DOMAIN f : part' = Through(S, f)
  /\ UNCHANGED <<path, rate>>

\* A part is moved, goes on to a place, or is mixed with a lifted one at some
\* instants, its ends among them; halves of the other count.
ChangePart ==
  /\ \/ IsMoved(part, part')
     \/ GoesOn(part, part')
     \/ \E S \in SUBSET DOMAIN part, half \in Halves :
          part' = Through(S, [t \in S |-> part[t] + (Lift[t] * half[t]) \div 2])
  /\ UNCHANGED <<path, rate>>

OverTimeNext == Record \/ Join \/ Move \/ TakePart \/ ChangePart
=============================================================================
