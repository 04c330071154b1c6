------------------------------- MODULE RpcCall -------------------------------
(***************************************************************************)
(* profiled_rpc_call (telemetry/rpc_wrapper.py): calls of one service type *)
(* from several worker processes, with the retries of an UNAVAILABLE call  *)
(* and the count of active calls that all processes share through a        *)
(* manager's dict and lock.  The service may have executed a call whose    *)
(* answer was lost.                                                        *)
(***************************************************************************)
EXTENDS Integers, FiniteSets

CONSTANTS
  Callers,       \* one call each, in a process of its own
  MaxAttempts,   \* per caller, len(unavailable_retry_delays_s) + 1
  Nobody         \* the lock is free

ASSUME RpcAssumption ==
  /\ MaxAttempts \in [Callers -> Nat \ {0}] /\ Nobody \notin Callers
  /\ IsFiniteSet(Callers)

VARIABLES
  callAt,     \* start, reading, awaiting, ended, decrementing, sleeping,
              \* done or killed
  attempt,    \* attempt_idx
  answer,     \* of the attempt: none, ok, unavailable, error or cancelled
  executed,   \* how often the service executed the call
  read,       \* the count a caller has read under the lock
  count,      \* _active_rpc_counts[service_type]
  lock,       \* _rpc_lock
  leaked      \* history: calls counted by processes that were killed

rpcVars == <<callAt, attempt, answer, executed, read, count, lock, leaked>>

RpcTypeOK ==
  /\ callAt \in [Callers -> {"start", "reading", "awaiting", "ended", "decrementing",
                         "sleeping", "done", "killed"}]
  /\ attempt \in [Callers -> Nat] /\ executed \in [Callers -> Nat]
  /\ answer \in [Callers -> {"none", "ok", "unavailable", "error", "cancelled"}]
  /\ read \in [Callers -> Nat] /\ count \in Nat /\ leaked \in Nat
  /\ lock \in Callers \cup {Nobody}

RpcInit ==
  /\ callAt = [c \in Callers |-> "start"]
  /\ attempt = [c \in Callers |-> 1] /\ executed = [c \in Callers |-> 0]
  /\ answer = [c \in Callers |-> "none"] /\ read = [c \in Callers |-> 0]
  /\ count = 0 /\ lock = Nobody /\ leaked = 0

\* Mutant: the count is read without the lock.
ReadUnlocked(c, from, to) ==
  /\ callAt[c] = from
  /\ lock' = lock /\ read' = [read EXCEPT ![c] = count]
  /\ callAt' = [callAt EXCEPT ![c] = to]
  /\ UNCHANGED <<attempt, answer, executed, count, leaked>>

\* Enter `with _rpc_lock` and read the count.
LockAndRead(c, from, to) ==
  /\ callAt[c] = from /\ lock = Nobody
  /\ lock' = c /\ read' = [read EXCEPT ![c] = count]
  /\ callAt' = [callAt EXCEPT ![c] = to]
  /\ UNCHANGED <<attempt, answer, executed, count, leaked>>

\* _increment_count, after the call was started.
Increment(c) ==
  /\ callAt[c] = "reading"
  /\ count' = read[c] + 1 /\ lock' = Nobody
  /\ callAt' = [callAt EXCEPT ![c] = "awaiting"]
  /\ UNCHANGED <<attempt, answer, executed, read, leaked>>

\* The await returns or raises; only an answer shows that the service has
\* executed the call.
Answer(c) ==
  /\ callAt[c] = "awaiting"
  /\ \E o \in {"ok", "unavailable", "error", "cancelled"}, done \in 0..1 :
       /\ o = "ok" => done = 1
       /\ answer' = [answer EXCEPT ![c] = o]
       /\ executed' = [executed EXCEPT ![c] = @ + done]
  /\ callAt' = [callAt EXCEPT ![c] = "ended"]
  /\ UNCHANGED <<attempt, read, count, lock, leaked>>

\* The attempt is to be repeated.
Retries(c) == answer[c] = "unavailable" /\ attempt[c] < MaxAttempts[c]

\* _decrement_count in the finally, on whatever way out.
Decrement(c) ==
  /\ callAt[c] = "decrementing"
  /\ count' = (IF read[c] > 0 THEN read[c] - 1 ELSE 0) /\ lock' = Nobody
  /\ callAt' = [callAt EXCEPT ![c] = IF Retries(c) THEN "sleeping" ELSE "done"]
  /\ UNCHANGED <<attempt, answer, executed, read, leaked>>

\* The delay is over, or cancelled.
WakeUp(c) ==
  /\ callAt[c] = "sleeping"
  /\ \/ /\ callAt' = [callAt EXCEPT ![c] = "start"]
        /\ attempt' = [attempt EXCEPT ![c] = @ + 1]
        /\ answer' = [answer EXCEPT ![c] = "none"]
     \/ /\ callAt' = [callAt EXCEPT ![c] = "done"]
        /\ answer' = [answer EXCEPT ![c] = "cancelled"]
        /\ UNCHANGED attempt
  /\ UNCHANGED <<executed, read, count, lock, leaked>>

\* The process of a caller is killed; the manager keeps its lock and count.
Kill(c) ==
  /\ callAt[c] \notin {"done", "killed"}
  /\ callAt' = [callAt EXCEPT ![c] = "killed"]
  /\ leaked' = leaked + IF callAt[c] \in {"awaiting", "ended", "decrementing"} THEN 1 ELSE 0
  /\ UNCHANGED <<attempt, answer, executed, read, count, lock>>

CallerStep(c) ==
  \/ LockAndRead(c, "start", "reading") \/ Increment(c)
  \/ Answer(c) \/ LockAndRead(c, "ended", "decrementing") \/ Decrement(c) \/ WakeUp(c)

RpcNext == \E c \in Callers : CallerStep(c) \/ Kill(c)

RpcSpec == RpcInit /\ [][RpcNext]_rpcVars
----------------------------------------------------------------------------
(* The shared count is the number of calls that are under way in all         *)
(* processes, plus those that died in a killed process: increments and       *)
(* decrements of different processes do not swallow each other.  A call is   *)
(* given up as unavailable only after its last attempt, and a service never  *)
(* executes it more often than its attempts allow: one that changes a        *)
(* session (driver, controller, traffic: no retries) at most once.           *)
CallsCounted ==
  /\ RpcTypeOK
  /\ count = leaked + Cardinality({c \in Callers : callAt[c] \in {"awaiting", "ended", "decrementing"}})
  /\ \A c \in Callers :
       /\ executed[c] <= MaxAttempts[c]
       /\ callAt[c] = "done" /\ answer[c] = "unavailable" => attempt[c] = MaxAttempts[c]
=============================================================================
