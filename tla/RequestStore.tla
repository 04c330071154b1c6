---------------------------- MODULE RequestStore ----------------------------
(***************************************************************************)
(* The future-based tracker of simulation requests                         *)
(* (alpasim_runtime/daemon/request_store.py) together with the coroutine   *)
(* that awaits each request.  Everything here runs on one asyncio event    *)
(* loop, so an operation is one step; what other coroutines can do between *)
(* two steps of a waiter is what makes the bookkeeping delicate:           *)
(*   - a future that is resolved wakes its waiter only later;              *)
(*   - cancelling a waiter cancels the future at once, but the waiter runs *)
(*     its "except CancelledError" clause only when it is next scheduled.  *)
(*                                                                         *)
(* RequestState objects outlive their dictionary entry (a waiter keeps a   *)
(* reference), so the keys of _requests are the variable "registered" and  *)
(* the fields of the objects are functions of the request.                 *)
(***************************************************************************)
EXTENDS Integers, FiniteSets

CONSTANTS
  Requests,   \* request ids; uuid4, so never reused
  Jobs,       \* job ids over all requests
  RequestOf   \* the request a job belongs to

ASSUME RequestOfAssumption == RequestOf \in [Jobs -> Requests]
ASSUME JobsAssumption == IsFiniteSet(Jobs)

VARIABLES
  registered,   \* keys of RequestStore._requests
  pendingJobs,  \* RequestState.pending_jobs
  results,      \* RequestState.results, as the set of jobs reported
  completion,   \* RequestState.completion: the state of the future
  abandoned,    \* RequestState.abandoned
  waiter        \* where the coroutine serving the request is

storeVars == <<registered, pendingJobs, results, completion, abandoned>>

JobsOf(r) == {j \in Jobs : RequestOf[j] = r}

Completion == {"pending", "resolved", "failed", "cancelled"}

(***************************************************************************)
(* "new": the RPC has not started; "dispatching": inside submit_request;   *)
(* "waiting": suspended on the future; "cancelling": cancelled, not yet    *)
(* resumed; the others are the ways the coroutine ends.                    *)
(***************************************************************************)
Ended       == {"returned", "raised", "cancelled", "refused"}
WaiterState == {"new", "dispatching", "waiting", "cancelling"} \cup Ended

StoreTypeOK ==
  /\ registered \subseteq Requests
  /\ pendingJobs \in [Requests -> Int]
  /\ results \in [Requests -> SUBSET Jobs]
  /\ completion \in [Requests -> Completion]
  /\ abandoned \in [Requests -> BOOLEAN]
  /\ waiter \in [Requests -> WaiterState]

StoreInit ==
  /\ registered = {}
  /\ pendingJobs = [r \in Requests |-> 0]
  /\ results = [r \in Requests |-> {}]
  /\ completion = [r \in Requests |-> "pending"]
  /\ abandoned = [r \in Requests |-> FALSE]
  /\ waiter = [r \in Requests |-> "new"]

-----------------------------------------------------------------------------
(* register_request: a request without jobs is resolved on the spot. *)
Register(r) ==
  /\ r \notin registered
  /\ registered' = registered \cup {r}
  /\ pendingJobs' = [pendingJobs EXCEPT ![r] = Cardinality(JobsOf(r))]
  /\ completion' = [completion EXCEPT
                      ![r] = IF JobsOf(r) = {} THEN "resolved" ELSE "pending"]
  /\ UNCHANGED <<results, abandoned>>

(* record_result raises on an unknown request and on a surplus result. *)
Recordable(j) ==
  /\ RequestOf[j] \in registered
  /\ pendingJobs[RequestOf[j]] > 0

(* The entries reap_abandoned deletes, given the new pending counts. *)
Reapable(counts) == {r \in registered : abandoned[r] /\ counts[r] = 0}

(* Mutant: the future is resolved by the last result but one. *)
ResolveOneEarly(j) ==
  LET r == RequestOf[j] IN
  /\ results' = [results EXCEPT ![r] = @ \cup {j}]
  /\ pendingJobs' = [pendingJobs EXCEPT ![r] = @ - 1]
  /\ completion' = [completion EXCEPT
                      ![r] = IF pendingJobs[r] <= 2 /\ @ = "pending" THEN "resolved" ELSE @]
  /\ registered' = registered \ Reapable(pendingJobs')
  /\ UNCHANGED abandoned

(* Mutant: a result of a cancelled request is dropped without being counted. *)
DropWhenCancelled(j) ==
  LET r == RequestOf[j]
      n == IF completion[r] = "cancelled" THEN 0 ELSE 1 IN
  /\ results' = [results EXCEPT ![r] = IF n = 0 THEN @ ELSE @ \cup {j}]
  /\ pendingJobs' = [pendingJobs EXCEPT ![r] = @ - n]
  /\ completion' = [completion EXCEPT
                      ![r] = IF pendingJobs'[r] = 0 /\ @ = "pending" THEN "resolved" ELSE @]
  /\ registered' = registered \ Reapable(pendingJobs')
  /\ UNCHANGED abandoned

(* record_result, followed by reap_abandoned as in the scheduler's on_result. *)
RecordAndReap(j) ==
  LET r == RequestOf[j] IN
  /\ results' = [results EXCEPT ![r] = @ \cup {j}]
  /\ pendingJobs' = [pendingJobs EXCEPT ![r] = @ - 1]
  /\ completion' = [completion EXCEPT
                      ![r] = IF pendingJobs[r] = 1 /\ @ = "pending" THEN "resolved" ELSE @]
  /\ registered' = registered \ Reapable(pendingJobs')
  /\ UNCHANGED abandoned

(* fail_request for every request of S: a future already done is left alone. *)
FailRequests(S) ==
  completion' = [r \in Requests |->
                   IF r \in S /\ completion[r] = "pending" THEN "failed" ELSE completion[r]]

(* Mutant: the entries are forgotten and their waiters with them. *)
ForgetAllRequests ==
  /\ registered' = {}
  /\ UNCHANGED <<pendingJobs, results, completion, abandoned>>

(* fail_all_requests: fail every future still pending and forget the entries. *)
FailAllRequests ==
  /\ FailRequests(registered)
  /\ registered' = {}
  /\ UNCHANGED <<pendingJobs, results, abandoned>>

(* wait_for_completion resumes on a future that is done: the entry is popped. *)
WaiterWakes(r) ==
  /\ waiter[r] = "waiting"
  /\ completion[r] \in {"resolved", "failed"}
  /\ waiter' = [waiter EXCEPT
                  ![r] = IF completion[r] = "resolved" THEN "returned" ELSE "raised"]
  /\ registered' = registered \ {r}
  /\ UNCHANGED <<pendingJobs, results, completion, abandoned>>

(* Cancelling the tasks awaiting S: each future still pending is cancelled now. *)
CancelWaiters(S) ==
  /\ waiter' = [r \in Requests |-> IF r \in S THEN "cancelling" ELSE waiter[r]]
  /\ completion' = [r \in Requests |->
                      IF r \in S /\ completion[r] = "pending" THEN "cancelled" ELSE completion[r]]
  /\ UNCHANGED <<registered, pendingJobs, results, abandoned>>

(* The cancelled waiter runs: it marks its entry abandoned and leaves it in place. *)
WaiterAbandons(r) ==
  /\ waiter[r] = "cancelling"
  /\ waiter' = [waiter EXCEPT ![r] = "cancelled"]
  /\ abandoned' = [abandoned EXCEPT ![r] = TRUE]
  /\ UNCHANGED <<registered, pendingJobs, results, completion>>

=============================================================================
