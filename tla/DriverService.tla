--------------------------- MODULE DriverService ----------------------------
(***************************************************************************)
(* EgoDriverService (driver main.py): the gRPC handlers that run on the    *)
(* event loop, the queue of drive jobs, and the inference thread that      *)
(* answers them in batches through call_soon_threadsafe.  A session object *)
(* outlives its session: a job keeps the object it was made with.          *)
(*                                                                         *)
(* The client is the runtime's: it sends a session no observation while a  *)
(* drive of that session is under way (Quiet), but may give up a drive.    *)
(* predict_batch returns one prediction per input or raises.               *)
(***************************************************************************)
EXTENDS Integers, Sequences, FiniteSets, FiniteSetTheorems, SequenceTheorems,
        NaturalsInduction, WellFoundedInduction, TLAPS

CONSTANTS
  Uuids,         \* session ids
  Drives,        \* calls of drive
  MaxObjects,    \* bound: sessions started
  MaxPoses,      \* bound: egomotion observations of a session
  MaxBatch,      \* cfg.inference.max_batch_size
  StopJob        \* _SENTINEL_JOB

ASSUME DriverAssumption ==
  /\ MaxBatch \in Nat \ {0} /\ MaxPoses \in Nat \ {0} /\ MaxObjects \in Nat
  /\ StopJob \notin Drives

VARIABLES
  driverSessions,  \* _sessions: the object of an id, 0 when there is none
  made,            \* session objects created so far
  observed,        \* of an object: [poses, states, command]
  driveJob,        \* of a drive: [session, poses, command] when it was queued
  driveHandler,    \* idle, awaiting, answered, empty, failed or cancelled
  driveFuture,     \* pending, result, exception or cancelled
  driveAnswer,     \* the prediction set_result was called with
  jobQueue,        \* _job_queue
  workerStop,      \* _worker_stop
  inference,       \* of the thread: head, get, fill, run, drain or ended
  batch,           \* the drives of the batch
  stopAfterBatch,
  callbacks,       \* what call_soon_threadsafe has scheduled
  server           \* serving, joining (in stop_worker) or stopped

handlerVars   == <<driverSessions, made, observed, driveJob>>
inferenceVars == <<inference, batch, stopAfterBatch>>
futureVars    == <<driveHandler, driveFuture, driveAnswer>>
driverVars    == <<handlerVars, futureVars, jobQueue, workerStop, inferenceVars,
                   callbacks, server>>

Objects   == 1 .. MaxObjects
Commands  == {"straight", "turn"}
NoJob    == [session |-> 0, poses |-> 0, command |-> "straight"]

\* Session.create.
FreshSession == [poses |-> 0, states |-> 0, command |-> "straight"]

SeqRange(s) == {s[i] : i \in 1 .. Len(s)}

DriverTypeOK ==
  /\ driverSessions \in [Uuids -> 0 .. MaxObjects]
  /\ driveHandler \in [Drives -> {"idle", "awaiting", "answered", "empty", "failed", "cancelled"}]
  /\ driveFuture \in [Drives -> {"pending", "result", "exception", "cancelled"}]
  /\ inference \in {"head", "get", "fill", "run", "drain", "ended"}
  /\ Len(batch) <= MaxBatch
  /\ server \in {"serving", "joining", "stopped"}

DriverInit ==
  /\ driverSessions = [u \in Uuids |-> 0]
  /\ made = 0 /\ observed = [o \in Objects |-> FreshSession]
  /\ driveJob = [d \in Drives |-> NoJob]
  /\ driveHandler = [d \in Drives |-> "idle"]
  /\ driveFuture = [d \in Drives |-> "pending"] /\ driveAnswer = [d \in Drives |-> NoJob]
  /\ jobQueue = <<>> /\ workerStop = FALSE /\ callbacks = <<>>
  /\ inference = "head" /\ batch = <<>> /\ stopAfterBatch = FALSE
  /\ server = "serving"
----------------------------------------------------------------------------
(* The handlers                                                              *)

\* No drive of the object is under way.
Quiet(o) == \A d \in Drives : driveHandler[d] = "awaiting" => driveJob[d].session # o

\* start_session; of an id that exists it returns OK and changes nothing (the
\* abort is not awaited).
StartSession(u) ==
  /\ server # "stopped" /\ driverSessions[u] = 0 /\ made < MaxObjects
  /\ made' = made + 1 /\ driverSessions' = [driverSessions EXCEPT ![u] = made']
  /\ UNCHANGED <<observed, driveJob, futureVars, jobQueue, workerStop, inferenceVars,
                 callbacks, server>>

\* close_session.
CloseSession(u) ==
  /\ server # "stopped" /\ driverSessions[u] # 0
  /\ driverSessions' = [driverSessions EXCEPT ![u] = 0]
  /\ UNCHANGED <<made, observed, driveJob, futureVars, jobQueue, workerStop, inferenceVars,
                 callbacks, server>>

\* The session exists, and its client may send something.
Serves(u) == server # "stopped" /\ driverSessions[u] # 0 /\ Quiet(driverSessions[u])

\* A handler that replaces what the session has observed.
Observe(u, session) ==
  /\ Serves(u)
  /\ observed' = [observed EXCEPT ![driverSessions[u]] = session]
  /\ UNCHANGED <<driverSessions, made, driveJob, futureVars, jobQueue, workerStop,
                 inferenceVars, callbacks, server>>

\* submit_egomotion_observation: the poses are extended before the strict zip
\* finds that a dynamic state is missing.
SubmitEgomotion(u) ==
  /\ Serves(u) /\ observed[driverSessions[u]].poses < MaxPoses
  /\ \E complete \in {0, 1} :
       Observe(u, [observed[driverSessions[u]] EXCEPT !.poses = @ + 1, !.states = @ + complete])

\* update_command_from_route: the command follows the route once there is a pose.
TurnedBy(s) == [s EXCEPT !.command = IF s.poses = 0 THEN @ ELSE "turn"]

\* submit_route, of a route that turns.
SubmitRoute(u) == Serves(u) /\ Observe(u, TurnedBy(observed[driverSessions[u]]))

\* What a batch reads of a session, and what a job was made from.
InputsOf(o, command) == [session |-> o, poses |-> observed[o].poses, command |-> command]

\* drive, up to its await.  Without a pose, or while the caches (below) lack
\* frames, the answer is empty.
Drive(d, u) ==
  /\ Serves(u) /\ driveHandler[d] = "idle"
  /\ \E ready \in {FALSE, observed[driverSessions[u]].poses > 0} :
      LET o == driverSessions[u] IN
      /\ driveHandler' = [driveHandler EXCEPT ![d] = IF ready THEN "awaiting" ELSE "empty"]
      /\ driveJob' = IF ready THEN [driveJob EXCEPT ![d] = InputsOf(o, observed[o].command)]
                     ELSE driveJob
      /\ jobQueue' = IF ready THEN Append(jobQueue, d) ELSE jobQueue
      /\ UNCHANGED <<driverSessions, made, observed, driveFuture, driveAnswer, workerStop,
                     inferenceVars, callbacks, server>>

\* The trajectory of an answer: the prediction, placed at the pose of the job.
Converted(d) == [anchor |-> driveJob[d].poses, prediction |-> driveAnswer[d]]

\* drive, after its await.
DriveResumes(d) ==
  /\ driveHandler[d] = "awaiting" /\ driveFuture[d] # "pending"
  /\ driveHandler' = [driveHandler EXCEPT ![d] =
       CASE driveFuture[d] = "result" -> "answered"
         [] driveFuture[d] = "exception" -> "failed"
         [] driveFuture[d] = "cancelled" -> "cancelled"]
  /\ UNCHANGED <<handlerVars, driveFuture, driveAnswer, jobQueue, workerStop, inferenceVars,
                 callbacks, server>>

\* A future that is cancelled unless it is done.
Cancelled(f) == IF f = "pending" THEN "cancelled" ELSE f

\* The client gives up the call: its handler is cancelled, with the future it
\* awaits.  The job stays where it is.
GiveUp(d) ==
  /\ driveHandler[d] = "awaiting"
  /\ driveHandler' = [driveHandler EXCEPT ![d] = "cancelled"]
  /\ driveFuture' = [driveFuture EXCEPT ![d] = Cancelled(@)]
  /\ UNCHANGED <<handlerVars, driveAnswer, jobQueue, workerStop, inferenceVars, callbacks, server>>

\* The event loop runs a callback; on a future that is done it raises an
\* InvalidStateError, which is only logged.
RunCallback ==
  /\ callbacks # <<>> /\ server # "stopped"
  /\ LET c == Head(callbacks)
     IN  IF driveFuture[c.drive] = "pending"
         THEN /\ driveFuture' = [driveFuture EXCEPT ![c.drive] = c.kind]
              /\ driveAnswer' = [driveAnswer EXCEPT ![c.drive] = c.answer]
         ELSE UNCHANGED <<driveFuture, driveAnswer>>
  /\ callbacks' = Tail(callbacks)
  /\ UNCHANGED <<handlerVars, driveHandler, jobQueue, workerStop, inferenceVars, server>>
----------------------------------------------------------------------------
(* The inference thread, _worker_main                                        *)

\* The head of the loop.
CheckStop ==
  /\ inference = "head" /\ inference' = IF workerStop THEN "drain" ELSE "get"
  /\ UNCHANGED <<handlerVars, futureVars, jobQueue, workerStop, batch,
                 stopAfterBatch, callbacks, server>>

\* The blocking get.
TakeFirst ==
  /\ inference = "get" /\ jobQueue # <<>> /\ jobQueue' = Tail(jobQueue)
  /\ IF Head(jobQueue) = StopJob THEN inference' = "drain" /\ UNCHANGED batch
     ELSE inference' = "fill" /\ batch' = <<Head(jobQueue)>>
  /\ UNCHANGED <<handlerVars, futureVars, workerStop, stopAfterBatch,
                 callbacks, server>>

\* One turn of the loop that fills the batch.
FillBatch ==
  /\ inference = "fill"
  /\ IF Len(batch) = MaxBatch \/ jobQueue = <<>>
     THEN inference' = "run" /\ UNCHANGED <<batch, jobQueue, stopAfterBatch>>
     ELSE /\ jobQueue' = Tail(jobQueue)
          /\ IF Head(jobQueue) = StopJob
             THEN inference' = "run" /\ stopAfterBatch' = TRUE /\ UNCHANGED batch
             ELSE batch' = Append(batch, Head(jobQueue)) /\ UNCHANGED <<inference, stopAfterBatch>>
  /\ UNCHANGED <<handlerVars, futureVars, workerStop, callbacks, server>>

\* What _run_batch reads for a job: the job's own session object, as it is now.
BatchInputs(d) == InputsOf(driveJob[d].session, driveJob[d].command)

\* Schedule a callback for each of the jobs, a result with its prediction.
Posted(jobs, kind) ==
  callbacks \o [i \in 1 .. Len(jobs) |->
                 [drive |-> jobs[i], kind |-> kind,
                  answer |-> IF kind = "result" THEN BatchInputs(jobs[i]) ELSE NoJob]]

\* Mutant: only the first job of a batch that fails gets the exception.
RunBatchFailFirst ==
  /\ inference = "run" /\ inference' = IF stopAfterBatch THEN "drain" ELSE "head"
  /\ \/ /\ \A i \in 1 .. Len(batch) : observed[driveJob[batch[i]].session].states > 0
        /\ callbacks' = Posted(batch, "result")
     \/ callbacks' = Posted(<<batch[1]>>, "exception")
  /\ batch' = <<>>
  /\ UNCHANGED <<handlerVars, futureVars, jobQueue, workerStop, stopAfterBatch, server>>

\* _run_batch and the posts of its outcomes: a session without dynamic states,
\* or the model, fails the whole batch.
RunBatch ==
  /\ inference = "run" /\ inference' = IF stopAfterBatch THEN "drain" ELSE "head"
  /\ \/ /\ \A i \in 1 .. Len(batch) : observed[driveJob[batch[i]].session].states > 0
        /\ callbacks' = Posted(batch, "result")
     \/ callbacks' = Posted(batch, "exception")
  /\ batch' = <<>>
  /\ UNCHANGED <<handlerVars, futureVars, jobQueue, workerStop, stopAfterBatch, server>>

\* What is left on the queue is cancelled, until the queue is found empty.
Drain ==
  /\ inference = "drain" /\ workerStop' = TRUE
  /\ IF jobQueue = <<>> THEN inference' = "ended" /\ UNCHANGED <<jobQueue, callbacks>>
     ELSE /\ jobQueue' = Tail(jobQueue) /\ UNCHANGED inference
          /\ callbacks' = IF Head(jobQueue) = StopJob THEN callbacks
                          ELSE Append(callbacks, [drive |-> Head(jobQueue), answer |-> NoJob,
                                                  kind |-> "cancelled"])
  /\ UNCHANGED <<handlerVars, futureVars, batch, stopAfterBatch, server>>
----------------------------------------------------------------------------
(* The end, serve                                                            *)

\* Mutant: stop_worker does not wake the thread.
InterruptQuietly ==
  /\ server = "serving" /\ server' = "joining" /\ workerStop' = TRUE
  /\ UNCHANGED <<handlerVars, futureVars, jobQueue, inferenceVars, callbacks>>

\* The server is interrupted: stop_worker, up to its join.  The handlers go on
\* serving.
Interrupt ==
  /\ server = "serving" /\ server' = "joining"
  /\ workerStop' = TRUE
  /\ jobQueue' = IF workerStop THEN jobQueue ELSE Append(jobQueue, StopJob)
  /\ UNCHANGED <<handlerVars, futureVars, inferenceVars, callbacks>>

\* The thread has been joined: server.stop(grace=0) cancels every handler.
StopServer ==
  /\ server = "joining" /\ inference = "ended" /\ server' = "stopped"
  /\ driveHandler' = [d \in Drives |-> IF driveHandler[d] = "awaiting" THEN "cancelled"
                                       ELSE driveHandler[d]]
  /\ driveFuture' = [d \in Drives |-> IF driveHandler[d] = "awaiting" THEN Cancelled(driveFuture[d])
                                      ELSE driveFuture[d]]
  /\ UNCHANGED <<handlerVars, driveAnswer, jobQueue, workerStop, inferenceVars, callbacks>>

\* A step of the inference thread.
InferenceStep == CheckStop \/ TakeFirst \/ FillBatch \/ RunBatch \/ Drain

DriverNext ==
  \/ \E u \in Uuids :
       \/ StartSession(u) \/ CloseSession(u) \/ SubmitRoute(u)
       \/ SubmitEgomotion(u)
       \/ \E d \in Drives : Drive(d, u)
  \/ \E d \in Drives : DriveResumes(d) \/ GiveUp(d)
  \/ RunCallback \/ InferenceStep \/ Interrupt \/ StopServer

DriverSpec == DriverInit /\ [][DriverNext]_driverVars

\* The event loop and the thread go on, and a stop that began goes on.
DriverFairSpec ==
  /\ DriverSpec
  /\ WF_driverVars(InferenceStep) /\ WF_driverVars(RunCallback) /\ WF_driverVars(StopServer)
  /\ \A d \in Drives : WF_driverVars(DriveResumes(d))
----------------------------------------------------------------------------
\* Where a drive whose future is pending can still be found.
InFlight ==
  SeqRange(jobQueue) \cup SeqRange(batch) \cup {callbacks[i].drive : i \in 1 .. Len(callbacks)}

(* A drive that waits for its future is on the queue, in the batch or in a   *)
(* scheduled callback, and if the thread has ended, the server is about to   *)
(* cancel it: neither a failed batch, a drive given up, a session closed or  *)
(* started anew nor the stop drops it.  A drive that is answered gets the    *)
(* prediction of its own session object from the poses and the command it    *)
(* was sent with, and placed at the last pose it rests on, although the      *)
(* thread reads the poses later, from an object that may be closed.          *)
DrivesAccountedFor ==
  /\ DriverTypeOK
  /\ \A d \in Drives :
       /\ driveHandler[d] = "awaiting" /\ driveFuture[d] = "pending" =>
            d \in InFlight /\ (inference = "ended" => server = "joining")
       /\ driveHandler[d] = "answered" =>
            /\ Converted(d).prediction = driveJob[d]
            /\ Converted(d).anchor = driveAnswer[d].poses

(* Every drive ends: it is answered, fails or is cancelled, also when it     *)
(* came while the server was stopping, after the thread had drained the      *)
(* queue.  The stop itself ends: the thread cannot block in its get.  On the *)
(* way no drive is lost (DrivesAccountedFor).                                *)
DrivesEnd ==
  /\ [][DrivesAccountedFor']_driverVars
  /\ \A d \in Drives : driveHandler[d] = "awaiting" ~> driveHandler[d] # "awaiting"
  /\ server = "joining" ~> server = "stopped"

-----------------------------------------------------------------------------
(***************************************************************************)
(* The frame caches of a driver session (frame_cache.py, Session): images  *)
(* of several cameras arrive in any order, each cache keeps the newest     *)
(* ContextLength * SubsampleFactor of them, and inference takes every      *)
(* SubsampleFactor-th, counted back from the newest.                       *)
(***************************************************************************)

CONSTANTS
  Cameras,          \* cfg.inference.use_cameras
  Timestamps,       \* bound: frame_end_us of the images
  ContextLength,
  SubsampleFactor

ASSUME CacheAssumption ==
  /\ Timestamps \subseteq Nat
  /\ ContextLength \in Nat \ {0} /\ SubsampleFactor \in Nat \ {0}

VARIABLES
  entries,    \* of a camera: the timestamps cached, oldest first
  added,      \* history: every timestamp a cache has taken
  selected    \* what the last batch has read of the caches, <<>> before

cacheVars == <<entries, added, selected>>

Cached(c) == {entries[c][i] : i \in 1 .. Len(entries[c])}

CacheInit ==
  /\ entries = [c \in Cameras |-> <<>>] /\ added = [c \in Cameras |-> {}]
  /\ selected = [c \in Cameras |-> <<>>]

\* The walk from the newest entry to the first older one: insert behind it.
Inserted(s, t) ==
  LET older == Cardinality({i \in 1 .. Len(s) : s[i] < t})
  IN  SubSeq(s, 1, older) \o <<t>> \o SubSeq(s, older + 1, Len(s))

MaxEntries == ContextLength * SubsampleFactor

\* Mutant: the bound forgets the stride.
PruneToContext(s) ==
  SubSeq(s, IF Len(s) > ContextLength THEN Len(s) - ContextLength + 1 ELSE 1, Len(s))

\* _prune: the oldest go.
Pruned(s) == SubSeq(s, IF Len(s) > MaxEntries THEN Len(s) - MaxEntries + 1 ELSE 1, Len(s))

\* add_image; of a timestamp that is cached it raises.
AddImage(c, t) ==
  /\ t \notin Cached(c)
  /\ entries' = [entries EXCEPT ![c] = Pruned(Inserted(@, t))]
  /\ added' = [added EXCEPT ![c] = @ \cup {t}]
  /\ UNCHANGED selected

\* min_frames_required.
MinFrames(count) == (count - 1) * SubsampleFactor + 1

\* all_cameras_ready.
AllCamerasReady == \A c \in Cameras : Len(entries[c]) >= MinFrames(ContextLength)

\* latest_frame_entries.
LatestEntries(s, count) ==
  [k \in 1 .. count |-> s[Len(s) - (count - k) * SubsampleFactor]]

\* A drive is ready, and its batch collects the images of every camera.
PrepareImages ==
  /\ AllCamerasReady
  /\ selected' = [c \in Cameras |-> LatestEntries(entries[c], ContextLength)]
  /\ UNCHANGED <<entries, added>>

CacheNext == (\E c \in Cameras, t \in Timestamps : AddImage(c, t)) \/ PrepareImages

CacheSpec == CacheInit /\ [][CacheNext]_cacheVars
----------------------------------------------------------------------------
\* The newest of a set of timestamps, n at most.
Newest(n, T) == {t \in T : Cardinality({u \in T : u > t}) < n}

\* How many images of the camera came after a timestamp.
NewerThan(t, T) == Cardinality({u \in T : u > t})

(* However the images were ordered, and although a frame that was pruned may *)
(* come again, a cache holds the newest MaxEntries of all it was given, in   *)
(* order; a drive found ready can be served (the bound covers the strided    *)
(* context, cameras fill up independently), with frames in order that lie    *)
(* SubsampleFactor images apart as the camera sent them; and once a camera   *)
(* is ready it stays so.                                                     *)
CacheIsNewest ==
  /\ \A c \in Cameras :
       /\ Cached(c) = Newest(MaxEntries, added[c])
       /\ \A i, j \in 1 .. Len(entries[c]) : i < j => entries[c][i] < entries[c][j]
       /\ Cardinality(added[c]) >= MinFrames(ContextLength) =>
            Len(entries[c]) >= MinFrames(ContextLength)
  /\ AllCamerasReady =>
       \A c \in Cameras, k \in 1 .. ContextLength :
         LET t == LatestEntries(entries[c], ContextLength)[k]
         IN  NewerThan(t, added[c]) = (ContextLength - k) * SubsampleFactor
  /\ \A c \in Cameras : selected[c] # <<>> =>
       \A i, j \in 1 .. ContextLength : i < j => selected[c][i] < selected[c][j]

----------------------------------------------------------------------------
(* Proofs: the drives                                                        *)

DriveInputs == [session : 0 .. MaxObjects, poses : Nat, command : Commands]

DriveTypes ==
  /\ DriverTypeOK
  /\ observed \in [Objects -> [poses : Nat, states : Nat, command : Commands]]
  /\ driveJob \in [Drives -> DriveInputs] /\ driveAnswer \in [Drives -> DriveInputs]
  /\ jobQueue \in Seq(Drives \cup {StopJob}) /\ batch \in Seq(Drives)
  /\ callbacks \in Seq([drive : Drives, kind : {"result", "exception", "cancelled"},
                        answer : DriveInputs])
  /\ made \in 0 .. MaxObjects

(* A batch exists between the first get and the posts. *)
BatchFits == inference \notin {"fill", "run"} => batch = <<>>

(* Only the end of the server ends the thread. *)
StopsWithServer ==
  server = "serving" =>
    /\ workerStop = FALSE /\ stopAfterBatch = FALSE /\ inference \notin {"drain", "ended"}
    /\ StopJob \notin SeqRange(jobQueue)

Awaited(d) == driveHandler[d] = "awaiting" /\ driveFuture[d] = "pending"

(* How far a handler is tells of its future, and it is gone with the server. *)
HandlersFit ==
  \A d \in Drives :
    /\ driveHandler[d] \in {"idle", "empty"} => driveFuture[d] = "pending"
    /\ driveHandler[d] \in {"answered", "failed", "cancelled"} => driveFuture[d] # "pending"
    /\ driveHandler[d] = "answered" => driveFuture[d] = "result"
    /\ server = "stopped" => driveHandler[d] # "awaiting"

(* A drive that was queued has a job with a session object. *)
JobsFit ==
  \A d \in Drives : driveHandler[d] \notin {"idle", "empty"} => driveJob[d].session \in Objects

(* What a batch would read for a waiting drive is what the drive was sent    *)
(* with: the session object stands still.                                    *)
InputsKept ==
  \A d \in Drives : driveHandler[d] = "awaiting" => BatchInputs(d) = driveJob[d]

(* Answers, given or scheduled for one who waits, were made from its job. *)
AnswersFit ==
  /\ \A d \in Drives : driveFuture[d] = "result" => driveAnswer[d] = driveJob[d]
  /\ \A c \in SeqRange(callbacks) :
       c.kind = "result" /\ Awaited(c.drive) => c.answer = driveJob[c.drive]

Scheduled == {c.drive : c \in SeqRange(callbacks)}

Underway == SeqRange(jobQueue) \cup SeqRange(batch) \cup Scheduled

(* The way of a drive: nothing is dropped, and nothing comes from a drive    *)
(* that was not queued.                                                      *)
NothingDropped ==
  \A d \in Drives :
    /\ Awaited(d) => d \in Underway
    /\ d \in Underway => driveHandler[d] \notin {"idle", "empty"}

DriveInv ==
  DriveTypes /\ BatchFits /\ StopsWithServer /\ HandlersFit /\ JobsFit /\ InputsKept
    /\ AnswersFit /\ NothingDropped

LEMMA SeqRangeOf ==
  ASSUME NEW S, NEW s \in Seq(S)
  PROVE  /\ SeqRange(s) \subseteq S
         /\ \A e : SeqRange(Append(s, e)) = SeqRange(s) \cup {e}
         /\ s # <<>> => /\ Head(s) \in S /\ Tail(s) \in Seq(S)
                        /\ SeqRange(s) = SeqRange(Tail(s)) \cup {Head(s)}
<1>1. Len(s) \in Nat /\ \A i \in 1 .. Len(s) : s[i] \in S
  BY LenProperties
<1>2. SeqRange(s) \subseteq S
  BY <1>1 DEF SeqRange
<1>3. ASSUME NEW e
      PROVE  SeqRange(Append(s, e)) = SeqRange(s) \cup {e}
  <2> DEFINE r == Append(s, e)
  <2>1. /\ Len(r) = Len(s) + 1 /\ r[Len(s) + 1] = e
        /\ \A i \in 1 .. Len(s) : r[i] = s[i]
    <3>1. s \in Seq(S \cup {e}) /\ e \in S \cup {e}
      OBVIOUS
    <3>2. QED
      BY <3>1, AppendProperties
  <2> HIDE DEF r
  <2>2. SeqRange(r) \subseteq SeqRange(s) \cup {e}
    BY <1>1, <2>1 DEF SeqRange
  <2>3. SeqRange(s) \cup {e} \subseteq SeqRange(r)
    BY <1>1, <2>1 DEF SeqRange
  <2>4. QED
    BY <2>2, <2>3 DEF r
<1>4. ASSUME s # <<>>
      PROVE  /\ Head(s) \in S /\ Tail(s) \in Seq(S)
             /\ SeqRange(s) = SeqRange(Tail(s)) \cup {Head(s)}
  <2> DEFINE r == Tail(s)
             h == Head(s)
  <2>1. /\ h = s[1] /\ h \in S /\ r \in Seq(S) /\ Len(r) = Len(s) - 1 /\ Len(s) > 0
        /\ \A i \in 1 .. Len(r) : r[i] = s[i + 1]
    BY <1>1, <1>4, HeadTailProperties, EmptySeq
  <2> HIDE DEF r, h
  <2>2. SeqRange(r) \cup {h} \subseteq SeqRange(s)
    BY <1>1, <2>1 DEF SeqRange
  <2>3. ASSUME NEW i \in 1 .. Len(s)
        PROVE  s[i] \in SeqRange(r) \cup {h}
    <3>1. CASE i = 1
      BY <2>1, <3>1
    <3>2. CASE i # 1
      <4>1. i - 1 \in 1 .. Len(r) /\ r[i - 1] = s[i]
        BY <1>1, <2>1, <3>2
      <4>2. QED
        BY <4>1 DEF SeqRange
    <3>3. QED
      BY <3>1, <3>2
  <2>4. SeqRange(s) \subseteq SeqRange(r) \cup {h}
    BY <2>3 DEF SeqRange
  <2>5. QED
    BY <2>1, <2>2, <2>4 DEF r, h
<1>5. QED
  BY <1>2, <1>3, <1>4

LEMMA SeqRangeConcat ==
  ASSUME NEW S, NEW s \in Seq(S), NEW r \in Seq(S)
  PROVE  s \o r \in Seq(S) /\ SeqRange(s \o r) = SeqRange(s) \cup SeqRange(r)
<1> DEFINE u == s \o r
<1>1. /\ Len(s) \in Nat /\ Len(r) \in Nat /\ u \in Seq(S) /\ Len(u) = Len(s) + Len(r)
      /\ \A i \in 1 .. Len(s) + Len(r) : u[i] = IF i <= Len(s) THEN s[i] ELSE r[i - Len(s)]
  BY LenProperties, ConcatProperties
<1> HIDE DEF u
<1>2. SeqRange(u) \subseteq SeqRange(s) \cup SeqRange(r)
  <2>1. ASSUME NEW i \in 1 .. Len(u)
        PROVE  u[i] \in SeqRange(s) \cup SeqRange(r)
    <3>1. CASE i <= Len(s)
      BY <1>1, <3>1 DEF SeqRange
    <3>2. CASE Len(s) < i
      <4>1. i - Len(s) \in 1 .. Len(r) /\ u[i] = r[i - Len(s)]
        BY <1>1, <3>2
      <4>2. QED
        BY <4>1 DEF SeqRange
    <3>3. QED
      BY <1>1, <3>1, <3>2
  <2>2. QED
    BY <2>1 DEF SeqRange
<1>3. SeqRange(s) \subseteq SeqRange(u)
  BY <1>1 DEF SeqRange
<1>4. ASSUME NEW i \in 1 .. Len(r)
      PROVE  r[i] \in SeqRange(u)
  <2> DEFINE k == Len(s) + i
  <2>1. k \in 1 .. Len(s) + Len(r) /\ ~(k <= Len(s)) /\ k - Len(s) = i
    BY <1>1
  <2> HIDE DEF k
  <2>2. k \in 1 .. Len(u) /\ u[k] = r[i]
    BY <1>1, <2>1
  <2>3. QED
    BY <2>2 DEF SeqRange
<1>5. SeqRange(r) \subseteq SeqRange(u)
  BY <1>4 DEF SeqRange
<1>6. QED
  BY <1>1, <1>2, <1>3, <1>5 DEF u

(* The posts of a batch: one callback for each of its drives. *)
LEMMA PostedCallbacks ==
  ASSUME DriveTypes, NEW kind \in {"result", "exception"},
         \A d \in SeqRange(batch) : driveJob[d].session \in Objects
  PROVE  LET r == Posted(batch, kind)
             answers(d) == IF kind = "result" THEN BatchInputs(d) ELSE NoJob
             new == {[drive |-> d, kind |-> kind, answer |-> answers(d)] : d \in SeqRange(batch)}
         IN  /\ r \in Seq([drive : Drives, kind : {"result", "exception", "cancelled"},
                           answer : DriveInputs])
             /\ SeqRange(r) = SeqRange(callbacks) \cup new
<1> DEFINE Calls == [drive : Drives, kind : {"result", "exception", "cancelled"}, answer : DriveInputs]
           answers(d) == IF kind = "result" THEN BatchInputs(d) ELSE NoJob
           call(d) == [drive |-> d, kind |-> kind, answer |-> answers(d)]
           n == Len(batch)
           p == [i \in 1 .. n |-> call(batch[i])]
<1>1. n \in Nat /\ \A i \in 1 .. n : batch[i] \in Drives /\ batch[i] \in SeqRange(batch)
  BY DEF DriveTypes, SeqRange
<1>2. NoJob \in DriveInputs
  BY DriverAssumption DEF NoJob, DriveInputs, Commands
<1>3. ASSUME NEW d \in Drives, d \in SeqRange(batch)
      PROVE  call(d) \in Calls
  <2>1. BatchInputs(d) \in DriveInputs
    BY <1>3 DEF DriveTypes, BatchInputs, InputsOf, DriveInputs, Objects
  <2>2. QED
    BY <1>2, <2>1
<1>4. p \in Seq(Calls) /\ Len(p) = n /\ \A i \in 1 .. n : p[i] = call(batch[i])
  <2> HIDE DEF n, call, Calls
  <2>1. \A i \in 1 .. n : call(batch[i]) \in Calls
    BY <1>1, <1>3
  <2>2. QED
    BY <1>1, <2>1
<1>5. SeqRange(p) = {call(d) : d \in SeqRange(batch)}
  <2> HIDE DEF call, p
  <2>1. QED
    BY <1>4 DEF SeqRange
<1>6. Posted(batch, kind) = callbacks \o p
  BY DEF Posted
<1>7. callbacks \in Seq(Calls)
  BY DEF DriveTypes
<1> HIDE DEF p, Calls
<1>8. Posted(batch, kind) \in Seq(Calls) /\ SeqRange(Posted(batch, kind)) = SeqRange(callbacks) \cup SeqRange(p)
  BY <1>4, <1>6, <1>7, SeqRangeConcat
<1>9. QED
  BY <1>5, <1>8 DEF Calls

LEMMA CallbacksTyped ==
  ASSUME DriveInv
  PROVE  \A c \in SeqRange(callbacks) :
           /\ c \in [drive : Drives, kind : {"result", "exception", "cancelled"}, answer : DriveInputs]
           /\ c.drive \in Drives /\ c.drive \in Underway
<1> DEFINE Calls == [drive : Drives, kind : {"result", "exception", "cancelled"}, answer : DriveInputs]
<1>1. callbacks \in Seq(Calls)
  BY DEF DriveInv, DriveTypes
<1> HIDE DEF Calls
<1>2. SeqRange(callbacks) \subseteq Calls
  BY <1>1, SeqRangeOf
<1>3. QED
  BY <1>2 DEF Calls, Underway, Scheduled

LEMMA DriveStart == DriverInit => DriveInv
<1> SUFFICES ASSUME DriverInit
             PROVE  DriveInv
  OBVIOUS
<1>1. SeqRange(<<>>) = {}
  BY DEF SeqRange
<1>2. NoJob \in DriveInputs
  BY DriverAssumption DEF NoJob, DriveInputs, Commands
<1>3. FreshSession \in [poses : Nat, states : Nat, command : Commands]
  BY DEF FreshSession, Commands
<1>4. DriveTypes
  BY <1>2, <1>3, DriverAssumption DEF DriverInit, DriveTypes, DriverTypeOK
<1>5. BatchFits /\ StopsWithServer /\ HandlersFit /\ InputsKept /\ JobsFit
  BY <1>1 DEF DriverInit, BatchFits, StopsWithServer, HandlersFit, InputsKept, JobsFit
<1>6. AnswersFit /\ NothingDropped
  BY <1>1 DEF DriverInit, AnswersFit, NothingDropped, Awaited, Underway, Scheduled
<1>7. QED
  BY <1>4, <1>5, <1>6 DEF DriveInv

(* Steps that leave the drives alone. *)
LEMMA SessionsStep ==
  ASSUME DriveInv, NEW u \in Uuids,
         StartSession(u) \/ CloseSession(u) \/ SubmitRoute(u) \/ SubmitEgomotion(u)
  PROVE  DriveInv'
<1>1. UNCHANGED futureVars /\ UNCHANGED inferenceVars
      /\ UNCHANGED <<driveJob, jobQueue, workerStop, callbacks, server>>
  BY DEF StartSession, CloseSession, SubmitRoute, SubmitEgomotion, Observe
<1>2. /\ driverSessions' \in [Uuids -> 0 .. MaxObjects] /\ made' \in 0 .. MaxObjects
      /\ observed' \in [Objects -> [poses : Nat, states : Nat, command : Commands]]
  <2> DEFINE Session == [poses : Nat, states : Nat, command : Commands]
  <2>1. observed \in [Objects -> Session] /\ driverSessions \in [Uuids -> 0 .. MaxObjects]
        /\ made \in 0 .. MaxObjects /\ MaxObjects \in Nat
    BY DriverAssumption DEF DriveInv, DriveTypes, DriverTypeOK
  <2>2. ASSUME Serves(u)
        PROVE  driverSessions[u] \in Objects /\ observed[driverSessions[u]] \in Session
    BY <2>1, <2>2 DEF Serves, Objects
  <2>3. CASE StartSession(u) \/ CloseSession(u)
    BY <2>1, <2>3 DEF StartSession, CloseSession
  <2>4. CASE SubmitRoute(u)
    <3>1. TurnedBy(observed[driverSessions[u]]) \in Session
      BY <2>2, <2>4 DEF SubmitRoute, TurnedBy, Commands
    <3>2. QED
      BY <2>1, <2>2, <2>4, <3>1 DEF SubmitRoute, Observe
  <2>5. CASE SubmitEgomotion(u)
    <3>1. ASSUME NEW s \in Session, NEW complete \in {0, 1}
          PROVE  [s EXCEPT !.poses = @ + 1, !.states = @ + complete] \in Session
      <4>1. s.poses + 1 \in Nat /\ s.states + complete \in Nat
        OBVIOUS
      <4> DEFINE poses == s.poses + 1
                 states == s.states + complete
      <4> HIDE DEF poses, states
      <4>2. [s EXCEPT !.poses = poses, !.states = states] \in Session
        BY <4>1 DEF poses, states
      <4>3. QED
        BY <4>2 DEF poses, states
    <3>2. PICK s \in Session : observed' = [observed EXCEPT ![driverSessions[u]] = s]
      BY <2>2, <2>5, <3>1 DEF SubmitEgomotion, Observe
    <3>3. QED
      BY <2>1, <2>5, <3>2 DEF SubmitEgomotion, Observe
  <2>6. QED
    BY <2>3, <2>4, <2>5
<1>3. DriveTypes'
  BY <1>1, <1>2 DEF DriveInv, DriveTypes, DriverTypeOK, futureVars, inferenceVars
<1>4. BatchFits' /\ StopsWithServer' /\ HandlersFit' /\ JobsFit' /\ NothingDropped' /\ AnswersFit'
  BY <1>1 DEF DriveInv, JobsFit, BatchFits, StopsWithServer, HandlersFit, NothingDropped, AnswersFit, Awaited,
         Underway, Scheduled, futureVars, inferenceVars
<1>5. InputsKept'
  <2> SUFFICES ASSUME NEW d \in Drives, driveHandler[d] = "awaiting"
               PROVE  driveJob[d].session \in Objects
                      /\ observed'[driveJob[d].session].poses = observed[driveJob[d].session].poses
    BY <1>1 DEF DriveInv, InputsKept, BatchInputs, InputsOf, futureVars
  <2>1. driveJob[d].session \in Objects
    BY DEF DriveInv, JobsFit
  <2>2. CASE StartSession(u) \/ CloseSession(u)
    BY <2>1, <2>2 DEF StartSession, CloseSession
  <2>3. CASE SubmitRoute(u) \/ SubmitEgomotion(u)
    <3>1. driveJob[d].session # driverSessions[u]
      BY <2>3 DEF SubmitRoute, SubmitEgomotion, Serves, Quiet
    <3>2. QED
      BY <2>1, <2>3, <3>1 DEF SubmitRoute, SubmitEgomotion, Observe, DriveInv, DriveTypes
  <2>4. QED
    BY <2>2, <2>3
<1>6. QED
  BY <1>3, <1>4, <1>5 DEF DriveInv

LEMMA DriveQueued ==
  ASSUME DriveInv, NEW d \in Drives, NEW u \in Uuids, Drive(d, u)
  PROVE  DriveInv'
<1> DEFINE o == driverSessions[u]
           job == InputsOf(o, observed[o].command)
<1>1. /\ o \in Objects /\ job \in DriveInputs /\ server # "stopped" /\ driveHandler[d] = "idle"
      /\ driveFuture[d] = "pending"
      /\ UNCHANGED <<driverSessions, made, observed, driveFuture, driveAnswer, workerStop,
                     inferenceVars, callbacks, server>>
  BY DriverAssumption
  DEF Drive, Serves, Objects, InputsOf, DriveInv, DriveTypes, DriverTypeOK, DriveInputs, HandlersFit
<1>2. CASE /\ driveHandler' = [driveHandler EXCEPT ![d] = "empty"]
           /\ UNCHANGED <<driveJob, jobQueue>>
  <2>1. \A e \in Drives : /\ driveHandler'[e] = "awaiting" <=> driveHandler[e] = "awaiting"
                          /\ driveHandler'[e] # driveHandler[e] => e = d /\ driveHandler'[e] = "empty"
    BY <1>1, <1>2 DEF DriveInv, DriveTypes, DriverTypeOK
  <2>2. d \notin Underway
    BY <1>1 DEF DriveInv, NothingDropped
  <2>3. DriveTypes'
    BY <1>1, <1>2 DEF DriveInv, DriveTypes, DriverTypeOK, inferenceVars
  <2>4. BatchFits' /\ StopsWithServer'
    BY <1>1, <1>2 DEF DriveInv, BatchFits, StopsWithServer, inferenceVars
  <2>5. HandlersFit'
    BY <1>1, <1>2, <2>1 DEF DriveInv, HandlersFit
  <2>6. InputsKept' /\ JobsFit'
    BY <1>1, <1>2, <2>1 DEF DriveInv, InputsKept, JobsFit, BatchInputs, InputsOf
  <2>7. AnswersFit'
    <3>1. \A c \in SeqRange(callbacks) : c.drive \in Drives
      BY CallbacksTyped
    <3>2. QED
      BY <1>1, <1>2, <2>1, <3>1 DEF DriveInv, AnswersFit, Awaited
  <2>8. NothingDropped'
    BY <1>1, <1>2, <2>1, <2>2 DEF DriveInv, NothingDropped, Awaited, Underway, Scheduled, inferenceVars
  <2>9. QED
    BY <2>3, <2>4, <2>5, <2>6, <2>7, <2>8 DEF DriveInv
<1>3. CASE /\ driveHandler' = [driveHandler EXCEPT ![d] = "awaiting"]
           /\ driveJob' = [driveJob EXCEPT ![d] = job]
           /\ jobQueue' = Append(jobQueue, d)
  <2>1. /\ \A e \in Drives \ {d} : driveHandler'[e] = driveHandler[e] /\ driveJob'[e] = driveJob[e]
        /\ driveHandler'[d] = "awaiting" /\ driveJob'[d] = job
    BY <1>3 DEF DriveInv, DriveTypes, DriverTypeOK
  <2>2. d \notin Underway
    BY <1>1 DEF DriveInv, NothingDropped
  <2>3. jobQueue' \in Seq(Drives \cup {StopJob}) /\ SeqRange(jobQueue') = SeqRange(jobQueue) \cup {d}
    <3>1. jobQueue \in Seq(Drives \cup {StopJob}) /\ d \in Drives \cup {StopJob}
      BY DEF DriveInv, DriveTypes
    <3>2. QED
      BY <1>3, <3>1, SeqRangeOf, AppendProperties
  <2> HIDE DEF job
  <2>4. DriveTypes'
    BY <1>1, <1>3, <2>3 DEF DriveInv, DriveTypes, DriverTypeOK, inferenceVars
  <2>5. BatchFits' /\ StopsWithServer'
    BY <1>1, <2>3, DriverAssumption DEF DriveInv, BatchFits, StopsWithServer, inferenceVars
  <2>6. HandlersFit'
    BY <1>1, <2>1 DEF DriveInv, HandlersFit
  <2>7. InputsKept' /\ JobsFit'
    <3>1. job.session = o /\ job.command = observed[o].command /\ InputsOf(o, job.command) = job
      BY DEF job, InputsOf
    <3>2. QED
      BY <1>1, <2>1, <3>1 DEF DriveInv, InputsKept, JobsFit, BatchInputs, InputsOf
  <2>8. AnswersFit'
    <3>1. \A c \in SeqRange(callbacks) : c.drive \in Drives \ {d}
      BY <2>2, CallbacksTyped
    <3>2. \A e \in Drives : driveFuture'[e] = "result" => e # d
      BY <1>1
    <3>3. QED
      BY <1>1, <2>1, <3>1, <3>2 DEF DriveInv, AnswersFit, Awaited
  <2>9. NothingDropped'
    BY <1>1, <2>1, <2>3 DEF DriveInv, NothingDropped, Awaited, Underway, Scheduled, inferenceVars
  <2>10. QED
    BY <2>4, <2>5, <2>6, <2>7, <2>8, <2>9 DEF DriveInv
<1>4. QED
  BY <1>2, <1>3 DEF Drive

(* A handler ends; its future, if it was pending, is cancelled. *)
LEMMA HandlersEnd ==
  ASSUME DriveInv,
         \/ \E d \in Drives : DriveResumes(d) \/ GiveUp(d)
         \/ StopServer
  PROVE  DriveInv'
<1>1. /\ UNCHANGED handlerVars /\ UNCHANGED inferenceVars
      /\ UNCHANGED <<driveAnswer, jobQueue, workerStop, callbacks>>
  BY DEF DriveResumes, GiveUp, StopServer
<1>2. /\ server' \in {"serving", "joining", "stopped"} /\ (server' = "serving" => server = "serving")
      /\ \A d \in Drives : server' = "stopped" => driveHandler'[d] # "awaiting"
  BY DEF DriveResumes, GiveUp, StopServer, DriveInv, DriveTypes, DriverTypeOK, HandlersFit
<1>3. \A d \in Drives :
        \/ driveHandler'[d] = driveHandler[d] /\ driveFuture'[d] = driveFuture[d]
        \/ /\ driveHandler[d] = "awaiting"
           /\ driveHandler'[d] \in {"answered", "failed", "cancelled"}
           /\ driveFuture'[d] \in {"result", "exception", "cancelled"}
           /\ driveHandler'[d] = "answered" => driveFuture'[d] = "result"
           /\ driveFuture'[d] = "result" => driveFuture[d] = "result"
  <2>1. ASSUME NEW e \in Drives, DriveResumes(e) \/ GiveUp(e), NEW d \in Drives
        PROVE  \/ driveHandler'[d] = driveHandler[d] /\ driveFuture'[d] = driveFuture[d]
               \/ /\ driveHandler[d] = "awaiting"
                  /\ driveHandler'[d] \in {"answered", "failed", "cancelled"}
                  /\ driveFuture'[d] \in {"result", "exception", "cancelled"}
                  /\ driveHandler'[d] = "answered" => driveFuture'[d] = "result"
                  /\ driveFuture'[d] = "result" => driveFuture[d] = "result"
    <3>1. CASE d = e
      BY <2>1, <3>1 DEF DriveResumes, GiveUp, Cancelled, DriveInv, DriveTypes, DriverTypeOK
    <3>2. CASE d # e
      BY <2>1, <3>2 DEF DriveResumes, GiveUp, DriveInv, DriveTypes, DriverTypeOK
    <3>3. QED
      BY <3>1, <3>2
  <2>2. ASSUME StopServer, NEW d \in Drives
        PROVE  \/ driveHandler'[d] = driveHandler[d] /\ driveFuture'[d] = driveFuture[d]
               \/ /\ driveHandler[d] = "awaiting"
                  /\ driveHandler'[d] \in {"answered", "failed", "cancelled"}
                  /\ driveFuture'[d] \in {"result", "exception", "cancelled"}
                  /\ driveHandler'[d] = "answered" => driveFuture'[d] = "result"
                  /\ driveFuture'[d] = "result" => driveFuture[d] = "result"
    BY <2>2 DEF StopServer, Cancelled, DriveInv, DriveTypes, DriverTypeOK
  <2>3. QED
    BY <2>1, <2>2
<1>4. /\ driveHandler' \in [Drives -> {"idle", "awaiting", "answered", "empty", "failed", "cancelled"}]
      /\ driveFuture' \in [Drives -> {"pending", "result", "exception", "cancelled"}]
  BY DEF DriveResumes, GiveUp, StopServer, Cancelled, DriveInv, DriveTypes, DriverTypeOK
<1>5. DriveTypes'
  BY <1>1, <1>2, <1>4 DEF DriveInv, DriveTypes, DriverTypeOK, handlerVars, inferenceVars
<1>6. BatchFits' /\ StopsWithServer'
  BY <1>1, <1>2 DEF DriveInv, BatchFits, StopsWithServer, inferenceVars
<1>7. HandlersFit'
  BY <1>2, <1>3 DEF DriveInv, HandlersFit
<1>8. InputsKept' /\ JobsFit'
  BY <1>1, <1>3 DEF DriveInv, InputsKept, JobsFit, BatchInputs, InputsOf, handlerVars
<1>9. AnswersFit'
  <2>1. \A c \in SeqRange(callbacks) : c.drive \in Drives
    BY CallbacksTyped
  <2>2. \A d \in Drives : Awaited(d)' => Awaited(d)
    BY <1>3 DEF Awaited
  <2>3. \A d \in Drives : driveFuture'[d] = "result" => driveFuture[d] = "result"
    BY <1>3
  <2>4. QED
    BY <1>1, <2>1, <2>2, <2>3 DEF DriveInv, AnswersFit, handlerVars
<1>10. NothingDropped'
  BY <1>1, <1>3 DEF DriveInv, NothingDropped, Awaited, Underway, Scheduled, inferenceVars
<1>11. QED
  BY <1>5, <1>6, <1>7, <1>8, <1>9, <1>10 DEF DriveInv

LEMMA CallbackRuns ==
  ASSUME DriveInv, RunCallback
  PROVE  DriveInv'
<1>0. PICK c : c = Head(callbacks)
  OBVIOUS
<1>1. /\ UNCHANGED handlerVars /\ UNCHANGED inferenceVars
      /\ UNCHANGED <<driveHandler, jobQueue, workerStop, server>>
      /\ callbacks' = Tail(callbacks) /\ callbacks # <<>>
  BY DEF RunCallback
<1>2. /\ c \in [drive : Drives, kind : {"result", "exception", "cancelled"}, answer : DriveInputs]
      /\ callbacks' \in Seq([drive : Drives, kind : {"result", "exception", "cancelled"},
                             answer : DriveInputs])
      /\ SeqRange(callbacks) = SeqRange(callbacks') \cup {c}
  <2> DEFINE Calls == [drive : Drives, kind : {"result", "exception", "cancelled"}, answer : DriveInputs]
  <2>1. callbacks \in Seq(Calls)
    BY DEF DriveInv, DriveTypes
  <2> HIDE DEF Calls
  <2>2. /\ c \in Calls /\ callbacks' \in Seq(Calls)
        /\ SeqRange(callbacks) = SeqRange(callbacks') \cup {c}
    BY <1>0, <1>1, <2>1, SeqRangeOf
  <2>3. QED
    BY <2>2 DEF Calls
<1>3. \/ /\ driveFuture[c.drive] = "pending"
         /\ driveFuture' = [driveFuture EXCEPT ![c.drive] = c.kind]
         /\ driveAnswer' = [driveAnswer EXCEPT ![c.drive] = c.answer]
      \/ /\ driveFuture[c.drive] # "pending" /\ UNCHANGED driveFuture /\ UNCHANGED driveAnswer
  BY <1>0 DEF RunCallback
<1>4. c \in SeqRange(callbacks) /\ c.drive \in Underway /\ driveHandler[c.drive] \notin {"idle", "empty"}
  BY <1>2, CallbacksTyped DEF DriveInv, NothingDropped
<1>5. \A d \in Drives \ {c.drive} : driveFuture'[d] = driveFuture[d] /\ driveAnswer'[d] = driveAnswer[d]
  BY <1>3 DEF DriveInv, DriveTypes, DriverTypeOK
<1>6. \/ driveFuture'[c.drive] = driveFuture[c.drive] /\ driveAnswer'[c.drive] = driveAnswer[c.drive]
         /\ driveFuture[c.drive] # "pending"
      \/ /\ Awaited(c.drive) /\ driveFuture'[c.drive] = c.kind /\ driveAnswer'[c.drive] = c.answer
         /\ c.kind \in {"result", "exception", "cancelled"}
  BY <1>2, <1>3, <1>4 DEF DriveInv, DriveTypes, DriverTypeOK, HandlersFit, Awaited
<1>7. DriveTypes'
  BY <1>1, <1>2, <1>3 DEF DriveInv, DriveTypes, DriverTypeOK, handlerVars, inferenceVars
<1>8. BatchFits' /\ StopsWithServer' /\ InputsKept' /\ JobsFit'
  BY <1>1 DEF DriveInv, BatchFits, StopsWithServer, InputsKept, JobsFit, BatchInputs, InputsOf, handlerVars,
         inferenceVars
<1>9. HandlersFit'
  BY <1>1, <1>2, <1>5, <1>6 DEF DriveInv, HandlersFit, Awaited
<1>10. AnswersFit'
  <2>1. \A d \in Drives : Awaited(d)' => Awaited(d)
    BY <1>1, <1>5, <1>6 DEF Awaited
  <2>2. \A d \in Drives : driveFuture'[d] = "result" => driveAnswer'[d] = driveJob[d]
    BY <1>2, <1>4, <1>5, <1>6 DEF DriveInv, AnswersFit
  <2>3. \A b \in SeqRange(callbacks') : b \in SeqRange(callbacks) /\ b.drive \in Drives
    BY <1>2, CallbacksTyped
  <2>4. QED
    BY <1>1, <2>1, <2>2, <2>3 DEF DriveInv, AnswersFit, handlerVars
<1>11. NothingDropped'
  <2>1. Scheduled = Scheduled' \cup {c.drive}
    <3> DEFINE C == SeqRange(callbacks)
               D == SeqRange(callbacks')
    <3>1. C = D \cup {c}
      BY <1>2
    <3>2. Scheduled = {b.drive : b \in C} /\ Scheduled' = {b.drive : b \in D}
      BY DEF Scheduled
    <3> HIDE DEF C, D
    <3>3. QED
      BY <3>1, <3>2
  <2>2. ~Awaited(c.drive)'
    BY <1>6 DEF Awaited
  <2>3. \A d \in Drives : Awaited(d)' => Awaited(d)
    BY <1>1, <1>5, <1>6 DEF Awaited
  <2>4. Underway = Underway' \cup {c.drive}
    <3>1. SeqRange(jobQueue') = SeqRange(jobQueue) /\ SeqRange(batch') = SeqRange(batch)
      BY <1>1 DEF inferenceVars
    <3>2. Underway' = SeqRange(jobQueue') \cup SeqRange(batch') \cup Scheduled'
      BY DEF Underway
    <3>3. QED
      BY <2>1, <3>1, <3>2 DEF Underway
  <2>5. QED
    BY <1>1, <2>2, <2>3, <2>4 DEF DriveInv, NothingDropped
<1>12. QED
  BY <1>7, <1>8, <1>9, <1>10, <1>11 DEF DriveInv

(* What a step of the thread, or the interrupt, has to leave: the jobs it    *)
(* takes from one place are in another, and new answers are to jobs.         *)
LEMMA JobsPassedOn ==
  ASSUME DriveInv, UNCHANGED handlerVars, UNCHANGED futureVars, DriveTypes', BatchFits',
         StopsWithServer',
         server' = "stopped" => server = "stopped",
         Underway' \cap Drives = Underway \cap Drives,
         \A c \in SeqRange(callbacks') :
           c \in SeqRange(callbacks) \/ c.kind # "result" \/ c.answer = BatchInputs(c.drive)
  PROVE  DriveInv'
<1>1. HandlersFit'
  BY DEF DriveInv, HandlersFit, futureVars
<1>2. InputsKept' /\ JobsFit'
  BY DEF DriveInv, InputsKept, JobsFit, BatchInputs, InputsOf, handlerVars, futureVars
<1>3. NothingDropped'
  BY DEF DriveInv, NothingDropped, Awaited, futureVars
<1>4. AnswersFit'
  <2>1. \A c \in SeqRange(callbacks') : c.drive \in Drives
    <3> DEFINE Calls == [drive : Drives, kind : {"result", "exception", "cancelled"}, answer : DriveInputs]
    <3>1. callbacks' \in Seq(Calls)
      BY DEF DriveTypes, DriveInputs
    <3> HIDE DEF Calls
    <3>2. SeqRange(callbacks') \subseteq Calls
      BY <3>1, SeqRangeOf
    <3>3. QED
      BY <3>2 DEF Calls
  <2>2. \A d \in Drives : driveHandler[d] = "awaiting" => BatchInputs(d) = driveJob[d]
    BY DEF DriveInv, InputsKept
  <2>3. QED
    BY <2>1, <2>2 DEF DriveInv, AnswersFit, Awaited, handlerVars, futureVars
<1>5. QED
  BY <1>1, <1>2, <1>3, <1>4 DEF DriveInv

LEMMA ThreadStep ==
  ASSUME DriveInv, InferenceStep \/ Interrupt
  PROVE  DriveInv'
<1>1. UNCHANGED handlerVars /\ UNCHANGED futureVars
  BY DEF InferenceStep, CheckStop, TakeFirst, FillBatch, RunBatch, Drain, Interrupt
<1>2. /\ DriveTypes /\ BatchFits /\ StopsWithServer
      /\ jobQueue \in Seq(Drives \cup {StopJob}) /\ batch \in Seq(Drives)
      /\ SeqRange(<<>>) = {} /\ StopJob \notin Drives
  BY DriverAssumption DEF DriveInv, DriveTypes, SeqRange
<1>3. jobQueue # <<>> =>
        /\ Head(jobQueue) \in Drives \cup {StopJob} /\ Tail(jobQueue) \in Seq(Drives \cup {StopJob})
        /\ SeqRange(jobQueue) = SeqRange(Tail(jobQueue)) \cup {Head(jobQueue)}
  BY <1>2, SeqRangeOf
<1>4. CASE CheckStop
  <2>1. DriveTypes' /\ BatchFits' /\ StopsWithServer'
    BY <1>2, <1>4 DEF CheckStop, DriveTypes, DriverTypeOK, BatchFits, StopsWithServer, handlerVars, futureVars
  <2>2. Underway' = Underway /\ UNCHANGED callbacks /\ UNCHANGED server
    BY <1>4 DEF CheckStop, Underway, Scheduled
  <2>3. QED
    BY <1>1, <2>1, <2>2, JobsPassedOn
<1>5. CASE TakeFirst
  <2>1. /\ inference = "get" /\ batch = <<>> /\ jobQueue # <<>> /\ jobQueue' = Tail(jobQueue)
        /\ UNCHANGED <<workerStop, stopAfterBatch, callbacks, server>>
    BY <1>2, <1>5 DEF TakeFirst, BatchFits
  <2>2. CASE Head(jobQueue) = StopJob
    <3>1. inference' = "drain" /\ batch' = <<>> /\ server # "serving"
      BY <1>2, <1>3, <1>5, <2>1, <2>2 DEF TakeFirst, StopsWithServer
    <3>2. DriveTypes' /\ BatchFits' /\ StopsWithServer'
      BY <1>1, <1>2, <1>3, <2>1, <3>1
      DEF DriveTypes, DriverTypeOK, BatchFits, StopsWithServer, handlerVars, futureVars
    <3>3. Underway = Underway' \cup {StopJob}
      BY <1>3, <2>1, <2>2, <3>1 DEF Underway, Scheduled
    <3>4. QED
      BY <1>1, <1>2, <2>1, <3>2, <3>3, JobsPassedOn
  <2>3. CASE Head(jobQueue) # StopJob
    <3> DEFINE d == Head(jobQueue)
    <3>1. inference' = "fill" /\ batch' = <<d>> /\ d \in Drives
      BY <1>3, <1>5, <2>1, <2>3 DEF TakeFirst
    <3>2. batch' \in Seq(Drives) /\ Len(batch') = 1 /\ SeqRange(batch') = {d}
      BY <3>1 DEF SeqRange
    <3>3. DriveTypes' /\ BatchFits' /\ StopsWithServer'
      BY <1>1, <1>2, <1>3, <2>1, <3>1, <3>2, DriverAssumption
      DEF DriveTypes, DriverTypeOK, BatchFits, StopsWithServer, handlerVars, futureVars
    <3>4. Underway = Underway'
      BY <1>2, <1>3, <2>1, <3>2 DEF Underway, Scheduled
    <3>5. QED
      BY <1>1, <2>1, <3>3, <3>4, JobsPassedOn
  <2>4. QED
    BY <2>2, <2>3
<1>6. CASE FillBatch
  <2>1. /\ inference = "fill" /\ UNCHANGED <<workerStop, callbacks, server>>
        /\ \/ inference' = "run" /\ UNCHANGED <<batch, jobQueue, stopAfterBatch>>
           \/ /\ Len(batch) # MaxBatch /\ jobQueue # <<>> /\ jobQueue' = Tail(jobQueue)
              /\ \/ /\ Head(jobQueue) = StopJob /\ inference' = "run" /\ stopAfterBatch' = TRUE
                    /\ UNCHANGED batch
                 \/ /\ Head(jobQueue) # StopJob /\ batch' = Append(batch, Head(jobQueue))
                    /\ UNCHANGED <<inference, stopAfterBatch>>
    BY <1>6 DEF FillBatch
  <2>2. CASE inference' = "run" /\ UNCHANGED <<batch, jobQueue, stopAfterBatch>>
    <3>1. DriveTypes' /\ BatchFits' /\ StopsWithServer'
      BY <1>1, <1>2, <2>1, <2>2
      DEF DriveTypes, DriverTypeOK, BatchFits, StopsWithServer, handlerVars, futureVars
    <3>2. Underway' = Underway
      BY <2>1, <2>2 DEF Underway, Scheduled
    <3>3. QED
      BY <1>1, <2>1, <3>1, <3>2, JobsPassedOn
  <2>3. CASE /\ jobQueue # <<>> /\ jobQueue' = Tail(jobQueue) /\ Head(jobQueue) = StopJob
             /\ inference' = "run" /\ stopAfterBatch' = TRUE /\ UNCHANGED batch
    <3>1. server # "serving"
      BY <1>2, <1>3, <2>3 DEF StopsWithServer
    <3>2. DriveTypes' /\ BatchFits' /\ StopsWithServer'
      BY <1>1, <1>2, <1>3, <2>1, <2>3, <3>1
      DEF DriveTypes, DriverTypeOK, BatchFits, StopsWithServer, handlerVars, futureVars
    <3>3. Underway = Underway' \cup {StopJob}
      BY <1>3, <2>1, <2>3 DEF Underway, Scheduled
    <3>4. QED
      BY <1>1, <1>2, <2>1, <3>2, <3>3, JobsPassedOn
  <2>4. CASE /\ Len(batch) # MaxBatch /\ jobQueue # <<>> /\ jobQueue' = Tail(jobQueue)
             /\ Head(jobQueue) # StopJob /\ batch' = Append(batch, Head(jobQueue))
             /\ UNCHANGED <<inference, stopAfterBatch>>
    <3> DEFINE d == Head(jobQueue)
    <3>1. d \in Drives
      BY <1>3, <2>4
    <3>2. /\ batch' \in Seq(Drives) /\ Len(batch') = Len(batch) + 1
          /\ SeqRange(batch') = SeqRange(batch) \cup {d}
      BY <1>2, <2>4, <3>1, AppendProperties, SeqRangeOf
    <3>3. Len(batch') <= MaxBatch
      BY <1>2, <2>4, <3>2, DriverAssumption DEF DriveTypes, DriverTypeOK
    <3>4. DriveTypes' /\ BatchFits' /\ StopsWithServer'
      BY <1>1, <1>2, <1>3, <2>1, <2>4, <3>2, <3>3
      DEF DriveTypes, DriverTypeOK, BatchFits, StopsWithServer, handlerVars, futureVars
    <3>5. Underway = Underway'
      BY <1>3, <2>1, <2>4, <3>2 DEF Underway, Scheduled
    <3>6. QED
      BY <1>1, <2>1, <3>4, <3>5, JobsPassedOn
  <2>5. QED
    BY <2>1, <2>2, <2>3, <2>4
<1>7. CASE RunBatch
  <2>1. /\ inference = "run" /\ inference' = IF stopAfterBatch THEN "drain" ELSE "head"
        /\ batch' = <<>> /\ UNCHANGED <<jobQueue, workerStop, stopAfterBatch, server>>
    BY <1>7 DEF RunBatch
  <2>2. PICK kind \in {"result", "exception"} : callbacks' = Posted(batch, kind)
    BY <1>7 DEF RunBatch
  <2>3. \A d \in SeqRange(batch) : d \in Drives /\ driveJob[d].session \in Objects
    <3>1. SeqRange(batch) \subseteq Drives
      BY <1>2, SeqRangeOf
    <3>2. \A d \in SeqRange(batch) : driveHandler[d] \notin {"idle", "empty"}
      BY <3>1 DEF DriveInv, NothingDropped, Underway
    <3>3. QED
      BY <3>1, <3>2 DEF DriveInv, JobsFit
  <2> DEFINE answers(d) == IF kind = "result" THEN BatchInputs(d) ELSE NoJob
             call(d) == [drive |-> d, kind |-> kind, answer |-> answers(d)]
  <2>4. /\ callbacks' \in Seq([drive : Drives, kind : {"result", "exception", "cancelled"},
                               answer : DriveInputs])
        /\ SeqRange(callbacks') = SeqRange(callbacks) \cup {call(d) : d \in SeqRange(batch)}
    BY <1>2, <2>2, <2>3, PostedCallbacks
  <2>5. DriveTypes' /\ BatchFits' /\ StopsWithServer'
    BY <1>1, <1>2, <2>1, <2>4, DriverAssumption
    DEF DriveTypes, DriverTypeOK, BatchFits, StopsWithServer, handlerVars, futureVars
  <2>6. Underway = Underway'
    <3> DEFINE B == SeqRange(batch)
               C == SeqRange(callbacks)
               D == SeqRange(callbacks')
    <3>1. D = C \cup {call(d) : d \in B} /\ \A d \in B : call(d).drive = d
      BY <2>4
    <3>2. Scheduled = {c.drive : c \in C} /\ Scheduled' = {c.drive : c \in D}
      BY DEF Scheduled
    <3> HIDE DEF B, C, D, call
    <3>3. Scheduled' = Scheduled \cup B
      BY <3>1, <3>2
    <3>4. Underway' = SeqRange(jobQueue) \cup Scheduled'
      BY <1>2, <2>1 DEF Underway
    <3>5. QED
      BY <3>3, <3>4 DEF Underway, B
  <2>7. \A c \in SeqRange(callbacks') :
          c \in SeqRange(callbacks) \/ c.kind # "result" \/ c.answer = BatchInputs(c.drive)
    BY <2>4
  <2>8. QED
    BY <1>1, <2>1, <2>5, <2>6, <2>7, JobsPassedOn
<1>8. CASE Drain
  <2>1. /\ inference = "drain" /\ batch = <<>> /\ workerStop' = TRUE /\ server # "serving"
        /\ UNCHANGED <<batch, stopAfterBatch, server>>
    BY <1>2, <1>8 DEF Drain, BatchFits, StopsWithServer
  <2>2. CASE jobQueue = <<>> /\ inference' = "ended" /\ UNCHANGED <<jobQueue, callbacks>>
    <3>1. DriveTypes' /\ BatchFits' /\ StopsWithServer'
      BY <1>1, <1>2, <2>1, <2>2
      DEF DriveTypes, DriverTypeOK, BatchFits, StopsWithServer, handlerVars, futureVars
    <3>2. Underway' = Underway
      BY <2>1, <2>2 DEF Underway, Scheduled
    <3>3. QED
      BY <1>1, <2>1, <2>2, <3>1, <3>2, JobsPassedOn
  <2>3. CASE /\ jobQueue # <<>> /\ jobQueue' = Tail(jobQueue) /\ UNCHANGED inference
             /\ Head(jobQueue) = StopJob /\ UNCHANGED callbacks
    <3>1. DriveTypes' /\ BatchFits' /\ StopsWithServer'
      BY <1>1, <1>2, <1>3, <2>1, <2>3
      DEF DriveTypes, DriverTypeOK, BatchFits, StopsWithServer, handlerVars, futureVars
    <3>2. Underway = Underway' \cup {StopJob}
      BY <1>3, <2>1, <2>3 DEF Underway, Scheduled
    <3>3. QED
      BY <1>1, <1>2, <2>1, <2>3, <3>1, <3>2, JobsPassedOn
  <2>4. CASE /\ jobQueue # <<>> /\ jobQueue' = Tail(jobQueue) /\ UNCHANGED inference
             /\ Head(jobQueue) # StopJob
             /\ callbacks' = Append(callbacks, [drive |-> Head(jobQueue), answer |-> NoJob,
                                                kind |-> "cancelled"])
    <3> DEFINE d == Head(jobQueue)
               call == [drive |-> d, answer |-> NoJob, kind |-> "cancelled"]
               Calls == [drive : Drives, kind : {"result", "exception", "cancelled"}, answer : DriveInputs]
    <3>1. d \in Drives /\ call \in Calls /\ callbacks \in Seq(Calls) /\ call.drive = d
          /\ call.kind # "result"
      BY <1>2, <1>3, <2>4, DriverAssumption DEF DriveTypes, DriveInputs, NoJob, Commands
    <3> HIDE DEF Calls, call
    <3>2. callbacks' \in Seq(Calls) /\ SeqRange(callbacks') = SeqRange(callbacks) \cup {call}
      BY <2>4, <3>1, AppendProperties, SeqRangeOf DEF call
    <3>3. DriveTypes' /\ BatchFits' /\ StopsWithServer'
      BY <1>1, <1>2, <1>3, <2>1, <2>4, <3>2
      DEF DriveTypes, DriverTypeOK, BatchFits, StopsWithServer, handlerVars, futureVars, Calls
    <3>4. Underway = Underway'
      <4> DEFINE C == SeqRange(callbacks)
                 D == SeqRange(callbacks')
      <4>1. D = C \cup {call} /\ Scheduled = {c.drive : c \in C} /\ Scheduled' = {c.drive : c \in D}
        BY <3>2 DEF Scheduled
      <4> HIDE DEF C, D
      <4>2. Scheduled' = Scheduled \cup {d}
        BY <3>1, <4>1
      <4>3. Underway' = SeqRange(Tail(jobQueue)) \cup SeqRange(batch) \cup Scheduled'
        BY <2>1, <2>4 DEF Underway
      <4>4. QED
        BY <1>3, <2>4, <4>2, <4>3 DEF Underway
    <3>5. QED
      BY <1>1, <2>1, <3>1, <3>2, <3>3, <3>4, JobsPassedOn
  <2>5. QED
    BY <1>8, <2>2, <2>3, <2>4 DEF Drain
<1>9. CASE Interrupt
  <2>1. /\ workerStop' = TRUE /\ server' = "joining"
        /\ UNCHANGED inferenceVars /\ UNCHANGED callbacks
        /\ UNCHANGED jobQueue \/ jobQueue' = Append(jobQueue, StopJob)
    BY <1>9 DEF Interrupt
  <2>2. /\ jobQueue' \in Seq(Drives \cup {StopJob})
        /\ SeqRange(jobQueue') \cap Drives = SeqRange(jobQueue) \cap Drives
    <3> DEFINE S == Drives \cup {StopJob}
    <3>1. jobQueue \in Seq(S) /\ StopJob \in S
      BY <1>2
    <3> HIDE DEF S
    <3>2. /\ Append(jobQueue, StopJob) \in Seq(S)
          /\ SeqRange(Append(jobQueue, StopJob)) = SeqRange(jobQueue) \cup {StopJob}
      BY <3>1, AppendProperties, SeqRangeOf
    <3>3. QED
      BY <1>2, <2>1, <3>2 DEF S
  <2>3. DriveTypes' /\ BatchFits' /\ StopsWithServer'
    BY <1>1, <1>2, <2>1, <2>2
    DEF DriveTypes, DriverTypeOK, BatchFits, StopsWithServer, handlerVars, futureVars, inferenceVars
  <2>4. Underway' \cap Drives = Underway \cap Drives
    BY <2>1, <2>2 DEF Underway, Scheduled, inferenceVars
  <2>5. QED
    BY <1>1, <2>1, <2>3, <2>4, JobsPassedOn
<1>10. QED
  BY <1>4, <1>5, <1>6, <1>7, <1>8, <1>9 DEF InferenceStep

THEOREM DriveInvariance == DriverSpec => []DriveInv
<1>1. DriveInv /\ [DriverNext]_driverVars => DriveInv'
  <2> SUFFICES ASSUME DriveInv, [DriverNext]_driverVars
               PROVE  DriveInv'
    OBVIOUS
  <2>1. CASE UNCHANGED driverVars
    BY <2>1
    DEF driverVars, handlerVars, futureVars, inferenceVars, DriveInv, DriveTypes, DriverTypeOK, BatchFits,
        StopsWithServer, HandlersFit, InputsKept, BatchInputs, InputsOf, AnswersFit, NothingDropped,
        Awaited, Underway, Scheduled, JobsFit
  <2>2. ASSUME NEW u \in Uuids,
               StartSession(u) \/ CloseSession(u) \/ SubmitRoute(u) \/ SubmitEgomotion(u)
        PROVE  DriveInv'
    BY <2>2, SessionsStep
  <2>3. ASSUME NEW u \in Uuids, NEW d \in Drives, Drive(d, u)
        PROVE  DriveInv'
    BY <2>3, DriveQueued
  <2>4. CASE (\E d \in Drives : DriveResumes(d) \/ GiveUp(d)) \/ StopServer
    BY <2>4, HandlersEnd
  <2>5. CASE RunCallback
    BY <2>5, CallbackRuns
  <2>6. CASE InferenceStep \/ Interrupt
    BY <2>6, ThreadStep
  <2>7. QED
    BY <2>1, <2>2, <2>3, <2>4, <2>5, <2>6 DEF DriverNext
<1>2. QED
  BY <1>1, DriveStart, PTL DEF DriverSpec

(* However handlers, the inference thread and the stop of the server         *)
(* interleave, no drive is dropped, and an answer rests on the inputs of the *)
(* job it answers.                                                           *)
THEOREM DrivesAreAccountedFor == DriverSpec => []DrivesAccountedFor
<1>1. DriveInv => DrivesAccountedFor
  <2> SUFFICES ASSUME DriveInv
               PROVE  DrivesAccountedFor
    OBVIOUS
  <2>1. DriverTypeOK
    BY DEF DriveInv, DriveTypes
  <2>2. {callbacks[i].drive : i \in 1 .. Len(callbacks)} = Scheduled
    BY DEF Scheduled, SeqRange
  <2>3. InFlight = Underway
    BY <2>2 DEF InFlight, Underway
  <2>4. ASSUME NEW d \in Drives, driveHandler[d] = "awaiting"
        PROVE  inference = "ended" => server = "joining"
    BY <2>1, <2>4 DEF DriveInv, HandlersFit, StopsWithServer, DriverTypeOK
  <2>5. ASSUME NEW d \in Drives, driveHandler[d] = "answered"
        PROVE  driveAnswer[d] = driveJob[d]
    BY <2>5 DEF DriveInv, HandlersFit, AnswersFit
  <2>6. QED
    BY <2>1, <2>3, <2>4, <2>5 DEF DrivesAccountedFor, Converted, DriveInv, NothingDropped, Awaited
<1>2. QED
  BY <1>1, DriveInvariance, PTL

----------------------------------------------------------------------------
(* Proofs: the caches                                                        *)

Ascending(s) == \A i, j \in 1 .. Len(s) : i < j => s[i] < s[j]

(* What is cached is newer than what was pruned, and nothing is pruned       *)
(* before the cache is full.                                                 *)
KeepsNewest ==
  \A c \in Cameras :
    /\ IsFiniteSet(added[c])
    /\ Ascending(entries[c]) /\ Len(entries[c]) <= MaxEntries
    /\ SeqRange(entries[c]) \subseteq added[c]
    /\ \A u \in added[c] \ SeqRange(entries[c]), t \in SeqRange(entries[c]) : u < t
    /\ added[c] # SeqRange(entries[c]) => Len(entries[c]) = MaxEntries

SelectionsAscend ==
  \A c \in Cameras : selected[c] # <<>> =>
    \A i, j \in 1 .. ContextLength : i < j => selected[c][i] < selected[c][j]

CacheInv ==
  /\ entries \in [Cameras -> Seq(Timestamps)] /\ added \in [Cameras -> SUBSET Timestamps]
  /\ KeepsNewest /\ SelectionsAscend

(* The elements behind the i-th of a list in order. *)
LEMMA ElementsBehind ==
  ASSUME NEW s \in Seq(Timestamps), Ascending(s), NEW i \in 0 .. Len(s)
  PROVE  LET B == {s[j] : j \in i + 1 .. Len(s)}
         IN  IsFiniteSet(B) /\ Cardinality(B) = Len(s) - i
<1> DEFINE D == i + 1 .. Len(s)
           B == {s[j] : j \in D}
           f == [j \in D |-> s[j]]
<1>1. /\ Len(s) \in Nat /\ i \in Nat /\ i <= Len(s) /\ D \subseteq 1 .. Len(s)
      /\ \A j \in D : j \in Int /\ s[j] \in Int
  <2>1. /\ Len(s) \in Nat /\ i \in Nat /\ i <= Len(s) /\ D \subseteq 1 .. Len(s)
        /\ \A j \in D : j \in Int
    BY LenProperties
  <2>2. Timestamps \subseteq Int /\ \A j \in 1 .. Len(s) : s[j] \in Timestamps
    BY CacheAssumption
  <2>3. QED
    BY <2>1, <2>2
<1>2. IsFiniteSet(D) /\ Cardinality(D) = Len(s) - i
  <2>1. i + 1 \in Int /\ Len(s) \in Int /\ (i + 1 > Len(s) => Len(s) - i = 0) /\ Len(s) - (i + 1) + 1 = Len(s) - i
    BY <1>1
  <2>2. QED
    BY <2>1, FS_Interval
<1>3. \A j, k \in D : s[j] = s[k] => j = k
  <2> SUFFICES ASSUME NEW j \in D, NEW k \in D, s[j] = s[k], j # k
               PROVE  FALSE
    OBVIOUS
  <2>1. CASE j < k
    BY <1>1, <2>1 DEF Ascending
  <2>2. CASE k < j
    BY <1>1, <2>2 DEF Ascending
  <2>3. QED
    BY <1>1, <2>1, <2>2
<1>4. f \in Bijection(D, B)
  <2> HIDE DEF D
  <2>1. QED
    BY <1>3 DEF Bijection, Injection, Surjection, IsInjective
<1> HIDE DEF D, B, f
<1>5. IsFiniteSet(B) /\ Cardinality(B) = Cardinality(D)
  BY <1>2, <1>4, FS_Bijection DEF ExistsBijection
<1>6. QED
  BY <1>2, <1>5 DEF B, D

LEMMA LeastExists ==
  ASSUME NEW P \in SUBSET Nat, P # {}
  PROVE  \E i \in P : \A k \in P : i <= k
<1> DEFINE R == OpToRel(<, Nat)
<1>0. P \subseteq Nat
  OBVIOUS
<1>1. IsWellFoundedOn(R, Nat)
  BY NatLessThanWellFounded
<1>2. PICK i \in P : \A k \in P : ~(<<k, i>> \in R)
  BY <1>0, <1>1, WFMin
<1>3. \A k \in P : ~(k < i)
  BY <1>0, <1>2 DEF OpToRel
<1>4. \A k \in P : i <= k
  BY <1>0, <1>3
<1>5. QED
  BY <1>4

LEMMA InitialSegment ==
  ASSUME NEW n \in Nat, NEW P \in SUBSET (1 .. n),
         \A i \in P, j \in 1 .. n : j < i => j \in P
  PROVE  Cardinality(P) \in 0 .. n /\ P = 1 .. Cardinality(P)
<1> DEFINE Q == {k \in 1 .. n + 1 : k \notin P}
<1>1. Q \in SUBSET Nat /\ n + 1 \in Q
  OBVIOUS
<1>2. PICK q \in Q : \A k \in Q : q <= k
  BY <1>1, LeastExists
<1>3. q \in 1 .. n + 1 /\ q \notin P
  OBVIOUS
<1>4. ASSUME NEW i \in 1 .. q - 1
      PROVE  i \in P
  <2>1. i \in 1 .. n + 1 /\ ~(q <= i)
    BY <1>3
  <2>2. QED
    BY <1>2, <2>1
<1>5. ASSUME NEW i \in P
      PROVE  i \in 1 .. q - 1
  <2>1. i \in 1 .. n /\ i # q
    BY <1>3
  <2>2. ~(q < i)
    <3>1. q < i => q \in 1 .. n
      BY <1>3, <2>1
    <3>2. QED
      BY <1>3, <3>1
  <2>3. QED
    BY <1>3, <2>1, <2>2
<1>6. P = 1 .. q - 1
  BY <1>4, <1>5
<1>7. Cardinality(1 .. q - 1) = q - 1
  <2>1. 1 \in Int /\ q - 1 \in Int /\ (1 > q - 1 => q - 1 = 0) /\ (q - 1) - 1 + 1 = q - 1
    BY <1>3
  <2>2. QED
    BY <2>1, FS_Interval
<1>8. QED
  BY <1>3, <1>6, <1>7

(* An image goes in its place. *)
LEMMA InsertedInOrder ==
  ASSUME NEW s \in Seq(Timestamps), Ascending(s), NEW t \in Timestamps, t \notin SeqRange(s)
  PROVE  /\ Inserted(s, t) \in Seq(Timestamps) /\ Len(Inserted(s, t)) = Len(s) + 1
         /\ Ascending(Inserted(s, t)) /\ SeqRange(Inserted(s, t)) = SeqRange(s) \cup {t}
<1> DEFINE n == Len(s)
           P == {i \in 1 .. n : s[i] < t}
<1>1. n \in Nat /\ t \in Int /\ \A i \in 1 .. n : s[i] \in Timestamps /\ s[i] \in Int /\ s[i] # t
  <2>1. Timestamps \subseteq Int /\ \A i \in 1 .. n : s[i] \in Timestamps
    BY CacheAssumption
  <2>2. QED
    BY <2>1, LenProperties DEF SeqRange
<1>2. \A i, j \in 1 .. n : i < j => s[i] < s[j]
  BY DEF Ascending
<1>3. PICK o : o = Cardinality(P)
  OBVIOUS
<1>4. o \in 0 .. n /\ P = 1 .. o
  <2>1. \A i \in P, j \in 1 .. n : j < i => j \in P
    BY <1>1, <1>2
  <2>2. P \in SUBSET (1 .. n)
    OBVIOUS
  <2> HIDE DEF P
  <2>3. QED
    BY <1>1, <1>3, <2>1, <2>2, InitialSegment
<1>5. /\ \A i \in 1 .. o : s[i] < t
      /\ \A i \in o + 1 .. n : t < s[i]
  BY <1>1, <1>4
<1> DEFINE a == SubSeq(s, 1, o)
           b == SubSeq(s, o + 1, n)
           u == (a \o <<t>>) \o b
<1>6. Inserted(s, t) = u
  BY <1>3 DEF Inserted
<1>7. a \in Seq(Timestamps) /\ Len(a) = o /\ \A i \in 1 .. o : a[i] = s[i]
  <2>1. 1 \in Int /\ o \in Int /\ \A i \in 1 .. o : s[i] \in Timestamps
    BY <1>1, <1>4
  <2>2. /\ a \in Seq(Timestamps) /\ Len(a) = IF 1 <= o THEN o - 1 + 1 ELSE 0
        /\ \A i \in 1 .. o - 1 + 1 : a[i] = s[1 + i - 1]
    BY <2>1, SubSeqProperties
  <2> HIDE DEF a
  <2>3. QED
    BY <1>4, <2>2
<1>8. b \in Seq(Timestamps) /\ Len(b) = n - o /\ \A i \in 1 .. n - o : b[i] = s[o + i]
  <2>1. o + 1 \in Int /\ n \in Int /\ \A i \in o + 1 .. n : s[i] \in Timestamps
    BY <1>1, <1>4
  <2>2. /\ b \in Seq(Timestamps) /\ Len(b) = IF o + 1 <= n THEN n - (o + 1) + 1 ELSE 0
        /\ \A i \in 1 .. n - (o + 1) + 1 : b[i] = s[o + 1 + i - 1]
    BY <2>1, SubSeqProperties
  <2> HIDE DEF b
  <2>3. QED
    BY <1>1, <1>4, <2>2
<1> HIDE DEF a, b
<1>9. /\ u \in Seq(Timestamps) /\ Len(u) = n + 1
      /\ \A i \in 1 .. n + 1 : u[i] = IF i <= o THEN s[i] ELSE IF i = o + 1 THEN t ELSE s[i - 1]
  <2> DEFINE h == <<t>>
             v == a \o h
  <2>1. h \in Seq(Timestamps) /\ Len(h) = 1 /\ h[1] = t
    OBVIOUS
  <2> HIDE DEF h
  <2>2. /\ v \in Seq(Timestamps) /\ Len(v) = o + 1
        /\ \A i \in 1 .. o + 1 : v[i] = IF i <= o THEN a[i] ELSE h[i - o]
    <3>1. /\ v \in Seq(Timestamps) /\ Len(v) = Len(a) + Len(h)
          /\ \A i \in 1 .. Len(a) + Len(h) : v[i] = IF i <= Len(a) THEN a[i] ELSE h[i - Len(a)]
      BY <1>7, <2>1, ConcatProperties
    <3> HIDE DEF v
    <3>2. QED
      BY <1>7, <2>1, <3>1
  <2>7. u = v \o b
    BY DEF v, h, u
  <2> HIDE DEF v, u
  <2>3. /\ u \in Seq(Timestamps) /\ Len(u) = (o + 1) + (n - o)
        /\ \A i \in 1 .. (o + 1) + (n - o) : u[i] = IF i <= o + 1 THEN v[i] ELSE b[i - (o + 1)]
    <3>1. /\ u \in Seq(Timestamps) /\ Len(u) = Len(v) + Len(b)
          /\ \A i \in 1 .. Len(v) + Len(b) : u[i] = IF i <= Len(v) THEN v[i] ELSE b[i - Len(v)]
      BY <1>8, <2>2, <2>7, ConcatProperties
    <3>2. QED
      BY <1>8, <2>2, <3>1
  <2>4. (o + 1) + (n - o) = n + 1
    BY <1>1, <1>4
  <2>5. ASSUME NEW i \in 1 .. n + 1
        PROVE  u[i] = IF i <= o THEN s[i] ELSE IF i = o + 1 THEN t ELSE s[i - 1]
    <3>1. CASE i <= o
      <4>1. i \in 1 .. o /\ i \in 1 .. o + 1 /\ i <= o + 1
        BY <1>4, <3>1
      <4>2. QED
        BY <1>7, <2>2, <2>3, <2>4, <3>1, <4>1
    <3>2. CASE i = o + 1
      <4>1. i \in 1 .. o + 1 /\ i <= o + 1 /\ ~(i <= o) /\ i - o = 1
        BY <1>4, <3>2
      <4>2. QED
        BY <2>1, <2>2, <2>3, <2>4, <3>2, <4>1
    <3>3. CASE ~(i <= o) /\ i # o + 1
      <4>1. ~(i <= o + 1) /\ i - (o + 1) \in 1 .. n - o /\ o + (i - (o + 1)) = i - 1
        BY <1>1, <1>4, <3>3
      <4>2. u[i] = b[i - (o + 1)] /\ b[i - (o + 1)] = s[o + (i - (o + 1))]
        BY <1>8, <2>3, <2>4, <4>1
      <4>3. QED
        BY <3>3, <4>1, <4>2
    <3>4. QED
      BY <3>1, <3>2, <3>3
  <2>6. QED
    BY <2>3, <2>4, <2>5
<1> HIDE DEF u, n, P
<1>10. ASSUME NEW i \in 1 .. n + 1, NEW j \in 1 .. n + 1, i < j
       PROVE  u[i] < u[j]
  <2>1. CASE j <= o
    <3>1. i <= o /\ i \in 1 .. n /\ j \in 1 .. n
      BY <1>1, <1>4, <1>10, <2>1
    <3>2. QED
      BY <1>2, <1>9, <1>10, <2>1, <3>1
  <2>2. CASE j = o + 1
    <3>1. i <= o /\ i \in 1 .. o /\ ~(j <= o)
      BY <1>1, <1>4, <1>10, <2>2
    <3>2. QED
      BY <1>5, <1>9, <2>2, <3>1
  <2>3. CASE ~(j <= o) /\ j # o + 1
    <3>1. j - 1 \in o + 1 .. n /\ j - 1 \in 1 .. n /\ u[j] = s[j - 1]
      BY <1>1, <1>4, <1>9, <2>3
    <3>2. CASE i <= o
      <4>1. i \in 1 .. n /\ i < j - 1 /\ u[i] = s[i]
        BY <1>1, <1>4, <1>9, <2>3, <3>2
      <4>2. QED
        BY <1>2, <3>1, <4>1
    <3>3. CASE i = o + 1
      <4>1. u[i] = t
        BY <1>4, <1>9, <3>3
      <4>2. QED
        BY <1>5, <3>1, <4>1
    <3>4. CASE ~(i <= o) /\ i # o + 1
      <4>1. i - 1 \in 1 .. n /\ i - 1 < j - 1 /\ u[i] = s[i - 1]
        BY <1>1, <1>4, <1>9, <1>10, <3>4
      <4>2. QED
        BY <1>2, <3>1, <4>1
    <3>5. QED
      BY <3>2, <3>3, <3>4
  <2>4. QED
    BY <2>1, <2>2, <2>3
<1>11. SeqRange(u) = SeqRange(s) \cup {t}
  <2>1. ASSUME NEW i \in 1 .. n + 1
        PROVE  u[i] \in SeqRange(s) \cup {t}
    <3>1. CASE i <= o
      <4>1. i \in 1 .. n
        BY <1>1, <1>4, <3>1
      <4>2. QED
        BY <1>9, <3>1, <4>1 DEF SeqRange, n
    <3>2. CASE i = o + 1
      BY <1>4, <1>9, <3>2
    <3>3. CASE ~(i <= o) /\ i # o + 1
      <4>1. i - 1 \in 1 .. n
        BY <1>1, <1>4, <3>3
      <4>2. QED
        BY <1>9, <3>3, <4>1 DEF SeqRange, n
    <3>4. QED
      BY <3>1, <3>2, <3>3
  <2>2. t \in SeqRange(u)
    <3>1. o + 1 \in 1 .. n + 1 /\ ~(o + 1 <= o)
      BY <1>1, <1>4
    <3>2. u[o + 1] = t
      BY <1>9, <3>1
    <3>3. QED
      BY <1>9, <3>1, <3>2 DEF SeqRange
  <2>3. ASSUME NEW i \in 1 .. n
        PROVE  s[i] \in SeqRange(u)
    <3>1. CASE i <= o
      <4>1. i \in 1 .. n + 1 /\ u[i] = s[i]
        BY <1>1, <1>9, <3>1
      <4>2. QED
        BY <1>9, <4>1 DEF SeqRange
    <3>2. CASE ~(i <= o)
      <4>1. i + 1 \in 1 .. n + 1 /\ ~(i + 1 <= o) /\ i + 1 # o + 1 /\ (i + 1) - 1 = i
        BY <1>1, <1>4, <3>2
      <4>2. u[i + 1] = s[i]
        BY <1>9, <4>1
      <4>3. QED
        BY <1>9, <4>1, <4>2 DEF SeqRange
    <3>3. QED
      BY <3>1, <3>2
  <2>4. SeqRange(u) \subseteq SeqRange(s) \cup {t}
    BY <1>9, <2>1 DEF SeqRange
  <2>5. SeqRange(s) \subseteq SeqRange(u)
    BY <2>3 DEF SeqRange, n
  <2>6. QED
    BY <2>2, <2>4, <2>5
<1>12. Ascending(u)
  BY <1>9, <1>10 DEF Ascending
<1>13. QED
  BY <1>6, <1>9, <1>11, <1>12 DEF n

(* The bound drops the oldest. *)
LEMMA PrunedInOrder ==
  ASSUME NEW u \in Seq(Timestamps), Ascending(u), Len(u) > 0, Len(u) <= MaxEntries + 1,
         MaxEntries \in Nat \ {0}
  PROVE  /\ Pruned(u) \in Seq(Timestamps) /\ Ascending(Pruned(u))
         /\ \/ /\ Len(u) <= MaxEntries /\ Len(Pruned(u)) = Len(u)
               /\ SeqRange(Pruned(u)) = SeqRange(u)
            \/ /\ Len(Pruned(u)) = MaxEntries /\ Len(u) = MaxEntries + 1
               /\ SeqRange(u) = SeqRange(Pruned(u)) \cup {u[1]}
               /\ \A x \in SeqRange(Pruned(u)) : u[1] < x
<1>1. PICK d : d = IF Len(u) <= MaxEntries THEN 0 ELSE 1
  OBVIOUS
<1> DEFINE n == Len(u)
           M == MaxEntries
           r == SubSeq(u, d + 1, n)
<1>2. n \in Nat \ {0} /\ d \in {0, 1} /\ \A i \in 1 .. n : u[i] \in Timestamps
  <2>1. d \in {0, 1}
    BY <1>1
  <2>2. n \in Nat \ {0}
    BY LenProperties
  <2>3. QED
    BY <2>1, <2>2
<1>3. Pruned(u) = r
  <2>1. CASE n <= M
    <3>1. ~(n > M) /\ d + 1 = 1
      BY <1>1, <1>2, <2>1
    <3>2. QED
      BY <3>1 DEF Pruned
  <2>2. CASE ~(n <= M)
    <3>1. n > M /\ n - M + 1 = d + 1
      BY <1>1, <1>2, <2>2
    <3>2. QED
      BY <3>1 DEF Pruned
  <2>3. QED
    BY <2>1, <2>2
<1> HIDE DEF M
<1>4. r \in Seq(Timestamps) /\ Len(r) = n - d /\ \A i \in 1 .. n - d : r[i] = u[i + d]
  <2>1. d + 1 \in Int /\ n \in Int /\ \A i \in d + 1 .. n : u[i] \in Timestamps
    BY <1>2
  <2>2. /\ r \in Seq(Timestamps) /\ Len(r) = IF d + 1 <= n THEN n - (d + 1) + 1 ELSE 0
        /\ \A i \in 1 .. n - (d + 1) + 1 : r[i] = u[d + 1 + i - 1]
    BY <2>1, SubSeqProperties
  <2> HIDE DEF r
  <2>3. QED
    BY <1>2, <2>2
<1> HIDE DEF r
<1>5. \A i, j \in 1 .. n : i < j => u[i] < u[j]
  BY DEF Ascending
<1>6. Ascending(r)
  <2> SUFFICES ASSUME NEW i \in 1 .. n - d, NEW j \in 1 .. n - d, i < j
               PROVE  r[i] < r[j]
    BY <1>4 DEF Ascending
  <2>1. i + d \in 1 .. n /\ j + d \in 1 .. n /\ i + d < j + d
    BY <1>2
  <2>2. QED
    BY <1>4, <1>5, <2>1
<1>7. SeqRange(r) = {u[i] : i \in d + 1 .. n}
  <2>1. \A i \in 1 .. n - d : i + d \in d + 1 .. n
    BY <1>2
  <2>2. ASSUME NEW i \in d + 1 .. n
        PROVE  \E j \in 1 .. n - d : r[j] = u[i]
    <3> DEFINE k == i - d
    <3>1. k \in 1 .. n - d /\ k + d = i
      BY <1>2
    <3> HIDE DEF k
    <3>2. r[k] = u[i]
      BY <1>4, <3>1
    <3>3. QED
      BY <3>1, <3>2
  <2>3. SeqRange(r) \subseteq {u[i] : i \in d + 1 .. n}
    BY <1>4, <2>1 DEF SeqRange
  <2>4. {u[i] : i \in d + 1 .. n} \subseteq SeqRange(r)
    BY <1>4, <2>2 DEF SeqRange
  <2>5. QED
    BY <2>3, <2>4
<1>8. CASE n <= MaxEntries
  <2>1. d = 0 /\ n - d = n /\ d + 1 .. n = 1 .. n
    BY <1>1, <1>2, <1>8
  <2>2. SeqRange(r) = SeqRange(u)
    BY <1>7, <2>1 DEF SeqRange
  <2>3. QED
    BY <1>3, <1>4, <1>6, <1>8, <2>1, <2>2
<1>9. CASE ~(n <= MaxEntries)
  <2>1. d = 1 /\ n = MaxEntries + 1 /\ n - d = MaxEntries
    BY <1>1, <1>2, <1>9
  <2>2. ASSUME NEW i \in 1 .. n
        PROVE  i = 1 \/ i \in 2 .. n
    BY <1>2
  <2>3. SeqRange(u) = SeqRange(r) \cup {u[1]}
    <3>1. SeqRange(r) = {u[i] : i \in 2 .. n} /\ 1 \in 1 .. n /\ 2 .. n \subseteq 1 .. n
      BY <1>2, <1>7, <2>1
    <3>2. QED
      BY <2>2, <3>1 DEF SeqRange
  <2>4. \A x \in SeqRange(r) : u[1] < x
    <3>1. \A i \in 2 .. n : u[1] < u[i]
      BY <1>2, <1>5
    <3>2. SeqRange(r) = {u[i] : i \in 2 .. n}
      BY <1>7, <2>1
    <3>3. QED
      BY <3>1, <3>2
  <2>5. QED
    BY <1>3, <1>4, <1>6, <2>1, <2>3, <2>4
<1>10. QED
  BY <1>8, <1>9

LEMMA CacheBound ==
  /\ MaxEntries \in Nat \ {0} /\ MinFrames(ContextLength) \in Nat \ {0}
  /\ MinFrames(ContextLength) <= MaxEntries
  /\ \A k \in 1 .. ContextLength :
       /\ (ContextLength - k) * SubsampleFactor \in 0 .. MinFrames(ContextLength) - 1
       /\ \A j \in 1 .. ContextLength : k < j =>
            (ContextLength - j) * SubsampleFactor < (ContextLength - k) * SubsampleFactor
<1>1. ContextLength \in Nat \ {0} /\ SubsampleFactor \in Nat \ {0}
  BY CacheAssumption
<1> DEFINE C == ContextLength
           F == SubsampleFactor
<1> HIDE DEF C, F
<1>2. C \in Nat \ {0} /\ F \in Nat \ {0}
  BY <1>1 DEF C, F
<1>3. \A m, l \in Nat : m <= l => m * F \in Nat /\ m * F <= l * F
  BY <1>2
<1>4. \A m, l \in Nat : m < l => m * F < l * F
  <2> SUFFICES ASSUME NEW m \in Nat, NEW l \in Nat, m < l
               PROVE  m * F < l * F
    OBVIOUS
  <2>1. (m + 1) * F <= l * F /\ (m + 1) * F = m * F + F
    BY <1>2, <1>3
  <2>2. m * F \in Int /\ l * F \in Int
    BY <1>2
  <2>3. QED
    BY <1>2, <2>1, <2>2
<1>5. (C - 1) * F \in Nat /\ (C - 1) * F + F = C * F
  BY <1>2
<1>6. (C - 1) * F + 1 <= C * F /\ C * F \in Nat \ {0}
  BY <1>2, <1>5
<1>7. ASSUME NEW k \in 1 .. C
      PROVE  /\ (C - k) * F \in 0 .. (C - 1) * F
             /\ \A j \in 1 .. C : k < j => (C - j) * F < (C - k) * F
  <2>1. C - k \in Nat /\ C - 1 \in Nat /\ C - k <= C - 1
    BY <1>2
  <2>2. (C - k) * F \in Nat /\ (C - k) * F <= (C - 1) * F
    BY <1>3, <2>1
  <2>3. \A j \in 1 .. C : k < j => C - j \in Nat /\ C - j < C - k
    BY <1>2
  <2>4. QED
    BY <1>4, <1>5, <2>1, <2>2, <2>3
<1>8. QED
  BY <1>5, <1>6, <1>7 DEF C, F, MaxEntries, MinFrames

LEMMA CacheStart == CacheInit => CacheInv
<1> SUFFICES ASSUME CacheInit
             PROVE  CacheInv
  OBVIOUS
<1>1. SeqRange(<<>>) = {} /\ IsFiniteSet({}) /\ Len(<<>>) = 0
  BY FS_EmptySet DEF SeqRange
<1>2. KeepsNewest
  BY <1>1, CacheBound DEF CacheInit, KeepsNewest, Ascending
<1>3. SelectionsAscend
  BY DEF CacheInit, SelectionsAscend
<1>4. QED
  BY <1>2, <1>3 DEF CacheInit, CacheInv

LEMMA ImageAdded ==
  ASSUME CacheInv, NEW c \in Cameras, NEW t \in Timestamps, AddImage(c, t)
  PROVE  CacheInv'
<1> DEFINE s == entries[c]
           u == Inserted(s, t)
           r == Pruned(u)
           S == SeqRange(s)
           R == SeqRange(r)
           A == added[c]
<1>1. /\ s \in Seq(Timestamps) /\ A \subseteq Timestamps /\ IsFiniteSet(A) /\ Ascending(s)
      /\ Len(s) \in Nat /\ Len(s) <= MaxEntries /\ S \subseteq A
      /\ \A v \in A \ S, e \in S : v < e
  BY LenProperties DEF CacheInv, KeepsNewest
<1>2. A # S => Len(s) = MaxEntries
  BY DEF CacheInv, KeepsNewest
<1>3. t \notin S
  BY DEF AddImage, Cached, SeqRange
<1>4. /\ entries' = [entries EXCEPT ![c] = r] /\ added' = [added EXCEPT ![c] = A \cup {t}]
      /\ UNCHANGED selected
  BY DEF AddImage
<1>5. u \in Seq(Timestamps) /\ Len(u) = Len(s) + 1 /\ Ascending(u) /\ SeqRange(u) = S \cup {t}
  BY <1>1, <1>3, InsertedInOrder
<1>6. S \subseteq Timestamps /\ Timestamps \subseteq Nat
  BY <1>1, CacheAssumption
<1> HIDE DEF u, s, S, A
<1>7. /\ r \in Seq(Timestamps) /\ Ascending(r)
      /\ \/ Len(u) <= MaxEntries /\ Len(r) = Len(u) /\ R = SeqRange(u)
         \/ /\ Len(r) = MaxEntries /\ Len(u) = MaxEntries + 1
            /\ SeqRange(u) = R \cup {u[1]}
            /\ \A x \in R : u[1] < x
  BY <1>1, <1>5, CacheBound, PrunedInOrder
<1> HIDE DEF r, R
<1>8. /\ Len(r) <= MaxEntries /\ R \subseteq A \cup {t}
      /\ \A v \in (A \cup {t}) \ R, e \in R : v < e
      /\ A \cup {t} # R => Len(r) = MaxEntries
  <2>1. CASE Len(u) <= MaxEntries /\ Len(r) = Len(u) /\ R = SeqRange(u)
    <3>1. Len(s) # MaxEntries
      BY <1>1, <1>5, <2>1, CacheBound
    <3>2. A = S
      BY <1>2, <3>1
    <3>3. QED
      BY <1>5, <2>1, <3>2
  <2>2. CASE /\ Len(r) = MaxEntries /\ SeqRange(u) = R \cup {u[1]} /\ \A x \in R : u[1] < x
    <3> DEFINE f == u[1]
    <3>1. S \cup {t} = R \cup {f} /\ \A x \in R : f < x
      BY <1>5, <2>2
    <3> HIDE DEF f
    <3>2. ASSUME NEW v \in (A \cup {t}) \ R, NEW e \in R
          PROVE  v < e
      <4>1. CASE v = f
        BY <3>1, <4>1
      <4>2. CASE v # f
        <5>1. v \in A \ S /\ v \in Nat
          BY <1>1, <1>6, <3>1, <4>2
        <5>2. CASE e \in S
          BY <1>1, <5>1, <5>2
        <5>3. CASE e \notin S
          <6>1. e = t /\ f # e
            <7>1. e = t
              BY <3>1, <5>3
            <7>2. e \in Nat
              BY <1>6, <7>1
            <7>3. f < e
              BY <3>1
            <7>4. QED
              BY <7>1, <7>2, <7>3
          <6>2. f \in S /\ f < e /\ f \in Nat
            BY <1>6, <3>1, <6>1
          <6>3. v < f
            BY <1>1, <5>1, <6>2
          <6>4. e \in Nat
            BY <1>6, <6>1
          <6>5. QED
            BY <5>1, <6>2, <6>3, <6>4
        <5>4. QED
          BY <5>2, <5>3
      <4>3. QED
        BY <4>1, <4>2
    <3>3. R \subseteq A \cup {t}
      BY <1>1, <3>1
    <3>4. Len(r) <= MaxEntries
      BY <2>2, CacheBound
    <3>5. QED
      BY <2>2, <3>2, <3>3, <3>4
  <2>3. QED
    BY <1>7, <2>1, <2>2
<1>9. IsFiniteSet(A \cup {t}) /\ A \cup {t} \subseteq Timestamps
  BY <1>1, FS_AddElement
<1>10. /\ entries'[c] = r /\ added'[c] = A \cup {t}
       /\ \A b \in Cameras \ {c} : entries'[b] = entries[b] /\ added'[b] = added[b]
       /\ entries' \in [Cameras -> Seq(Timestamps)] /\ added' \in [Cameras -> SUBSET Timestamps]
  BY <1>4, <1>7, <1>9 DEF CacheInv
<1>11. KeepsNewest'
  <2> SUFFICES ASSUME NEW b \in Cameras
               PROVE  /\ IsFiniteSet(added'[b])
                      /\ Ascending(entries'[b]) /\ Len(entries'[b]) <= MaxEntries
                      /\ SeqRange(entries'[b]) \subseteq added'[b]
                      /\ \A v \in added'[b] \ SeqRange(entries'[b]), e \in SeqRange(entries'[b]) : v < e
                      /\ added'[b] # SeqRange(entries'[b]) => Len(entries'[b]) = MaxEntries
    BY DEF KeepsNewest, MaxEntries
  <2>1. CASE b = c
    BY <1>7, <1>8, <1>9, <1>10, <2>1 DEF R
  <2>2. CASE b # c
    BY <1>10, <2>2 DEF CacheInv, KeepsNewest
  <2>3. QED
    BY <2>1, <2>2
<1>12. SelectionsAscend'
  BY <1>4 DEF CacheInv, SelectionsAscend
<1>13. QED
  BY <1>10, <1>11, <1>12 DEF CacheInv

(* What the camera has sent after a cached image is cached behind it. *)
LEMMA NewerAreBehind ==
  ASSUME CacheInv, NEW c \in Cameras, NEW i \in 1 .. Len(entries[c])
  PROVE  NewerThan(entries[c][i], added[c]) = Len(entries[c]) - i
<1> DEFINE s == entries[c]
           A == added[c]
           N == {u \in A : u > s[i]}
           B == {s[j] : j \in i + 1 .. Len(s)}
<1>1. /\ s \in Seq(Timestamps) /\ Ascending(s) /\ SeqRange(s) \subseteq A /\ A \subseteq Nat
      /\ \A u \in A \ SeqRange(s), t \in SeqRange(s) : u < t
  BY CacheAssumption DEF CacheInv, KeepsNewest
<1>2. Len(s) \in Nat /\ i \in 0 .. Len(s) /\ \A j \in 1 .. Len(s) : s[j] \in SeqRange(s) /\ s[j] \in Nat
  BY <1>1, LenProperties DEF SeqRange
<1>3. ASSUME NEW u \in A, u > s[i]
      PROVE  u \in B
  <2>1. u \in SeqRange(s)
    <3>1. u \in Nat /\ s[i] \in Nat /\ s[i] \in SeqRange(s)
      BY <1>1, <1>2
    <3>2. ~(u < s[i])
      BY <1>3, <3>1
    <3>3. QED
      BY <1>1, <3>1, <3>2
  <2>2. PICK j \in 1 .. Len(s) : u = s[j]
    BY <2>1 DEF SeqRange
  <2>3. ~(j < i) /\ j # i
    <3>1. j < i => s[j] < s[i]
      BY <1>1 DEF Ascending
    <3>2. s[i] \in Nat /\ s[j] \in Nat /\ s[j] > s[i]
      BY <1>2, <1>3, <2>2
    <3>3. QED
      BY <3>1, <3>2
  <2>4. j \in i + 1 .. Len(s)
    BY <1>2, <2>3
  <2>5. QED
    BY <2>2, <2>4
<1>4. ASSUME NEW j \in i + 1 .. Len(s)
      PROVE  s[j] \in A /\ s[j] > s[i]
  <2>1. j \in 1 .. Len(s) /\ i < j
    BY <1>2
  <2>2. s[i] < s[j] /\ s[i] \in Nat /\ s[j] \in Nat /\ s[j] \in A
    BY <1>1, <1>2, <2>1 DEF Ascending
  <2>3. QED
    BY <2>2
<1>5. N = B
  BY <1>3, <1>4
<1>6. Cardinality(B) = Len(s) - i
  BY <1>1, <1>2, ElementsBehind
<1>7. QED
  BY <1>5, <1>6 DEF NewerThan

(* A camera that is ready has every strided frame. *)
LEMMA StridedFrames ==
  ASSUME CacheInv, NEW c \in Cameras, Len(entries[c]) >= MinFrames(ContextLength),
         NEW k \in 1 .. ContextLength
  PROVE  LET i == Len(entries[c]) - (ContextLength - k) * SubsampleFactor
         IN  /\ i \in 1 .. Len(entries[c]) /\ LatestEntries(entries[c], ContextLength)[k] = entries[c][i]
             /\ Len(entries[c]) - i = (ContextLength - k) * SubsampleFactor
<1> DEFINE n == Len(entries[c])
           d == (ContextLength - k) * SubsampleFactor
           m == MinFrames(ContextLength)
<1>1. n \in Nat
  BY LenProperties DEF CacheInv
<1>2. d \in 0 .. m - 1 /\ m \in Nat \ {0}
  BY CacheBound
<1>3. LatestEntries(entries[c], ContextLength)[k] = entries[c][n - d]
  BY DEF LatestEntries
<1>4. n - d \in 1 .. n /\ n - (n - d) = d
  <2>1. m <= n
    BY <1>1, <1>2
  <2> HIDE DEF n, d, m
  <2>2. QED
    BY <1>1, <1>2, <2>1
<1>5. QED
  BY <1>3, <1>4

LEMMA ImagesPrepared ==
  ASSUME CacheInv, PrepareImages
  PROVE  CacheInv'
<1>1. /\ AllCamerasReady /\ UNCHANGED entries /\ UNCHANGED added
      /\ selected' = [c \in Cameras |-> LatestEntries(entries[c], ContextLength)]
  BY DEF PrepareImages
<1>2. ASSUME NEW c \in Cameras, NEW j \in 1 .. ContextLength, NEW k \in 1 .. ContextLength, j < k
      PROVE  selected'[c][j] < selected'[c][k]
  <2> DEFINE s == entries[c]
             n == Len(s)
             dj == (ContextLength - j) * SubsampleFactor
             dk == (ContextLength - k) * SubsampleFactor
  <2>1. Len(entries[c]) >= MinFrames(ContextLength)
    BY <1>1 DEF AllCamerasReady
  <2>2. /\ n - dj \in 1 .. n /\ n - dk \in 1 .. n
        /\ selected'[c][j] = s[n - dj] /\ selected'[c][k] = s[n - dk]
    BY <1>1, <2>1, StridedFrames
  <2>3. dk < dj /\ dk \in Int /\ dj \in Int
    <3>1. dk < dj
      BY <1>2, CacheBound
    <3>2. dk \in 0 .. MinFrames(ContextLength) - 1 /\ dj \in 0 .. MinFrames(ContextLength) - 1
      BY CacheBound
    <3>3. QED
      BY <3>1, <3>2
  <2>4. Ascending(s) /\ n \in Nat
    BY LenProperties DEF CacheInv, KeepsNewest
  <2> HIDE DEF dj, dk
  <2>5. n - dj < n - dk
    BY <2>3, <2>4
  <2>6. QED
    BY <2>2, <2>4, <2>5 DEF Ascending
<1>3. SelectionsAscend'
  BY <1>2 DEF SelectionsAscend
<1>4. KeepsNewest'
  BY <1>1 DEF CacheInv, KeepsNewest
<1>5. QED
  BY <1>1, <1>3, <1>4 DEF CacheInv

LEMMA CachesNewest ==
  ASSUME CacheInv, NEW c \in Cameras
  PROVE  /\ Cached(c) = Newest(MaxEntries, added[c])
         /\ Cardinality(added[c]) >= MinFrames(ContextLength) =>
              Len(entries[c]) >= MinFrames(ContextLength)
<1> DEFINE s == entries[c]
           A == added[c]
           n == Len(s)
           S == SeqRange(s)
<1>1. /\ s \in Seq(Timestamps) /\ IsFiniteSet(A) /\ A \subseteq Nat /\ S \subseteq A /\ Ascending(s)
      /\ n \in Nat /\ n <= MaxEntries /\ (A # S => n = MaxEntries)
      /\ \A u \in A \ S, t \in S : u < t
  BY CacheAssumption, LenProperties DEF CacheInv, KeepsNewest
<1>2. IsFiniteSet(S) /\ Cardinality(S) = n
  <2>1. 0 \in 0 .. n /\ n - 0 = n /\ 0 + 1 .. n = 1 .. n
    BY <1>1
  <2>2. S = {s[j] : j \in 0 + 1 .. n}
    BY <2>1 DEF SeqRange
  <2>3. QED
    BY <1>1, <2>1, <2>2, ElementsBehind
<1>3. ASSUME NEW i \in 1 .. n
      PROVE  s[i] \in Newest(MaxEntries, A)
  <2>1. Cardinality({u \in A : u > s[i]}) = n - i
    BY <1>3, NewerAreBehind DEF NewerThan
  <2>2. n - i < MaxEntries
    BY <1>1, CacheBound
  <2>3. s[i] \in A
    BY <1>1 DEF SeqRange
  <2>4. QED
    BY <2>1, <2>2, <2>3 DEF Newest
<1>4. ASSUME NEW t \in A \ S
      PROVE  t \notin Newest(MaxEntries, A)
  <2> DEFINE N == {u \in A : u > t}
  <2>1. S \subseteq N
    <3>1. \A u \in S : t < u /\ u \in Nat /\ t \in Nat
      BY <1>1
    <3>2. QED
      BY <1>1, <3>1
  <2>2. IsFiniteSet(N)
    BY <1>1, FS_Subset
  <2> HIDE DEF N
  <2>3. Cardinality(S) <= Cardinality(N) /\ Cardinality(N) \in Nat
    BY <2>1, <2>2, FS_Subset, FS_CardinalityType
  <2>4. Cardinality(S) = MaxEntries /\ MaxEntries \in Nat
    BY <1>1, <1>2, CacheBound
  <2>5. ~(Cardinality(N) < MaxEntries)
    BY <2>3, <2>4
  <2>6. QED
    BY <2>5 DEF Newest, N
<1>5. Cached(c) = Newest(MaxEntries, A)
  <2>1. Cached(c) = S /\ \A t \in S : \E i \in 1 .. n : t = s[i]
    BY DEF Cached, SeqRange
  <2>2. Newest(MaxEntries, A) \subseteq A
    BY DEF Newest
  <2> HIDE DEF S, A, n, s
  <2>3. QED
    BY <1>3, <1>4, <2>1, <2>2
<1>6. ASSUME Cardinality(A) >= MinFrames(ContextLength)
      PROVE  n >= MinFrames(ContextLength)
  <2>1. CASE A = S
    BY <1>2, <1>6, <2>1
  <2>2. CASE A # S
    BY <1>1, <2>2, CacheBound
  <2>3. QED
    BY <2>1, <2>2
<1>7. QED
  BY <1>5, <1>6

THEOREM CacheInvariance == CacheSpec => []CacheInv
<1>1. CacheInv /\ [CacheNext]_cacheVars => CacheInv'
  <2> SUFFICES ASSUME CacheInv, [CacheNext]_cacheVars
               PROVE  CacheInv'
    OBVIOUS
  <2>1. CASE UNCHANGED cacheVars
    BY <2>1 DEF cacheVars, CacheInv, KeepsNewest, SelectionsAscend
  <2>2. CASE \E c \in Cameras, t \in Timestamps : AddImage(c, t)
    BY <2>2, ImageAdded
  <2>3. CASE PrepareImages
    BY <2>3, ImagesPrepared
  <2>4. QED
    BY <2>1, <2>2, <2>3 DEF CacheNext
<1>2. QED
  BY <1>1, CacheStart, PTL DEF CacheSpec

(* However the images of the cameras arrive, each cache holds the newest it  *)
(* was given, and a drive found ready finds every strided frame, in order.   *)
THEOREM CachesKeepNewest == CacheSpec => []CacheIsNewest
<1>1. CacheInv => CacheIsNewest
  <2> SUFFICES ASSUME CacheInv
               PROVE  CacheIsNewest
    OBVIOUS
  <2>1. ASSUME NEW c \in Cameras
        PROVE  /\ Cached(c) = Newest(MaxEntries, added[c])
               /\ \A i, j \in 1 .. Len(entries[c]) : i < j => entries[c][i] < entries[c][j]
               /\ Cardinality(added[c]) >= MinFrames(ContextLength) =>
                    Len(entries[c]) >= MinFrames(ContextLength)
    BY CachesNewest DEF CacheInv, KeepsNewest, Ascending
  <2>2. ASSUME AllCamerasReady, NEW c \in Cameras, NEW k \in 1 .. ContextLength
        PROVE  NewerThan(LatestEntries(entries[c], ContextLength)[k], added[c])
                 = (ContextLength - k) * SubsampleFactor
    <3>1. Len(entries[c]) >= MinFrames(ContextLength)
      BY <2>2 DEF AllCamerasReady
    <3>2. PICK i \in 1 .. Len(entries[c]) :
            /\ LatestEntries(entries[c], ContextLength)[k] = entries[c][i]
            /\ Len(entries[c]) - i = (ContextLength - k) * SubsampleFactor
      BY <3>1, StridedFrames
    <3>3. QED
      BY <3>2, NewerAreBehind
  <2>3. SelectionsAscend
    BY DEF CacheInv
  <2>4. QED
    BY <2>1, <2>2, <2>3 DEF CacheIsNewest, SelectionsAscend
<1>2. QED
  BY <1>1, CacheInvariance, PTL

=============================================================================
