----------------------------- MODULE AslReplay -----------------------------
(***************************************************************************)
(* Replaying a recorded rollout (replay_services/): the log of a run is    *)
(* read back, every answer is paired with the request it belongs to, and   *)
(* servicers with these pairs stand in for the services while the rollout  *)
(* is run again.  The second run need not send its requests in the order   *)
(* of the log, nor grouped as in the log, and its numbers may drift.  What  *)
(* the first run logged is not all that it sent: the images of all cameras  *)
(* are logged, and those of one go to the driver.                          *)
(*                                                                         *)
(* A request is a method and its poses; a position is an integer in units  *)
(* of the drift.  Session ids and seeds, which the comparison ignores, are *)
(* left out.                                                               *)
(***************************************************************************)
EXTENDS Integers, FiniteSets, Sequences, SequencesExt, FiniteSetsExt

CONSTANTS
  DriverCamera, \* camera_front_wide_120fov, the one whose images a driver gets
  Corrections,  \* what the physics service may add to a position
  Reruns,       \* the requests of a rollout as it logs them, in order, and what its
                \* second run does otherwise: a drift of all positions, and to a
                \* call what "how" says (call 0 for none)
  Tolerance,    \* _FLOAT_ABS_TOL
  Lookahead,    \* max_lookahead
  Reach         \* bound: how far from its turn the second run sends a request

\* A service's method, a camera, and the poses.
Call == [method : {"drive", "egomotion", "physics", "image", "render"}, camera : STRING,
         poses : Seq([at : Nat, x : Int])]

ASSUME AslReplayAssumption ==
  /\ Corrections \subseteq Int
  /\ Reruns \subseteq [script : Seq(Call), drift : Int, call : Nat,
                      how : {"left out", "moved", "retimed"}]
  /\ Tolerance \in Nat /\ Lookahead \in Nat /\ Reach \in Nat /\ Reach < Lookahead
  /\ \A r \in Reruns : \A i \in DOMAIN r.script : r.script[i].poses # <<>>

VARIABLES
  stage,     \* recording, replaying; refused if the log cannot be paired
  log,       \* LogEntry: [call, answer], answer a set with the answer's position
  unanswered,\* the calls that wait for an answer
  exchanges, \* ASLReader._exchanges: per method, [call, answer], 0 for none
  images,    \* ASLReader.driver_images
  consumed,  \* ASLReader._consumed_indices
  rerun,     \* the rollout and its second run, one of Reruns
  sent,      \* the calls the second run has sent
  got,       \* the answers it was given for each
  aborted    \* one of its calls was refused

replayVars == <<stage, log, unanswered, exchanges, images, consumed, rerun, sent, got, aborted>>

Script  == rerun.script
Calls   == DOMAIN Script
Methods == {"drive", "egomotion", "physics", "image", "render"}
Of(m)   == {i \in Calls : Script[i].method = m}
\* Not is_direct: the log has their answers.
Paired  == {"drive", "physics"}

AslReplayInit ==
  /\ stage = "recording" /\ log = <<>> /\ unanswered = {}
  /\ exchanges = [m \in Methods |-> <<>>] /\ images = <<>>
  /\ consumed = [m \in Methods |-> {}]
  /\ rerun \in Reruns
  /\ sent = {} /\ got = [i \in Calls |-> <<>>] /\ aborted = FALSE

\* submit_image sends the images of one camera, and logs those of all.
Goes(i) == Script[i].method = "image" => Script[i].camera = DriverCamera

---------------------------------------------------------------------------
\* The first run.

Recorded == {log[k].call : k \in DOMAIN log}

\* A client's call, logged as it is made, with all its poses: physics calls may
\* wait for their answers together.
Record(i) ==
  /\ stage = "recording" /\ i = Cardinality(Recorded) + 1 /\ i \in Calls
  /\ \A j \in unanswered : Script[j].method = "physics" /\ Script[i].method = "physics"
  /\ log' = Append(log, [call |-> i, answer |-> {}])
  /\ unanswered' = IF Script[i].method \in Paired THEN unanswered \cup {i} ELSE unanswered
  /\ UNCHANGED <<stage, exchanges, images, consumed, rerun, sent, got, aborted>>

\* Its answer, with a position near the request's.
Answer(i, c) ==
  /\ stage = "recording" /\ i \in unanswered
  /\ log' = Append(log, [call |-> i, answer |-> {Last(Script[i].poses).x + c}])
  /\ unanswered' = unanswered \ {i}
  /\ UNCHANGED <<stage, exchanges, images, consumed, rerun, sent, got, aborted>>

---------------------------------------------------------------------------
\* Reading the log.

\* Mutant: _pair_response_fifo for every method.
MatcherFifo(m, waiting, x) == 1

\* response_matcher: in order, but _pair_physics_response_by_closest_pose.
Matcher(m, waiting, x) ==
  LET Distance(k) == (Last(Script[waiting[k]].poses).x - x) * (Last(Script[waiting[k]].poses).x - x)
  IN  IF m = "physics"
        THEN Min({k \in DOMAIN waiting : \A l \in DOMAIN waiting : Distance(k) <= Distance(l)})
        ELSE 1

\* One entry of load_exchanges, _add_exchange.
Read(r, entry) ==
  LET m == Script[entry.call].method
      Add(call, answer) == [r.exchanges EXCEPT ![m] = Append(@, [call |-> call, answer |-> answer])]
      at == Matcher(m, r.pending[m], CHOOSE x \in entry.answer : TRUE)
  IN  IF entry.answer # {}
        THEN [r EXCEPT !.exchanges = Add(r.pending[m][at], entry.call), !.pending[m] = RemoveAt(@, at)]
      ELSE IF m \in Paired THEN [r EXCEPT !.pending[m] = Append(@, entry.call)]
      ELSE [r EXCEPT !.exchanges = Add(entry.call, 0),
                     !.images = IF m = "image" THEN Append(@, entry.call) ELSE @]

\* load_exchanges once the first run is over, or was cut off.
Load ==
  /\ stage = "recording"
  /\ LET r == FoldLeft(Read, [exchanges |-> exchanges, images |-> images,
                              pending |-> [m \in Methods |-> <<>>]], log)
     IN  /\ exchanges' = r.exchanges /\ images' = r.images
         /\ stage' = IF \E m \in Methods : r.pending[m] # <<>> THEN "refused" ELSE "replaying"
  /\ UNCHANGED <<log, unanswered, consumed, rerun, sent, got, aborted>>

---------------------------------------------------------------------------
\* The second run.

LeavesOut(i) == rerun.call = i /\ rerun.how = "left out"

\* The poses a call has this time.
PosesNow(i) ==
  LET differs(how) == rerun.call = i /\ rerun.how = how
  IN  [k \in DOMAIN Script[i].poses |->
        [at |-> Script[i].poses[k].at + (IF differs("retimed") THEN 1 ELSE 0),
         x  |-> Script[i].poses[k].x + rerun.drift + (IF differs("moved") THEN Tolerance + 1 ELSE 0)]]

\* requests_match: times exactly, floats within the tolerance.
Matches(m, camera, poses, i) ==
  /\ Script[i].camera = camera /\ Len(Script[i].poses) = Len(poses)
  /\ \A k \in DOMAIN poses :
       LET old == Script[i].poses[k]
       IN  /\ old.at = poses[k].at
           /\ old.x - poses[k].x \in -Tolerance..Tolerance

\* _find_matching_request: in a window from the first one not consumed.
Found(m, camera, poses, used) ==
  LET open   == (DOMAIN exchanges[m]) \ used
      window == {k \in open : \A l \in open : k < l + Lookahead}
  IN  {k \in window : Matches(m, camera, poses, exchanges[m][k].call)}

\* find_and_consume_matching_request for each request in turn, until one fails.
Consume(m, camera, requests) ==
  LET Step(r, poses) ==
        LET found == Found(m, camera, poses, r.used)
        IN  IF r.failed THEN r
            ELSE IF found = {} THEN [r EXCEPT !.failed = TRUE]
            ELSE [r EXCEPT !.used = @ \cup {Min(found)},
                           !.answers = Append(@, exchanges[m][Min(found)].answer)]
  IN  FoldLeft(Step, [used |-> consumed[m], answers |-> <<>>, failed |-> FALSE], requests)

\* get_driver_image_for_camera.
ImageFor(camera, at) ==
  LET known    == {k \in DOMAIN images : Script[images[k]].camera = camera}
      Time(k)  == Script[images[k]].poses[1].at
      exact    == {k \in known : Time(k) = at}
      earliest == {k \in known : \A l \in known : Time(k) <= Time(l)}
  IN  IF exact # {} THEN {images[Min(exact)]}
      ELSE IF \A k \in known : at < Time(k) THEN {images[k] : k \in earliest}
      ELSE {}

\* _split_ego_trajectory, _decompose_multi_pose_request.
Split(poses) == [k \in DOMAIN poses |-> <<poses[k]>>]

\* The servicers: validate_request, submit_egomotion_observation and
\* ground_intersection, whose second attempt keeps what a failed one consumed.
Served(m, camera, poses) ==
  LET whole == Consume(m, camera, <<poses>>)
  IN  IF m = "egomotion" THEN Consume(m, camera, Split(poses))
      ELSE IF m = "physics" /\ whole.failed /\ Len(poses) > 1 THEN Consume(m, camera, Split(poses))
      ELSE whole

\* Calls the second run may send as one: a batch of poses.
Groups ==
  {<<i>> : i \in Calls} \cup
  {p \in Calls \X Calls :
     /\ p[1] < p[2] /\ Script[p[1]].method = Script[p[2]].method
     /\ Script[p[1]].method \in {"egomotion", "physics"}
     /\ Len(Script[p[1]].poses) = 1 /\ Len(Script[p[2]].poses) = 1}

\* A call of the second run, near its turn.
Send(group) ==
  LET m     == Script[group[1]].method
      now   == ToSet(group)
      left  == {i \in Calls \ sent : Goes(i) /\ ~LeavesOut(i)}
      poses == FlattenSeq([k \in DOMAIN group |-> PosesNow(group[k])])
      r     == Served(m, Script[group[1]].camera, poses)
      image == ImageFor(Script[group[1]].camera, poses[1].at)
  IN  /\ stage = "replaying" /\ ~aborted /\ now \subseteq left
      /\ \A i \in now, j \in left : i <= j + Reach
      /\ sent' = sent \cup now
      /\ consumed' = [consumed EXCEPT ![m] = r.used]
      /\ aborted' = (r.failed \/ (m = "render" /\ image = {}))
      /\ got' = [i \in Calls |->
                   IF i \notin now THEN got[i]
                   ELSE IF m = "render" THEN SetToSeq(image) ELSE r.answers]
      /\ UNCHANGED <<stage, log, unanswered, exchanges, images, rerun>>

AslReplayNext ==
  \/ \E i \in Calls : Record(i)
  \/ \E i \in Calls, c \in Corrections : Answer(i, c)
  \/ Load
  \/ \E group \in Groups : Send(group)

AslReplaySpec == AslReplayInit /\ [][AslReplayNext]_replayVars

---------------------------------------------------------------------------
\* is_complete.
Complete == \A m \in Methods : consumed[m] = DOMAIN exchanges[m]

\* The run sends what the log has: nothing left out, moved or retimed, and
\* the log has the whole of it.
SameRun ==
  /\ Recorded = Calls
  /\ rerun.call = 0

\* Over: what is left is what this run leaves out.
AllSent == \A i \in Calls \ sent : Goes(i) => LeavesOut(i)

\* What the log has left of what goes to the services.
Unused == {<<m, k>> \in Methods \X Calls :
             k \in (DOMAIN exchanges[m]) \ consumed[m] /\ Goes(exchanges[m][k].call)}

\* The log has a call of several poses where the servicer looks for each of them;
\* or it has an image of the driver so far behind one that is never used up that
\* the window does not reach it.
Hopeless(i) ==
  \/ Script[i].method = "egomotion" /\ Len(Script[i].poses) > 1
  \/ /\ Script[i].method = "image" /\ Goes(i)
     /\ \E o \in Of("image") : ~Goes(o) /\ Cardinality(Of("image") \cap (o + 1) .. i) >= Lookahead

(* A log is refused exactly if a request in it has no answer; an exchange    *)
(* joins a request and its own answer, in whatever order the answers came.   *)
(* A run that sends what the first one sent - in another order within the    *)
(* window, grouped otherwise, with numbers that drifted - is refused exactly *)
(* when it reports several poses that were logged as one call, or when       *)
(* images that never go to the driver have used up the window.  Else it is   *)
(* given for every request the answers recorded for it, every image of its   *)
(* camera and time, and uses up the log but for those images; a run that     *)
(* leaves out, moves or retimes a request is refused, or leaves in the log   *)
(* what it should have sent.                                                 *)
ReplayFaithful ==
  /\ stage = "refused" <=> stage # "recording" /\ unanswered # {}
  /\ stage = "replaying" =>
       \A m \in Methods : \A k \in DOMAIN exchanges[m] :
         exchanges[m][k].answer = IF m \in Paired THEN exchanges[m][k].call ELSE 0
  /\ SameRun => (aborted <=> \E i \in sent : Hopeless(i))
  /\ stage = "replaying" /\ SameRun /\ AllSent /\ ~aborted =>
       /\ Unused = {}
       /\ Complete <=> \A i \in Calls : Goes(i)
  /\ stage = "replaying" /\ Recorded = Calls /\ rerun.call # 0 /\ AllSent => aborted \/ Unused # {}
  /\ ~aborted =>
       \A i \in sent :
         LET m == Script[i].method
         IN  /\ m \in Paired => \E k \in DOMAIN got[i] : got[i][k] = i
             /\ m = "render" =>
                  LET of == {j \in Of("image") \cap Recorded : Script[j].camera = Script[i].camera}
                  IN  \A j \in of : Script[j].poses[1].at <= Script[i].poses[1].at
                        => Script[got[i][1]].poses[1].at = Script[i].poses[1].at
=============================================================================
