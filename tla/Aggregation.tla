---------------------------- MODULE Aggregation -----------------------------
(***************************************************************************)
(* What is made of the rollouts of a run: the report of one job, and which *)
(* job of an array makes the one of all.                                   *)
(***************************************************************************)
EXTENDS Integers, Sequences, FiniteSets, FiniteSetsExt, SequencesExt

(***************************************************************************)
(* What a run reports (eval/runtime_evaluator.py, eval/aggregation/): each *)
(* rollout is evaluated in a process of its own, which leaves metrics and  *)
(* a video beside the log; at the end of the job, what all rollouts left   *)
(* there becomes a table, a summary and a combined video.  A job may run   *)
(* again in the same directory, whose files then meet the earlier ones.    *)
(*                                                                         *)
(* An evaluation is a verdict; how it comes about is in Evaluation, and    *)
(* which job of an array aggregates is further down.  ffmpeg leaves no     *)
(* file when it fails, and does not overwrite one (it is not given -y).    *)
(***************************************************************************)

CONSTANTS
  RolloutIds,        \* of rollouts: numbers, in the order of their text
  Placements,   \* uuid to clip, of the rollouts there are
  Verdicts,     \* what an evaluation finds; see Verdict
  Scale,        \* a multiple of all sizes of groups, for their means
  MaxOdd,       \* bound: rollouts that do not end well
  MaxLater,     \* bound: rollouts of later runs of the job
  MaxSummaries  \* bound: its runs

\* gap: a metric that the score needs is null.
Verdict == [dist : Nat, incident : BOOLEAN, atFault : BOOLEAN, fails : BOOLEAN, score : Nat,
            black : BOOLEAN, gap : BOOLEAN]

ASSUME SummaryAssumption ==
  /\ IsFiniteSet(RolloutIds) /\ RolloutIds \subseteq Nat /\ Verdicts \subseteq Verdict
  /\ \A place \in Placements : DOMAIN place \subseteq RolloutIds
  /\ \A n \in 1..Cardinality(RolloutIds) : Scale % n = 0

VARIABLES
  clipOf,     \* the clip of each rollout
  combine,    \* video.generate_combined_video
  jobRun,     \* how often the job was started
  endedIn,    \* uuid to the run of the job, or 0
  broken,     \* rollouts that were returned as failed
  found,      \* uuid to the verdict on it, if there is one
  written,    \* uuid to what is beside its log: "none", "metrics", or "video" too
  results,    \* metrics_results.parquet
  summary,    \* results-summary.json
  videoStep,  \* _run_aggregation_core is about to aggregate the videos
  linked,      \* aggregate/videos/all, without the combined videos
  slow, fast, \* 00_all_clips.mp4 and its _fast: how often each clip is in it
  violations, \* videos/violations/collision_at_fault
  films       \* history: the videos there were at each aggregation, and ffmpeg's luck

summaryFiles == <<written, results, summary, linked, slow, fast, violations>>
summaryVars  == <<clipOf, combine, jobRun, endedIn, broken, found, videoStep, films, summaryFiles>>

NoClips   == [u \in RolloutIds |-> 0]
NoResults == [groups |-> {}, dist |-> 0, kms |-> 0, clips |-> 0]
NoSummary == [by |-> 0, of |-> {}, rows |-> <<>>, failed |-> <<>>, run |-> NoResults]

SummaryInit ==
  /\ clipOf \in Placements /\ combine \in BOOLEAN
  /\ jobRun = 1 /\ endedIn = [u \in RolloutIds |-> 0] /\ broken = {} /\ found = <<>>
  /\ written = [u \in RolloutIds |-> "none"] /\ results = NoResults /\ summary = NoSummary
  /\ videoStep = FALSE /\ linked = {} /\ slow = NoClips /\ fast = NoClips /\ violations = {}
  /\ films = <<>>

Odd(u) == endedIn[u] > 0 /\ (u \in broken \/ written[u] # "video" \/ found[u].gap)

Judged(u, verdict) == [v \in DOMAIN found \cup {u} |-> IF v = u THEN verdict ELSE found[v]]

\* run_evaluation and what is around it: the subprocess writes the metrics, then
\* the video, and may raise before each, which is caught; a failure in the loop
\* comes before it, one of the teardown after it.
EndRollout(u, verdict, left, failed) ==
  /\ ~videoStep /\ jobRun <= MaxSummaries /\ endedIn[u] = 0
  /\ failed \/ left # "video" \/ verdict.gap =>
       Cardinality({v \in RolloutIds : Odd(v)}) < MaxOdd
  /\ jobRun > 1 => Cardinality({v \in RolloutIds : endedIn[v] > 1}) < MaxLater
  /\ endedIn' = [endedIn EXCEPT ![u] = jobRun]
  /\ broken' = IF failed THEN broken \cup {u} ELSE broken
  /\ found' = IF left = "none" THEN found ELSE Judged(u, verdict)
  /\ written' = [written EXCEPT ![u] = left]
  /\ UNCHANGED <<clipOf, combine, jobRun, results, summary, videoStep, linked, slow, fast, violations, films>>

\* process_asl_file of the command line, once all logs have their marker; the
\* rollouts that failed before their evaluation have none.
Reevaluate(u, verdict) ==
  /\ ~videoStep /\ endedIn[u] > 0 /\ written[u] # "video"
  /\ \A v \in broken : written[v] # "none"
  /\ found' = IF u \in DOMAIN found THEN found ELSE Judged(u, verdict)
  /\ written' = [written EXCEPT ![u] = "video"]
  /\ UNCHANGED <<clipOf, combine, jobRun, endedIn, broken, results, summary, videoStep,
                 linked, slow, fast, violations, films>>

----------------------------------------------------------------------------
\* _collect_metrics_from_job_dir.
Table == {u \in RolloutIds : written[u] # "none"}

\* Mutant: the rank is not taken within the clip.
RankInRun(u) == Cardinality({v \in Table : v <= u})

\* add_rollout_and_trajectory_uids: rollout_uid, the dense rank within the clip.
RankOf(u) == Cardinality({v \in Table : clipOf[v] = clipOf[u] /\ v <= u})

\* RemoveTrajectoryWithEvent is the only modifier that leaves no row.
Blackened == {u \in Table : found[u].black}
Remaining == Table \ Blackened

Added(G, field) == MapThenSumSet(LAMBDA u : found[u][field], G)
IncidentsOf(G) == Cardinality({u \in G : found[u].incident})

\* aggregate_over_clips: the rollouts of a rank are taken for one simulation.
GroupsOf(T) == {{u \in T : RankOf(u) = k} : k \in {RankOf(u) : u \in T}}

\* get_avg_dist_between_incidents, times Scale and the number of groups; without
\* an incident it is infinite, the mean with it, and null in JSON.
Infinite == -1
KmsPerIncident(groups) ==
  IF \E G \in groups : IncidentsOf(G) = 0 THEN Infinite
  ELSE MapThenSumSet(LAMBDA G : (Scale * Added(G, "dist")) \div IncidentsOf(G), groups)

\* aggregate_and_write_metrics_results_txt, up to the parquet: the one run's
\* means over groups (times Scale and their number) of the means over clips.
ResultsOf(T) ==
  IF T = {} THEN NoResults
  ELSE LET groups == GroupsOf(T) IN
    [groups |-> groups,
     dist   |-> MapThenSumSet(LAMBDA G : (Scale * Added(G, "dist")) \div Cardinality(G), groups),
     kms    |-> KmsPerIncident(groups),
     clips  |-> MapThenSumSet(Cardinality, groups)]

Before(u, v) == clipOf[u] < clipOf[v] \/ (clipOf[u] = clipOf[v] /\ u < v)

RowFor(u) == [uuid |-> u, passed |-> ~found[u].fails, score |-> IF found[u].fails THEN 0 ELSE found[u].score]

\* write_results_summary_json: the scored rows and those of the rollouts that
\* this run of the job returned as failed.
SummaryOf(T) ==
  LET scored == SetToSortSeq(T, Before)
      failed == {u \in broken : endedIn[u] = jobRun}
  IN  [by |-> jobRun, of |-> Table, rows |-> [k \in DOMAIN scored |-> RowFor(scored[k])],
       failed |-> SetToSortSeq(failed, Before), run |-> ResultsOf(T)]

\* _required_finite_float raises for these.
Unscorable(T) == {u \in T : found[u].gap}

\* _run_aggregation_core, up to the videos: a null that the score needs makes the
\* summary raise after the results are written; the plots may, of an empty table.
Summarize(plotted) ==
  LET raises == Unscorable(Remaining) # {} IN
  /\ ~videoStep /\ jobRun <= MaxSummaries /\ \E u \in RolloutIds : endedIn[u] = jobRun
  /\ plotted \/ Remaining = {}
  /\ IF Table = {} THEN UNCHANGED <<results, summary, videoStep>>
     ELSE /\ results' = ResultsOf(Remaining)
          /\ summary' = IF raises THEN summary ELSE SummaryOf(Remaining)
          /\ videoStep' = (plotted /\ ~raises)
  /\ jobRun' = IF videoStep' THEN jobRun ELSE jobRun + 1
  /\ UNCHANGED <<clipOf, combine, endedIn, broken, found, written, linked, slow, fast, violations, films>>

----------------------------------------------------------------------------
Filmed == {u \in RolloutIds : written[u] = "video"}

\* _concatenate_videos: every mp4 there is, older combined videos included.
Concatenated(all, luck) ==
  IF luck /\ slow = NoClips /\ (all # {} \/ fast # NoClips)
    THEN [u \in RolloutIds |-> fast[u] + IF u \in all THEN 1 ELSE 0]
    ELSE slow

\* _speed_up_video, which removes what it read.
SpedUp(joined, luck) == luck /\ joined # NoClips /\ fast = NoClips

\* _aggregate_eval_videos: a link to every video, then the combined video and no
\* links, or links of the kept rollouts that meet a condition.
AggregateVideos(concat, speed) ==
  LET all    == linked \cup Filmed
      joined == Concatenated(all, concat)
      sped   == SpedUp(joined, speed)
  IN
  /\ videoStep /\ videoStep' = FALSE /\ jobRun' = jobRun + 1
  /\ films' = Append(films, [videos |-> Filmed, well |-> concat /\ speed])
  /\ IF combine
       THEN /\ slow' = IF sped THEN NoClips ELSE joined
            /\ fast' = IF sped THEN joined ELSE fast
            /\ linked' = {} /\ UNCHANGED violations
       ELSE /\ concat /\ speed /\ linked' = all
            /\ violations' = violations \cup {u \in Remaining : found[u].atFault}
            /\ UNCHANGED <<slow, fast>>
  /\ UNCHANGED <<clipOf, combine, endedIn, broken, found, written, results, summary>>

SummaryNext ==
  \/ \E u \in DOMAIN clipOf :
       \/ \E verdict \in Verdicts, left \in {"none", "metrics", "video"}, failed \in BOOLEAN :
            EndRollout(u, verdict, left, failed)
       \/ \E verdict \in Verdicts : Reevaluate(u, verdict)
  \/ \E plotted \in BOOLEAN : Summarize(plotted)
  \/ \E concat, speed \in BOOLEAN : AggregateVideos(concat, speed)

SummarySpec == SummaryInit /\ [][SummaryNext]_summaryVars

\* get_rollouts_per_clip: none of a clip whose rollouts were all removed.
RolloutsPerClip ==
  [c \in {clipOf[u] : u \in Table} |-> Cardinality({u \in Remaining : clipOf[u] = c})]
----------------------------------------------------------------------------
(* A summary that was written is whole and agrees with itself: every rollout *)
(* that left metrics has one row, none if it showed a black frame, in the    *)
(* order of clips and uuids, and those this run of the job returned as       *)
(* failed one more each, so that one whose teardown failed has both.  The    *)
(* groups taken for simulations never hold two rollouts of a clip, each row  *)
(* is in one of them, and as many are made as the largest clip has rollouts; *)
(* when they are equally large, the run's mean is that over all rollouts.    *)
(* A distance per incident is reported only if each group has an incident.   *)
(* A combined video shows every clip that there was at one aggregation, and  *)
(* once, whatever ffmpeg does and however often the job is run; if ffmpeg    *)
(* works it is that of the first.                                            *)
SummaryWhole ==
  /\ summary # NoSummary =>
       LET uuids  == [k \in DOMAIN summary.rows |-> summary.rows[k].uuid]
           kept   == {u \in summary.of : ~found[u].black}
           groups == summary.run.groups
           inClip(c, T) == Cardinality({u \in T : clipOf[u] = c})
       IN  /\ IsInjective(uuids) /\ ToSet(uuids) = kept
           /\ \A j, k \in DOMAIN uuids : j < k => clipOf[uuids[j]] <= clipOf[uuids[k]]
           /\ \A u \in RolloutIds : u \in ToSet(summary.failed) <=> u \in broken /\ endedIn[u] = summary.by
           /\ UNION groups = kept /\ \A G, H \in groups : G = H \/ G \cap H = {}
           /\ \A G \in groups : \A u, v \in G : u = v \/ clipOf[u] # clipOf[v]
           /\ kept = summary.of => Cardinality(groups) = Max({inClip(clipOf[u], kept) : u \in kept})
           /\ (\A G, H \in groups : Cardinality(G) = Cardinality(H)) =>
                summary.run.dist * Cardinality(kept) = Scale * Cardinality(groups) * Added(kept, "dist")
           /\ summary.run.kms # Infinite => \A G \in groups : \E u \in G : found[u].incident
           /\ \A k \in DOMAIN summary.rows : summary.rows[k].score > 0 => summary.rows[k].passed
           /\ summary.of = Table => \A u \in kept : RolloutsPerClip[clipOf[u]] = inClip(clipOf[u], kept)
  /\ fast # NoClips =>
       \E k \in DOMAIN films : fast = [u \in RolloutIds |-> IF u \in films[k].videos THEN 1 ELSE 0]
  /\ films # <<>> /\ combine =>
       /\ linked = {}
       /\ films[1].well /\ films[1].videos # {} => {u \in RolloutIds : fast[u] = 1} = films[1].videos
  /\ films # <<>> /\ ~combine => linked = Last(films).videos
  /\ \A u \in violations : \E k \in DOMAIN summary.rows : summary.rows[k].uuid = u

-----------------------------------------------------------------------------
(***************************************************************************)
(* The end of the jobs of an array (simulate/__main__.py, aggregation/):   *)
(* each job simulates its share of the scenes and leaves the metrics of    *)
(* its rollouts in its directory; a counter in a file of the array tells   *)
(* the last one, which aggregates what all of them left.  The scheduler    *)
(* may kill a job at any time, and run it again.                           *)
(***************************************************************************)

CONSTANTS
  ArrayJobs,    \* SLURM_ARRAY_TASK_COUNT of them
  MayFail,      \* the jobs of which a rollout may fail
  MaxKills      \* bound

ASSUME ArrayAssumption ==
  /\ IsFiniteSet(ArrayJobs) /\ ArrayJobs # {} /\ MayFail \subseteq ArrayJobs /\ MaxKills \in Nat

VARIABLES
  allow,      \* allow_aggregation_with_failed_rollouts
  jobAt,      \* per job: simulating, finished, locked, read, truncated, last, or ended
  failures,   \* whether it has failed_rollouts
  left,       \* job directories with metrics
  tally,      \* finished_jobs of post_eval_aggregation.json; Unreadable
  previous,   \* per job, prev_finished_jobs
  arrayLock,  \* post_eval_aggregation.lock: who holds it
  summaries,  \* the aggregations, in order: [by, of]
  succeeded,  \* the jobs that exited with 0
  kills, counted  \* history: kills, and the jobs that wrote the counter, in order

arrayFiles == <<left, tally, summaries>>
arrayVars  == <<allow, jobAt, failures, arrayFiles, previous, arrayLock, succeeded, kills, counted>>

Unreadable == -1

ArrayInit ==
  /\ allow \in BOOLEAN
  /\ jobAt = [j \in ArrayJobs |-> "simulating"] /\ failures = [j \in ArrayJobs |-> FALSE]
  /\ left = {} /\ tally = 0 /\ summaries = <<>>
  /\ previous = [j \in ArrayJobs |-> 0] /\ arrayLock = {}
  /\ succeeded = {} /\ kills = 0 /\ counted = <<>>

Moves(j, from, to) == jobAt[j] = from /\ jobAt' = [jobAt EXCEPT ![j] = to]

\* run_simulation up to the aggregation: a job with failed rollouts counts only
\* if that is allowed.
Simulated(j, fails) ==
  /\ fails => j \in MayFail
  /\ Moves(j, "simulating", IF fails /\ ~allow THEN "ended" ELSE "finished")
  /\ failures' = [failures EXCEPT ![j] = fails] /\ left' = left \cup {j}
  /\ UNCHANGED <<allow, tally, summaries, previous, arrayLock, succeeded, kills, counted>>

\* Mutant: the counter is read and written without the lock.
CountUnlocked(j) ==
  /\ Moves(j, "finished", "locked")
  /\ UNCHANGED <<allow, failures, arrayFiles, previous, arrayLock, succeeded, kills, counted>>

\* incr_counter_and_check_aggregation_start, up to "with lock".
Lock(j) ==
  /\ arrayLock = {} /\ arrayLock' = {j} /\ Moves(j, "finished", "locked")
  /\ UNCHANGED <<allow, failures, arrayFiles, previous, succeeded, kills, counted>>

\* json.load raises on what a job killed while it wrote has left.
ReadTally(j) ==
  /\ IF tally = Unreadable
       THEN Moves(j, "locked", "ended") /\ arrayLock' = {} /\ UNCHANGED previous
       ELSE Moves(j, "locked", "read") /\ previous' = [previous EXCEPT ![j] = tally] /\ UNCHANGED arrayLock
  /\ UNCHANGED <<allow, failures, arrayFiles, succeeded, kills, counted>>

\* open("w").
Truncate(j) ==
  /\ Moves(j, "read", "truncated") /\ tally' = Unreadable
  /\ UNCHANGED <<allow, failures, left, summaries, previous, arrayLock, succeeded, kills, counted>>

\* json.dump, and who is the last; more than all of them is taken for that, too.
WriteTally(j) ==
  LET last == previous[j] >= Cardinality(ArrayJobs) - 1
  IN  /\ Moves(j, "truncated", IF last THEN "last" ELSE "ended")
      /\ tally' = previous[j] + 1 /\ arrayLock' = {} /\ counted' = Append(counted, j)
      /\ succeeded' = IF last THEN succeeded ELSE succeeded \cup {j}
      /\ UNCHANGED <<allow, failures, left, summaries, previous, kills>>

\* run_aggregation_from_runtime: what every job directory has, and the failed
\* rollouts of this job only.
Aggregate(j) ==
  /\ Moves(j, "last", "ended")
  /\ summaries' = Append(summaries, [by |-> j, of |-> left, listed |-> {j} \cap {i \in ArrayJobs : failures[i]}])
  /\ succeeded' = succeeded \cup {j}
  /\ UNCHANGED <<allow, failures, left, tally, previous, arrayLock, kills, counted>>

\* A job is killed, its lock with it, and run again with what it had finished.
KillJob(j) ==
  /\ jobAt[j] # "ended" /\ kills < MaxKills /\ kills' = kills + 1
  /\ Moves(j, jobAt[j], "simulating") /\ arrayLock' = arrayLock \ {j}
  /\ UNCHANGED <<allow, failures, arrayFiles, previous, succeeded, counted>>

ArrayNext ==
  \E j \in ArrayJobs :
    \/ \E fails \in BOOLEAN : Simulated(j, fails)
    \/ Lock(j) \/ ReadTally(j) \/ Truncate(j) \/ WriteTally(j) \/ Aggregate(j) \/ KillJob(j)

ArraySpec == ArrayInit /\ [][ArrayNext]_arrayVars

----------------------------------------------------------------------------
Quiet == \A j \in ArrayJobs : jobAt[j] = "ended"

\* Jobs that a failed rollout kept from counting.
KeptOut == {j \in ArrayJobs : failures[j] /\ ~allow}

(* However the jobs cross at the counter, when none is killed and none kept  *)
(* out exactly one of them aggregates, after every job has left its metrics; *)
(* one that is kept out keeps the array from ever being aggregated, and a    *)
(* failed rollout of a job that is not the last is in no summary.  A job     *)
(* killed and run again may be counted twice: then the aggregation may come  *)
(* before a job has ended, but never before as many counts as there are      *)
(* jobs, no count is ever lost, and only jobs that were counted succeed.     *)
AggregatesOnce ==
  /\ kills = 0 =>
       /\ Len(summaries) <= 1
       /\ \A k \in DOMAIN summaries : summaries[k].of = ArrayJobs /\ KeptOut = {}
       /\ Quiet /\ KeptOut = {} => Len(summaries) = 1 /\ succeeded = ArrayJobs
       /\ Quiet => succeeded = ArrayJobs \ KeptOut
  /\ tally # Unreadable => tally = Len(counted)
  /\ summaries # <<>> => Len(counted) >= Cardinality(ArrayJobs)
  /\ \A j \in succeeded : j \in ToSet(counted)
=============================================================================
