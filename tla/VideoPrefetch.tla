--------------------------- MODULE VideoPrefetch ---------------------------
(***************************************************************************)
(* The video-model renderer of a rollout (events/video_model/prefetch.py,  *)
(* services/video_model_service.py): frames come in chunks, a chunk is     *)
(* asked for right after the step that commits the poses it shows, and its *)
(* frames are put into the event queue one by one.  The first chunk of a   *)
(* session has a size of its own, and the client that counts chunks is     *)
(* used by one rollout after the other.                                    *)
(*                                                                         *)
(* Times count frame intervals; images and actors are left out.            *)
(***************************************************************************)
EXTENDS Integers, FiniteSets, FiniteSetsExt

CONSTANTS
  VideoConfigs,   \* see VideoConfig
  EndTime         \* bound: steps end by then

\* Of a rollout and its renderer, in frame intervals.
VideoConfig ==
  [anchor : Nat,       \* render_start_timestamp_us
   control : Nat \ {0},
   forceGt : Nat,      \* force_gt_duration_us
   first : Nat \ {0},  \* first_chunk_frames
   regular : Nat \ {0},\* chunk_frames
   count : Nat,        \* subsample_count, 0 to forward all
   spacing : Nat]      \* subsample_interval_us

ASSUME VideoAssumption == VideoConfigs \subseteq VideoConfig /\ EndTime \in Nat

VARIABLES
  video,      \* the configuration
  phase,      \* of the rollout: none, running, ended; refused if misaligned
  rollout,    \* which one on this client
  firstChunk, \* _is_first_chunk
  chunks,     \* how many the server rendered in its session
  events,     \* EventQueue: [at, priority, ...]
  egoUntil,   \* the last committed pose
  delivered,  \* the frames the driver got, with the event time: [frame, at]
  lastFrame,  \* last_camera_frame_us
  seen        \* history: at each decision, the frames the driver had

videoVars == <<video, phase, rollout, firstChunk, chunks, events, egoUntil, delivered, lastFrame, seen>>

CameraAt(t, submit)   == [at |-> t, priority |-> 10, start |-> 0, size |-> 0, submit |-> submit]
PolicyAt(t)           == [at |-> t, priority |-> 20, start |-> 0, size |-> 0, submit |-> FALSE]
EndAt(t)              == [at |-> t, priority |-> 30, start |-> 0, size |-> 0, submit |-> FALSE]
StepAt(t)             == [at |-> t, priority |-> 80, start |-> 0, size |-> 0, submit |-> FALSE]

\* Mutant: the chunk is asked for before the step commits its poses.
PrefetchBeforeStep(t, c, n) == [at |-> t, priority |-> 70, start |-> c, size |-> n, submit |-> FALSE]

PrefetchAt(t, c, n) == [at |-> t, priority |-> 90, start |-> c, size |-> n, submit |-> FALSE]

VideoInit ==
  /\ video \in VideoConfigs /\ phase = "none" /\ rollout = 1
  /\ firstChunk = TRUE /\ chunks = 0 /\ events = {} /\ egoUntil = 0
  /\ delivered = {} /\ lastFrame = 0 /\ seen = {}

\* chunk_size.
ChunkSize == IF firstChunk THEN video.first ELSE video.regular

\* required_policy_start_timestmap_us.
FirstPolicy == video.anchor + video.first

\* make_initial_video_model_render_event and validate_timing_alignment.
Aligned ==
  /\ video.control = video.regular
  /\ video.forceGt > 0 =>
       /\ video.forceGt >= video.first + video.control
       /\ (video.forceGt - video.first) % video.control = 0

\* _initialize_session, which resets the client, and _create_initial_events: the
\* ego is seeded up to the first policy event.
BeginVideo ==
  /\ phase = "none"
  /\ IF Aligned
       THEN /\ phase' = "running" /\ firstChunk' = TRUE /\ chunks' = 0
            /\ events' = {PrefetchAt(video.anchor, video.anchor + 1, video.first),
                          PolicyAt(FirstPolicy), StepAt(FirstPolicy), EndAt(EndTime)}
            /\ egoUntil' = FirstPolicy
            /\ delivered' = {} /\ lastFrame' = 0 /\ seen' = {}
       ELSE phase' = "refused" /\ UNCHANGED <<firstChunk, chunks, events, egoUntil, delivered, lastFrame, seen>>
  /\ UNCHANGED <<video, rollout>>

\* The event that EventQueue.pop returns.
IsNext(e) ==
  /\ phase = "running" /\ e \in events
  /\ \A f \in events : e.at < f.at \/ (e.at = f.at /\ e.priority <= f.priority)

\* _build_forwarding_mask of a chunk: of every target, counted back from the last
\* frame, the nearest frame, the later one of two.
Forwarded(chunk) ==
  IF video.count = 0 \/ video.spacing = 0 THEN chunk
  ELSE {LET target == Max(chunk) - k * video.spacing
            d(t) == IF t < target THEN target - t ELSE t - target
        IN  Max({t \in chunk : \A u \in chunk : d(t) <= d(u)})
        : k \in 0 .. video.count - 1}

\* _schedule_next_prefetch, after the first chunk is over.
NextPrefetch(e) == PrefetchAt(e.start + e.size - 1, e.start + e.size, video.regular)

\* render_chunk, which also tells the client that the short chunk is over.
RenderChunk == chunks' = chunks + 1 /\ firstChunk' = FALSE

\* VideoModelPrefetchEvent.handle: the poses are sampled from what is committed.
Prefetch(e) ==
  /\ IsNext(e) /\ e.size > 0
  /\ LET chunk == e.start .. e.start + e.size - 1
     IN  /\ events' = (events \ {e}) \cup {CameraAt(t, t \in Forwarded(chunk)) : t \in chunk}
                        \cup {NextPrefetch(e)}
  /\ RenderChunk
  /\ UNCHANGED <<video, phase, rollout, egoUntil, delivered, lastFrame, seen>>

\* VideoModelFrameEvent.handle.
Frame(e) ==
  /\ IsNext(e) /\ e.priority = 10
  /\ delivered' = IF e.submit THEN delivered \cup {e.at} ELSE delivered
  /\ lastFrame' = e.at /\ events' = events \ {e}
  /\ UNCHANGED <<video, phase, rollout, firstChunk, chunks, egoUntil, seen>>

\* PolicyEvent: the driver decides on what it got.
Decide(e) ==
  /\ IsNext(e) /\ e.priority = 20
  /\ seen' = seen \cup {[at |-> e.at, frames |-> delivered, last |-> lastFrame]}
  /\ events' = (events \ {e}) \cup {PolicyAt(e.at + video.control)}
  /\ UNCHANGED <<video, phase, rollout, firstChunk, chunks, egoUntil, delivered, lastFrame>>

\* StepEvent, with the poses up to the end of the step.
Commit(e) ==
  /\ IsNext(e) /\ e.priority = 80
  /\ egoUntil' = e.at + video.control
  /\ events' = (events \ {e}) \cup {StepAt(e.at + video.control)}
  /\ UNCHANGED <<video, phase, rollout, firstChunk, chunks, delivered, lastFrame, seen>>

\* The simulation ends, or a chunk cannot be rendered; _cleanup_session resets
\* the client, and the next rollout may get it.
EndVideo ==
  /\ phase = "running"
  /\ \E e \in events : IsNext(e) /\ (e.priority = 30 \/ e.size > 0)
  /\ phase' = IF rollout = 1 THEN "none" ELSE "ended"
  /\ firstChunk' = TRUE /\ rollout' = 2 /\ video' \in VideoConfigs
  /\ events' = {} /\ delivered' = {} /\ seen' = {}
  /\ UNCHANGED <<chunks, egoUntil, lastFrame>>

VideoNext == BeginVideo \/ EndVideo \/ \E e \in events : Prefetch(e) \/ Frame(e) \/ Decide(e) \/ Commit(e)

VideoSpec == VideoInit /\ [][VideoNext]_videoVars
----------------------------------------------------------------------------
(* The driver decides on every frame up to its decision and on none after    *)
(* it, or with subsampling on the newest at least, however chunks and steps  *)
(* fall together; no frame shows a pose that was not committed when it was   *)
(* rendered; and what the client asks for is what the server renders next:   *)
(* the short chunk first and only first, also for the rollout after one that *)
(* broke off.                                                                *)
VideoFramesInTime ==
  /\ \A d \in seen :
       /\ d.last = d.at /\ d.at \in d.frames
       /\ \A t \in d.frames : t <= d.at
       /\ video.count = 0 => d.frames = video.anchor + 1 .. d.at
  /\ phase = "running" => \A e \in events : IsNext(e) /\ e.size > 0 =>
       /\ e.start + e.size - 1 <= egoUntil
       /\ e.size = (IF chunks = 0 THEN video.first ELSE video.regular)
       /\ e.size = ChunkSize
=============================================================================
