--------------------------- MODULE RenderSession ----------------------------
(***************************************************************************)
(* Cameras and images (camera_catalog.py, services/sensorsim_service.py,   *)
(* events/camera.py).  The rollouts of a worker share a catalog of camera  *)
(* definitions: the session of the first one with a scene fills it from    *)
(* what its renderer answers and from local overrides.  Later the driver   *)
(* is told the definitions, and every image is rendered with them.         *)
(*                                                                         *)
(* A service object belongs to one rollout, whose calls follow each other, *)
(* so its own caches and the locks are never contended: between the awaits *)
(* of one rollout only other rollouts take steps.  A frame is a step of    *)
(* the clocks at which some cameras end their shutter at the same time.    *)
(***************************************************************************)
EXTENDS Integers, Sequences, FiniteSets, SequencesExt

CONSTANTS
  Rollers,     \* consumers of the worker; each runs rollouts one by one
  CameraNames, Fields,
  DriverCamera, \* camera_front_wide_120fov, the one whose images a driver gets
  Configured,  \* cameras of simulation_config
  Sites,       \* scenes
  HasCameras,  \* HasCameras[site]: the cameras it was recorded with
  Renderers,   \* addresses, which need not answer alike
  RigMasks,    \* cameras with an ego mask for the configured rig
  Due,         \* Due[k]: the cameras with an image at frame k
  Strangers,   \* names of no camera that an answer may contain
  WorkerSetups \* [kind, bundling, skip, overrides, bad]

ASSUME RenderAssumption ==
  /\ Sites # {} /\ Renderers # {} /\ IsFiniteSet(Configured)
  /\ Due \in Seq(SUBSET Configured) /\ Due # <<>>
  /\ Configured \subseteq CameraNames /\ \A s \in Sites : HasCameras[s] \subseteq CameraNames
  /\ Strangers \cap CameraNames = {}
  /\ \A s \in WorkerSetups :
       /\ s.kind \in {"sensorsim", "video"} /\ s.bundling \in {"none", "batch", "aggregated"}
       /\ \A c \in DOMAIN s.overrides : s.overrides[c] \subseteq Fields
       /\ s.bad \subseteq DOMAIN s.overrides

VARIABLES
  worker,    \* user config of the worker
  catalog,   \* _scene_definitions
  roller     \* [at, site, renderer, told, masks, frame, left, request, handed, sent]

renderVars == <<worker, catalog, roller>>

\* A definition: whose it is, who gave it, and which fields the config replaced.
Definition(site, by, camera, replaced) ==
  [site |-> site, by |-> by, camera |-> camera, replaced |-> replaced]

NoDefinitions == [undefined |-> TRUE]
Known(site) == catalog[site] # NoDefinitions

Idle == [at |-> "idle", site |-> CHOOSE s \in Sites : TRUE, renderer |-> CHOOSE n \in Renderers : TRUE,
         told |-> <<>>, masks |-> FALSE, frame |-> 1, left |-> {}, request |-> <<>>, handed |-> <<>>,
         sent |-> {}]

RenderInit ==
  /\ worker \in WorkerSetups
  /\ catalog = [s \in Sites |-> NoDefinitions]
  /\ roller = [r \in Rollers |-> Idle]

Move(r, place) == roller' = [roller EXCEPT ![r].at = place]
Fails(r) == Move(r, "raised") /\ UNCHANGED <<worker, catalog>>
----------------------------------------------------------------------------
(* The renderer's session                                                    *)

\* The rollout has its renderer; get_available_cameras sends its request.
EnterSession(r) ==
  /\ roller[r].at = "idle"
  /\ \E s \in Sites, n \in Renderers :
       roller' = [roller EXCEPT ![r] = [Idle EXCEPT !.at = "session", !.site = s, !.renderer = n]]
  /\ UNCHANGED <<worker, catalog>>

\* Cameras that sensorsim answered; none when it is skipped.
Answered(r) == IF worker.skip THEN {} ELSE HasCameras[roller[r].site]

\* Overrides must be for cameras there are, and must be applicable.
Mergeable(cameras) == DOMAIN worker.overrides \subseteq cameras /\ worker.bad = {}

Replaced(c) == IF c \in DOMAIN worker.overrides THEN worker.overrides[c] ELSE {}

Merged(r, cameras) ==
  [c \in cameras |-> Definition(roller[r].site, roller[r].renderer, c, Replaced(c))]

\* Mutant: the answer replaces what the catalog has.
MergeAgain(r) ==
  /\ worker.kind = "sensorsim" /\ roller[r].at = "session"
  /\ Mergeable(Answered(r))
  /\ catalog' = [catalog EXCEPT ![roller[r].site] = Merged(r, Answered(r))]
  /\ Move(r, "entered") /\ UNCHANGED worker

\* merge_local_and_sensorsim_cameras, with the answer at hand.
Merge(r) ==
  /\ worker.kind = "sensorsim" /\ roller[r].at = "session"
  /\ Known(roller[r].site) \/ Mergeable(Answered(r))
  /\ catalog' = IF Known(roller[r].site) THEN catalog
                ELSE [catalog EXCEPT ![roller[r].site] = Merged(r, Answered(r))]
  /\ Move(r, "entered") /\ UNCHANGED worker

\* It raises, and the next rollout with the scene tries again.
MergeRaises(r) ==
  /\ worker.kind = "sensorsim" /\ roller[r].at = "session"
  /\ ~Known(roller[r].site) /\ ~Mergeable(Answered(r))
  /\ Fails(r)

\* _validate_camera_override: only the resolution may be replaced.
RecordingKept == \A c \in DOMAIN worker.overrides : worker.overrides[c] \subseteq {"resolution"}

\* _register_scene_cameras of the video model, from the file of the scene.
Register(r) ==
  /\ worker.kind = "video" /\ roller[r].at = "session"
  /\ LET s == roller[r].site
         fromFile == [c \in HasCameras[s] |-> Definition(s, "file", c, Replaced(c))]
     IN  IF worker.skip THEN Move(r, "entered") /\ UNCHANGED catalog
         ELSE IF DOMAIN worker.overrides \subseteq HasCameras[s] /\ RecordingKept
              THEN /\ catalog' = [catalog EXCEPT ![s] = fromFile]
                   /\ Move(r, IF Configured \subseteq HasCameras[s] THEN "entered" ELSE "raised")
              ELSE Move(r, "raised") /\ UNCHANGED catalog
  /\ UNCHANGED worker

\* A call of the session, or of one after it, fails.
CallFails(r) ==
  /\ roller[r].at \in {"session", "entered", "driving", "rendering"}
  /\ Fails(r)

\* The driver's session, after those of physics and controller: the definitions
\* of all configured cameras, or a KeyError.
TellDriver(r) ==
  LET s == roller[r].site IN
  /\ roller[r].at = "entered"
  /\ IF Known(s) /\ Configured \subseteq DOMAIN catalog[s]
     THEN roller' = [roller EXCEPT ![r].at = "driving", ![r].left = Due[1],
                                   ![r].told = [c \in Configured |-> catalog[s][c]]]
     ELSE Move(r, "raised")
  /\ UNCHANGED <<worker, catalog>>
----------------------------------------------------------------------------
(* Images                                                                    *)

\* get_available_ego_masks: asked once per rollout.
GetEgoMasks(r) ==
  /\ worker.kind = "sensorsim" /\ roller[r].at = "driving" /\ ~roller[r].masks
  /\ roller' = [roller EXCEPT ![r].masks = TRUE]
  /\ UNCHANGED <<worker, catalog>>

\* construct_rgb_render_request for these cameras, in the order of their clocks.
RequestOfFrame(r, cameras) ==
  LET asked == SetToSeq(cameras)
  IN  [i \in DOMAIN asked |->
         [camera |-> asked[i], frame |-> roller[r].frame, mask |-> asked[i] \in RigMasks,
          definition |-> catalog[roller[r].site][asked[i]]]]

\* A frame that renders at once, or the flush of all that end now.
Render(r) ==
  /\ worker.kind = "sensorsim" /\ roller[r].at = "driving"
  /\ roller[r].masks /\ roller[r].left # {}
  /\ \E now \in SUBSET roller[r].left :
       /\ IF worker.bundling = "none" THEN Cardinality(now) = 1 ELSE now = roller[r].left
       /\ roller' = [roller EXCEPT ![r].at = "rendering", ![r].request = RequestOfFrame(r, now),
                                   ![r].left = @ \ now]
  /\ UNCHANGED <<worker, catalog>>

\* The renderer's picture for item i of the request, and what it is said to be.
Picture(r, i, camera) ==
  [camera |-> camera, frame |-> roller[r].request[i].frame, mask |-> roller[r].request[i].mask,
   definition |-> roller[r].request[i].definition]

\* submit_image: every image is exported and logged, and those of one camera go
\* on to the driver, in calls that may overtake each other.
ForDriver(images) ==
  {images[i] : i \in {k \in DOMAIN images : images[k].camera = DriverCamera}}

HandOn(r, images) ==
  /\ roller' = [roller EXCEPT ![r].at = "driving", ![r].request = <<>>, ![r].handed = @ \o images,
                              ![r].sent = @ \cup ForDriver(images)]
  /\ UNCHANGED <<worker, catalog>>

\* render: what comes is the picture that was asked for.
AnswerOne(r) ==
  /\ roller[r].at = "rendering" /\ worker.bundling = "none"
  /\ HandOn(r, <<Picture(r, 1, roller[r].request[1].camera)>>)

\* An item of a batch: it names its camera, and its picture is of that one.
AnswerItems(r) ==
  {[camera |-> roller[r].request[i].camera, success |-> b, of |-> i] :
     i \in DOMAIN roller[r].request, b \in BOOLEAN}
    \cup {[camera |-> n, success |-> TRUE, of |-> 1] : n \in Strangers}

\* Mutant: cameras without an item are not missed.
AcceptableIfIncomplete(r, items) ==
  LET asked == {roller[r].request[i].camera : i \in DOMAIN roller[r].request}
  IN  /\ \A i \in DOMAIN items : items[i].success /\ items[i].camera \in asked
      /\ \A i, k \in DOMAIN items : items[i].camera = items[k].camera => i = k

\* _batch_return_to_images: no failed, unknown, repeated or missing camera.
Acceptable(r, items) ==
  LET asked == {roller[r].request[i].camera : i \in DOMAIN roller[r].request}
  IN  /\ \A i \in DOMAIN items : items[i].success /\ items[i].camera \in asked
      /\ \A i, k \in DOMAIN items : items[i].camera = items[k].camera => i = k
      /\ asked \subseteq {items[i].camera : i \in DOMAIN items}

AnswerBatch(r) ==
  /\ roller[r].at = "rendering" /\ worker.bundling = "batch"
  /\ \E items \in SeqOf(AnswerItems(r), Len(roller[r].request) + 1) :
       IF Acceptable(r, items)
       THEN HandOn(r, [i \in DOMAIN items |-> Picture(r, items[i].of, items[i].camera)])
       ELSE Fails(r)

\* The aggregated call takes the renderer's word for camera and time, so the
\* renderer is assumed to answer the whole request, in its order.
AnswerAggregated(r) ==
  /\ roller[r].at = "rendering" /\ worker.bundling = "aggregated"
  /\ HandOn(r, [i \in DOMAIN roller[r].request |-> Picture(r, i, roller[r].request[i].camera)])

\* The clocks go on to the next frame.
NextShutter(r) ==
  /\ roller[r].at = "driving" /\ roller[r].left = {} /\ roller[r].frame < Len(Due)
  /\ worker.kind = "sensorsim"
  /\ roller' = [roller EXCEPT ![r].frame = @ + 1, ![r].left = Due[roller[r].frame + 1]]
  /\ UNCHANGED <<worker, catalog>>

\* The rollout ended and the consumer has a new service object for the next.
LeaveSession(r) ==
  /\ \/ roller[r].at = "raised"
     \/ roller[r].at = "driving" /\ worker.kind = "video"
     \/ roller[r].at = "driving" /\ roller[r].left = {} /\ roller[r].frame = Len(Due)
  /\ roller' = [roller EXCEPT ![r] = Idle]
  /\ UNCHANGED <<worker, catalog>>

RenderNext ==
  \E r \in Rollers :
    \/ EnterSession(r) \/ Merge(r) \/ MergeRaises(r) \/ Register(r) \/ CallFails(r) \/ TellDriver(r)
    \/ GetEgoMasks(r) \/ Render(r) \/ AnswerOne(r) \/ AnswerBatch(r) \/ AnswerAggregated(r)
    \/ NextShutter(r) \/ LeaveSession(r)

RenderSpec == RenderInit /\ [][RenderNext]_renderVars
----------------------------------------------------------------------------
(* All images of a rollout are of the cameras that its driver was told about *)
(* at the start, with those very definitions, whatever sessions other        *)
(* rollouts of the worker open with the same scene on other renderers; they  *)
(* are those of the rollout's own scene, by one renderer, with the           *)
(* configured fields replaced.  One image of every camera is exported and    *)
(* logged for every frame, in the order of the frames, or the rollout fails; *)
(* of these the driver gets those of its one camera, and no other, one for   *)
(* each frame that has one.  With overrides for cameras that a scene has     *)
(* not, the scene is never driven.                                           *)
RenderedAsTold ==
  \A r \in Rollers :
    LET x == roller[r]
        of(k) == {c \in Configured : \E i \in DOMAIN x.handed :
                                       x.handed[i].frame = k /\ x.handed[i].camera = c}
    IN  x.at \in {"driving", "rendering"} =>
          /\ \A c \in Configured :
               x.told[c].site = x.site /\ x.told[c].replaced = Replaced(c) /\ x.told[c].camera = c
          /\ \A c, d \in Configured : x.told[c].by = x.told[d].by
          /\ \A i \in DOMAIN x.handed :
               /\ x.handed[i].definition = x.told[x.handed[i].camera]
               /\ x.handed[i].mask <=> x.handed[i].camera \in RigMasks
               /\ \A k \in 1 .. i : x.handed[k].frame <= x.handed[i].frame
               /\ \A k \in 1 .. i - 1 : \/ x.handed[k].frame # x.handed[i].frame
                                        \/ x.handed[k].camera # x.handed[i].camera
          /\ worker.kind = "sensorsim" =>
               /\ \A k \in 1 .. x.frame - 1 : of(k) = Due[k]
               /\ of(x.frame) = Due[x.frame]
                    \ (x.left \cup {x.request[i].camera : i \in DOMAIN x.request})
          /\ \A p \in x.sent : /\ p.camera = DriverCamera /\ p.definition = x.told[DriverCamera]
                              /\ \A q \in x.sent : p.frame = q.frame => p = q
          /\ \A k \in 1 .. x.frame : (\E p \in x.sent : p.frame = k) <=> DriverCamera \in of(k)
          /\ DOMAIN worker.overrides \subseteq HasCameras[x.site]
=============================================================================
