----------------------------- MODULE SceneMaps ------------------------------
(***************************************************************************)
(* The scenes of a worker (scene_loader.py, worker/artifact_cache.py,      *)
(* artifact.py).  The consumers of the worker share an LRU cache of        *)
(* artifacts; the map of an artifact is loaded when it is first asked for, *)
(* in the executor thread that prepares a rollout, behind a lock that      *)
(* readers pass by once the load is marked as attempted.                   *)
(*                                                                         *)
(* A map is the set of what was put into it.  The other parts of an        *)
(* artifact are parsed without a lock, at worst twice with equal results.  *)
(***************************************************************************)
EXTENDS Integers, Sequences, SequencesExt

CONSTANTS
  Files,        \* USDZ files, one per scene
  Contents,     \* of a file: [clipgt, xodr]
  Readers,      \* rollouts prepared at the same time
  CacheSize,    \* artifact_cache_size
  MaxArtifacts, \* bound: artifacts ever made
  NoMap

ASSUME SceneMapsAssumption ==
  /\ Contents \in [Files -> [clipgt : {"none", "whole", "broken"},
                             xodr   : {"none", "whole", "unaligned"}]]
  /\ CacheSize \in Nat /\ MaxArtifacts \in Nat
  /\ NoMap \notin Readers
  /\ NoMap \notin [parts : SUBSET {"clipgt", "remnant", "xodr"}, final : BOOLEAN]

VARIABLES
  loaded,     \* the lru_cache, least recently used first: indices of artifacts
  artifacts,  \* all made: [file, map, attempted, lock]
  reader      \* [at, artifact, got]

sceneVars == <<loaded, artifacts, reader>>

NewArtifact(f) == [file |-> f, map |-> NoMap, attempted |-> FALSE, lock |-> NoMap]

Empty == [parts |-> {}, final |-> FALSE]

SceneMapsInit ==
  /\ loaded = <<>> /\ artifacts = <<>>
  /\ reader = [r \in Readers |-> [at |-> "idle", artifact |-> 0, got |-> NoMap]]

GoTo(r, place) == reader' = [reader EXCEPT ![r].at = place]

\* make_artifact_loader: the cache with x as its most recent entry.
Used(x) ==
  LET others == IF x \in ToSet(loaded)
                  THEN RemoveAt(loaded, CHOOSE i \in DOMAIN loaded : loaded[i] = x) ELSE loaded
      kept   == IF Len(others) = CacheSize THEN Tail(others) ELSE others
  IN  IF CacheSize = 0 THEN <<>> ELSE Append(kept, x)

\* get_data_source, on the event loop of the worker.
GetDataSource(r, f) ==
  /\ reader[r].at = "idle"
  /\ LET hits == {x \in ToSet(loaded) : artifacts[x].file = f}
         x    == IF hits = {} THEN Len(artifacts) + 1 ELSE CHOOSE y \in hits : TRUE
     IN  /\ x <= MaxArtifacts
         /\ artifacts' = IF hits = {} THEN Append(artifacts, NewArtifact(f)) ELSE artifacts
         /\ loaded' = Used(x)
         /\ reader' = [reader EXCEPT ![r] = [at |-> "check", artifact |-> x, got |-> NoMap]]

Mine(r) == artifacts[reader[r].artifact]
Holds(r) == reader[r].artifact # 0 /\ Mine(r).lock = r

\* The artifacts when r's is a.
With(r, a) == [artifacts EXCEPT ![reader[r].artifact] = a]

\* The fast path: no lock once the load was attempted.
Check(r) ==
  /\ reader[r].at = "check"
  /\ GoTo(r, IF Mine(r).attempted THEN "return" ELSE "lock")
  /\ UNCHANGED <<loaded, artifacts>>

\* The lock, and the second look behind it.
AcquireLock(r) ==
  /\ reader[r].at = "lock" /\ Mine(r).lock = NoMap
  /\ artifacts' = With(r, [Mine(r) EXCEPT !.lock = r])
  /\ GoTo(r, IF Mine(r).attempted THEN "return" ELSE "create")
  /\ UNCHANGED loaded

\* Mutant: the load counts as attempted when it starts.
MarkThenLoad(r) ==
  /\ reader[r].at = "create"
  /\ artifacts' = With(r, [Mine(r) EXCEPT !.map = Empty, !.attempted = TRUE])
  /\ GoTo(r, "clipgt")
  /\ UNCHANGED loaded

\* An empty VectorMap, which others can already see.
CreateMap(r) ==
  /\ reader[r].at = "create"
  /\ artifacts' = With(r, [Mine(r) EXCEPT !.map = Empty])
  /\ GoTo(r, "clipgt")
  /\ UNCHANGED loaded

\* r's artifact with part p in its map.
Plus(r, p) == [Mine(r) EXCEPT !.map.parts = @ \cup {p}]

\* _load_clipgt_map: what a broken directory put into the map stays in it.
LoadClipgt(r) ==
  /\ reader[r].at = "clipgt"
  /\ CASE Contents[Mine(r).file].clipgt = "whole" ->
            artifacts' = With(r, Plus(r, "clipgt")) /\ GoTo(r, "finalize")
       [] Contents[Mine(r).file].clipgt = "broken" ->
            artifacts' \in {artifacts, With(r, Plus(r, "remnant"))} /\ GoTo(r, "xodr")
       [] OTHER -> UNCHANGED artifacts /\ GoTo(r, "xodr")
  /\ UNCHANGED loaded

\* _load_xodr_map: without a transform it raises, and nothing was attempted.
LoadXodr(r) ==
  /\ reader[r].at = "xodr"
  /\ CASE Contents[Mine(r).file].xodr = "whole" ->
            artifacts' = With(r, Plus(r, "xodr")) /\ GoTo(r, "finalize")
       [] Contents[Mine(r).file].xodr = "unaligned" ->
            artifacts' = With(r, [Mine(r) EXCEPT !.lock = NoMap]) /\ GoTo(r, "raised")
       [] OTHER ->
            /\ artifacts' = With(r, [Mine(r) EXCEPT !.map = NoMap, !.attempted = TRUE])
            /\ GoTo(r, "return")
  /\ UNCHANGED loaded

\* _finalize_map, then the mark.
Finalize(r) ==
  /\ reader[r].at = "finalize"
  /\ artifacts' = With(r, [Mine(r) EXCEPT !.map.final = TRUE])
  /\ GoTo(r, "mark")
  /\ UNCHANGED loaded

MarkAttempted(r) ==
  /\ reader[r].at = "mark"
  /\ artifacts' = With(r, [Mine(r) EXCEPT !.attempted = TRUE])
  /\ GoTo(r, "return")
  /\ UNCHANGED loaded

\* return self._map, with or without the lock.
ReturnMap(r) ==
  /\ reader[r].at = "return"
  /\ reader' = [reader EXCEPT ![r].at = "served", ![r].got = Mine(r).map]
  /\ artifacts' = IF Holds(r) THEN With(r, [Mine(r) EXCEPT !.lock = NoMap]) ELSE artifacts
  /\ UNCHANGED loaded

\* The rollout is over, done or failed; its consumer takes another job.
LeaveScene(r) ==
  /\ reader[r].at \in {"served", "raised"}
  /\ GoTo(r, "idle")
  /\ UNCHANGED <<loaded, artifacts>>

SceneMapsNext ==
  \E r \in Readers :
    \/ \E f \in Files : GetDataSource(r, f)
    \/ Check(r) \/ AcquireLock(r) \/ CreateMap(r) \/ LoadClipgt(r) \/ LoadXodr(r)
    \/ Finalize(r) \/ MarkAttempted(r) \/ ReturnMap(r) \/ LeaveScene(r)

SceneMapsSpec == SceneMapsInit /\ [][SceneMapsNext]_sceneVars
----------------------------------------------------------------------------
(* However rollouts of a worker overlap, each gets the map of its scene      *)
(* after it was finalized, the same one as all others with that artifact,    *)
(* and with all of the preferred source in it; none only if the file has     *)
(* neither source.  A load that raised leaves nothing behind: who asks again *)
(* raises as well and never gets the map half filled.  The cache holds an    *)
(* artifact per file, no more of them than it may.                           *)
MapsWhole ==
  /\ Len(loaded) <= CacheSize
  /\ \A i, k \in DOMAIN loaded :
       artifacts[loaded[i]].file = artifacts[loaded[k]].file => i = k
  /\ \A r \in Readers :
       LET has == Contents[Mine(r).file]  got == reader[r].got IN
       /\ reader[r].at = "served" =>
            /\ got = NoMap <=> has.clipgt # "whole" /\ has.xodr = "none"
            /\ got # NoMap =>
                 /\ got.final /\ got = Mine(r).map
                 /\ IF has.clipgt = "whole" THEN got.parts = {"clipgt"} ELSE "xodr" \in got.parts
       /\ reader[r].at = "raised" => has.clipgt # "whole" /\ has.xodr = "unaligned"
=============================================================================
