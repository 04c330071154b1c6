------------------------------ MODULE SceneSets ------------------------------
(***************************************************************************)
(* The scenes of a run (scenes/sceneset.py, scenes/csv_utils.py, s3_api.py *)
(* and fetch_artifacts of context.py): the wizard looks them up in catalog *)
(* files, downloads the artifacts that the cache lacks and makes a         *)
(* directory of links to them, named after their uuids.                    *)
(*                                                                         *)
(* Several wizards share a cache, and each may be killed and run again.    *)
(* Scenes are numbers, in the order of their names.                        *)
(***************************************************************************)
EXTENDS Integers, Sequences, FiniteSets, FiniteSetsExt, SequencesExt

CONSTANTS
  Wizards,        \* those that share the cache
  Catalogs,       \* what may be in the files, see SceneSetsAssumption
  Demands,        \* what the configuration of a wizard may select
  Mislabelled,    \* artifacts whose file holds another uuid
  DownloadsAtOnce,\* threads of the downloads from Hugging Face
  MaxReruns,      \* bound: wizards killed or run again
  MaxFailures     \* bound: downloads that fail

Repositories == {"swiftstack", "huggingface", "local"}
NoFile       == "absent"
----------------------------------------------------------------------------
(* The catalog                                                              *)

UuidsOf(rows) == {rows[i].uuid : i \in DOMAIN rows}

\* merge_scenes_csv: rows whose uuid the file has are left out.
MergeScenes(existing, new) == existing \o SelectSeq(new, LAMBDA row : row.uuid \notin UuidsOf(existing))

\* merge_suites_csv: and so are entries, a suite and a scene, that it has.
MergeSuites(existing, new) == existing \o SelectSeq(new, LAMBDA entry : entry \notin ToSet(existing))

\* A file, of the batches that were merged into it.
FileOf(batches)       == FoldLeft(MergeScenes, <<>>, batches)
SuitesFileOf(batches) == FoldLeft(MergeSuites, <<>>, batches)

FilesOf(catalog)  == [k \in DOMAIN catalog.files |-> FileOf(catalog.files[k])]
SuitesOf(catalog) == [k \in DOMAIN catalog.suites |-> SuitesFileOf(catalog.suites[k])]

RowsIn(catalog)    == UNION {ToSet(FilesOf(catalog)[k]) : k \in DOMAIN catalog.files}
EntriesIn(catalog) == UNION {ToSet(SuitesOf(catalog)[k]) : k \in DOMAIN catalog.suites}

\* _load_and_merge_csvs: of several files no two rows may have one key.
Loads(files, keys) == files # <<>> /\ (Len(files) = 1 \/ Cardinality(keys) = Len(FlattenSeq(files)))

ASSUME SceneSetsAssumption ==
  /\ DownloadsAtOnce > 0 /\ \A d \in Demands : d.limit \in Nat
  /\ \A catalog \in Catalogs :
       /\ IsFiniteSet(RowsIn(catalog)) /\ IsFiniteSet(ToSet(catalog.directory))
       /\ \A row \in RowsIn(catalog) \cup ToSet(catalog.directory) :
            /\ row.scene \in Nat /\ row.modified \in Nat /\ row.uuid # NoFile
            /\ row.repository \in Repositories /\ row.revision \in BOOLEAN

VARIABLES
  catalogs,  \* the files of scenes and of suites, in batches as they were merged
  demand,    \* of each wizard
  fetch,     \* what it is about to do
  chosen,    \* its artifacts, by scene
  download,  \* wizard -> uuid -> how far that download is
  unlinked,  \* wizard -> uuids it has yet to link
  cache,     \* uuid -> the uuid that the file of that name holds, or NoFile
  links,     \* <<directory, uuid>>; a directory is the set it is named after
  locks,     \* <<wizard, lock it has>>
  reruns,
  lost       \* downloads that failed

setVars == <<catalogs, demand, fetch, chosen, download, unlinked, cache, links, locks, reruns, lost>>
----------------------------------------------------------------------------
(* What a wizard looks for                                                  *)

UuidsIn(rows) == {row.uuid : row \in rows}

CatalogsLoad == Loads(FilesOf(catalogs), UuidsIn(RowsIn(catalogs))) /\ Loads(SuitesOf(catalogs), EntriesIn(catalogs))

\* scan_local_usdz_directory: the readable files, all of one suite.
ScannedRows == {row \in ToSet(catalogs.directory) : row.readable}

RowsFor(w)     == IF demand[w].local THEN ScannedRows ELSE RowsIn(catalogs)
ScenesIn(rows) == {row.scene : row \in rows}

Suite(w) ==
  IF demand[w].local THEN ScenesIn(RowsFor(w))
  ELSE {entry[2] : entry \in {e \in EntriesIn(catalogs) : e[1] = demand[w].suite}}

\* What fetch_artifacts looks for: a suite, by default the local one, or the
\* scenes that are named, of which there may be none.
BySuite(w) == demand[w].suite # "" \/ (demand[w].local /\ ~demand[w].named)
Wanted(w)  == IF BySuite(w) THEN Suite(w) ELSE demand[w].ids

Selectable(w) ==
  /\ IF demand[w].local THEN ScannedRows # {} /\ demand[w].suite \in {"", "local"} ELSE CatalogsLoad
  /\ BySuite(w) # demand[w].named
  /\ BySuite(w) => Suite(w) # {}
  /\ Wanted(w) \subseteq ScenesIn(RowsFor(w))

\* _deduplicate keeps a newest artifact per scene; which of several is open.
NewestOf(w, scene) ==
  {row \in RowsFor(w) : row.scene = scene
     /\ \A other \in RowsFor(w) : other.scene = scene => other.modified <= row.modified}

InOrder(S) ==
  CHOOSE s \in [1 .. Cardinality(S) -> S] : \A i, j \in 1 .. Cardinality(S) : i < j => s[i] < s[j]

\* limit_to_first_n, of the sorted ones.
FirstScenes(w) ==
  LET sorted == InOrder(Wanted(w))
      n == demand[w].limit
  IN  IF n > 0 /\ Len(sorted) > n THEN SubSeq(sorted, 1, n) ELSE sorted

Selections(w) ==
  {pick \in [DOMAIN FirstScenes(w) -> RowsFor(w)] :
     \A i \in DOMAIN FirstScenes(w) : pick[i] \in NewestOf(w, FirstScenes(w)[i])}

\* validate_csvs, of each file of scenes, and of each file of suites with one of
\* scenes; an empty one has every scene.
NoTwo(keys, count) == Cardinality(keys) = count
ScenesPass(rows) ==
  /\ NoTwo(UuidsOf(rows), Len(rows))
  /\ NoTwo({<<rows[i].scene, rows[i].version>> : i \in DOMAIN rows}, Len(rows))
  /\ \A i \in DOMAIN rows : rows[i].repository = "huggingface" => rows[i].revision
SuitesPass(entries, rows) ==
  /\ NoTwo(ToSet(entries), Len(entries))
  /\ rows # <<>> => \A entry \in ToSet(entries) : entry[2] \in ScenesIn(ToSet(rows))
CatalogsValid ==
  /\ \A k \in DOMAIN catalogs.files : ScenesPass(FilesOf(catalogs)[k])
  /\ \A j \in DOMAIN catalogs.suites :
       \E k \in DOMAIN catalogs.files : SuitesPass(SuitesOf(catalogs)[j], FilesOf(catalogs)[k])
----------------------------------------------------------------------------
(* A wizard                                                                 *)

Uuids == UuidsIn(RowsIn(catalogs) \cup ToSet(catalogs.directory))

SceneSetsInit ==
  /\ catalogs \in Catalogs /\ demand \in [Wizards -> Demands]
  /\ fetch = [w \in Wizards |-> "query"] /\ chosen = [w \in Wizards |-> <<>>]
  /\ download = [w \in Wizards |-> [u \in Uuids |-> "none"]]
  /\ unlinked = [w \in Wizards |-> <<>>]
  /\ cache = [u \in Uuids |-> NoFile] /\ links = {} /\ locks = {} /\ reruns = 0 /\ lost = 0

ChosenUuids(w) == UuidsOf(chosen[w])
From(w, repository) == {u \in ChosenUuids(w) : \E i \in DOMAIN chosen[w] :
                          chosen[w][i].uuid = u /\ chosen[w][i].repository = repository}
Exists(u) == cache[u] # NoFile

\* What the file of an artifact holds.
Content(u) == IF u \in Mislabelled THEN "another" ELSE u

\* fetch_artifacts up to create_sceneset_directory, which local files do without
\* and which has nothing to do for no artifacts.
QueryScenes(w) ==
  /\ fetch[w] = "query"
  /\ IF ~Selectable(w) THEN fetch' = [fetch EXCEPT ![w] = "refused"] /\ UNCHANGED chosen
     ELSE \E choice \in Selections(w) :
            /\ chosen' = [chosen EXCEPT ![w] = choice]
            /\ fetch' = [fetch EXCEPT ![w] = IF demand[w].local \/ choice = <<>> THEN "ready" ELSE "list"]
  /\ UNCHANGED <<catalogs, demand, download, unlinked, cache, links, locks, reruns, lost>>

\* _download_artifacts: a local artifact must be there; and of Hugging Face those
\* are listed, once, that are missing.
ListMissing(w) ==
  /\ fetch[w] = "list"
  /\ IF \E row \in ToSet(chosen[w]) : row.repository = "local" /\ ~row.readable
     THEN fetch' = [fetch EXCEPT ![w] = "raised"] /\ UNCHANGED download
     ELSE /\ fetch' = [fetch EXCEPT ![w] = "hf"]
          /\ download' = [download EXCEPT ![w] =
                            [u \in Uuids |-> IF u \in From(w, "huggingface") /\ ~Exists(u) THEN "waits" ELSE "none"]]
  /\ UNCHANGED <<catalogs, demand, chosen, unlinked, cache, links, locks, reruns, lost>>

Downloads(w, state) == {u \in Uuids : download[w][u] = state}
DownloadMayFail == lost < MaxFailures

\* A thread has the file in the temporary directory, or not.
GetFromHub(w, u) ==
  /\ fetch[w] = "hf" /\ download[w][u] = "waits"
  /\ Cardinality(Downloads(w, "here")) < DownloadsAtOnce
  /\ \E state \in {"here"} \cup (IF DownloadMayFail THEN {"failed"} ELSE {}) :
       /\ download' = [download EXCEPT ![w][u] = state]
       /\ lost' = lost + (IF state = "failed" THEN 1 ELSE 0)
  /\ UNCHANGED <<catalogs, demand, fetch, chosen, unlinked, cache, links, locks, reruns>>

\* Mutant: the file goes into the cache before its uuid is compared.
KeepThenCheck(w, u) ==
  /\ download[w][u] = "here"
  /\ cache' = [cache EXCEPT ![u] = Content(u)]
  /\ download' = [download EXCEPT ![w][u] = IF u \in Mislabelled THEN "failed" ELSE "done"]
  /\ UNCHANGED <<catalogs, demand, fetch, chosen, unlinked, links, locks, reruns, lost>>

\* Only a file with the uuid it should have is moved into the cache.
KeepIfRight(w, u) ==
  /\ download[w][u] = "here"
  /\ IF u \in Mislabelled THEN download' = [download EXCEPT ![w][u] = "failed"] /\ UNCHANGED cache
     ELSE download' = [download EXCEPT ![w][u] = "done"] /\ cache' = [cache EXCEPT ![u] = u]
  /\ UNCHANGED <<catalogs, demand, fetch, chosen, unlinked, links, locks, reruns, lost>>

\* All of them end, then the first error; else the other repository's tasks.
EndHub(w) ==
  /\ fetch[w] = "hf" /\ Downloads(w, "waits") \cup Downloads(w, "here") = {}
  /\ IF Downloads(w, "failed") # {} THEN fetch' = [fetch EXCEPT ![w] = "raised"] /\ UNCHANGED download
     ELSE /\ fetch' = [fetch EXCEPT ![w] = "s3"]
          /\ download' = [download EXCEPT ![w] =
                            [u \in Uuids |-> IF u \in From(w, "swiftstack") THEN "asks" ELSE "none"]]
  /\ UNCHANGED <<catalogs, demand, chosen, unlinked, cache, links, locks, reruns, lost>>

\* Locks are of a file or of a directory.
FileLock(u)  == <<"file", {u}>>
DirLock(set) == <<"directory", set>>
Locked(name) == \E w \in Wizards : <<w, name>> \in locks

\* _maybe_download_object under its lock: what exists is left alone.
LockFile(w, u) ==
  /\ download[w][u] = "asks" /\ ~Locked(FileLock(u))
  /\ IF Exists(u) THEN download' = [download EXCEPT ![w][u] = "done"] /\ UNCHANGED locks
     ELSE download' = [download EXCEPT ![w][u] = "loads"] /\ locks' = locks \cup {<<w, FileLock(u)>>}
  /\ UNCHANGED <<catalogs, demand, fetch, chosen, unlinked, cache, links, reruns, lost>>

\* The file appears under its name when it is complete; what it holds is not
\* looked at.
LoadFile(w, u) ==
  /\ download[w][u] = "loads" /\ locks' = locks \ {<<w, FileLock(u)>>}
  /\ download' = [download EXCEPT ![w][u] = "done"] /\ cache' = [cache EXCEPT ![u] = Content(u)]
  /\ UNCHANGED <<catalogs, demand, fetch, chosen, unlinked, links, reruns, lost>>

\* gather raises the first failure at once; the other threads go on.
FailFile(w, u) ==
  /\ download[w][u] = "loads" /\ DownloadMayFail /\ lost' = lost + 1
  /\ locks' = locks \ {<<w, FileLock(u)>>} /\ download' = [download EXCEPT ![w][u] = "failed"]
  /\ fetch' = [fetch EXCEPT ![w] = "raised"]
  /\ UNCHANGED <<catalogs, demand, chosen, unlinked, cache, links, reruns>>

\* Mutant: the first task that ends is enough.
EndFirst(w) ==
  /\ fetch[w] = "s3" /\ (From(w, "swiftstack") = {} \/ Downloads(w, "done") # {})
  /\ fetch' = [fetch EXCEPT ![w] = "directory"]
  /\ UNCHANGED <<catalogs, demand, chosen, download, unlinked, cache, links, locks, reruns, lost>>

EndTasks(w) ==
  /\ fetch[w] = "s3" /\ Downloads(w, "done") = From(w, "swiftstack")
  /\ fetch' = [fetch EXCEPT ![w] = "directory"]
  /\ UNCHANGED <<catalogs, demand, chosen, download, unlinked, cache, links, locks, reruns, lost>>

\* create_sceneset_directory, under the lock of the directory.
LockDirectory(w) ==
  /\ fetch[w] = "directory" /\ ~Locked(DirLock(ChosenUuids(w)))
  /\ locks' = locks \cup {<<w, DirLock(ChosenUuids(w))>>} /\ fetch' = [fetch EXCEPT ![w] = "link"]
  /\ unlinked' = [unlinked EXCEPT ![w] = [i \in DOMAIN chosen[w] |-> chosen[w][i].uuid]]
  /\ UNCHANGED <<catalogs, demand, chosen, download, cache, links, reruns, lost>>

\* A link that leads nowhere does not exist for os.path.exists, but for symlink.
LinkNext(w) ==
  LET dir == ChosenUuids(w)
      u   == Head(unlinked[w])
      next == IF <<dir, u>> \in links /\ ~Exists(u) THEN "raised"
              ELSE IF Len(unlinked[w]) = 1 THEN "ready" ELSE "link"
  IN
  /\ fetch[w] = "link"
  /\ links' = links \cup {<<dir, u>>} /\ unlinked' = [unlinked EXCEPT ![w] = Tail(@)]
  /\ fetch' = [fetch EXCEPT ![w] = next]
  /\ locks' = IF next = "link" THEN locks ELSE locks \ {<<w, DirLock(dir)>>}
  /\ UNCHANGED <<catalogs, demand, chosen, download, cache, reruns, lost>>

\* Killed with its threads, or run again after an error: from the start.
RunAgain(w) ==
  /\ fetch[w] \notin {"query", "ready", "refused"} /\ reruns < MaxReruns /\ reruns' = reruns + 1
  /\ fetch' = [fetch EXCEPT ![w] = "query"] /\ chosen' = [chosen EXCEPT ![w] = <<>>]
  /\ download' = [download EXCEPT ![w] = [u \in Uuids |-> "none"]]
  /\ unlinked' = [unlinked EXCEPT ![w] = <<>>] /\ locks' = {pair \in locks : pair[1] # w}
  /\ UNCHANGED <<catalogs, demand, cache, links, lost>>

SceneSetsNext ==
  \E w \in Wizards :
    \/ QueryScenes(w) \/ ListMissing(w) \/ EndHub(w) \/ EndTasks(w) \/ LockDirectory(w) \/ LinkNext(w) \/ RunAgain(w)
    \/ \E u \in Uuids : GetFromHub(w, u) \/ KeepIfRight(w, u) \/ LockFile(w, u) \/ LoadFile(w, u) \/ FailFile(w, u)

SceneSetsSpec == SceneSetsInit /\ [][SceneSetsNext]_setVars
----------------------------------------------------------------------------
(* Properties                                                               *)

RepositoryOf(w, u) == (CHOOSE row \in ToSet(chosen[w]) : row.uuid = u).repository

\* The directory of a wizard that is ready has its links, and they lead somewhere.
DirectoryWhole(w) ==
  \A u \in ChosenUuids(w) :
    <<ChosenUuids(w), u>> \in links /\ (RepositoryOf(w, u) # "local" => Exists(u))

\* Of the scenes that are wanted the first ones, each by a newest artifact.
ChosenRight(w) ==
  /\ \A i \in DOMAIN chosen[w], row \in RowsFor(w) :
       /\ chosen[w][i].scene \in Wanted(w)
       /\ row.scene = chosen[w][i].scene => row.modified <= chosen[w][i].modified
       /\ row.scene \in Wanted(w) \ ScenesIn(ToSet(chosen[w])) =>
            demand[w].limit = Len(chosen[w]) /\ row.scene > chosen[w][i].scene
  /\ \A i, j \in DOMAIN chosen[w] : i < j => chosen[w][i].scene < chosen[w][j].scene
  /\ chosen[w] = <<>> => Wanted(w) = {}

\* Nothing compares the uuid of what comes from here.
Unchecked == UuidsIn({row \in RowsIn(catalogs) \cup ToSet(catalogs.directory) : row.repository = "swiftstack"})

(* The scenes of a run are those that were asked for and all there: one     *)
(* artifact of each, the newest, in order of the scenes, so that a run that *)
(* is resumed has the same unless two are equally new; its directory holds  *)
(* exactly a link to each, and from then on each leads to a whole file,     *)
(* whoever fails, is killed or shares the cache meanwhile; a cached file    *)
(* never changes, and is the artifact it is named after unless Swiftstack   *)
(* has another under that name; and catalogs that pass validation and load  *)
(* refuse no suite of their own, but for a file without scenes.             *)
(* scenes/sceneset.py USDZManager, s3_api.py.                               *)
SceneSetsComplete ==
  /\ \A u \in Uuids : cache[u] = NoFile \/ (cache[u] = Content(u) /\ (u \in Mislabelled => u \in Unchecked))
  /\ \A l \in links : l[2] \in l[1]
  /\ \A w \in Wizards :
       /\ fetch[w] = "ready" /\ ~demand[w].local => DirectoryWhole(w)
       /\ fetch[w] \in {"list", "ready"} => ChosenRight(w)
       /\ /\ fetch[w] = "refused" /\ CatalogsValid /\ CatalogsLoad
          /\ \A k \in DOMAIN catalogs.files : FilesOf(catalogs)[k] # <<>>
          /\ demand[w].suite # "" /\ ~demand[w].named /\ ~demand[w].local
          => Suite(w) = {}
=============================================================================
