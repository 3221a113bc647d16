----------------------------- MODULE SyncStatus -----------------------------
(***************************************************************************)
(* The pure half of the sync engine: how a script id and a file path are   *)
(* derived from one another (sync/mapping.ts), what the two scans report   *)
(* (sync/scan.ts), and the three-way comparison of manifest, server and    *)
(* disk (sync/compare.ts).                                                 *)
(*                                                                         *)
(* A path is a pair <<stem, extension>>.  An engine type is represented by *)
(* the extension engineTypeToExtension gives it, so TextExt stands for     *)
(* every engine type the tool does not know.  A source is an equivalence   *)
(* class of texts under normalizeSource, so that hashSource is injective   *)
(* on Sources and a hash is represented by the source it was taken of.     *)
(***************************************************************************)
EXTENDS Naturals

CONSTANTS
  Ids,          \* ids of script objects on the server, "script.js...."
  Stems,        \* relative paths without their extension
  ScriptExts,   \* extensions scanLocal picks up: .js .ts .block .rules
  TextExt,      \* ".txt", the extension of every unknown engine type
  Sources,      \* script contents
  Instances,    \* javascript adapter instances, common.engine
  StemOf,       \* the stem idToRelPath derives from an id
  IdOf,         \* the id relPathToId derives from a stem (sanitised)
  PathRank,     \* the order of paths computeStatus sorts its result by
  Absent,       \* no file, no object, no manifest entry
  Stub          \* an object without a type, see extendObject in Sync.tla

EngineTypes == ScriptExts \cup {TextExt}

Paths == Stems \X EngineTypes

ASSUME NamingAssumption ==
  /\ StemOf \in [Ids -> Stems]
  /\ IdOf \in [Stems -> Ids]
  /\ PathRank \in [Paths -> Nat]

ASSUME MarkersAssumption ==
  /\ TextExt \notin ScriptExts
  /\ Absent # Stub
  /\ Absent \notin Sources \cup Paths
  /\ Stub \notin Sources \cup Paths

(* A script object, reduced to the fields the commands read or write.      *)
Script == [source : Sources, engineType : EngineTypes,
           enabled : BOOLEAN, engine : Instances]

(* ManifestEntry: engineType, engine, enabled and lastSync are recorded    *)
(* for display only, no command decides anything from them.                *)
Entry == [path : Paths, base : Sources]

ASSUME RecordsAssumption ==
  /\ Absent \notin Script \cup Entry
  /\ Stub \notin Script

Manifests == [Ids -> Entry \cup {Absent}]
Scripts   == [Ids -> Script \cup {Absent}]
Files     == [Paths -> Sources \cup {Absent}]

States == {"in-sync", "local-modified", "remote-modified", "conflict",
           "local-only", "remote-only", "remote-missing"}

Status == [id : Ids, path : Paths, state : States]

-----------------------------------------------------------------------------
(* sync/mapping.ts *)

idToRelPath(id, engineType) == <<StemOf[id], engineType>>

(* The extension is dropped: foo.js and foo.ts are the same script id.     *)
relPathToId(path) == IdOf[path[1]]

(* The ids whose derived path leads back to them, and the other way round. *)
NamesRoundTrip ==
  /\ \A id \in Ids : IdOf[StemOf[id]] = id
  /\ \A stem \in Stems : StemOf[IdOf[stem]] = stem

(* sync/manifest.ts *)

emptyManifest == [id \in Ids |-> Absent]

upsertEntry(m, id, path, base) ==
  [m EXCEPT ![id] = [path |-> path, base |-> base]]

findByPath(m, path) == {id \in Ids : m[id] # Absent /\ m[id].path = path}

(* sync/scan.ts *)

(* walk() records only files whose extension names an engine type.         *)
scanLocal(files) ==
  [path \in Paths |-> IF path[2] \in ScriptExts THEN files[path] ELSE Absent]

(* Faulty variant: no filter on the type of an object.                     *)
scanRemoteUntyped(objects) == objects

(* listScripts returns the objects of type "script", so not a Stub.        *)
scanRemote(objects) ==
  [id \in Ids |-> IF objects[id] = Stub THEN Absent ELSE objects[id]]

-----------------------------------------------------------------------------
(* sync/compare.ts *)

Tracked(m) == {id \in Ids : m[id] # Absent}

Untracked(m, remote) == {id \in Ids : m[id] = Absent /\ remote[id] # Absent}

(* Faulty variant: the two one-sided cases are confused.                   *)
ThreeWaySwapped(base, here, there) ==
  CASE here = base /\ there = base -> "in-sync"
    [] here # base /\ there = base -> "remote-modified"
    [] here = base /\ there # base -> "local-modified"
    [] OTHER -> "conflict"

(* Both sides against the content of the last sync.                        *)
ThreeWay(base, here, there) ==
  CASE here = base /\ there = base -> "in-sync"
    [] here # base /\ there = base -> "local-modified"
    [] here = base /\ there # base -> "remote-modified"
    [] here # base /\ here = there -> "in-sync"
    [] OTHER -> "conflict"

TrackedState(entry, here, script) ==
  CASE script = Absent -> "remote-missing"
    [] script # Absent /\ here = Absent -> "remote-only"
    [] OTHER -> ThreeWay(entry.base, here, script.source)

(* Faulty variant: the collision with an existing file is not looked for.  *)
UntrackedStateUnguarded(here, script) == "remote-only"

(* A script the manifest does not know, compared with a file already lying *)
(* where it would land.                                                    *)
UntrackedState(here, script) ==
  CASE here = Absent -> "remote-only"
    [] here = script.source -> "in-sync"
    [] OTHER -> "conflict"

(* Faulty variant: only the manifest claims files.                         *)
ClaimedByManifestOnly(m, remote) == {m[id].path : id \in Tracked(m)}

(* Faulty variant: only scripts the manifest does not know claim files.    *)
ClaimedByUntrackedOnly(m, remote) ==
  {idToRelPath(id, remote[id].engineType) : id \in Untracked(m, remote)}

(* consumedLocalPaths: the files that belong to a script of either side.   *)
Claimed(m, remote) ==
  {m[id].path : id \in Tracked(m)}
    \cup {idToRelPath(id, remote[id].engineType) : id \in Untracked(m, remote)}

TrackedStatus(m, remote, local) ==
  {[id |-> id, path |-> m[id].path,
    state |-> TrackedState(m[id], local[m[id].path], remote[id])]
     : id \in Tracked(m)}

UntrackedStatus(m, remote, local) ==
  {LET path == idToRelPath(id, remote[id].engineType)
   IN  [id |-> id, path |-> path,
        state |-> UntrackedState(local[path], remote[id])]
     : id \in Untracked(m, remote)}

LocalOnlyStatus(m, remote, local) ==
  {[id |-> relPathToId(path), path |-> path, state |-> "local-only"]
     : path \in {q \in Paths : local[q] # Absent} \ Claimed(m, remote)}

computeStatus(m, remote, local) ==
  TrackedStatus(m, remote, local)
    \cup UntrackedStatus(m, remote, local)
    \cup LocalOnlyStatus(m, remote, local)

(* The statuses the loop of a command may take next: the least path.       *)
FirstOf(todo) ==
  {s \in todo : \A t \in todo : PathRank[s.path] <= PathRank[t.path]}

=============================================================================
