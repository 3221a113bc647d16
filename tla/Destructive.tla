---------------------------- MODULE Destructive ----------------------------
(***************************************************************************)
(* The commands that create, rename, move, remove, start and stop scripts  *)
(* (commands/remove.ts, rename.ts, move.ts, new.ts, start.ts, stop.ts),    *)
(* running with --yes, and backup (commands/backup.ts), meant to go before *)
(* them, all while others edit.  ioBroker has no rename: a rename is a     *)
(* copy, a comparison, a backup and a delete, one request at a time, and   *)
(* then a move of the file and of the manifest entry.                      *)
(*                                                                         *)
(* A command is a process that runs once.  It may die, or an await of it   *)
(* reject, at any point; that the server carried out the last request all  *)
(* the same is the death right after that step.                            *)
(***************************************************************************)
EXTENDS SyncStatus

CONSTANTS
  Procs,            \* commands
  Requests,         \* the command lines they may be given
  DefaultInstance,  \* config.defaultInstance
  Marks,            \* markers beside a script: one per instance and kind
  Empty,            \* the empty source of a new script
  Over,             \* the state of a command that has ended
  Torn,             \* a file whose writing was cut short
  Moments,          \* the times a backup may start at, to the millisecond
  StartScripts,     \* bound: the script objects there to begin with
  StartSnapshots,   \* bound: backup directories there to begin with
  AdminScripts,     \* bound: the script objects saved in Admin
  MayMangle,        \* bound: may the server store a copy wrongly
  MaxEdits          \* bound: how often others edit

Commands == {"remove", "rename", "move", "new", "start", "stop", "restart", "backup"}

(* id is the script a command is about, to the id a script is created at,  *)
(* path the file `new` is given.                                           *)
Request == [cmd : Commands,
            id : Ids, to : Ids, path : Paths, deleteLocal : BOOLEAN,
            pattern : SUBSET Ids]

(* ManifestEntry with the engine type a rename derives the new path from.  *)
Row == [path : Paths, base : Sources, engineType : EngineTypes]

(* ScriptMarkerEntry: the halves of a marker a listing has found.          *)
Leftover == [mark : Marks, value : BOOLEAN, object : BOOLEAN]

Halves == {"value", "object"}

(* What a command does next, once what it awaits at a phase is there.      *)
removeSteps == [fetch |-> "leftovers", leftovers |-> "load", load |-> "backup",
                backup |-> "delete", delete |-> "list", list |-> "sweep",
                sweep |-> "unlink", unlink |-> "save", save |-> "end"]

(* Faulty variant: the trash is written once the object is gone.           *)
renameStepsLateBackup ==
  [fetch |-> "target", target |-> "create", create |-> "verify", verify |-> "delete",
   delete |-> "backup", backup |-> "list", list |-> "sweep", sweep |-> "load",
   load |-> "movefile", movefile |-> "save", save |-> "end"]

renameSteps ==
  [fetch |-> "target", target |-> "create", create |-> "verify", verify |-> "backup",
   backup |-> "delete", delete |-> "list", list |-> "sweep", sweep |-> "load",
   load |-> "movefile", movefile |-> "save", save |-> "end"]

moveSteps ==
  [fetch |-> "target", target |-> "folders", folders |-> "create",
   create |-> "verify", verify |-> "backup",
   backup |-> "delete", delete |-> "list", list |-> "sweep", sweep |-> "load",
   load |-> "movefile", movefile |-> "save", save |-> "end"]

newSteps == [fetch |-> "folders", folders |-> "create", create |-> "write",
             write |-> "load", load |-> "save", save |-> "end"]

toggleSteps == [targets |-> "toggle", toggle |-> "end"]

backupSteps == [targets |-> "mkdir", mkdir |-> "snapshot", snapshot |-> "end"]

Steps(cmd) == CASE cmd = "remove" -> removeSteps
                [] cmd = "rename" -> renameSteps
                [] cmd = "move"   -> moveSteps
                [] cmd = "new"    -> newSteps
                [] cmd = "backup" -> backupSteps
                [] OTHER          -> toggleSteps

FirstPhase(cmd) ==
  IF cmd \in {"start", "stop", "restart", "backup"} THEN "targets" ELSE "fetch"

Phases == {"fetch", "leftovers", "load", "backup", "delete", "list", "sweep", "unlink",
           "save", "target", "folders", "create", "verify", "movefile", "write",
           "targets", "toggle", "mkdir", "snapshot"}

Rows == [Ids -> Row \cup {Absent}]

Job == [req : Request, phase : Phases, script : Script \cup {Absent},
        found : SUBSET Leftover, complete : BOOLEAN, at : Marks \cup Ids \cup {Absent},
        mem : Rows, chosen : SUBSET Ids, left : SUBSET Ids, was : States \cup {Absent},
        listed : Scripts, dir : Moments \cup {Absent}]

(* A directory under .iobroker-sync/backup: objects/, sources/, and in its *)
(* manifest the scripts it was made of.                                    *)
Snapshot == [objects : [Ids -> Script \cup {Absent, Torn}],
             sources : [Paths -> Sources \cup {Absent, Torn}],
             entries : Scripts \cup {Absent, Torn}]

NoScripts == [id \in Ids |-> Absent]

EmptySnapshot == [objects |-> NoScripts, sources |-> [path \in Paths |-> Absent],
                  entries |-> Absent]

ASSUME DestructiveAssumption ==
  /\ Requests \subseteq Request
  /\ \A r \in Requests : r.cmd = "new" => r.to = r.id /\ r.id = relPathToId(r.path)
  /\ DefaultInstance \in Instances
  /\ Empty \in Sources
  /\ Over # Absent
  /\ {Over, Absent} \cap Job = {}
  /\ Absent \notin Marks \cup Ids \cup Row \cup Moments \cup Scripts \cup Snapshot
  /\ Torn \notin Script \cup Sources \cup Scripts \cup {Absent}
  /\ StartScripts \subseteq Script
  /\ StartSnapshots \subseteq Moments
  /\ AdminScripts \subseteq Script
  /\ MayMangle \in BOOLEAN
  /\ MaxEdits \in Nat

VARIABLES
  files,     \* the script folder
  objects,   \* the script objects on the server
  manifest,  \* .iobroker-sync/state.json
  marks,     \* the halves of each script's markers on the server
  trash,     \* .iobroker-sync/trash
  snapshots, \* .iobroker-sync/backup
  jobs,      \* what each command is at
  touched,   \* history: what others changed since a command last read it
  crowded,   \* history: backup directories a backup has found there
  edits      \* how often others have edited

world == <<files, objects, manifest, marks, trash>>
saved == <<snapshots, crowded>>
vars  == <<world, saved, jobs, touched, edits>>

Running(p) == jobs[p] \notin {Absent, Over}

(* What `touched` speaks of.                                               *)
Obj(id)     == <<"object", id>>
File(path)  == <<"file", path>>
Mark(id, k) == <<"mark", id, k>>
State       == <<"manifest">>

Things == {Obj(id) : id \in Ids} \cup {File(path) : path \in Paths}
            \cup {Mark(id, k) : id \in Ids, k \in Marks} \cup {State}

TypeOK ==
  /\ files \in Files
  /\ objects \in [Ids -> Script \cup {Absent, Stub}]
  /\ manifest \in Rows
  /\ marks \in [Ids -> [Marks -> SUBSET Halves]]
  /\ trash \subseteq [id : Ids, script : Script]
  /\ snapshots \in [Moments -> Snapshot \cup {Absent}]
  /\ crowded \subseteq Moments
  /\ jobs \in [Procs -> Job \cup {Absent, Over}]
  /\ touched \in [Procs -> SUBSET Things]
  /\ edits \in 0 .. MaxEdits

(* Both sides hold anything, the manifest records earlier syncs, a script  *)
(* on the server has its markers and a deleted one may have left some, and *)
(* of some earlier backups there are only the directories.                 *)
StartRows(id) == {Absent} \cup
  {[path |-> idToRelPath(id, ext), base |-> script.source, engineType |-> type] :
     ext \in ScriptExts, type \in ScriptExts, script \in StartScripts}

Init ==
  /\ files \in [Paths -> {script.source : script \in StartScripts} \cup {Absent}]
  /\ \A path \in Paths : path[2] \notin ScriptExts => files[path] = Absent
  /\ objects \in [Ids -> StartScripts \cup {Absent}]
  /\ manifest \in {m \in [Ids -> UNION {StartRows(id) : id \in Ids}] :
                     \A id \in Ids : m[id] \in StartRows(id)}
  /\ marks \in [Ids -> [Marks -> SUBSET Halves]]
  /\ \A id \in Ids : objects[id] # Absent => \A k \in Marks : marks[id][k] = Halves
  /\ trash = {}
  /\ snapshots = [moment \in Moments |->
                    IF moment \in StartSnapshots THEN EmptySnapshot ELSE Absent]
  /\ crowded = {}
  /\ jobs = [p \in Procs |-> Absent]
  /\ touched = [p \in Procs |-> {}]
  /\ edits = 0

-----------------------------------------------------------------------------
(* Bookkeeping *)

At(p, phase) == Running(p) /\ jobs[p].phase = phase

(* What becomes of j once its phase is done.                               *)
Onward(j) == LET next == Steps(j.req.cmd)[j.phase]
             IN  IF next = "end" THEN Over ELSE [j EXCEPT !.phase = next]

(* p goes on as j, having read some things and changed others.             *)
Going(p, j, read, wrote) ==
  /\ jobs' = [jobs EXCEPT ![p] = j]
  /\ touched' = [q \in Procs |->
       CASE q = p -> IF j = Over THEN {} ELSE touched[q] \ read
         [] q # p /\ Running(q) -> touched[q] \cup wrote
         [] OTHER -> {}]
  /\ UNCHANGED edits

(* ... and, unless it is a backup, no snapshot.                            *)
Turn(p, j, read, wrote) ==
  /\ Going(p, j, read, wrote)
  /\ UNCHANGED saved

(* Somebody else changes a thing.                                          *)
Outside(thing) ==
  /\ edits < MaxEdits
  /\ edits' = edits + 1
  /\ touched' = [q \in Procs |-> IF Running(q) THEN touched[q] \cup {thing} ELSE {}]
  /\ UNCHANGED <<jobs, saved>>

-----------------------------------------------------------------------------
(* Others *)

UserSaves(path, source) ==
  /\ Outside(File(path))
  /\ files' = [files EXCEPT ![path] = source]
  /\ UNCHANGED <<objects, manifest, marks, trash>>

AdminSaves(id, script) ==
  /\ Outside(Obj(id))
  /\ objects' = [objects EXCEPT ![id] = script]
  /\ UNCHANGED <<files, manifest, marks, trash>>

AdminDeletes(id) ==
  /\ objects[id] # Absent
  /\ Outside(Obj(id))
  /\ objects' = [objects EXCEPT ![id] = Absent]
  /\ UNCHANGED <<files, manifest, marks, trash>>

(* An instance that loads a script creates its markers; the one that ran a *)
(* deleted script removes its own, one half after the other.               *)
InstanceLoads(id, k) ==
  /\ scanRemote(objects)[id] # Absent
  /\ marks[id][k] # Halves
  /\ Outside(Mark(id, k))
  /\ marks' = [marks EXCEPT ![id][k] = Halves]
  /\ UNCHANGED <<files, objects, manifest, trash>>

OwnerCleans(id, k, half) ==
  /\ scanRemote(objects)[id] = Absent
  /\ half \in marks[id][k]
  /\ Outside(Mark(id, k))
  /\ marks' = [marks EXCEPT ![id][k] = @ \ {half}]
  /\ UNCHANGED <<files, objects, manifest, trash>>

-----------------------------------------------------------------------------
(* Starting, ending, reading *)

Start(p, req) ==
  /\ jobs[p] = Absent
  /\ Turn(p, [req |-> req, phase |-> FirstPhase(req.cmd), script |-> Absent,
              found |-> {}, complete |-> TRUE, at |-> Absent,
              mem |-> [id \in Ids |-> Absent], chosen |-> {}, left |-> {},
              was |-> Absent, listed |-> NoScripts, dir |-> Absent], {}, {})
  /\ UNCHANGED world

Abort(p) ==
  /\ Running(p)
  /\ Turn(p, Over, {}, {})
  /\ UNCHANGED world

(* getScript(id): rename and move need the script and a new id for it, new *)
(* must not find one, remove decides later.                                *)
Fetch(p) ==
  LET j == jobs[p]
      script == scanRemote(objects)[j.req.id]
      refused == \/ /\ j.req.cmd \in {"rename", "move"}
                    /\ script = Absent \/ j.req.to = j.req.id
                 \/ j.req.cmd = "new" /\ script # Absent
  IN  /\ At(p, "fetch")
      /\ Turn(p, IF refused THEN Over ELSE Onward([j EXCEPT !.script = script]),
              {Obj(j.req.id)}, {})
      /\ UNCHANGED world

(* rename and move refuse an id that is taken.                             *)
CheckTarget(p) ==
  LET j == jobs[p]
  IN  /\ At(p, "target")
      /\ Turn(p, IF scanRemote(objects)[j.req.to] # Absent THEN Over ELSE Onward(j),
              {Obj(j.req.to)}, {})
      /\ UNCHANGED world

(* Channels are no scripts, and existing ones are not touched.             *)
EnsureFolders(p) ==
  /\ At(p, "folders")
  /\ Turn(p, Onward(jobs[p]), {}, {})
  /\ UNCHANGED world

RenamedPath(j) == idToRelPath(j.req.to, j.mem[j.req.id].engineType)

(* History: how the script compares before its file and its entry move, if *)
(* both names are ones a scan sees and nothing lies at the new one.        *)
StateBefore(j, row) ==
  LET new == RenamedPath([j EXCEPT !.mem = manifest])
  IN  IF files[new] = Absent /\ {new[2], row.path[2]} \subseteq ScriptExts
      THEN TrackedState(row, files[row.path], j.script) ELSE Absent

(* loadManifest, and what is decided once it is there: a remove without a  *)
(* script has only markers to sweep, a rename without an entry is done.    *)
Load(p) ==
  LET j   == [jobs[p] EXCEPT !.mem = manifest]
      row == manifest[j.req.id]
      moves == j.req.cmd \in {"rename", "move"}
      sweepOnly == j.req.cmd = "remove" /\ j.script = Absent
  IN  /\ At(p, "load")
      /\ Turn(p,
           CASE moves /\ row = Absent             -> Over
             [] moves /\ row # Absent             -> Onward([j EXCEPT !.was = StateBefore(j, row)])
             [] sweepOnly /\ j.found = {}         -> Over
             [] sweepOnly /\ j.found # {}         -> [j EXCEPT !.phase = "sweep"]
             [] OTHER -> Onward([j EXCEPT !.found = {}]),
           {State} \cup {File(path) : path \in Paths}, {})
      /\ UNCHANGED world

-----------------------------------------------------------------------------
(* Markers *)

(* listScriptMarkers, the markers of one script: the values and the objects*)
(* are read apart, and one of the two may fail.                            *)
Listed(id, read) ==
  {e \in Leftover :
     /\ e.value  <=> "value" \in read /\ "value" \in marks[id][e.mark]
     /\ e.object <=> "object" \in read /\ "object" \in marks[id][e.mark]
     /\ e.value \/ e.object}

(* findScriptMarkers: if nothing can be read, there is nothing to sweep.   *)
ListMarkers(p) ==
  LET j == jobs[p]
  IN  /\ At(p, "leftovers") \/ At(p, "list")
      /\ \E read \in SUBSET Halves :
           Turn(p, Onward([j EXCEPT !.found = Listed(j.req.id, read),
                                    !.complete = (read = Halves)]),
                {Mark(j.req.id, k) : k \in Marks}, {})
      /\ UNCHANGED world

(* The leftovers deleteScriptMarker may be at: the one begun, or any.      *)
Sweeping(p) ==
  IF ~At(p, "sweep") THEN {}
  ELSE {e \in jobs[p].found : jobs[p].at \in {Absent, e.mark}}

(* Faulty variant: the object goes first.                                  *)
ValueDueAfterObject(j, e) == e.value /\ (~e.object \/ j.at = e.mark)

(* The value is deleted before the object.                                 *)
ValueDue(j, e) == e.value /\ j.at = Absent

(* delState, which may take the object with it.                            *)
SweepValue(p) ==
  LET j == jobs[p] IN
  \E e \in Sweeping(p), gone \in {{"value"}, Halves} :
    /\ ValueDue(j, e)
    /\ marks' = [marks EXCEPT ![j.req.id][e.mark] = @ \ gone]
    /\ Turn(p, IF e.object /\ j.at = Absent THEN [j EXCEPT !.at = e.mark]
               ELSE [j EXCEPT !.found = @ \ {e}, !.at = Absent],
            {}, {Mark(j.req.id, e.mark)})
    /\ UNCHANGED <<files, objects, manifest, trash>>

(* getObject, and delObject if something is left.                          *)
SweepObject(p) ==
  LET j == jobs[p] IN
  \E e \in Sweeping(p) :
    /\ e.object
    /\ ~ValueDue(j, e)
    /\ marks' = [marks EXCEPT ![j.req.id][e.mark] = @ \ {"object"}]
    /\ Turn(p, [j EXCEPT !.found = @ \ {e}, !.at = Absent],
            {}, {Mark(j.req.id, e.mark)})
    /\ UNCHANGED <<files, objects, manifest, trash>>

(* A request of the sweep is refused: a warning, and on to the next one.   *)
SweepFails(p) ==
  LET j == jobs[p] IN
  \E e \in Sweeping(p) :
    /\ Turn(p, [j EXCEPT !.found = @ \ {e}, !.at = Absent], {}, {})
    /\ UNCHANGED world

SweepEnds(p) ==
  LET j == jobs[p]
  IN  /\ At(p, "sweep")
      /\ j.found = {}
      /\ Turn(p, IF j.script = Absent THEN Over ELSE Onward(j), {}, {})
      /\ UNCHANGED world

-----------------------------------------------------------------------------
(* The script on the server *)

(* The object a command creates: a copy with everything but the name, or   *)
(* an empty script that does not run.                                      *)
Created(j) ==
  IF j.req.cmd # "new" THEN j.script
  ELSE [source |-> Empty, engineType |-> j.req.path[2], enabled |-> FALSE,
        engine |-> DefaultInstance]

(* What setObject may leave behind although it is acknowledged.            *)
Mangled(j) ==
  IF MayMangle THEN {Absent} \cup {[Created(j) EXCEPT !.source = s] : s \in Sources}
  ELSE {}

Create(p) ==
  LET j == jobs[p]
  IN  /\ At(p, "create")
      /\ \E script \in {Created(j)} \cup Mangled(j) :
           objects' = [objects EXCEPT ![j.req.to] = script]
      /\ Turn(p, Onward(j), {}, {Obj(j.req.to)})
      /\ UNCHANGED <<files, manifest, marks, trash>>

(* Faulty variant: that something is there is enough.                      *)
CopyMatchesAnything(copy, script) == copy # Absent

(* The copy is compared with what was fetched.                             *)
CopyMatches(copy, script) == copy # Absent /\ copy.source = script.source

Verify(p) ==
  LET j == jobs[p]
  IN  /\ At(p, "verify")
      /\ Turn(p, IF CopyMatches(scanRemote(objects)[j.req.to], j.script)
                 THEN Onward(j) ELSE Over,
              {Obj(j.req.to)}, {})
      /\ UNCHANGED world

Backup(p) ==
  LET j == jobs[p]
  IN  /\ At(p, "backup")
      /\ trash' = trash \cup {[id |-> j.req.id, script |-> j.script]}
      /\ Turn(p, Onward(j), {}, {})
      /\ UNCHANGED <<files, objects, manifest, marks>>

Delete(p) ==
  LET j == jobs[p]
  IN  /\ At(p, "delete")
      /\ objects' = [objects EXCEPT ![j.req.id] = Absent]
      /\ Turn(p, Onward(j), {}, {Obj(j.req.id)})
      /\ UNCHANGED <<files, manifest, marks, trash>>

-----------------------------------------------------------------------------
(* The file and the manifest *)

(* remove's unlink, of the file the entry names, and only with             *)
(* --delete-local; a failure is a warning.                                 *)
Unlink(p) ==
  LET j == jobs[p]
      wanted == j.req.deleteLocal /\ j.mem[j.req.id] # Absent
      path == j.mem[j.req.id].path
  IN  /\ At(p, "unlink")
      /\ \/ UNCHANGED files
         \/ wanted /\ files' = [files EXCEPT ![path] = Absent]
      /\ Turn(p, Onward(j), {}, IF wanted THEN {File(path)} ELSE {})
      /\ UNCHANGED <<objects, manifest, marks, trash>>

(* fs.rename replaces whatever lies at the new path; without an old file   *)
(* there is nothing to do, and a failure is a warning.                     *)
MoveFile(p) ==
  LET j == jobs[p]
      old == j.mem[j.req.id].path
      new == RenamedPath(j)
  IN  /\ At(p, "movefile")
      /\ \/ /\ files[old] # Absent
            /\ files' = [[files EXCEPT ![old] = Absent] EXCEPT ![new] = files[old]]
            /\ Turn(p, Onward(j), {}, {File(old), File(new)})
         \/ /\ Turn(p, Onward([j EXCEPT !.was = IF files[old] = Absent THEN @
                                               ELSE Absent]), {}, {})
            /\ UNCHANGED files
      /\ UNCHANGED <<objects, manifest, marks, trash>>

(* new writes its empty file over whatever lies there.                     *)
WriteFile(p) ==
  LET j == jobs[p]
  IN  /\ At(p, "write")
      /\ files' = [files EXCEPT ![j.req.path] = Empty]
      /\ Turn(p, Onward(j), {}, {File(j.req.path)})
      /\ UNCHANGED <<objects, manifest, marks, trash>>

(* Faulty variant: the entry goes to the new id and keeps its path.        *)
MovedRowStays(j) == j.mem[j.req.id]

(* Faulty variant: the fields of the entry that do not change are dropped. *)
MovedRowBare(j) == [path |-> RenamedPath(j), base |-> j.mem[j.req.id].base]

(* The old entry under the new id: path and id change, the base stays.     *)
MovedRow(j) == [j.mem[j.req.id] EXCEPT !.path = RenamedPath(j)]

NewRow(j) == [path |-> j.req.path, base |-> Empty, engineType |-> j.req.path[2]]

(* The manifest as it was loaded, with this command's change.              *)
Updated(j) ==
  CASE j.req.cmd = "remove" -> [j.mem EXCEPT ![j.req.id] = Absent]
    [] j.req.cmd = "new"    -> [j.mem EXCEPT ![j.req.to] = NewRow(j)]
    [] OTHER -> [j.mem EXCEPT ![j.req.id] = Absent, ![j.req.to] = MovedRow(j)]

Save(p) ==
  /\ At(p, "save")
  /\ manifest' = Updated(jobs[p])
  /\ Turn(p, Over, {}, {State})
  /\ UNCHANGED <<files, objects, marks, trash>>

-----------------------------------------------------------------------------
(* start, stop, restart, backup *)

Wanted(cmd) == cmd # "stop"

(* Faulty variant: the listing is read the wrong way round.                *)
ToToggleInverted(cmd, scripts, chosen) ==
  {id \in chosen : cmd = "restart" \/ scripts[id].enabled = Wanted(cmd)}

(* The scripts the loop will write to: start and stop pass over those the  *)
(* listing shows as they should be.                                        *)
ToToggle(cmd, scripts, chosen) ==
  {id \in chosen : cmd = "restart" \/ scripts[id].enabled # Wanted(cmd)}

(* One listing, of which backup keeps the scripts.                         *)
ResolveTargets(p) ==
  LET j == jobs[p]
      scripts == scanRemote(objects)
      chosen == {id \in j.req.pattern : scripts[id] # Absent}
      taken == [id \in Ids |-> IF id \in chosen THEN scripts[id] ELSE Absent]
  IN  /\ At(p, "targets")
      /\ Turn(p, CASE chosen = {} -> Over
                   [] chosen # {} /\ j.req.cmd = "backup" ->
                        Onward([j EXCEPT !.chosen = chosen, !.left = chosen,
                                         !.listed = taken])
                   [] OTHER ->
                        Onward([j EXCEPT !.chosen = chosen,
                                         !.left = ToToggle(j.req.cmd, scripts, chosen)]),
              {Obj(id) : id \in Ids}, {})
      /\ UNCHANGED world

(* extendObject: into nothing, it merges an object that has no type.       *)
setEnabled(id, enabled) ==
  objects' = [objects EXCEPT ![id] =
                IF @ \in {Absent, Stub} THEN Stub ELSE [@ EXCEPT !.enabled = enabled]]

(* One request of the loop; restart disables, pauses and enables.          *)
Toggle(p) ==
  LET j == jobs[p] IN
  \E id \in j.left :
    /\ j.at \in {Absent, id}
    /\ IF j.req.cmd = "restart" /\ j.at = Absent
       THEN /\ setEnabled(id, FALSE)
            /\ Turn(p, [j EXCEPT !.at = id], {}, {Obj(id)})
       ELSE /\ setEnabled(id, Wanted(j.req.cmd))
            /\ Turn(p, [j EXCEPT !.at = Absent, !.left = @ \ {id}], {}, {Obj(id)})
    /\ UNCHANGED <<files, manifest, marks, trash>>

ToggleEnds(p) ==
  /\ At(p, "toggle")
  /\ jobs[p].left = {}
  /\ Turn(p, Over, {}, {})
  /\ UNCHANGED world

-----------------------------------------------------------------------------
(* backup *)

(* mkdir is content with a directory that is there.                        *)
MakeDirectory(p) ==
  /\ At(p, "mkdir")
  /\ \E moment \in Moments :
       /\ IF snapshots[moment] = Absent
          THEN /\ snapshots' = [snapshots EXCEPT ![moment] = EmptySnapshot]
               /\ UNCHANGED crowded
          ELSE /\ crowded' = crowded \cup {moment}
               /\ UNCHANGED snapshots
       /\ Going(p, Onward([jobs[p] EXCEPT !.dir = moment]), {}, {})
  /\ UNCHANGED world

(* Faulty variant: a script that cannot be written is passed over.         *)
FailedPassedOver(j) == [j EXCEPT !.left = {}, !.at = Absent]

(* The first failure ends the command.                                     *)
Failed(j) == Over

(* The full object of one script, and then its source, or what a failure   *)
(* leaves of them.                                                         *)
SnapshotObject(p) ==
  LET j == jobs[p] IN
  /\ At(p, "snapshot")
  /\ j.at = Absent
  /\ \E id \in j.left, whole \in BOOLEAN :
       /\ snapshots' = [snapshots EXCEPT ![j.dir].objects[id] =
                          IF whole THEN j.listed[id] ELSE Torn]
       /\ Going(p, IF whole THEN [j EXCEPT !.at = id] ELSE Failed(j), {}, {})
  /\ UNCHANGED <<world, crowded>>

SnapshotSource(p) ==
  LET j == jobs[p]
      script == j.listed[j.at]
      path == idToRelPath(j.at, script.engineType)
  IN  /\ At(p, "snapshot")
      /\ j.at # Absent
      /\ \E whole \in BOOLEAN :
           /\ snapshots' = [snapshots EXCEPT ![j.dir].sources[path] =
                              IF whole THEN script.source ELSE Torn]
           /\ Going(p, IF whole THEN [j EXCEPT !.left = @ \ {j.at}, !.at = Absent]
                       ELSE Failed(j), {}, {})
      /\ UNCHANGED <<world, crowded>>

(* The manifest comes last.                                                *)
SnapshotManifest(p) ==
  LET j == jobs[p] IN
  /\ At(p, "snapshot")
  /\ j.left = {}
  /\ \E whole \in BOOLEAN :
       snapshots' = [snapshots EXCEPT ![j.dir].entries =
                      IF whole THEN j.listed ELSE Torn]
  /\ Going(p, Over, {}, {})
  /\ UNCHANGED <<world, crowded>>

-----------------------------------------------------------------------------

Run(p) ==
  \/ Fetch(p) \/ CheckTarget(p) \/ EnsureFolders(p) \/ Load(p)
  \/ ListMarkers(p)
  \/ SweepValue(p) \/ SweepObject(p) \/ SweepFails(p) \/ SweepEnds(p)
  \/ Create(p) \/ Verify(p) \/ Backup(p) \/ Delete(p)
  \/ Unlink(p) \/ MoveFile(p) \/ WriteFile(p) \/ Save(p)
  \/ ResolveTargets(p)
  \/ At(p, "toggle") /\ Toggle(p)
  \/ ToggleEnds(p)
  \/ MakeDirectory(p) \/ SnapshotObject(p) \/ SnapshotSource(p) \/ SnapshotManifest(p)

Others ==
  \/ \E path \in Paths, script \in AdminScripts :
       path[2] \in ScriptExts /\ UserSaves(path, script.source)
  \/ \E id \in Ids : \/ \E script \in AdminScripts : AdminSaves(id, script)
                     \/ AdminDeletes(id)
  \/ \E id \in Ids, k \in Marks :
       \/ InstanceLoads(id, k)
       \/ \E half \in Halves : OwnerCleans(id, k, half)

Next ==
  \/ Others
  \/ \E p \in Procs : \/ \E req \in Requests : Start(p, req)
                      \/ Run(p)
                      \/ Abort(p)

Spec == Init /\ [][Next]_vars

-----------------------------------------------------------------------------
(* Properties *)

(* No command makes a script disappear, or puts another one in its place,  *)
(* unless the whole object is in the trash or somebody saved it after the  *)
(* command last read it: whatever else runs, wherever it died before, and  *)
(* for the target of a rename as well as for its original (README.md:152). *)
DestroysOnlyBackedUp ==
  [][\A p \in Procs : \A id \in Ids :
       /\ jobs'[p] # jobs[p]
       /\ objects[id] \in Script
       /\ IF objects'[id] \in Script THEN objects'[id].source # objects[id].source
                                     ELSE TRUE
       => \/ [id |-> id, script |-> objects[id]] \in trash
          \/ Obj(id) \in touched[p]]_vars

(* When a rename or a move deletes the original, the copy holds the source *)
(* that was fetched, however badly the server stored it, unless somebody   *)
(* changed the copy after it was read back (rename.ts:16-24).              *)
OriginalOutlivesBadCopy ==
  [][\A p \in Procs : LET j == jobs[p] IN
       Delete(p) /\ j.req.cmd # "remove"
       => \/ objects[j.req.to] \in Script /\ objects[j.req.to].source = j.script.source
          \/ Obj(j.req.to) \in touched[p]]_vars

(* A sweep that could read both halves never leaves a value without its    *)
(* object, not even when it fails half way (objects.ts:224-225).           *)
SweepLeavesNoValue ==
  [][\A p \in Procs : \A id \in Ids, k \in Marks :
       /\ jobs'[p] # jobs[p]
       /\ "object" \in marks[id][k] \ marks'[id][k]
       /\ jobs[p].complete
       /\ Mark(id, k) \notin touched[p]
       => "value" \notin marks'[id][k]]_vars

(* A rename changes the name and nothing else: with no file in the way and *)
(* nobody interfering, the renamed script compares as the old one did, an  *)
(* edit not pushed yet still counts as one, and so does one not pulled.    *)
RenameKeepsState ==
  [][\A p \in Procs : LET j == jobs[p] IN
       /\ Save(p)
       /\ j.was # Absent
       /\ touched[p] \cap {Obj(j.req.to), File(j.mem[j.req.id].path),
                           File(RenamedPath(j))} = {}
       => [id |-> j.req.to, path |-> RenamedPath(j), state |-> j.was]
            \in computeStatus(manifest', scanRemote(objects'), scanLocal(files'))]_vars

(* When start, stop or restart is through, every script its pattern chose  *)
(* is as the command promises, those it passed over included, unless       *)
(* somebody changed it after the listing.                                  *)
TargetsSettled ==
  [][\A p \in Procs : \A id \in Ids :
       /\ ToggleEnds(p)
       /\ id \in jobs[p].chosen
       /\ Obj(id) \notin touched[p]
       => objects[id] \in Script /\ objects[id].enabled = Wanted(jobs[p].req.cmd)]_vars

(* A snapshot that diff can compare with is whole: whatever failed and     *)
(* whoever died meanwhile, one that has a manifest has the full object and *)
(* the source of each script in it (backup.ts:73-74), unless two backups   *)
(* began in the same millisecond, by the clock, and share the directory.   *)
Holds(snapshot, scripts, id) ==
  /\ snapshot.objects[id] = scripts[id]
  /\ snapshot.sources[idToRelPath(id, scripts[id].engineType)] = scripts[id].source

SnapshotWhole ==
  \A moment \in Moments \ crowded :
    LET snapshot == snapshots[moment]
    IN  snapshot # Absent /\ snapshot.entries \in Scripts =>
          \A id \in Ids : snapshot.entries[id] # Absent =>
            Holds(snapshot, snapshot.entries, id)

-----------------------------------------------------------------------------
(* The inductive invariant *)

Moving == {"rename", "move"}

(* Where the script a command has fetched is still to be deleted, and      *)
(* where its markers are still to be listed.                               *)
Undeleted(j) ==
  \/ j.phase \in {"leftovers", "target", "create", "verify", "backup", "delete"}
  \/ j.phase = "folders" /\ j.req.cmd # "new"
  \/ j.phase = "load" /\ j.req.cmd = "remove"

Unlisted(j) ==
  Undeleted(j) \/ j.phase \in {"fetch", "folders", "list", "targets", "mkdir"}

(* Which phases a command can be in, and what it holds in them.            *)
JobShape(j) ==
  /\ j.req \in Requests
  /\ j.phase \in DOMAIN Steps(j.req.cmd)
  /\ j.req.cmd \in Moving /\ j.phase # "fetch"
       => j.script # Absent /\ j.req.to # j.req.id
  /\ j.req.cmd = "remove" /\ j.phase \in {"backup", "delete", "list", "unlink", "save"}
       => j.script # Absent
  /\ j.req.cmd = "new" => j.script = Absent
  /\ j.req.cmd \in Moving /\ j.phase \in {"movefile", "save"}
       => j.mem[j.req.id] # Absent
  /\ Unlisted(j) => j.at = Absent
  /\ j.left \subseteq j.chosen
  /\ j.phase \in {"mkdir", "snapshot"}
       => j.chosen = {id \in Ids : j.listed[id] # Absent}
  /\ j.phase = "mkdir" => j.left = j.chosen
  /\ j.phase = "snapshot" => j.dir # Absent /\ j.at \in j.left \cup {Absent}

(* What a command has found out stays so until somebody interferes: about  *)
(* its script, the id it creates one at, and the copy it has made.         *)
ScriptKnown(j, there, news) ==
  /\ Undeleted(j) /\ j.script # Absent /\ Obj(j.req.id) \notin news
       => there[j.req.id] = j.script
  /\ /\ j.phase \in {"folders", "create"}
     /\ Obj(j.req.to) \notin news
     => there[j.req.to] \notin Script
  /\ /\ j.req.cmd \in Moving
     /\ j.phase \in {"backup", "delete"}
     /\ Obj(j.req.to) \notin news
     => there[j.req.to] \in Script /\ there[j.req.to].source = j.script.source

BackedUp(j, bin) == j.phase = "delete" => [id |-> j.req.id, script |-> j.script] \in bin

(* ... about the markers it sweeps, ...                                    *)
MarksKnown(j, markers, news) ==
  j.complete /\ j.phase \notin {"toggle", "mkdir", "snapshot"} =>
    \A k \in Marks : Mark(j.req.id, k) \notin news =>
      /\ \A e \in j.found : e.mark = k => e.value \/ "value" \notin markers[j.req.id][k]
      /\ j.at = k => "value" \notin markers[j.req.id][k]

(* ... and about the scripts it starts or stops.                           *)
TargetsKnown(j, there, news) ==
  j.phase = "toggle" =>
    \A id \in j.chosen : Obj(id) \notin news =>
      /\ there[id] \in Script
      /\ id \notin j.left => there[id].enabled = Wanted(j.req.cmd)

JobSound(j, there, markers, bin, news) ==
  /\ JobShape(j)
  /\ ScriptKnown(j, there, news)
  /\ BackedUp(j, bin)
  /\ MarksKnown(j, markers, news)
  /\ TargetsKnown(j, there, news)

(* What a backup has written so far, in a directory of its own.            *)
SnapshotGoes(j, snapshot) ==
  /\ snapshot.entries = Absent
  /\ \A id \in j.chosen \ j.left : Holds(snapshot, j.listed, id)
  /\ j.at # Absent => snapshot.objects[j.at] = j.listed[j.at]

SnapshotsGo ==
  \A p \in Procs : At(p, "snapshot") /\ jobs[p].dir \notin crowded =>
    /\ SnapshotGoes(jobs[p], snapshots[jobs[p].dir])
    /\ \A q \in Procs : At(q, "snapshot") /\ jobs[q].dir = jobs[p].dir => q = p

(* Two scripts have two files.                                             *)
NamesApart == \A a, b \in Ids : StemOf[a] = StemOf[b] => a = b

SnapshotsSound ==
  /\ \A p \in Procs : At(p, "snapshot") => snapshots[jobs[p].dir] # Absent
  /\ NamesApart => SnapshotWhole /\ SnapshotsGo

JobsInv ==
  /\ TypeOK
  /\ SnapshotsSound
  /\ \A p \in Procs : Running(p) => JobSound(jobs[p], objects, marks, trash, touched[p])

(* What a rename has in hand once the original is gone: the copy, and how  *)
(* the script compared, which the file says in its old place or, once it   *)
(* has moved, in its new one.                                              *)
MoveKnown(j, disk, there, news) ==
  /\ /\ j.req.cmd \in Moving
     /\ j.phase \in {"list", "sweep", "load", "movefile", "save"}
     /\ Obj(j.req.to) \notin news
     => there[j.req.to] \in Script /\ there[j.req.to].source = j.script.source
  /\ j.was # Absent =>
       LET row  == j.mem[j.req.id]
           new  == RenamedPath(j)
           here == IF j.phase = "movefile" THEN row.path ELSE new
       IN  /\ j.req.cmd \in Moving /\ j.phase \in {"movefile", "save"}
           /\ {new[2], row.path[2]} \subseteq ScriptExts
           /\ {File(row.path), File(new)} \cap news = {} =>
                /\ j.was = TrackedState(row, disk[here], j.script)
                /\ j.phase = "movefile" => disk[new] = Absent

MovesSound ==
  \A p \in Procs : Running(p) => MoveKnown(jobs[p], files, objects, touched[p])

IInv == JobsInv /\ MovesSound

=============================================================================
