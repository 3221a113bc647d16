------------------------------- MODULE Watch -------------------------------
(***************************************************************************)
(* `iob-sync watch`, with and without --pull (commands/watch.ts).          *)
(*                                                                         *)
(* One process, but every file event and every object event starts an      *)
(* asynchronous task (pushFile, applyRemoteChange) nobody waits for, so    *)
(* tasks overlap at each of their awaits and share the manifest and the    *)
(* two echo maps.  Requests travel to the server in order and are handled  *)
(* in order; its answers and its object events come back on one stream.    *)
(***************************************************************************)
EXTENDS SyncStatus, Sequences, FiniteSets

CONSTANTS
  DefaultInstance,  \* config.defaultInstance
  WithPull,         \* --pull
  DryRun,           \* --dry-run
  WatchedPaths,     \* the paths the pattern matches
  WatchedIds,       \* the ids the pattern matches
  Editable,         \* extensions of engine types that are not generated
  MaxTasks,         \* bound: how many tasks may be under way
  MaxPushes,        \* bound: how many of them may be pushes
  MaxEdits,         \* bound: how often the user and Admin save or delete
  UserSources,      \* bound: what the user saves
  AdminSources,     \* bound: what is saved in Admin
  MayDelete,        \* bound: do the user and Admin delete
  MayFail,          \* bound: do requests, writes and saves fail
  MayTimeOut,       \* bound: does watch give up on requests
  MayRestart,       \* bound: is watch stopped and started again
  MayPullElsewhere  \* bound: does somebody pull while watch runs

ASSUME WatchAssumption ==
  /\ DefaultInstance \in Instances
  /\ WithPull \in BOOLEAN
  /\ DryRun \in BOOLEAN
  /\ WatchedPaths \subseteq Paths
  /\ WatchedIds \subseteq Ids
  /\ Editable \subseteq EngineTypes
  /\ MaxTasks \in Nat
  /\ MaxPushes \in Nat
  /\ MaxEdits \in Nat
  /\ UserSources \subseteq Sources
  /\ AdminSources \subseteq Sources
  /\ MayDelete \in BOOLEAN
  /\ MayFail \in BOOLEAN
  /\ MayTimeOut \in BOOLEAN
  /\ MayRestart \in BOOLEAN
  /\ MayPullElsewhere \in BOOLEAN

(* A task.  source is the content it moves, base the entry it has found    *)
(* for it, seen the content it has found on the other side.                *)
Phases == {"get", "folders", "extend", "create",   \* a push awaits an answer
           "read", "write", "wrote",               \* an apply awaits the disk
           "save", "rename"}                       \* saveManifest

Task == [kind : {"push", "apply"}, phase : Phases, id : Ids, path : Paths,
         source : Sources, base : Sources \cup {Absent},
         seen : Sources \cup {Absent}]

(* A task under way has a number, which its requests carry.                *)
Slots == 1 .. MaxTasks

ASSUME TaskAssumption == Absent \notin Task \cup Slots

VARIABLES
  files,        \* the script folder
  objects,      \* the script objects on the server
  saved,        \* .iobroker-sync/state.json
  entries,      \* the manifest in memory
  lastPushed,   \* per id, the content of the last push
  lastWritten,  \* per path, the content of the last apply
  noticed,      \* paths with a change chokidar has yet to report
  timers,       \* paths with a running debounce timer
  tasks,        \* the task in each slot, or Absent
  snapshot,     \* the manifest each task is writing to the disk
  wire,         \* requests on their way to the server
  inbox,        \* answers and events on their way to the client
  due,          \* ids the javascript adapter has yet to compile
  edits,        \* how often anybody has edited
  pending,      \* history: the user's last save, until it has arrived
  onDisk,       \* history: every content a path has had
  onServer      \* history: every content a script has had

world   == <<files, objects>>
memory  == <<entries, lastPushed, lastWritten, noticed, timers>>
work    == <<tasks, snapshot>>
socket  == <<wire, inbox>>
history == <<pending, onDisk, onServer>>
vars    == <<world, saved, memory, work, socket, due, edits, history>>

Request == [slot : Slots \cup {Absent}, op : Phases, id : Ids, path : Paths,
            source : Sources]

Answer == [type : {"answer"}, slot : Slots \cup {Absent}, ok : BOOLEAN,
           seen : Sources \cup {Absent}]
Event  == [type : {"event"}, id : Ids, object : Script \cup {Absent, Stub}]

TypeOK ==
  /\ files \in Files
  /\ objects \in [Ids -> Script \cup {Absent, Stub}]
  /\ saved \in Manifests
  /\ entries \in Manifests
  /\ lastPushed \in [Ids -> Sources \cup {Absent}]
  /\ lastWritten \in [Paths -> Sources \cup {Absent}]
  /\ noticed \subseteq Paths
  /\ timers \subseteq Paths
  /\ tasks \in [Slots -> Task \cup {Absent}]
  /\ snapshot \in [Slots -> Manifests]
  /\ wire \in Seq(Request)
  /\ inbox \in Seq(Answer \cup Event)
  /\ due \subseteq Ids
  /\ edits \in 0 .. MaxEdits
  /\ pending \in [Paths -> Sources \cup {Absent}]
  /\ onDisk \in [Paths -> SUBSET Sources]
  /\ onServer \in [Ids -> SUBSET Sources]

(* watch starts at any time: both sides hold anything, and the manifest    *)
(* records syncs that took place.                                          *)
Content(x) == IF x = Absent THEN {} ELSE {x}

InSource(object) == IF object \in {Absent, Stub} THEN Absent ELSE object.source

StartScripts == [source : AdminSources, engineType : ScriptExts,
                 enabled : {TRUE}, engine : {DefaultInstance}] \cup {Absent}

StartEntry(id) == {[path |-> idToRelPath(id, ext), base |-> base] :
                     ext \in ScriptExts, base \in AdminSources} \cup {Absent}

Init ==
  /\ files \in [Paths -> UserSources \cup {Absent}]
  /\ \A path \in Paths : path[2] \notin ScriptExts => files[path] = Absent
  /\ objects \in [Ids -> StartScripts]
  /\ saved \in {m \in Manifests : \A id \in Ids : m[id] \in StartEntry(id)}
  /\ entries = saved
  /\ lastPushed = [id \in Ids |-> Absent]
  /\ lastWritten = [path \in Paths |-> Absent]
  /\ noticed = {}
  /\ timers = {}
  /\ tasks = [s \in Slots |-> Absent]
  /\ snapshot = [s \in Slots |-> emptyManifest]
  /\ wire = <<>>
  /\ inbox = <<>>
  /\ due = {}
  /\ edits = 0
  /\ pending = [path \in Paths |-> Absent]
  /\ onDisk = [path \in Paths |-> Content(files[path]) \cup
                 {saved[id].base : id \in findByPath(saved, path)}]
  /\ onServer = [id \in Ids |-> Content(InSource(objects[id])) \cup
                   (IF saved[id] = Absent THEN {} ELSE {saved[id].base})]

-----------------------------------------------------------------------------
(* The socket *)

Send(s, op, t) ==
  wire' = Append(wire, [slot |-> s, op |-> op, id |-> t.id, path |-> t.path,
                        source |-> t.source])

Answered(s, ok, seen) == [type |-> "answer", slot |-> s, ok |-> ok, seen |-> seen]

(* objectChange, sent to a client that has subscribed.                     *)
Published(id, object) ==
  IF WithPull THEN <<[type |-> "event", id |-> id, object |-> object]>> ELSE <<>>

(* A request given up: its answer, should it come, finds nobody waiting.   *)
Forget(s) ==
  /\ wire' = [i \in DOMAIN wire |->
                IF wire[i].slot = s THEN [wire[i] EXCEPT !.slot = Absent]
                ELSE wire[i]]
  /\ inbox' = [i \in DOMAIN inbox |->
                 IF inbox[i].type = "answer" /\ inbox[i].slot = s
                 THEN [inbox[i] EXCEPT !.slot = Absent]
                 ELSE inbox[i]]

-----------------------------------------------------------------------------
(* The people at both ends, and the adapter *)

(* What was due to arrive at the keys has arrived: it is source.           *)
Settled(waiting, keys, source) ==
  [k \in DOMAIN waiting |-> IF k \in keys /\ waiting[k] = source THEN Absent
                            ELSE waiting[k]]

MayEdit == edits < MaxEdits /\ edits' = edits + 1

UserSaves(path, source) ==
  /\ MayEdit
  /\ files' = [files EXCEPT ![path] = source]
  /\ noticed' = noticed \cup {path}
  /\ pending' = [pending EXCEPT ![path] = source]
  /\ onDisk' = [onDisk EXCEPT ![path] = @ \cup {source}]
  /\ UNCHANGED <<objects, saved, entries, lastPushed, lastWritten, timers, work,
                 socket, due, onServer>>

UserDeletes(path) ==
  /\ MayDelete
  /\ MayEdit
  /\ files[path] # Absent
  /\ files' = [files EXCEPT ![path] = Absent]
  /\ pending' = [pending EXCEPT ![path] = Absent]
  /\ UNCHANGED <<objects, saved, memory, work, socket, due, onDisk, onServer>>

AdminSaves(id, script) ==
  /\ MayEdit
  /\ objects' = [objects EXCEPT ![id] = script]
  /\ inbox' = inbox \o Published(id, script)
  /\ due' = due \cup {id}
  /\ pending' = Settled(pending, {path \in Paths : relPathToId(path) = id},
                        script.source)
  /\ onServer' = [onServer EXCEPT ![id] = @ \cup {script.source}]
  /\ UNCHANGED <<files, saved, memory, work, wire, onDisk>>

AdminDeletes(id) ==
  /\ MayDelete
  /\ MayEdit
  /\ objects[id] # Absent
  /\ objects' = [objects EXCEPT ![id] = Absent]
  /\ inbox' = inbox \o Published(id, Absent)
  /\ due' = due \ {id}
  /\ pending' = [path \in Paths |->
                   IF relPathToId(path) = id THEN Absent ELSE pending[path]]
  /\ UNCHANGED <<files, saved, memory, work, wire, onDisk, onServer>>

(* A pull of a script in another terminal, forced or with nothing to lose: *)
(* the manifest on the disk learns of it, the one in memory does not.      *)
PullElsewhere(id) ==
  LET script == objects[id]
      path == idToRelPath(id, script.engineType)
  IN  /\ MayPullElsewhere
      /\ MayEdit
      /\ script \notin {Absent, Stub}
      /\ files' = [files EXCEPT ![path] = script.source]
      /\ noticed' = noticed \cup {path}
      /\ saved' = upsertEntry(saved, id, path, script.source)
      /\ onDisk' = [onDisk EXCEPT ![path] = @ \cup {script.source}]
      /\ UNCHANGED <<objects, entries, lastPushed, lastWritten, timers, work, socket,
                     due, pending, onServer>>

(* The adapter writes `compiled` and `sourceHash` onto the object: a second*)
(* event with a source everybody has seen.                                 *)
AdapterWritesBack(id) ==
  /\ id \in due
  /\ due' = due \ {id}
  /\ inbox' = inbox \o Published(id, objects[id])
  /\ UNCHANGED <<world, saved, memory, work, wire, edits, history>>

(* The server's extendObject merges into whatever is there; into nothing,  *)
(* it merges an object that has no type and is no script.                  *)
Extended(object, r) ==
  IF object \in {Absent, Stub} THEN Stub
  ELSE [object EXCEPT !.source = r.source, !.engineType = r.path[2]]

NewScript(r) == [source |-> r.source, engineType |-> r.path[2],
                 enabled |-> FALSE, engine |-> DefaultInstance]

(* The server handles the oldest request; its event may leave before or    *)
(* after its answer.                                                       *)
ServerReads ==
  /\ wire # <<>>
  /\ Head(wire).op \in {"get", "folders"}
  /\ LET r == Head(wire)
     IN  inbox' = Append(inbox,
                    Answered(r.slot, TRUE, InSource(objects[r.id])))
  /\ wire' = Tail(wire)
  /\ UNCHANGED <<world, saved, memory, work, due, edits, history>>

ServerWrites ==
  /\ wire # <<>>
  /\ Head(wire).op \in {"extend", "create"}
  /\ LET r == Head(wire)
         object == IF r.op = "create" THEN NewScript(r) ELSE Extended(objects[r.id], r)
         answer == <<Answered(r.slot, TRUE, Absent)>>
     IN  /\ objects' = [objects EXCEPT ![r.id] = object]
         /\ \/ inbox' = inbox \o Published(r.id, object) \o answer
            \/ inbox' = inbox \o answer \o Published(r.id, object)
         /\ due' = IF object = Stub THEN due ELSE due \cup {r.id}
         /\ onServer' = [onServer EXCEPT ![r.id] = @ \cup {r.source}]
         /\ pending' = Settled(pending, {r.path}, r.source)
  /\ wire' = Tail(wire)
  /\ UNCHANGED <<files, saved, memory, work, edits, onDisk>>

ServerRefuses ==
  /\ MayFail
  /\ wire # <<>>
  /\ inbox' = Append(inbox, Answered(Head(wire).slot, FALSE, Absent))
  /\ wire' = Tail(wire)
  /\ UNCHANGED <<world, saved, memory, work, due, edits, history>>

-----------------------------------------------------------------------------
(* Tasks *)

Matched(path, id) == path \in WatchedPaths \/ id \in WatchedIds

Free(s) == tasks[s] = Absent

(* A new task takes the first free number.                                 *)
FirstFree(s) == Free(s) /\ \A r \in Slots : Free(r) => s <= r

Over(s) ==
  /\ tasks' = [tasks EXCEPT ![s] = Absent]
  /\ snapshot' = [snapshot EXCEPT ![s] = emptyManifest]

Step(s, t) ==
  /\ tasks' = [tasks EXCEPT ![s] = t]
  /\ UNCHANGED snapshot

(* The log tells the user what became of the edit the task was for.        *)
Reported(t) ==
  pending' = IF t.kind = "push" THEN Settled(pending, {t.path}, t.source) ELSE pending

(* Faulty variant: the two hashes never compare equal.                     *)
OwnEchoNever(last, source) == FALSE

(* Faulty variant: whatever follows a write of its own is taken for it.    *)
OwnEchoAny(last, source) == last # Absent

(* Echo suppression, in either direction.                                  *)
OwnEcho(last, source) == last = source

(* scheduleFile, called by chokidar.                                       *)
scheduleFile(path) ==
  /\ path \in noticed
  /\ noticed' = noticed \ {path}
  /\ timers' = IF path[2] \in ScriptExts THEN timers \cup {path} ELSE timers
  /\ UNCHANGED <<world, saved, entries, lastPushed, lastWritten, work, socket, due,
                 edits, history>>

(* The script a file belongs to.                                           *)
Owner(path) ==
  LET known == findByPath(entries, path)
  IN  IF known = {} THEN {relPathToId(path)} ELSE known

BaseOf(id, path) == IF entries[id] # Absent /\ entries[id].path = path
                    THEN entries[id].base ELSE Absent

(* Faulty variant: only files with a manifest entry are pushed.             *)
PushableTrackedOnly(path) ==
  /\ files[path] # Absent
  /\ findByPath(entries, path) # {}
  /\ ~OwnEcho(lastWritten[path], files[path])
  /\ Matched(path, relPathToId(path))
  /\ path[2] \in Editable

(* What pushFile checks before it asks the server.                         *)
Pushable(path) ==
  /\ files[path] # Absent
  /\ ~OwnEcho(lastWritten[path], files[path])
  /\ Matched(path, relPathToId(path))
  /\ path[2] \in Editable

Pushes == {s \in Slots : ~Free(s) /\ tasks[s].kind = "push"}

(* The debounce timer fires and pushFile reads the file.                   *)
PushStarts(s, path) ==
  /\ path \in timers
  /\ FirstFree(s)
  /\ Cardinality(Pushes) < MaxPushes
  /\ Pushable(path)
  /\ timers' = timers \ {path}
  /\ \E id \in Owner(path) :
       LET t == [kind |-> "push", phase |-> "get", id |-> id, path |-> path,
                 source |-> files[path], base |-> BaseOf(id, path), seen |-> Absent]
       IN  Step(s, t) /\ Send(s, "get", t)
  /\ UNCHANGED <<world, saved, entries, lastPushed, lastWritten, noticed, inbox, due,
                 edits, history>>

(* The file is gone, not watched, generated, or our own write.             *)
PushIgnored(path) ==
  /\ path \in timers
  /\ ~Pushable(path)
  /\ timers' = timers \ {path}
  /\ pending' = [pending EXCEPT ![path] =
       IF Matched(path, relPathToId(path)) /\ path[2] \in Editable THEN @ ELSE Absent]
  /\ UNCHANGED <<world, saved, entries, lastPushed, lastWritten, noticed, work, socket,
                 due, edits, onDisk, onServer>>

(* The oldest message is the answer task s is waiting for.                 *)
HasAnswer(s, phases) ==
  /\ inbox # <<>>
  /\ Head(inbox).type = "answer"
  /\ Head(inbox).slot = s
  /\ tasks[s] # Absent
  /\ tasks[s].phase \in phases

(* Faulty variant: one changed side is enough to go ahead.                 *)
PushConflictsNever(t, there) == FALSE

(* Both sides changed since the last sync, and not to the same content.    *)
PushConflicts(t, there) ==
  /\ t.base # Absent
  /\ there # Absent
  /\ t.source # t.base
  /\ there # t.base
  /\ t.source # there

(* pushFile once getScript has answered.                                   *)
PushDecides(s) ==
  LET t == tasks[s]
      there == Head(inbox).seen
      found == [t EXCEPT !.seen = there]
  IN  /\ HasAnswer(s, {"get"})
      /\ Head(inbox).ok
      /\ inbox' = Tail(inbox)
      /\ \/ /\ PushConflicts(t, there) \/ DryRun
            /\ Over(s)
            /\ Reported(t)
            /\ UNCHANGED <<lastPushed, wire>>
         \/ /\ ~PushConflicts(t, there) /\ ~DryRun
            /\ LET op == IF there = Absent THEN "folders" ELSE "extend"
               IN  Step(s, [found EXCEPT !.phase = op]) /\ Send(s, op, t)
            /\ lastPushed' = [lastPushed EXCEPT ![t.id] = t.source]
            /\ UNCHANGED pending
      /\ UNCHANGED <<world, saved, entries, lastWritten, noticed, timers, due, edits,
                     onDisk, onServer>>

(* ensureFolders is done, createScript sends the new object.               *)
PushCreates(s) ==
  LET t == tasks[s]
  IN  /\ HasAnswer(s, {"folders"})
      /\ Head(inbox).ok
      /\ inbox' = Tail(inbox)
      /\ Step(s, [t EXCEPT !.phase = "create"])
      /\ Send(s, "create", t)
      /\ UNCHANGED <<world, saved, memory, due, edits, history>>

(* Faulty variant: the file is hashed again once the push is through.      *)
RecordedBaseReread(t) == files[t.path]

(* The base recorded for a task is the content it has moved.               *)
RecordedBase(t) == t.source

Record(t) == entries' = upsertEntry(entries, t.id, t.path, RecordedBase(t))

PushRecords(s) ==
  LET t == tasks[s]
  IN  /\ HasAnswer(s, {"extend", "create"})
      /\ Head(inbox).ok
      /\ inbox' = Tail(inbox)
      /\ Record(t)
      /\ Step(s, [t EXCEPT !.phase = "save"])
      /\ UNCHANGED <<world, saved, lastPushed, lastWritten, noticed, timers, wire, due,
                     edits, history>>

(* An answer that is an error: logged, and the push is over.               *)
PushFails(s) ==
  /\ HasAnswer(s, Phases)
  /\ ~Head(inbox).ok
  /\ inbox' = Tail(inbox)
  /\ Over(s)
  /\ Reported(tasks[s])
  /\ UNCHANGED <<world, saved, memory, wire, due, edits, onDisk, onServer>>

(* emit gives up on a request after its timeout.                           *)
PushTimesOut(s) ==
  /\ MayTimeOut
  /\ ~Free(s)
  /\ tasks[s].phase \in {"get", "folders", "extend", "create"}
  /\ Forget(s)
  /\ Over(s)
  /\ Reported(tasks[s])
  /\ UNCHANGED <<world, saved, memory, due, edits, onDisk, onServer>>

(* handleCallback finds no pending request.                                *)
LateAnswer ==
  /\ inbox # <<>>
  /\ Head(inbox).type = "answer"
  /\ Head(inbox).slot = Absent
  /\ inbox' = Tail(inbox)
  /\ UNCHANGED <<world, saved, memory, work, wire, due, edits, history>>

(* applyRemoteChange goes on beyond its early returns.                     *)
PathOf(e) == IF entries[e.id] # Absent THEN entries[e.id].path
             ELSE idToRelPath(e.id, e.object.engineType)

Appliable(e) ==
  /\ e.object \notin {Absent, Stub}
  /\ ~OwnEcho(lastPushed[e.id], e.object.source)
  /\ Matched(PathOf(e), e.id)
  /\ e.object.engineType \in Editable

ApplyStarts(s) ==
  LET e == Head(inbox)
  IN  /\ inbox # <<>>
      /\ e.type = "event"
      /\ Appliable(e)
      /\ FirstFree(s)
      /\ inbox' = Tail(inbox)
      /\ Step(s, [kind |-> "apply", phase |-> "read", id |-> e.id, path |-> PathOf(e),
                  source |-> e.object.source, base |-> BaseOf(e.id, PathOf(e)),
                  seen |-> Absent])
      /\ UNCHANGED <<world, saved, memory, wire, due, edits, history>>

(* A deletion, an echo, a script not watched or not hand-written.          *)
EventIgnored ==
  LET e == Head(inbox)
  IN  /\ inbox # <<>>
      /\ e.type = "event"
      /\ ~Appliable(e)
      /\ inbox' = Tail(inbox)
      /\ UNCHANGED <<world, saved, memory, work, wire, due, edits, history>>

(* Faulty variant: the file is not compared with the base.                 *)
ApplyConflictsNever(t, here) == FALSE

ApplyConflicts(t, here) ==
  /\ here # Absent
  /\ t.base # Absent
  /\ here # t.base
  /\ here # t.source

ApplyReads(s) ==
  LET t == tasks[s]
      here == files[t.path]
  IN  /\ ~Free(s)
      /\ t.phase = "read"
      /\ \/ /\ ApplyConflicts(t, here) \/ DryRun
            /\ Over(s)
            /\ Reported(t)
         \/ /\ ~ApplyConflicts(t, here) /\ ~DryRun
            /\ Step(s, [t EXCEPT !.phase = "write", !.seen = here])
            /\ UNCHANGED pending
      /\ UNCHANGED <<world, saved, memory, socket, due, edits, onDisk, onServer>>

(* fs.writeFile; chokidar will report it like any other change.            *)
ApplyWrites(s) ==
  LET t == tasks[s]
  IN  /\ ~Free(s)
      /\ t.phase = "write"
      /\ files' = [files EXCEPT ![t.path] = t.source]
      /\ onDisk' = [onDisk EXCEPT ![t.path] = @ \cup {t.source}]
      /\ noticed' = noticed \cup {t.path}
      /\ Step(s, [t EXCEPT !.phase = "wrote"])
      /\ UNCHANGED <<objects, saved, entries, lastPushed, lastWritten, timers, socket,
                     due, edits, pending, onServer>>

ApplyFails(s) ==
  /\ MayFail
  /\ ~Free(s)
  /\ tasks[s].phase = "write"
  /\ Over(s)
  /\ Reported(tasks[s])
  /\ UNCHANGED <<world, saved, memory, socket, due, edits, onDisk, onServer>>

(* The continuation of writeFile: only now does the echo map know of it.   *)
ApplyRecords(s) ==
  LET t == tasks[s]
  IN  /\ ~Free(s)
      /\ t.phase = "wrote"
      /\ lastWritten' = [lastWritten EXCEPT ![t.path] = t.source]
      /\ Record(t)
      /\ Step(s, [t EXCEPT !.phase = "save"])
      /\ UNCHANGED <<world, saved, lastPushed, noticed, timers, socket, due, edits,
                     history>>

(* saveManifest: the manifest is serialised after mkdir, and published by  *)
(* the rename, each after an await of its own.                             *)
SaveStarts(s) ==
  /\ ~Free(s)
  /\ tasks[s].phase = "save"
  /\ snapshot' = [snapshot EXCEPT ![s] = entries]
  /\ tasks' = [tasks EXCEPT ![s].phase = "rename"]
  /\ UNCHANGED <<world, saved, memory, socket, due, edits, history>>

SaveEnds(s) ==
  /\ ~Free(s)
  /\ tasks[s].phase = "rename"
  /\ saved' = snapshot[s]
  /\ Over(s)
  /\ UNCHANGED <<world, memory, socket, due, edits, history>>

SaveFails(s) ==
  /\ MayFail
  /\ ~Free(s)
  /\ tasks[s].phase \in {"save", "rename"}
  /\ Over(s)
  /\ UNCHANGED <<world, saved, memory, socket, due, edits, history>>

(* watch is stopped, or dies, and is started again: timers, tasks, events  *)
(* and the echo maps are gone; of the requests sent the server may still   *)
(* get the first few.                                                      *)
Restart ==
  /\ MayRestart
  /\ entries' = saved
  /\ lastPushed' = [id \in Ids |-> Absent]
  /\ lastWritten' = [path \in Paths |-> Absent]
  /\ noticed' = {}
  /\ timers' = {}
  /\ tasks' = [s \in Slots |-> Absent]
  /\ snapshot' = [s \in Slots |-> emptyManifest]
  /\ \E n \in 0 .. Len(wire) :
       wire' = [i \in 1 .. n |-> [wire[i] EXCEPT !.slot = Absent]]
  /\ inbox' = <<>>
  /\ pending' = [path \in Paths |-> Absent]
  /\ UNCHANGED <<world, saved, due, edits, onDisk, onServer>>

-----------------------------------------------------------------------------

pushFile(s) ==
  \/ \E path \in Paths : PushStarts(s, path)
  \/ PushDecides(s)
  \/ PushCreates(s)
  \/ PushRecords(s)
  \/ PushFails(s)
  \/ PushTimesOut(s)

applyRemoteChange(s) ==
  \/ ApplyStarts(s)
  \/ ApplyReads(s)
  \/ ApplyWrites(s)
  \/ ApplyFails(s)
  \/ ApplyRecords(s)

saveManifest(s) == SaveStarts(s) \/ SaveEnds(s) \/ SaveFails(s)

(* What goes on without anybody editing.                                   *)
System ==
  \/ \E s \in Slots : pushFile(s) \/ applyRemoteChange(s) \/ saveManifest(s)
  \/ \E path \in Paths : scheduleFile(path) \/ PushIgnored(path)
  \/ LateAnswer
  \/ EventIgnored
  \/ ServerReads
  \/ ServerWrites
  \/ ServerRefuses
  \/ \E id \in Ids : AdapterWritesBack(id)

UserPaths == {path \in Paths : path[2] \in ScriptExts}

People ==
  \/ \E path \in UserPaths, source \in UserSources : UserSaves(path, source)
  \/ \E path \in UserPaths : UserDeletes(path)
  \/ \E id \in Ids, source \in AdminSources, ext \in ScriptExts :
       AdminSaves(id, [source |-> source, engineType |-> ext, enabled |-> TRUE,
                       engine |-> DefaultInstance])
  \/ \E id \in Ids : AdminDeletes(id) \/ PullElsewhere(id)

Next == People \/ System \/ Restart

Spec == Init /\ [][Next]_vars

(* The event loop runs what is ready, and the server answers.              *)
LiveSpec == Spec /\ WF_vars(System)

-----------------------------------------------------------------------------
(* Properties *)

Quiet ==
  /\ wire = <<>> /\ inbox = <<>>
  /\ noticed = {} /\ timers = {} /\ due = {}
  /\ \A s \in Slots : Free(s)

BasesShared(m) ==
  \A id \in Ids :
    m[id] # Absent => m[id].base \in onDisk[m[id].path] \cap onServer[id]

(* However tasks overlap, saves overtake one another, requests fail or the *)
(* process dies: a base in memory or on disk is a content both sides have  *)
(* had, so that no later comparison takes an edit for an old version.      *)
BaseWasShared ==
  /\ BasesShared(entries)
  /\ BasesShared(saved)
  /\ \A s \in Slots : BasesShared(snapshot[s])

(* watch pushes on save: once nothing is under way, what a file still      *)
(* holds of the user's last save has reached the server since, or a        *)
(* conflict, an error or a dry run was reported for it.                    *)
SavesReachServer ==
  Quiet => \A path \in Paths :
             pending[path] # Absent /\ files[path] = pending[path] =>
               \E id \in Ids : InSource(objects[id]) = pending[path]

(* A content some script on the server has had.                            *)
Known(source) == \E id \in Ids : source \in onServer[id]

(* With --pull a save that restores what watch once wrote is taken for an  *)
(* echo (watch.ts:88); but what the server has never had always gets       *)
(* there, or is reported: the echo map holds only contents that came from  *)
(* the server, however its entries age and tasks overlap.                  *)
NewSavesReachServer ==
  Quiet => \A path \in Paths :
             pending[path] # Absent /\ files[path] = pending[path] => Known(pending[path])

(* A tracked file that is still what the task read is only replaced if the *)
(* server has had its content.                                             *)
WatchKeepsUnsyncedFile ==
  [][\A s \in Slots : LET t == tasks[s] IN
       /\ ApplyWrites(s)
       /\ t.base # Absent
       /\ files[t.path] # Absent
       /\ files[t.path] = t.seen
       => files[t.path] \in onServer[t.id] \cup {t.source}]_vars

(* A push of an edited, tracked file replaces a source that is still the   *)
(* one getScript returned only if the file has had it.                     *)
WatchKeepsUnsyncedScript ==
  [][\A s \in Slots : LET t == tasks[s] IN
       /\ ServerWrites
       /\ Head(wire).slot = s
       /\ t.base # Absent /\ t.source # t.base
       /\ t.seen # Absent
       /\ InSource(objects[t.id]) = t.seen
       => t.seen \in onDisk[t.path]]_vars

(* A timer fires between the write of a pulled content and its entry in    *)
(* the echo map (watch.ts:242-243), and the push reads that content.       *)
Outrun ==
  \E s, r \in Slots :
    /\ ~Free(s) /\ tasks[s].kind = "push" /\ tasks[s].phase = "get"
    /\ ~Free(r) /\ tasks[r].phase = "wrote" /\ tasks[r].path = tasks[s].path

(* Push and pull do not echo each other forever (watch.ts:4-10): with no   *)
(* more edits everything comes to rest, though chokidar outrun the echo    *)
(* map now and then; only if it does so over and over they may go on.      *)
ComesToRest == <>[]Quiet \/ []<>Outrun

-----------------------------------------------------------------------------
(* The inductive invariant *)

(* The phases in which a push has exactly one request outstanding.         *)
Awaiting == {"get", "folders", "extend", "create"}

(* The histories hold what is there now.                                   *)
HistoriesTrue ==
  /\ \A path \in Paths : files[path] # Absent => files[path] \in onDisk[path]
  /\ \A id \in Ids : objects[id] \notin {Absent, Stub}
                      => objects[id].source \in onServer[id]

(* What a task may conclude from, whatever the others do meanwhile: where  *)
(* its content comes from, a base both sides have had, and, past the       *)
(* conflict check, another side that holds nothing of its own.             *)
TaskSound(t, disk, server) ==
  /\ t.base # Absent => t.base \in disk[t.path] \cap server[t.id]
  /\ t.kind = "push" => /\ t.phase \in Awaiting \cup {"save", "rename"}
                        /\ t.source \in disk[t.path]
  /\ t.kind = "apply" => /\ t.phase \in {"read", "write", "wrote", "save", "rename"}
                         /\ t.source \in server[t.id]
  /\ t.phase = "wrote" => t.source \in disk[t.path]
  /\ /\ t.phase \in {"folders", "extend", "create", "write"}
     /\ t.base # Absent /\ t.seen # Absent
     /\ t.kind = "push" => t.source # t.base
     => t.seen \in {t.base, t.source}

TasksSound ==
  \A s \in Slots : tasks[s] # Absent => TaskSound(tasks[s], onDisk, onServer)

Asks(i, s)    == wire[i].slot = s
Answers(i, s) == inbox[i].type = "answer" /\ inbox[i].slot = s

(* Whoever a request is from still waits for it and wants the same.        *)
WireTrue ==
  \A s \in Slots, i \in DOMAIN wire : Asks(i, s) =>
    /\ tasks[s] # Absent
    /\ tasks[s].phase = wire[i].op /\ wire[i].op \in Awaiting
    /\ tasks[s].id = wire[i].id /\ tasks[s].path = wire[i].path
    /\ tasks[s].source = wire[i].source

(* An answer finds its task waiting; a write answered with success has     *)
(* been on the server.                                                     *)
AnswersTrue ==
  \A s \in Slots, i \in DOMAIN inbox : Answers(i, s) =>
    /\ tasks[s] # Absent
    /\ tasks[s].phase \in Awaiting
    /\ inbox[i].ok /\ tasks[s].phase \in {"extend", "create"}
         => tasks[s].source \in onServer[tasks[s].id]

(* An event carries what its script has been.                              *)
EventsTrue ==
  \A i \in DOMAIN inbox :
    inbox[i].type = "event" /\ inbox[i].object \notin {Absent, Stub}
      => inbox[i].object.source \in onServer[inbox[i].id]

(* A task never has two requests, two answers, or one of each.             *)
OneOutstanding ==
  \A s \in Slots :
    /\ \A i, j \in DOMAIN wire : Asks(i, s) /\ Asks(j, s) => i = j
    /\ \A i, j \in DOMAIN inbox : Answers(i, s) /\ Answers(j, s) => i = j
    /\ \A i \in DOMAIN wire, j \in DOMAIN inbox : ~(Asks(i, s) /\ Answers(j, s))

TasksInv ==
  /\ TypeOK
  /\ HistoriesTrue
  /\ BaseWasShared
  /\ TasksSound
  /\ WireTrue
  /\ AnswersTrue
  /\ EventsTrue
  /\ OneOutstanding

(* The answer has yet to be written, or leads on to a write or a report.   *)
StillPushed(s) ==
  \/ \E i \in DOMAIN wire : Asks(i, s)
  \/ \E i \in DOMAIN inbox :
       Answers(i, s) /\ (inbox[i].ok => tasks[s].phase \in {"get", "folders"})

(* Chokidar has to report the save, a timer runs for it, or a task with    *)
(* its content goes on.                                                    *)
UnderWay(path) ==
  \/ path \in noticed \cup timers
  \/ \E s \in Slots :
       /\ tasks[s] # Absent
       /\ tasks[s].path = path /\ tasks[s].source = files[path]
       /\ StillPushed(s)

(* With --pull, a save of a content the server has had may be dropped.     *)
Spared(path) == WithPull /\ Known(pending[path])

(* A save that the server does not have and the log does not mention is    *)
(* under way.                                                              *)
SavesUnderWay ==
  \A path \in Paths : pending[path] # Absent =>
    /\ path \in UserPaths
    /\ files[path] = pending[path] /\ ~Spared(path) => UnderWay(path)

(* Without --pull there is no echo to suppress, for nothing is applied;    *)
(* with it, an echo is of a content the server has had.                    *)
EchoesKnown ==
  /\ \A path \in Paths : lastWritten[path] # Absent => WithPull /\ Known(lastWritten[path])
  /\ ~WithPull => /\ \A i \in DOMAIN inbox : inbox[i].type = "answer"
                  /\ \A s \in Slots : tasks[s] # Absent => tasks[s].kind = "push"

IInv == TasksInv /\ EchoesKnown /\ SavesUnderWay

=============================================================================
