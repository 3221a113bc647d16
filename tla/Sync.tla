-------------------------------- MODULE Sync --------------------------------
(***************************************************************************)
(* `iob-sync pull` and `iob-sync push` (commands/pull.ts, commands/push.ts)*)
(* running against a script folder somebody edits and a server somebody    *)
(* uses through Admin.                                                     *)
(*                                                                         *)
(* Every await of the two commands is a point where another actor may step *)
(* in, so a command is a process: it loads the manifest, scans both sides  *)
(* (in either order, Promise.all), compares, works through the statuses in *)
(* path order and saves the manifest at the end.  Several commands may run *)
(* at once, and any of them may die at any await (an error that propagates,*)
(* Ctrl-C, a crash).                                                       *)
(***************************************************************************)
EXTENDS SyncStatus, FiniteSets

CONSTANTS
  Procs,            \* command processes
  Commands,         \* the command lines they may be given
  DefaultInstance,  \* config.defaultInstance
  TornSources,      \* what an interrupted writeFile may leave in a file
  UserPaths,        \* bound: the paths the user writes
  UserSources,      \* bound: what the user writes there
  AdminScripts,     \* bound: the script objects saved in Admin
  Concurrent        \* bound: do edits happen while a command runs

Command == [cmd : {"pull", "push"}, force : BOOLEAN, dry : BOOLEAN,
            pattern : SUBSET (Ids \cup Paths)]

(* What a push is sending, and whether it takes the script for a new one.  *)
Upload == [id : Ids, path : Paths, source : Sources, engineType : EngineTypes,
           create : BOOLEAN]

ASSUME SyncAssumption ==
  /\ Commands \subseteq Command
  /\ DefaultInstance \in Instances
  /\ TornSources \subseteq Sources
  /\ UserPaths \subseteq Paths
  /\ UserSources \subseteq Sources
  /\ AdminScripts \subseteq Script
  /\ Concurrent \in BOOLEAN
  /\ Absent \notin Command \cup Upload

VARIABLES
  files,      \* the script folder
  objects,    \* the script objects on the server
  manifest,   \* .iobroker-sync/state.json
  pc,         \* where each command stands
  opts,       \* its command line
  mem,        \* the manifest it loaded and updates in memory
  seenLocal,  \* its scanLocal result, Absent until that scan is done
  seenRemote, \* its scanRemote result, Absent until that scan is done
  todo,       \* the statuses its loop has not handled yet
  upload,     \* the source a push has read and is sending
  changed,    \* its `changed` flag: is there something to save
  skipped,    \* did it refuse, skip or fail to write a script
  onDisk,     \* history: every content a path has had
  onServer    \* history: every content a script has had

world   == <<files, objects, manifest>>
process == <<pc, opts, mem, seenLocal, seenRemote, todo, upload, changed, skipped>>
history == <<onDisk, onServer>>
vars    == <<world, process, history>>

TypeOK ==
  /\ files \in Files
  /\ objects \in [Ids -> Script \cup {Absent, Stub}]
  /\ manifest \in Manifests
  /\ pc \in [Procs -> {"idle", "scan", "work", "upload"}]
  /\ opts \in [Procs -> Command \cup {Absent}]
  /\ mem \in [Procs -> Manifests]
  /\ seenLocal \in [Procs -> Files \cup {Absent}]
  /\ seenRemote \in [Procs -> Scripts \cup {Absent}]
  /\ todo \in [Procs -> SUBSET Status]
  /\ upload \in [Procs -> Upload \cup {Absent}]
  /\ changed \in [Procs -> BOOLEAN]
  /\ skipped \in [Procs -> BOOLEAN]
  /\ onDisk \in [Paths -> SUBSET Sources]
  /\ onServer \in [Ids -> SUBSET Sources]

Init ==
  /\ files = [path \in Paths |-> Absent]
  /\ objects = [id \in Ids |-> Absent]
  /\ manifest = emptyManifest
  /\ pc = [p \in Procs |-> "idle"]
  /\ opts = [p \in Procs |-> Absent]
  /\ mem = [p \in Procs |-> emptyManifest]
  /\ seenLocal = [p \in Procs |-> Absent]
  /\ seenRemote = [p \in Procs |-> Absent]
  /\ todo = [p \in Procs |-> {}]
  /\ upload = [p \in Procs |-> Absent]
  /\ changed = [p \in Procs |-> FALSE]
  /\ skipped = [p \in Procs |-> FALSE]
  /\ onDisk = [path \in Paths |-> {}]
  /\ onServer = [id \in Ids |-> {}]

-----------------------------------------------------------------------------
(* The people at both ends *)

MayEdit == Concurrent \/ \A p \in Procs : pc[p] = "idle"

UserSaves(path, source) ==
  /\ MayEdit
  /\ files' = [files EXCEPT ![path] = source]
  /\ onDisk' = [onDisk EXCEPT ![path] = @ \cup {source}]
  /\ UNCHANGED <<objects, manifest, process, onServer>>

UserDeletes(path) ==
  /\ MayEdit
  /\ files[path] # Absent
  /\ files' = [files EXCEPT ![path] = Absent]
  /\ UNCHANGED <<objects, manifest, process, history>>

(* The state directory is removed or the file no longer parses: the next   *)
(* loadManifest starts from an empty one.                                  *)
ManifestLost ==
  /\ MayEdit
  /\ manifest' = emptyManifest
  /\ UNCHANGED <<files, objects, process, history>>

AdminSaves(id, script) ==
  /\ MayEdit
  /\ objects' = [objects EXCEPT ![id] = script]
  /\ onServer' = [onServer EXCEPT ![id] = @ \cup {script.source}]
  /\ UNCHANGED <<files, manifest, process, onDisk>>

AdminDeletes(id) ==
  /\ MayEdit
  /\ objects[id] # Absent
  /\ objects' = [objects EXCEPT ![id] = Absent]
  /\ UNCHANGED <<files, manifest, process, history>>

-----------------------------------------------------------------------------
(* A command up to its loop *)

Matches(s, pattern) == s.path \in pattern \/ s.id \in pattern

Start(p, command) ==
  /\ pc[p] = "idle"
  /\ pc' = [pc EXCEPT ![p] = "scan"]
  /\ opts' = [opts EXCEPT ![p] = command]
  /\ mem' = [mem EXCEPT ![p] = manifest]
  /\ UNCHANGED <<world, seenLocal, seenRemote, todo, upload, changed, skipped,
                 history>>

ScanLocal(p) ==
  /\ pc[p] = "scan"
  /\ seenLocal[p] = Absent
  /\ seenLocal' = [seenLocal EXCEPT ![p] = scanLocal(files)]
  /\ UNCHANGED <<world, pc, opts, mem, seenRemote, todo, upload, changed, skipped,
                 history>>

ScanRemote(p) ==
  /\ pc[p] = "scan"
  /\ seenRemote[p] = Absent
  /\ seenRemote' = [seenRemote EXCEPT ![p] = scanRemote(objects)]
  /\ UNCHANGED <<world, pc, opts, mem, seenLocal, todo, upload, changed, skipped,
                 history>>

Compare(p) ==
  /\ pc[p] = "scan"
  /\ seenLocal[p] # Absent
  /\ seenRemote[p] # Absent
  /\ pc' = [pc EXCEPT ![p] = "work"]
  /\ todo' = [todo EXCEPT ![p] =
                {s \in computeStatus(mem[p], seenRemote[p], seenLocal[p]) :
                   Matches(s, opts[p].pattern)}]
  /\ UNCHANGED <<world, opts, mem, seenLocal, seenRemote, upload, changed, skipped,
                 history>>

(* The command is over, whatever it was doing; its memory goes with it.    *)
Ended(p) ==
  /\ pc' = [pc EXCEPT ![p] = "idle"]
  /\ opts' = [opts EXCEPT ![p] = Absent]
  /\ mem' = [mem EXCEPT ![p] = emptyManifest]
  /\ seenLocal' = [seenLocal EXCEPT ![p] = Absent]
  /\ seenRemote' = [seenRemote EXCEPT ![p] = Absent]
  /\ todo' = [todo EXCEPT ![p] = {}]
  /\ upload' = [upload EXCEPT ![p] = Absent]
  /\ changed' = [changed EXCEPT ![p] = FALSE]
  /\ skipped' = [skipped EXCEPT ![p] = FALSE]

(* An await rejects (a scan, the file a push reads, ensureFolders, an emit *)
(* that never reached the server) or the process is killed: nothing is     *)
(* saved, what was written before stays written.                           *)
Abort(p) ==
  /\ pc[p] # "idle"
  /\ Ended(p)
  /\ UNCHANGED <<world, history>>

Finish(p) ==
  /\ pc[p] = "work"
  /\ todo[p] = {}
  /\ manifest' = IF changed[p] THEN mem[p] ELSE manifest
  /\ Ended(p)
  /\ UNCHANGED <<files, objects, history>>

(* The statuses the loop may be at: the least path not handled yet.        *)
Current(p, cmd) ==
  IF pc[p] = "work" /\ opts[p].cmd = cmd THEN FirstOf(todo[p]) ELSE {}

Handled(p, s) == todo' = [todo EXCEPT ![p] = @ \ {s}]

-----------------------------------------------------------------------------
(* pull *)

(* Faulty variant: a script that changed on the server is not fetched.     *)
PullsMissingOnly(s, force) ==
  \/ s.state = "remote-only"
  \/ force /\ s.state \in {"conflict", "local-modified"}

(* pullOne: what a pull takes from the server.                             *)
Pulls(s, force) ==
  \/ s.state \in {"remote-only", "remote-modified"}
  \/ force /\ s.state \in {"conflict", "local-modified"}

(* writeFromRemote writes the script as it was scanned; nothing looks at   *)
(* the file again before it is replaced.                                   *)
PullWrite(p, s) ==
  LET source == seenRemote[p][s.id].source
  IN  /\ Pulls(s, opts[p].force)
      /\ seenRemote[p][s.id] # Absent
      /\ IF opts[p].dry
         THEN UNCHANGED <<files, mem, changed, onDisk>>
         ELSE /\ files' = [files EXCEPT ![s.path] = source]
              /\ mem' = [mem EXCEPT ![p] = upsertEntry(@, s.id, s.path, source)]
              /\ onDisk' = [onDisk EXCEPT ![s.path] = @ \cup {source}]
              /\ changed' = [changed EXCEPT ![p] = TRUE]
      /\ Handled(p, s)
      /\ UNCHANGED <<objects, manifest, pc, opts, seenLocal, seenRemote, upload,
                     skipped, onServer>>

(* The write throws (a symlink, a path outside the root, permissions, or a *)
(* full disk, with the file truncated by then): the loop's catch skips this*)
(* script and goes on.                                                     *)
PullFails(p, s) ==
  /\ Pulls(s, opts[p].force)
  /\ ~opts[p].dry
  /\ Handled(p, s)
  /\ skipped' = [skipped EXCEPT ![p] = TRUE]
  /\ \/ UNCHANGED <<files, onDisk>>
     \/ \E torn \in TornSources :
          /\ files' = [files EXCEPT ![s.path] = torn]
          /\ onDisk' = [onDisk EXCEPT ![s.path] = @ \cup {torn}]
  /\ UNCHANGED <<objects, manifest, pc, opts, mem, seenLocal, seenRemote, upload,
                 changed, onServer>>

(* The process dies inside fs.writeFile, which truncates and then writes.  *)
PullTorn(p, s, torn) ==
  /\ Pulls(s, opts[p].force)
  /\ ~opts[p].dry
  /\ files' = [files EXCEPT ![s.path] = torn]
  /\ onDisk' = [onDisk EXCEPT ![s.path] = @ \cup {torn}]
  /\ Ended(p)
  /\ UNCHANGED <<objects, manifest, onServer>>

PullLeaves(p, s) ==
  /\ ~Pulls(s, opts[p].force)
  /\ Handled(p, s)
  /\ skipped' = [skipped EXCEPT ![p] =
                   @ \/ s.state \in {"conflict", "local-modified"}]
  /\ UNCHANGED <<world, pc, opts, mem, seenLocal, seenRemote, upload, changed, history>>

Pull(p) ==
  \E s \in Current(p, "pull") :
    \/ PullWrite(p, s)
    \/ PullFails(p, s)
    \/ \E torn \in TornSources : PullTorn(p, s, torn)
    \/ PullLeaves(p, s)

-----------------------------------------------------------------------------
(* push *)

(* Faulty variant: new files are not uploaded.                             *)
PushesTrackedOnly(s, force) ==
  \/ s.state = "local-modified"
  \/ force /\ s.state = "conflict"

(* The switch of push's loop: what it uploads.                             *)
Pushes(s, force) ==
  \/ s.state \in {"local-modified", "local-only"}
  \/ force /\ s.state = "conflict"

(* The script a status is uploaded to: a local-only path the manifest      *)
(* already knows under another id goes to that id.                         *)
Owner(p, s) ==
  LET known == findByPath(mem[p], s.path)
  IN  IF s.state = "local-only" /\ known # {} THEN known ELSE {s.id}

IsNew(p, s) == s.state = "local-only" /\ findByPath(mem[p], s.path) = {}

(* readLocalSource: the file is read again, so what is uploaded is not     *)
(* necessarily what was compared.                                          *)
PushRead(p, s) ==
  /\ Pushes(s, opts[p].force)
  /\ files[s.path] # Absent
  /\ IF opts[p].dry
     THEN UNCHANGED <<pc, upload>>
     ELSE /\ pc' = [pc EXCEPT ![p] = "upload"]
          /\ \E id \in Owner(p, s) :
               upload' = [upload EXCEPT ![p] =
                 [id |-> id, path |-> s.path, source |-> files[s.path],
                  engineType |-> s.path[2], create |-> IsNew(p, s)]]
  /\ Handled(p, s)
  /\ UNCHANGED <<world, opts, mem, seenLocal, seenRemote, changed, skipped, history>>

PushLeaves(p, s) ==
  /\ ~Pushes(s, opts[p].force)
  /\ Handled(p, s)
  /\ skipped' = [skipped EXCEPT ![p] = @ \/ s.state = "conflict"]
  /\ UNCHANGED <<world, pc, opts, mem, seenLocal, seenRemote, upload, changed, history>>

(* The server's extendObject merges into whatever is there; into nothing,  *)
(* it merges an object that has no type and is no script.                  *)
Extended(object, u) ==
  IF object \in {Absent, Stub} THEN Stub
  ELSE [object EXCEPT !.source = u.source, !.engineType = u.engineType]

(* pushNew's setObject replaces the whole object, without a look at what   *)
(* was there: disabled, on the default instance.                           *)
NewScript(u) == [source |-> u.source, engineType |-> u.engineType,
                 enabled |-> FALSE, engine |-> DefaultInstance]

(* Faulty variant: an update is written as a new script is.                *)
UploadedAnew(u) ==
  /\ objects' = [objects EXCEPT ![u.id] = NewScript(u)]
  /\ onServer' = [onServer EXCEPT ![u.id] = @ \cup {u.source}]

Uploaded(u) ==
  /\ objects' = [objects EXCEPT ![u.id] =
                   IF u.create THEN NewScript(u) ELSE Extended(@, u)]
  /\ onServer' = [onServer EXCEPT ![u.id] = @ \cup {u.source}]

(* Faulty variant: the hash the scan computed is recorded.                 *)
ScannedBase(p, u) == seenLocal[p][u.path]

(* The base recorded for an upload is the hash of what was sent.           *)
UploadBase(p, u) == u.source

PushSend(p) ==
  LET u == upload[p]
  IN  /\ pc[p] = "upload"
      /\ Uploaded(u)
      /\ pc' = [pc EXCEPT ![p] = "work"]
      /\ upload' = [upload EXCEPT ![p] = Absent]
      /\ mem' = [mem EXCEPT ![p] = upsertEntry(@, u.id, u.path, UploadBase(p, u))]
      /\ changed' = [changed EXCEPT ![p] = TRUE]
      /\ UNCHANGED <<files, manifest, opts, seenLocal, seenRemote, todo, skipped,
                     onDisk>>

(* The server applied the write and the answer was lost: the emit rejects, *)
(* the loop is left by the exception and no entry of this run is saved.    *)
PushLost(p) ==
  /\ pc[p] = "upload"
  /\ Uploaded(upload[p])
  /\ Ended(p)
  /\ UNCHANGED <<files, manifest, onDisk>>

Push(p) ==
  \/ \E s \in Current(p, "push") : PushRead(p, s) \/ PushLeaves(p, s)
  \/ PushSend(p)
  \/ PushLost(p)

-----------------------------------------------------------------------------

Run(p) ==
  \/ ScanLocal(p)
  \/ ScanRemote(p)
  \/ Compare(p)
  \/ Pull(p)
  \/ Push(p)
  \/ Finish(p)

People ==
  \/ \E path \in UserPaths, source \in UserSources : UserSaves(path, source)
  \/ \E path \in Paths : UserDeletes(path)
  \/ \E id \in Ids, script \in AdminScripts : AdminSaves(id, script)
  \/ \E id \in Ids : AdminDeletes(id)
  \/ ManifestLost

Next ==
  \/ People
  \/ \E p \in Procs : \/ \E command \in Commands : Start(p, command)
                      \/ Run(p)
                      \/ Abort(p)

Spec == Init /\ [][Next]_vars

-----------------------------------------------------------------------------
(* Properties *)

(* Every base the three-way comparison relies on, in the saved manifest    *)
(* and in that of a running command, is a content which that file and that *)
(* script have both had: upsertEntry is only reached once the write to the *)
(* other side has succeeded (pull.ts:53, push.ts:58 and :112).             *)
BasesShared(m) ==
  \A id \in Ids :
    m[id] # Absent => m[id].base \in onDisk[m[id].path] \cap onServer[id]

BaseWasShared == BasesShared(manifest) /\ \A p \in Procs : BasesShared(mem[p])

(* The rest of an inductive invariant for BaseWasShared and for the two    *)
(* action properties below: the histories hold what is there now, what a   *)
(* command has read, and what the comparison concluded from.               *)
FilesOnDisk ==
  \A path \in Paths : files[path] # Absent => files[path] \in onDisk[path]

ObjectsOnServer ==
  \A id \in Ids : objects[id] \notin {Absent, Stub}
                    => objects[id].source \in onServer[id]

ScansOnServer ==
  \A p \in Procs : seenRemote[p] # Absent =>
    \A id \in Ids : seenRemote[p][id] # Absent
                      => seenRemote[p][id].source \in onServer[id]

UploadsOnDisk ==
  \A p \in Procs : upload[p] # Absent => upload[p].source \in onDisk[upload[p].path]

(* What a status says of the two scans, in terms of the histories.         *)
Justified(p, s) ==
  /\ s.state = "remote-only" => seenLocal[p][s.path] = Absent
  /\ s.state = "remote-modified" => seenLocal[p][s.path] \in onServer[s.id]
  /\ s.state = "local-modified" => seenRemote[p][s.id].source \in onDisk[s.path]

(* The variables of a command that are set at each point of it.            *)
Shape(p) ==
  /\ pc[p] # "idle" => opts[p] # Absent
  /\ pc[p] \in {"work", "upload"} => seenLocal[p] # Absent /\ seenRemote[p] # Absent
  /\ pc[p] = "upload" <=> upload[p] # Absent
  /\ todo[p] # {} => pc[p] \in {"work", "upload"}

Shapes == \A p \in Procs : Shape(p)

TodoJustified == \A p \in Procs : \A s \in todo[p] : Justified(p, s)

(* push.ts:154-155: "just in case the manifest already has this path under *)
(* a different id".  It never has: whatever the loop recorded meanwhile, a *)
(* local-only file it has not come to yet belongs to no entry, so pushNew  *)
(* is what handles it, and pushExisting only ever sees a compared script.  *)
LocalOnlyIsNew ==
  \A p \in Procs : \A s \in todo[p] :
    s.state = "local-only" => findByPath(mem[p], s.path) = {}

(* Why: no other status, nor the upload under way, shares its path.        *)
LocalOnlyApart ==
  \A p \in Procs : \A s \in todo[p] :
    s.state = "local-only" =>
      /\ \A t \in todo[p] : t.path = s.path => t = s
      /\ upload[p] # Absent => upload[p].path # s.path

(* An update sent without --force was compared as local-modified.          *)
UploadJustified ==
  \A p \in Procs : LET u == upload[p] IN
    u # Absent /\ ~u.create /\ ~opts[p].force
      => seenRemote[p][u.id].source \in onDisk[u.path]

IInv ==
  /\ TypeOK
  /\ Shapes
  /\ FilesOnDisk
  /\ ObjectsOnServer
  /\ ScansOnServer
  /\ UploadsOnDisk
  /\ BaseWasShared
  /\ TodoJustified
  /\ LocalOnlyIsNew
  /\ LocalOnlyApart
  /\ UploadJustified

(* A pull without --force that replaces a file as its scan saw it replaces *)
(* a content the server has had for a script kept there: whatever commands *)
(* ran, died or were overtaken before, an edit the server never saw is not *)
(* taken for an old version (pull.ts:4-7, compare.ts:80-95, :132-150).     *)
PullKeepsUnsyncedFile ==
  [][\A p \in Procs : \A s \in todo[p] \ todo'[p] :
       /\ opts[p].cmd = "pull" /\ ~opts[p].force
       /\ files[s.path] # Absent
       /\ files[s.path] = seenLocal[p][s.path]
       /\ files'[s.path] # files[s.path]
       => \E t \in todo[p] :
            t.path = s.path /\ files[s.path] \in onServer[t.id]]_vars

(* The upload of p reaches the server in this step.                        *)
Arrives(p) == upload[p] # Absent /\ upload'[p] = Absent /\ objects' # objects

(* A push without --force that updates a script whose source is still the  *)
(* one its scan saw replaces a content the local file has had: an edit     *)
(* made in Admin that was never pulled is not overwritten (README.md:149). *)
PushKeepsUnsyncedScript ==
  [][\A p \in Procs : LET u == upload[p] IN
       /\ Arrives(p) /\ ~opts[p].force /\ ~u.create
       /\ objects[u.id] \notin {Absent, Stub}
       /\ seenRemote[p][u.id] # Absent
       /\ objects[u.id].source = seenRemote[p][u.id].source
       => objects[u.id].source \in onDisk[u.path]]_vars

(* Where a command keeps a script its scan has seen: the path of its entry,*)
(* or the one a pull would give it.                                        *)
PlaceOf(p, id) == IF mem[p][id] # Absent THEN mem[p][id].path
                  ELSE idToRelPath(id, seenRemote[p][id].engineType)

(* The scripts a command has seen that are kept in this file.              *)
Behind(p, path) ==
  {id \in Ids : seenRemote[p][id] # Absent /\ PlaceOf(p, id) = path}

(* Names are derived in both directions and the derivation loses           *)
(* characters (mapping.ts:72-80): the file of one script leads back to the *)
(* id of another.  A push nevertheless sends a new script only out of a    *)
(* file that stands for none it has seen, with or without a manifest, and  *)
(* whatever its loop has recorded since the comparison                     *)
(* (consumedLocalPaths, compare.ts:139 and :168).                          *)
NoSecondScript ==
  \A p \in Procs :
    upload[p] # Absent /\ upload[p].create => Behind(p, upload[p].path) = {}

(* No push enables, disables or moves a script whose file it is sending    *)
(* (README.md:145-148).  It is pushNew that may do so (push.ts:112), and   *)
(* only to a script which the command had not seen, or which it knows      *)
(* under another file, for all the saves and deletes in Admin meanwhile.   *)
PushReplacesUnseenOnly ==
  [][\A p \in Procs : \A id \in Ids :
       /\ Arrives(p)
       /\ objects[id] \notin {Absent, Stub}
       /\ objects'[id] \notin {Absent, Stub}
       /\ \/ objects'[id].enabled # objects[id].enabled
          \/ objects'[id].engine # objects[id].engine
       => id \notin Behind(p, upload[p].path)]_vars

(* What a command with this pattern finds to do.                           *)
Pending(m, remote, local, pattern, states) ==
  {s \in computeStatus(m, remote, local) :
     s.state \in states /\ Matches(s, pattern)}

(* What the next command would find to do once this one has saved.         *)
PendingAfter(p, states) ==
  Pending(manifest', scanRemote(objects'), scanLocal(files'), opts[p].pattern,
          states)

(* The states in which file and script differ and pull does something about*)
(* it, skipping included; likewise push.                                   *)
ToPull == {"remote-only", "remote-modified", "conflict", "local-modified"}
ToPush == {"local-modified", "local-only", "conflict"}

(* The paths a script can have, by its id.                                 *)
PathsOf(id) == {path \in Paths : path[1] = StemOf[id]}

(* Each script of the pattern is on disk as it is on the server.           *)
Mirrored(p) ==
  \A id \in Ids :
    /\ scanRemote(objects')[id] # Absent
    /\ \A path \in PathsOf(id) : Matches([id |-> id, path |-> path], opts[p].pattern)
    => \E path \in PathsOf(id) : files'[path] = objects'[id].source

(* A pull that skipped nothing has made the folder a mirror of the scripts *)
(* of its pattern, and a second one is a no-op                             *)
(* (test/commands-sync.test.ts:99, "pull is idempotent").                  *)
PullSettles ==
  [][\A p \in Procs :
       Finish(p) /\ opts[p].cmd = "pull" /\ ~opts[p].dry /\ ~skipped[p]
       => PendingAfter(p, ToPull) = {} /\ Mirrored(p)]_vars

(* Each file of the pattern is on the server, or is what was synchronised  *)
(* last, or belongs to a script that has been deleted there.               *)
Delivered(p) ==
  \A path \in Paths : LET id == relPathToId(path) IN
    /\ scanLocal(files')[path] # Absent
    /\ Matches([id |-> id, path |-> path], opts[p].pattern)
    => \/ /\ scanRemote(objects')[id] # Absent
          /\ files'[path] = objects'[id].source
       \/ /\ manifest'[id] # Absent
          /\ manifest'[id].path = path
          /\ \/ files'[path] = manifest'[id].base
             \/ scanRemote(objects')[id] = Absent

(* A push that refused nothing leaves no local work behind: what was       *)
(* edited or created on disk is on the server and recorded.                *)
PushSettles ==
  [][\A p \in Procs :
       Finish(p) /\ opts[p].cmd = "push" /\ ~opts[p].dry /\ ~skipped[p]
       => PendingAfter(p, ToPush) = {} /\ Delivered(p)]_vars

(* No push changes whether, or on which instance, an existing script runs  *)
(* (README.md:145-148, docs/DEVELOPMENT.md:62-64).                         *)
PushKeepsRunningState ==
  [][\A p \in Procs : \A id \in Ids :
       /\ Arrives(p)
       /\ objects[id] \notin {Absent, Stub}
       /\ objects'[id] \notin {Absent, Stub}
       => /\ objects'[id].enabled = objects[id].enabled
          /\ objects'[id].engine = objects[id].engine]_vars

(* The conditions under which commands settle: nothing happens on either   *)
(* side while one runs, every script is of a type that scanLocal picks up, *)
(* and, for a push, all of them are of one type, so that a script id has   *)
(* one path.                                                               *)
OneAtATime == ~Concurrent /\ \A p, q \in Procs : p = q
KnownEngines == \A script \in AdminScripts : script.engineType \in ScriptExts
OneType == \A e, f \in ScriptExts : e = f

(* What a command has read is still so.                                    *)
ScansCurrent(p) ==
  /\ pc[p] = "idle" => seenLocal[p] = Absent /\ seenRemote[p] = Absent
  /\ pc[p] = "scan" => seenLocal[p] \in {Absent, scanLocal(files)}
  /\ pc[p] = "scan" \/ (pc[p] = "work" /\ opts[p].cmd = "pull")
       => seenRemote[p] \in {Absent, scanRemote(objects)}
  /\ pc[p] # "idle" /\ ~changed[p] => mem[p] = manifest
  /\ upload[p] # Absent =>
       /\ opts[p].cmd = "push"
       /\ upload[p].source = files[upload[p].path]

KnownPaths(m) == \A id \in Ids : m[id] # Absent => m[id].path[2] \in ScriptExts

(* No command meets a path that scanLocal would not report.                *)
TypesKnown ==
  /\ \A id \in Ids : objects[id] \notin {Absent, Stub}
                       => objects[id].engineType \in ScriptExts
  /\ KnownPaths(manifest)
  /\ \A p \in Procs :
       /\ KnownPaths(mem[p])
       /\ \A s \in todo[p] : s.path[2] \in ScriptExts
       /\ upload[p] # Absent => /\ upload[p].path[2] \in ScriptExts
                                /\ upload[p].engineType = upload[p].path[2]

(* What is left to do were the command to save now.                        *)
Left(p, states) ==
  Pending(mem[p], scanRemote(objects), scanLocal(files), opts[p].pattern, states)

(* A pull that has skipped nothing still has all that is left in its plan, *)
PullKeepsPlan(p) ==
  pc[p] = "work" /\ opts[p].cmd = "pull" /\ ~opts[p].dry /\ ~skipped[p]
    => Left(p, ToPull) \subseteq todo[p]

(* and so has a push, or it is sending it.                                 *)
PushKeepsPlan(p) ==
  pc[p] \in {"work", "upload"} /\ opts[p].cmd = "push" /\ ~opts[p].dry /\ ~skipped[p]
    => \A s \in Left(p, ToPush) \ todo[p] :
         upload[p] # Absent /\ upload[p].path = s.path

(* What a push takes for a new script is one the server does not have.     *)
NewIsNew(p) ==
  /\ \A s \in todo[p] : s.state = "local-only" => objects[s.id] \in {Absent, Stub}
  /\ upload[p] # Absent /\ upload[p].create
       => objects[upload[p].id] \in {Absent, Stub}

(* The inductive invariant for the two settling properties.                *)
QuietInv ==
  /\ TypesKnown
  /\ \A p \in Procs : ScansCurrent(p) /\ PullKeepsPlan(p)
  /\ OneType => \A p \in Procs : PushKeepsPlan(p) /\ NewIsNew(p)

(* As pull.ts:4-7 puts it: without --force no content the server never had *)
(* is overwritten, whenever it was written.                                *)
PullNeverOverwritesLocalEdit ==
  [][\A p \in Procs : \A s \in todo[p] \ todo'[p] :
       /\ opts[p].cmd = "pull" /\ ~opts[p].force
       /\ files[s.path] # Absent
       /\ files'[s.path] # files[s.path]
       => files[s.path] \in onServer[s.id]]_vars

=============================================================================
