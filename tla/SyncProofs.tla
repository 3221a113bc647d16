----------------------------- MODULE SyncProofs -----------------------------
(***************************************************************************)
(* Theorems about Sync for every set of scripts, files, contents, command  *)
(* lines and concurrent commands, and for every naming function.           *)
(***************************************************************************)
EXTENDS Sync, TLAPS

USE DEF Paths

(* The comparison reports statuses.                                        *)
LEMMA ComputeStatusType ==
  ASSUME NEW m \in Manifests, NEW remote \in Scripts, NEW local \in Files
  PROVE  computeStatus(m, remote, local) \subseteq Status
<1>1. TrackedStatus(m, remote, local) \subseteq Status
  BY DEF TrackedStatus, Tracked, TrackedState, ThreeWay, Status, States,
         Manifests, Entry
<1>2. UntrackedStatus(m, remote, local) \subseteq Status
  <2>1. ASSUME NEW id \in Untracked(m, remote)
        PROVE  idToRelPath(id, remote[id].engineType) \in Paths
    BY <2>1, NamingAssumption DEF idToRelPath, Untracked, Scripts, Script
  <2>2. ASSUME NEW here, NEW script
        PROVE  UntrackedState(here, script) \in States
    BY DEF UntrackedState, States
  <2>. QED
    BY <2>1, <2>2 DEF UntrackedStatus, Untracked, Status
<1>3. LocalOnlyStatus(m, remote, local) \subseteq Status
  BY NamingAssumption
     DEF LocalOnlyStatus, Claimed, relPathToId, Status, States
<1>. QED
  BY <1>1, <1>2, <1>3 DEF computeStatus

(* What the comparison concluded from: a file is only replaced unforced    *)
(* when it is missing or is the base, a script when it is the base.        *)
LEMMA ComputeStatusMeaning ==
  ASSUME NEW m \in Manifests, NEW remote \in Scripts, NEW local \in Files,
         NEW s \in computeStatus(m, remote, local)
  PROVE  /\ s.state = "remote-only" => local[s.path] = Absent
         /\ s.state = "remote-modified"
              => m[s.id] # Absent /\ m[s.id].path = s.path
                 /\ local[s.path] = m[s.id].base
         /\ s.state = "local-modified"
              => m[s.id] # Absent /\ m[s.id].path = s.path
                 /\ remote[s.id] # Absent /\ remote[s.id].source = m[s.id].base
<1>1. CASE s \in TrackedStatus(m, remote, local)
  BY <1>1 DEF TrackedStatus, Tracked, TrackedState, ThreeWay
<1>2. CASE s \in UntrackedStatus(m, remote, local)
  BY <1>2 DEF UntrackedStatus, Untracked, UntrackedState
<1>3. CASE s \in LocalOnlyStatus(m, remote, local)
  BY <1>3 DEF LocalOnlyStatus
<1>. QED
  BY <1>1, <1>2, <1>3 DEF computeStatus

-----------------------------------------------------------------------------
(* Type correctness, with the shape of a command at each of its points.    *)

(* Recording a sync keeps a manifest a manifest.                           *)
LEMMA UpsertType ==
  ASSUME NEW m \in Manifests, NEW id \in Ids, NEW path \in Paths,
         NEW base \in Sources
  PROVE  upsertEntry(m, id, path, base) \in Manifests
BY DEF upsertEntry, Manifests, Entry

(* The manifest of a folder never synchronised.                            *)
LEMMA EmptyManifestType == emptyManifest \in Manifests
BY DEF emptyManifest, Manifests

(* What an upload leaves on the server.                                    *)
LEMMA UploadedType ==
  ASSUME TypeOK, NEW u \in Upload, Uploaded(u)
  PROVE  /\ objects' \in [Ids -> Script \cup {Absent, Stub}]
         /\ onServer' \in [Ids -> SUBSET Sources]
<1>1. NewScript(u) \in Script
  BY SyncAssumption DEF NewScript, Script, Upload
<1>2. ASSUME NEW o \in Script \cup {Absent, Stub}
      PROVE  Extended(o, u) \in Script \cup {Absent, Stub}
  <2>1. CASE o \in {Absent, Stub}
    BY <2>1 DEF Extended
  <2>2. CASE o \notin {Absent, Stub}
    <3>1. o \in Script
      BY <2>2
    <3>2. Extended(o, u) = [o EXCEPT !.source = u.source, !.engineType = u.engineType]
      BY <2>2 DEF Extended
    <3>. QED
      BY <3>1, <3>2 DEF Script, Upload
  <2>. QED
    BY <2>1, <2>2
<1>3. u.id \in Ids /\ u.source \in Sources
  BY DEF Upload
<1>. QED
  BY <1>1, <1>2, <1>3 DEF Uploaded, TypeOK

(* A command that is over leaves every variable of it well typed.          *)
LEMMA EndedType ==
  ASSUME TypeOK, Shapes, NEW p \in Procs, Ended(p)
  PROVE  /\ pc' \in [Procs -> {"idle", "scan", "work", "upload"}]
         /\ opts' \in [Procs -> Command \cup {Absent}]
         /\ mem' \in [Procs -> Manifests]
         /\ seenLocal' \in [Procs -> Files \cup {Absent}]
         /\ seenRemote' \in [Procs -> Scripts \cup {Absent}]
         /\ todo' \in [Procs -> SUBSET Status]
         /\ upload' \in [Procs -> Upload \cup {Absent}]
         /\ changed' \in [Procs -> BOOLEAN]
         /\ skipped' \in [Procs -> BOOLEAN]
         /\ Shapes'
<1>1. /\ pc' \in [Procs -> {"idle", "scan", "work", "upload"}]
      /\ opts' \in [Procs -> Command \cup {Absent}]
      /\ mem' \in [Procs -> Manifests]
      /\ seenLocal' \in [Procs -> Files \cup {Absent}]
      /\ seenRemote' \in [Procs -> Scripts \cup {Absent}]
      /\ todo' \in [Procs -> SUBSET Status]
      /\ upload' \in [Procs -> Upload \cup {Absent}]
      /\ changed' \in [Procs -> BOOLEAN]
      /\ skipped' \in [Procs -> BOOLEAN]
  BY EmptyManifestType DEF Ended, TypeOK
<1>2. Shapes'
  BY DEF Ended, TypeOK, Shapes, Shape
<1>. QED
  BY <1>1, <1>2

(* What the two scans return.                                              *)
LEMMA ScanTypes ==
  ASSUME TypeOK
  PROVE  /\ scanLocal(files) \in Files
         /\ scanRemote(objects) \in Scripts
BY DEF TypeOK, scanLocal, scanRemote, Files, Scripts

(* The initial state is well typed.                                        *)
LEMMA TypeInit == Init => TypeOK /\ Shapes
BY EmptyManifestType DEF Init, TypeOK, Shapes, Shape, Files

(* What People do, all at once: files, objects and the histories change.   *)
LEMMA TypePeople ==
  ASSUME TypeOK, Shapes, People
  PROVE  TypeOK' /\ Shapes'
<1>1. UNCHANGED process
  BY DEF People, UserSaves, UserDeletes, AdminSaves, AdminDeletes, ManifestLost
<1>2. Shapes'
  BY <1>1 DEF process, Shapes, Shape
<1>3. ASSUME NEW path \in UserPaths, NEW source \in UserSources,
             UserSaves(path, source)
      PROVE  TypeOK'
  BY <1>1, <1>3, SyncAssumption DEF UserSaves, TypeOK, process, Files
<1>4. ASSUME NEW path \in Paths, UserDeletes(path)
      PROVE  TypeOK'
  BY <1>1, <1>4 DEF UserDeletes, TypeOK, process, history, Files
<1>5. ASSUME NEW id \in Ids, NEW script \in AdminScripts, AdminSaves(id, script)
      PROVE  TypeOK'
  <2>1. script \in Script /\ script.source \in Sources
    BY SyncAssumption DEF Script
  <2>. QED
    BY <1>1, <1>5, <2>1 DEF AdminSaves, TypeOK, process
<1>6. ASSUME NEW id \in Ids, AdminDeletes(id)
      PROVE  TypeOK'
  BY <1>1, <1>6 DEF AdminDeletes, TypeOK, process, history
<1>7. CASE ManifestLost
  BY <1>1, <1>2, <1>7, EmptyManifestType DEF ManifestLost, TypeOK, process, history
<1>. QED
  BY <1>2, <1>3, <1>4, <1>5, <1>6, <1>7 DEF People

(* The steps of a command before its loop, and its end.                    *)
LEMMA TypeScan ==
  ASSUME TypeOK, Shapes, NEW p \in Procs,
         \/ \E command \in Commands : Start(p, command)
         \/ ScanLocal(p)
         \/ ScanRemote(p)
         \/ Compare(p)
         \/ Finish(p)
         \/ Abort(p)
  PROVE  TypeOK' /\ Shapes'
<1>1. ASSUME NEW command \in Commands, Start(p, command)
      PROVE  TypeOK' /\ Shapes'
  <2>1. command \in Command
    BY SyncAssumption
  <2>2. TypeOK'
    BY <1>1, <2>1 DEF Start, TypeOK, world, history
  <2>3. command # Absent
    BY SyncAssumption, <2>1
  <2>. QED
    BY <1>1, <2>2, <2>3 DEF Start, TypeOK, Shapes, Shape
<1>2. CASE ScanLocal(p)
  <2>1. TypeOK'
    BY <1>2, ScanTypes DEF ScanLocal, TypeOK, world, history
  <2>. QED
    BY <1>2, <2>1 DEF ScanLocal, TypeOK, Shapes, Shape
<1>3. CASE ScanRemote(p)
  <2>1. TypeOK'
    BY <1>3, ScanTypes DEF ScanRemote, TypeOK, world, history
  <2>. QED
    BY <1>3, <2>1 DEF ScanRemote, TypeOK, Shapes, Shape
<1>4. CASE Compare(p)
  <2>1. computeStatus(mem[p], seenRemote[p], seenLocal[p]) \subseteq Status
    BY <1>4, ComputeStatusType DEF Compare, TypeOK
  <2>2. TypeOK'
    BY <1>4, <2>1 DEF Compare, TypeOK, world, history
  <2>. QED
    BY <1>4, <2>2 DEF Compare, TypeOK, Shapes, Shape
<1>5. CASE Finish(p)
  <2>1. manifest' \in Manifests
    BY <1>5 DEF Finish, TypeOK
  <2>. QED
    BY <1>5, <2>1, EndedType DEF Finish, TypeOK, history
<1>6. CASE Abort(p)
  BY <1>6, EndedType DEF Abort, TypeOK, world, history
<1>. QED
  BY <1>1, <1>2, <1>3, <1>4, <1>5, <1>6

(* The steps of a pull.                                                    *)
LEMMA TypePull ==
  ASSUME TypeOK, Shapes, NEW p \in Procs, Pull(p)
  PROVE  TypeOK' /\ Shapes'
<1>. PICK s \in Current(p, "pull") :
       \/ PullWrite(p, s)
       \/ PullFails(p, s)
       \/ \E torn \in TornSources : PullTorn(p, s, torn)
       \/ PullLeaves(p, s)
  BY DEF Pull
<1>0. s \in todo[p] /\ s \in Status /\ s.path \in Paths /\ s.id \in Ids
      /\ pc[p] = "work"
  BY DEF Current, FirstOf, TypeOK, Status
<1>1. CASE PullWrite(p, s)
  <2>1. seenRemote[p] \in Scripts
    BY <1>0 DEF TypeOK, Shapes, Shape
  <2>2. seenRemote[p][s.id].source \in Sources
    BY <1>0, <1>1, <2>1 DEF PullWrite, Scripts, Script
  <2>3. /\ files' \in Files
        /\ mem' \in [Procs -> Manifests]
        /\ onDisk' \in [Paths -> SUBSET Sources]
        /\ changed' \in [Procs -> BOOLEAN]
    <3>1. CASE opts[p].dry
      BY <1>1, <3>1 DEF PullWrite, TypeOK
    <3>2. CASE ~opts[p].dry
      <4> DEFINE source == seenRemote[p][s.id].source
      <4>0. /\ files' = [files EXCEPT ![s.path] = source]
            /\ mem' = [mem EXCEPT ![p] = upsertEntry(@, s.id, s.path, source)]
            /\ onDisk' = [onDisk EXCEPT ![s.path] = @ \cup {source}]
            /\ changed' = [changed EXCEPT ![p] = TRUE]
        BY <1>1, <3>2 DEF PullWrite
      <4> HIDE DEF source
      <4>1. /\ files' \in Files
            /\ onDisk' \in [Paths -> SUBSET Sources]
            /\ changed' \in [Procs -> BOOLEAN]
        BY <1>0, <2>2, <4>0 DEF TypeOK, Files, source
      <4>2. mem' \in [Procs -> Manifests]
        BY <1>0, <2>2, <4>0, UpsertType DEF TypeOK, source
      <4>. QED
        BY <4>1, <4>2
    <3>. QED
      BY <3>1, <3>2
  <2>4. TypeOK'
    BY <1>1, <2>3 DEF PullWrite, Handled, TypeOK
  <2>. QED
    BY <1>0, <1>1, <2>4 DEF PullWrite, Handled, TypeOK, Shapes, Shape
<1>2. CASE PullFails(p, s) \/ PullLeaves(p, s)
  <2>1. files' \in Files /\ onDisk' \in [Paths -> SUBSET Sources]
    <3>1. CASE UNCHANGED <<files, onDisk>>
      BY <3>1 DEF TypeOK
    <3>2. ASSUME NEW torn \in TornSources,
                 files' = [files EXCEPT ![s.path] = torn],
                 onDisk' = [onDisk EXCEPT ![s.path] = @ \cup {torn}]
          PROVE  files' \in Files /\ onDisk' \in [Paths -> SUBSET Sources]
      BY <1>0, <3>2, SyncAssumption DEF TypeOK, Files
    <3>. QED
      BY <1>2, <3>1, <3>2 DEF PullFails, PullLeaves, world, history
  <2>2. TypeOK'
    BY <1>2, <2>1 DEF PullFails, PullLeaves, Handled, TypeOK, world, history
  <2>. QED
    BY <1>0, <1>2, <2>2 DEF PullFails, PullLeaves, Handled, TypeOK, Shapes, Shape
<1>3. ASSUME NEW torn \in TornSources, PullTorn(p, s, torn)
      PROVE  TypeOK' /\ Shapes'
  <2>1. torn \in Sources
    BY SyncAssumption
  <2>. QED
    BY <1>0, <1>3, <2>1, EndedType DEF PullTorn, TypeOK, Files
<1>. QED
  BY <1>1, <1>2, <1>3

(* The steps of a push.                                                    *)
LEMMA TypePush ==
  ASSUME TypeOK, Shapes, NEW p \in Procs, Push(p)
  PROVE  TypeOK' /\ Shapes'
<1>1. ASSUME NEW s \in Current(p, "push"), PushRead(p, s) \/ PushLeaves(p, s)
      PROVE  TypeOK' /\ Shapes'
  <2>0. s \in Status /\ s.path \in Paths /\ s.id \in Ids /\ pc[p] = "work"
    BY DEF Current, FirstOf, TypeOK, Status
  <2>1. CASE PushRead(p, s)
    <3>1. files[s.path] \in Sources /\ s.path[2] \in EngineTypes
      BY <2>0, <2>1 DEF PushRead, TypeOK, Files
    <3>2. ASSUME NEW id \in Owner(p, s)
          PROVE  [id |-> id, path |-> s.path, source |-> files[s.path],
                  engineType |-> s.path[2], create |-> IsNew(p, s)] \in Upload
      BY <2>0, <3>1 DEF Owner, findByPath, IsNew, Upload
    <3>3. ASSUME ~opts[p].dry
          PROVE  /\ pc' = [pc EXCEPT ![p] = "upload"]
                 /\ \E u \in Upload : upload' = [upload EXCEPT ![p] = u]
      BY <2>1, <3>2, <3>3 DEF PushRead
    <3>4. TypeOK'
      BY <2>1, <3>3 DEF PushRead, Handled, TypeOK, world, history
    <3>5. Absent \notin Upload
      BY SyncAssumption
    <3>. QED
      BY <2>0, <2>1, <3>3, <3>4, <3>5
         DEF PushRead, Handled, TypeOK, Shapes, Shape
  <2>2. CASE PushLeaves(p, s)
    <3>1. TypeOK'
      BY <2>2 DEF PushLeaves, Handled, TypeOK, world, history
    <3>. QED
      BY <2>0, <2>2, <3>1 DEF PushLeaves, Handled, TypeOK, Shapes, Shape
  <2>. QED
    BY <1>1, <2>1, <2>2
<1>2. ASSUME PushSend(p) \/ PushLost(p)
      PROVE  /\ upload[p] \in Upload
             /\ objects' \in [Ids -> Script \cup {Absent, Stub}]
             /\ onServer' \in [Ids -> SUBSET Sources]
  <2>1. upload[p] \in Upload
    BY <1>2 DEF PushSend, PushLost, TypeOK, Shapes, Shape
  <2>. QED
    BY <1>2, <2>1, UploadedType DEF PushSend, PushLost
<1>3. CASE PushSend(p)
  <2>1. mem' \in [Procs -> Manifests]
    BY <1>2, <1>3, UpsertType DEF PushSend, UploadBase, Upload, TypeOK
  <2>2. TypeOK'
    BY <1>2, <1>3, <2>1 DEF PushSend, TypeOK
  <2>. QED
    BY <1>3, <2>2 DEF PushSend, TypeOK, Shapes, Shape
<1>4. CASE PushLost(p)
  BY <1>2, <1>4, EndedType DEF PushLost, TypeOK
<1>. QED
  BY <1>1, <1>3, <1>4 DEF Push

(* Every step keeps the types and the shapes.                              *)
LEMMA TypeStep ==
  ASSUME TypeOK, Shapes, [Next]_vars
  PROVE  TypeOK' /\ Shapes'
<1>1. CASE Next
  BY <1>1, TypePeople, TypeScan, TypePull, TypePush DEF Next, Run
<1>2. CASE UNCHANGED vars
  BY <1>2 DEF vars, world, process, history, TypeOK, Shapes, Shape
<1>. QED
  BY <1>1, <1>2

(* Every reachable state is well typed.                                    *)
THEOREM TypeCorrect == Spec => []TypeOK
<1>1. Spec => [](TypeOK /\ Shapes)
  BY TypeInit, TypeStep, PTL DEF Spec
<1>. QED
  BY <1>1, PTL

-----------------------------------------------------------------------------
(* Where contents come from: the inductive invariant IInv.                 *)

(* The histories only grow.                                                *)
HistoryGrows ==
  /\ \A path \in Paths : onDisk[path] \subseteq onDisk'[path]
  /\ \A id \in Ids : onServer[id] \subseteq onServer'[id]

(* No step forgets a content.                                              *)
LEMMA HistoryStep ==
  ASSUME TypeOK, [Next]_vars
  PROVE  HistoryGrows
<1>1. CASE UNCHANGED history
  BY <1>1 DEF history, HistoryGrows
<1>2. ASSUME NEW path \in UserPaths, NEW source \in UserSources,
             UserSaves(path, source)
      PROVE  HistoryGrows
  BY <1>2 DEF UserSaves, HistoryGrows, TypeOK
<1>3. ASSUME NEW id \in Ids, NEW script \in AdminScripts, AdminSaves(id, script)
      PROVE  HistoryGrows
  BY <1>3 DEF AdminSaves, HistoryGrows, TypeOK
<1>4. ASSUME NEW p \in Procs, NEW s, PullWrite(p, s)
      PROVE  HistoryGrows
  BY <1>4 DEF PullWrite, HistoryGrows, TypeOK
<1>5. ASSUME NEW p \in Procs, NEW s, NEW torn, PullTorn(p, s, torn)
      PROVE  HistoryGrows
  BY <1>5 DEF PullTorn, HistoryGrows, TypeOK
<1>12. ASSUME NEW p \in Procs, NEW s, PullFails(p, s)
       PROVE  HistoryGrows
  BY <1>12 DEF PullFails, HistoryGrows, TypeOK
<1>6. ASSUME NEW p \in Procs, PushSend(p) \/ PushLost(p)
      PROVE  HistoryGrows
  BY <1>6 DEF PushSend, PushLost, Uploaded, HistoryGrows, TypeOK
<1>7. CASE UNCHANGED vars
  BY <1>1, <1>7 DEF vars, history
<1>8. CASE People
  BY <1>1, <1>2, <1>3, <1>8
     DEF People, UserDeletes, AdminDeletes, ManifestLost
<1>9. ASSUME NEW p \in Procs,
             \/ \E command \in Commands : Start(p, command)
             \/ ScanLocal(p) \/ ScanRemote(p) \/ Compare(p)
             \/ Finish(p) \/ Abort(p)
      PROVE  HistoryGrows
  BY <1>1, <1>9 DEF Start, ScanLocal, ScanRemote, Compare, Finish, Abort
<1>10. ASSUME NEW p \in Procs, Pull(p)
       PROVE  HistoryGrows
  BY <1>1, <1>4, <1>5, <1>12, <1>10 DEF Pull, PullLeaves
<1>11. ASSUME NEW p \in Procs, Push(p)
       PROVE  HistoryGrows
  BY <1>1, <1>6, <1>11 DEF Push, PushRead, PushLeaves
<1>. QED
  BY <1>7, <1>8, <1>9, <1>10, <1>11 DEF Next, Run

(* A condition whose own variables do not change survives the growth of    *)
(* the histories.                                                          *)
LEMMA FilesKept ==
  ASSUME FilesOnDisk, HistoryGrows, UNCHANGED files
  PROVE  FilesOnDisk'
BY DEF FilesOnDisk, HistoryGrows

(* Likewise for the objects on the server,                                 *)
LEMMA ObjectsKept ==
  ASSUME ObjectsOnServer, HistoryGrows, UNCHANGED objects
  PROVE  ObjectsOnServer'
BY DEF ObjectsOnServer, HistoryGrows

(* the scans of the server,                                                *)
LEMMA ScansKept ==
  ASSUME ScansOnServer, HistoryGrows, UNCHANGED seenRemote
  PROVE  ScansOnServer'
BY DEF ScansOnServer, HistoryGrows

(* the uploads under way,                                                  *)
LEMMA UploadsKept ==
  ASSUME TypeOK, UploadsOnDisk, HistoryGrows, UNCHANGED upload
  PROVE  UploadsOnDisk'
BY DEF UploadsOnDisk, HistoryGrows, TypeOK, Upload

(* the saved manifest,                                                     *)
LEMMA DiskBasesKept ==
  ASSUME TypeOK, BaseWasShared, HistoryGrows, UNCHANGED manifest
  PROVE  BasesShared(manifest)'
<1>1. BasesShared(manifest) /\ manifest \in Manifests
  BY DEF BaseWasShared, TypeOK
<1>. QED
  BY <1>1 DEF BasesShared, HistoryGrows, Manifests, Entry

(* the manifests in memory,                                                *)
LEMMA MemBasesKept ==
  ASSUME TypeOK, BaseWasShared, HistoryGrows, NEW q \in Procs, mem'[q] = mem[q]
  PROVE  BasesShared(mem[q])'
<1>1. BasesShared(mem[q]) /\ mem[q] \in Manifests
  BY DEF BaseWasShared, TypeOK
<1>. QED
  BY <1>1 DEF BasesShared, HistoryGrows, Manifests, Entry

(* one status,                                                             *)
LEMMA JustifiedKept ==
  ASSUME TypeOK, HistoryGrows, NEW q \in Procs, NEW s \in Status, Justified(q, s),
         seenLocal'[q] = seenLocal[q], seenRemote'[q] = seenRemote[q]
  PROVE  Justified(q, s)'
BY DEF Justified, HistoryGrows, Status

(* and the plans of all commands.                                          *)
LEMMA TodoKept ==
  ASSUME TypeOK, TodoJustified, HistoryGrows, UNCHANGED <<seenLocal, seenRemote>>,
         \A q \in Procs : todo'[q] \subseteq todo[q]
  PROVE  TodoJustified'
<1>1. ASSUME NEW q \in Procs, NEW s \in todo'[q]
      PROVE  Justified(q, s)'
  <2>1. s \in Status /\ Justified(q, s)
    BY <1>1 DEF TodoJustified, TypeOK
  <2>. QED
    BY <2>1, JustifiedKept
<1>. QED
  BY <1>1 DEF TodoJustified

(* What a command leaves in memory when it is over.                        *)
LEMMA EndedKept ==
  ASSUME IInv, HistoryGrows, NEW p \in Procs, Ended(p)
  PROVE  /\ ScansOnServer'
         /\ UploadsOnDisk'
         /\ \A q \in Procs : BasesShared(mem[q])'
         /\ TodoJustified'
<1>. USE DEF IInv
<1>1. ScansOnServer'
  BY DEF ScansOnServer, HistoryGrows, Ended, TypeOK
<1>2. UploadsOnDisk'
  BY DEF UploadsOnDisk, HistoryGrows, Ended, TypeOK, Upload
<1>3. ASSUME NEW q \in Procs
      PROVE  BasesShared(mem[q])'
  <2>1. CASE q = p
    BY <2>1 DEF BasesShared, Ended, emptyManifest, TypeOK
  <2>2. CASE q # p
    BY <2>2, MemBasesKept DEF Ended, TypeOK
  <2>. QED
    BY <2>1, <2>2
<1>4. ASSUME NEW q \in Procs, NEW s \in todo'[q]
      PROVE  Justified(q, s)'
  <2>1. /\ s \in todo[q]
        /\ seenLocal'[q] = seenLocal[q]
        /\ seenRemote'[q] = seenRemote[q]
    BY <1>4 DEF Ended, TypeOK
  <2>2. s \in Status /\ Justified(q, s)
    BY <2>1 DEF TodoJustified, TypeOK
  <2>. QED
    BY <2>1, <2>2, JustifiedKept
<1>. QED
  BY <1>1, <1>2, <1>3, <1>4 DEF TodoJustified

(* The initial state satisfies the invariant.                              *)
LEMMA InitInv == Init => IInv
<1>. SUFFICES ASSUME Init
              PROVE  IInv
  OBVIOUS
<1>1. /\ FilesOnDisk /\ ObjectsOnServer /\ ScansOnServer /\ UploadsOnDisk
      /\ TodoJustified /\ LocalOnlyIsNew /\ LocalOnlyApart /\ UploadJustified
  BY DEF Init, FilesOnDisk, ObjectsOnServer, ScansOnServer, UploadsOnDisk,
         TodoJustified, LocalOnlyIsNew, LocalOnlyApart, UploadJustified
<1>2. BaseWasShared
  BY DEF Init, BaseWasShared, BasesShared, emptyManifest
<1>. QED
  BY <1>1, <1>2, TypeInit DEF IInv

(* The six conditions the steps below re-establish.                        *)
Provenance ==
  /\ FilesOnDisk
  /\ ObjectsOnServer
  /\ ScansOnServer
  /\ UploadsOnDisk
  /\ BaseWasShared
  /\ TodoJustified

(* What the user and Admin do.                                             *)
LEMMA PeopleInv ==
  ASSUME IInv, HistoryGrows, People
  PROVE  Provenance'
<1>. USE DEF IInv
<1>1. UNCHANGED process
  BY DEF People, UserSaves, UserDeletes, AdminSaves, AdminDeletes, ManifestLost
<1>2. ScansOnServer' /\ UploadsOnDisk' /\ TodoJustified'
  BY <1>1, ScansKept, UploadsKept, TodoKept DEF process
<1>3. \A q \in Procs : BasesShared(mem[q])'
  BY <1>1, MemBasesKept DEF process
<1>4. FilesOnDisk'
  <2>1. ASSUME NEW path \in UserPaths, NEW source \in UserSources,
               UserSaves(path, source)
        PROVE  FilesOnDisk'
    BY <2>1 DEF UserSaves, FilesOnDisk, TypeOK
  <2>2. ASSUME NEW path \in Paths, UserDeletes(path)
        PROVE  FilesOnDisk'
    BY <2>2 DEF UserDeletes, FilesOnDisk, TypeOK, Files, history
  <2>3. CASE UNCHANGED files
    BY <2>3, FilesKept
  <2>. QED
    BY <2>1, <2>2, <2>3 DEF People, AdminSaves, AdminDeletes, ManifestLost
<1>5. ObjectsOnServer'
  <2>1. ASSUME NEW id \in Ids, NEW script \in AdminScripts, AdminSaves(id, script)
        PROVE  ObjectsOnServer'
    BY <2>1 DEF AdminSaves, ObjectsOnServer, TypeOK
  <2>2. ASSUME NEW id \in Ids, AdminDeletes(id)
        PROVE  ObjectsOnServer'
    BY <2>2 DEF AdminDeletes, ObjectsOnServer, TypeOK, history
  <2>3. CASE UNCHANGED objects
    BY <2>3, ObjectsKept
  <2>. QED
    BY <2>1, <2>2, <2>3 DEF People, UserSaves, UserDeletes, ManifestLost
<1>6. BasesShared(manifest)'
  <2>1. CASE ManifestLost
    BY <2>1 DEF ManifestLost, BasesShared, emptyManifest
  <2>2. CASE UNCHANGED manifest
    BY <2>2, DiskBasesKept
  <2>. QED
    BY <2>1, <2>2 DEF People, UserSaves, UserDeletes, AdminSaves, AdminDeletes
<1>. QED
  BY <1>2, <1>3, <1>4, <1>5, <1>6 DEF Provenance, BaseWasShared

(* The steps of a command before its loop, and its end.                    *)
LEMMA ScanInv ==
  ASSUME IInv, HistoryGrows, NEW p \in Procs,
         \/ \E command \in Commands : Start(p, command)
         \/ ScanLocal(p)
         \/ ScanRemote(p)
         \/ Compare(p)
         \/ Finish(p)
         \/ Abort(p)
  PROVE  Provenance'
<1>. USE DEF IInv
<1>1. FilesOnDisk' /\ ObjectsOnServer'
  BY FilesKept, ObjectsKept
     DEF Start, ScanLocal, ScanRemote, Compare, Finish, Abort, world
<1>2. ASSUME NEW command \in Commands, Start(p, command)
      PROVE  Provenance'
  <2>1. ScansOnServer' /\ UploadsOnDisk' /\ TodoJustified' /\ BasesShared(manifest)'
    BY <1>2, ScansKept, UploadsKept, TodoKept, DiskBasesKept DEF Start, world
  <2>2. ASSUME NEW q \in Procs
        PROVE  BasesShared(mem[q])'
    <3>1. CASE q = p
      <4>1. mem'[q] = manifest'
        BY <1>2, <3>1 DEF Start, TypeOK, world
      <4>. QED
        BY <2>1, <4>1 DEF BasesShared
    <3>2. CASE q # p
      BY <1>2, <3>2, MemBasesKept DEF Start, TypeOK
    <3>. QED
      BY <3>1, <3>2
  <2>. QED
    BY <1>1, <2>1, <2>2 DEF Provenance, BaseWasShared
<1>3. CASE ScanLocal(p) \/ ScanRemote(p) \/ Compare(p)
  <2>1. UploadsOnDisk' /\ BasesShared(manifest)' /\ \A q \in Procs : BasesShared(mem[q])'
    BY <1>3, UploadsKept, DiskBasesKept, MemBasesKept
       DEF ScanLocal, ScanRemote, Compare, world
  <2>2. ScansOnServer'
    <3>1. CASE ScanRemote(p)
      BY <3>1 DEF ScanRemote, ScansOnServer, ObjectsOnServer, scanRemote,
                  HistoryGrows, TypeOK, world, history
    <3>2. CASE UNCHANGED seenRemote
      BY <3>2, ScansKept
    <3>. QED
      BY <1>3, <3>1, <3>2 DEF ScanLocal, Compare
  <2>3. TodoJustified'
    <3>1. ASSUME ScanLocal(p) \/ ScanRemote(p), NEW q \in Procs, NEW s \in todo'[q]
          PROVE  Justified(q, s)'
      <4>1. s \in todo[q] /\ s \in Status /\ Justified(q, s)
        BY <3>1 DEF ScanLocal, ScanRemote, TodoJustified, TypeOK
      <4>2. q # p
        BY <3>1, <4>1 DEF ScanLocal, ScanRemote, Shapes, Shape
      <4>3. seenLocal'[q] = seenLocal[q] /\ seenRemote'[q] = seenRemote[q]
        BY <3>1, <4>2 DEF ScanLocal, ScanRemote, TypeOK
      <4>. QED
        BY <4>1, <4>3, JustifiedKept
    <3>2. ASSUME Compare(p), NEW q \in Procs, NEW s \in todo'[q]
          PROVE  Justified(q, s)'
      <4>1. CASE q # p
        <5>1. s \in todo[q]
          BY <3>2, <4>1 DEF Compare, TypeOK
        <5>2. s \in Status /\ Justified(q, s)
          BY <5>1 DEF TodoJustified, TypeOK
        <5>. QED
          BY <3>2, <5>2, JustifiedKept DEF Compare
      <4>2. CASE q = p
        <5>1. /\ mem[p] \in Manifests
              /\ seenRemote[p] \in Scripts
              /\ seenLocal[p] \in Files
              /\ s \in computeStatus(mem[p], seenRemote[p], seenLocal[p])
          BY <3>2, <4>2 DEF Compare, TypeOK
        <5>2. s \in Status
          BY <5>1, ComputeStatusType
        <5>3. BasesShared(mem[p])
          BY DEF BaseWasShared
        <5>4. Justified(p, s)
          BY <5>1, <5>2, <5>3, ComputeStatusMeaning
             DEF Justified, BasesShared, Status
        <5>. QED
          BY <3>2, <4>2, <5>2, <5>4, JustifiedKept DEF Compare
      <4>. QED
        BY <4>1, <4>2
    <3>. QED
      BY <1>3, <3>1, <3>2 DEF TodoJustified
  <2>. QED
    BY <1>1, <2>1, <2>2, <2>3 DEF Provenance, BaseWasShared
<1>4. CASE Finish(p)
  <2>1. BasesShared(manifest)'
    <3>1. CASE manifest' = manifest
      BY <3>1, DiskBasesKept
    <3>2. CASE manifest' = mem[p]
      <4>1. BasesShared(mem[p]) /\ mem[p] \in Manifests
        BY DEF BaseWasShared, TypeOK
      <4>. QED
        BY <3>2, <4>1 DEF BasesShared, HistoryGrows, Manifests, Entry
    <3>. QED
      BY <1>4, <3>1, <3>2 DEF Finish
  <2>. QED
    BY <1>1, <1>4, <2>1, EndedKept DEF Finish, Provenance, BaseWasShared
<1>5. CASE Abort(p)
  <2>1. BasesShared(manifest)'
    BY <1>5, DiskBasesKept DEF Abort, world
  <2>. QED
    BY <1>1, <1>5, <2>1, EndedKept DEF Abort, Provenance, BaseWasShared
<1>. QED
  BY <1>2, <1>3, <1>4, <1>5

(* The steps of a pull.                                                    *)
LEMMA PullInv ==
  ASSUME IInv, HistoryGrows, NEW p \in Procs, Pull(p)
  PROVE  Provenance'
<1>. USE DEF IInv
<1>. PICK s \in Current(p, "pull") :
       \/ PullWrite(p, s)
       \/ PullFails(p, s)
       \/ \E torn \in TornSources : PullTorn(p, s, torn)
       \/ PullLeaves(p, s)
  BY DEF Pull
<1>0. s \in todo[p] /\ s \in Status /\ s.path \in Paths /\ s.id \in Ids
      /\ pc[p] = "work"
  BY DEF Current, FirstOf, TypeOK, Status
<1>1. ObjectsOnServer' /\ BasesShared(manifest)'
  BY ObjectsKept, DiskBasesKept
     DEF PullWrite, PullFails, PullTorn, PullLeaves, world
<1>2. CASE PullFails(p, s) \/ PullLeaves(p, s)
  <2>0. FilesOnDisk'
    <3>1. CASE UNCHANGED <<files, onDisk>>
      BY <3>1, FilesKept
    <3>2. ASSUME NEW torn \in TornSources,
                 files' = [files EXCEPT ![s.path] = torn],
                 onDisk' = [onDisk EXCEPT ![s.path] = @ \cup {torn}]
          PROVE  FilesOnDisk'
      BY <1>0, <3>2 DEF FilesOnDisk, HistoryGrows, TypeOK, Files
    <3>. QED
      BY <1>2, <3>1, <3>2 DEF PullFails, PullLeaves, world, history
  <2>1. FilesOnDisk' /\ ScansOnServer' /\ UploadsOnDisk'
        /\ \A q \in Procs : BasesShared(mem[q])'
    BY <1>2, <2>0, ScansKept, UploadsKept, MemBasesKept
       DEF PullFails, PullLeaves, world
  <2>2. TodoJustified'
    BY <1>2, TodoKept DEF PullFails, PullLeaves, Handled, TypeOK
  <2>. QED
    BY <1>1, <2>1, <2>2 DEF Provenance, BaseWasShared
<1>3. ASSUME NEW torn \in TornSources, PullTorn(p, s, torn)
      PROVE  Provenance'
  <2>1. FilesOnDisk'
    BY <1>0, <1>3 DEF PullTorn, FilesOnDisk, HistoryGrows, TypeOK
  <2>. QED
    BY <1>1, <1>3, <2>1, EndedKept DEF PullTorn, Provenance, BaseWasShared
<1>4. CASE PullWrite(p, s)
  <2>1. ScansOnServer' /\ UploadsOnDisk'
    BY <1>4, ScansKept, UploadsKept DEF PullWrite
  <2>2. TodoJustified'
    BY <1>4, TodoKept DEF PullWrite, Handled, TypeOK
  <2>3. CASE opts[p].dry
    <3>1. FilesOnDisk' /\ \A q \in Procs : BasesShared(mem[q])'
      BY <1>4, <2>3, FilesKept, MemBasesKept DEF PullWrite
    <3>. QED
      BY <1>1, <2>1, <2>2, <3>1 DEF Provenance, BaseWasShared
  <2>4. CASE ~opts[p].dry
    <3> DEFINE source == seenRemote[p][s.id].source
    <3>1. /\ files' = [files EXCEPT ![s.path] = source]
          /\ mem' = [mem EXCEPT ![p] = upsertEntry(@, s.id, s.path, source)]
          /\ onDisk' = [onDisk EXCEPT ![s.path] = @ \cup {source}]
          /\ UNCHANGED onServer
      BY <1>4, <2>4 DEF PullWrite
    <3>2. source \in Sources /\ source \in onServer[s.id]
      <4>1. seenRemote[p] \in Scripts /\ seenRemote[p] # Absent
        BY <1>0 DEF TypeOK, Shapes, Shape
      <4>. QED
        BY <1>0, <1>4, <4>1 DEF PullWrite, Scripts, Script, ScansOnServer
    <3> HIDE DEF source
    <3>3. FilesOnDisk'
      BY <1>0, <3>1 DEF FilesOnDisk, HistoryGrows, TypeOK, Files
    <3>4. ASSUME NEW q \in Procs
          PROVE  BasesShared(mem[q])'
      <4>1. CASE q # p
        BY <3>1, <4>1, MemBasesKept DEF TypeOK
      <4>2. CASE q = p
        <5>1. mem[p] \in Manifests /\ BasesShared(mem[p])
          BY DEF TypeOK, BaseWasShared
        <5>2. source \in onDisk'[s.path] /\ source \in onServer'[s.id]
          BY <1>0, <3>1, <3>2 DEF TypeOK
        <5>3. mem'[p] = upsertEntry(mem[p], s.id, s.path, source)
          BY <3>1 DEF TypeOK
        <5>. QED
          BY <1>0, <3>2, <4>2, <5>1, <5>2, <5>3
             DEF BasesShared, upsertEntry, HistoryGrows, Manifests, Entry
      <4>. QED
        BY <4>1, <4>2
    <3>. QED
      BY <1>1, <2>1, <2>2, <3>3, <3>4 DEF Provenance, BaseWasShared
  <2>. QED
    BY <2>3, <2>4
<1>. QED
  BY <1>2, <1>3, <1>4

(* The steps of a push.                                                    *)
LEMMA PushInv ==
  ASSUME IInv, HistoryGrows, NEW p \in Procs, Push(p)
  PROVE  Provenance'
<1>. USE DEF IInv
<1>1. FilesOnDisk' /\ BasesShared(manifest)'
  BY FilesKept, DiskBasesKept
     DEF Push, PushRead, PushLeaves, PushSend, PushLost, world
<1>2. ASSUME NEW s \in Current(p, "push"), PushRead(p, s) \/ PushLeaves(p, s)
      PROVE  Provenance'
  <2>0. s \in todo[p] /\ s.path \in Paths
    BY DEF Current, FirstOf, TypeOK, Status
  <2>1. ObjectsOnServer' /\ ScansOnServer' /\ \A q \in Procs : BasesShared(mem[q])'
    BY <1>2, ObjectsKept, ScansKept, MemBasesKept DEF PushRead, PushLeaves, world
  <2>2. TodoJustified'
    BY <1>2, TodoKept DEF PushRead, PushLeaves, Handled, TypeOK
  <2>3. UploadsOnDisk'
    <3>1. CASE UNCHANGED upload
      BY <3>1, UploadsKept
    <3>2. CASE PushRead(p, s) /\ ~opts[p].dry
      <4>1. PICK id \in Owner(p, s) :
              upload' = [upload EXCEPT ![p] =
                [id |-> id, path |-> s.path, source |-> files[s.path],
                 engineType |-> s.path[2], create |-> IsNew(p, s)]]
        BY <3>2 DEF PushRead
      <4>2. files[s.path] \in onDisk[s.path] /\ UNCHANGED history
        BY <2>0, <3>2 DEF PushRead, FilesOnDisk
      <4>3. /\ upload'[p].path = s.path
            /\ upload'[p].source = files[s.path]
            /\ \A q \in Procs \ {p} : upload'[q] = upload[q]
        BY <4>1 DEF TypeOK
      <4>. QED
        BY <4>2, <4>3 DEF UploadsOnDisk, history
    <3>. QED
      BY <1>2, <3>1, <3>2 DEF PushRead, PushLeaves
  <2>. QED
    BY <1>1, <2>1, <2>2, <2>3 DEF Provenance, BaseWasShared
<1>3. ASSUME PushSend(p) \/ PushLost(p)
      PROVE  /\ upload[p] \in Upload /\ upload[p] # Absent
             /\ ObjectsOnServer'
  <2>1. upload[p] \in Upload /\ upload[p] # Absent /\ Uploaded(upload[p])
    BY <1>3 DEF PushSend, PushLost, TypeOK, Shapes, Shape
  <2> DEFINE u == upload[p]
  <2>2. u.id \in Ids /\ u.source \in Sources
    BY <2>1 DEF Upload
  <2>3. u.source \in onServer'[u.id]
    BY <2>1, <2>2 DEF Uploaded, TypeOK
  <2>4. ASSUME objects'[u.id] \notin {Absent, Stub}
        PROVE  objects'[u.id].source = u.source
    <3>1. CASE u.create
      BY <2>1, <2>2, <3>1 DEF Uploaded, NewScript, TypeOK
    <3>2. CASE ~u.create
      <4>1. objects'[u.id] = Extended(objects[u.id], u)
        BY <2>1, <2>2, <3>2 DEF Uploaded, TypeOK
      <4>2. objects[u.id] \in Script
        BY <2>2, <2>4, <4>1 DEF Extended, TypeOK
      <4>3. objects[u.id] \notin {Absent, Stub}
        BY <2>4, <4>1 DEF Extended
      <4>. QED
        BY <4>1, <4>2, <4>3 DEF Extended, Script
    <3>. QED
      BY <3>1, <3>2
  <2>5. \A id \in Ids \ {u.id} : objects'[id] = objects[id]
    BY <2>1, <2>2 DEF Uploaded, TypeOK
  <2>. QED
    BY <2>1, <2>3, <2>4, <2>5 DEF ObjectsOnServer, HistoryGrows
<1>4. CASE PushSend(p)
  <2>1. ScansOnServer' /\ TodoJustified'
    BY <1>4, ScansKept, TodoKept DEF PushSend
  <2>2. UploadsOnDisk'
    BY <1>4 DEF PushSend, UploadsOnDisk, HistoryGrows, TypeOK
  <2>3. ASSUME NEW q \in Procs
        PROVE  BasesShared(mem[q])'
    <3>1. CASE q # p
      BY <1>4, <3>1, MemBasesKept DEF PushSend, TypeOK
    <3>2. CASE q = p
      <4> DEFINE u == upload[p]
      <4>1. mem[p] \in Manifests /\ BasesShared(mem[p])
        BY DEF TypeOK, BaseWasShared
      <4>2. u.id \in Ids /\ u.path \in Paths /\ u.source \in Sources
        BY <1>3, <1>4 DEF Upload
      <4>3. u.source \in onDisk'[u.path] /\ u.source \in onServer'[u.id]
        BY <1>3, <1>4, <4>2
           DEF PushSend, Uploaded, UploadsOnDisk, HistoryGrows, TypeOK
      <4>4. mem'[p] = upsertEntry(mem[p], u.id, u.path, u.source)
        BY <1>4 DEF PushSend, UploadBase, TypeOK
      <4>. QED
        BY <3>2, <4>1, <4>2, <4>3, <4>4
           DEF BasesShared, upsertEntry, HistoryGrows, Manifests, Entry
    <3>. QED
      BY <3>1, <3>2
  <2>. QED
    BY <1>1, <1>3, <1>4, <2>1, <2>2, <2>3 DEF Provenance, BaseWasShared
<1>5. CASE PushLost(p)
  BY <1>1, <1>3, <1>5, EndedKept DEF PushLost, Provenance, BaseWasShared
<1>. QED
  BY <1>2, <1>4, <1>5 DEF Push

(* Every step re-establishes the six conditions.                           *)
LEMMA ProvenanceStep ==
  ASSUME IInv, [Next]_vars
  PROVE  Provenance'
<1>1. HistoryGrows
  BY HistoryStep DEF IInv
<1>2. CASE UNCHANGED vars
  BY <1>2 DEF IInv, Provenance, vars, world, process, history, FilesOnDisk,
              ObjectsOnServer, ScansOnServer, UploadsOnDisk, BaseWasShared,
              BasesShared, TodoJustified, Justified
<1>. QED
  BY <1>1, <1>2, PeopleInv, ScanInv, PullInv, PushInv DEF Next, Run

-----------------------------------------------------------------------------
(* Local-only files and updates: the branch of push that is never taken.   *)

(* No other status has the path of a local-only one, and no entry has it.  *)
LEMMA LocalOnlyMeaning ==
  ASSUME NEW m \in Manifests, NEW remote \in Scripts, NEW local \in Files,
         NEW s \in computeStatus(m, remote, local), s.state = "local-only"
  PROVE  /\ findByPath(m, s.path) = {}
         /\ \A t \in computeStatus(m, remote, local) : t.path = s.path => t = s
<1>1. s \in LocalOnlyStatus(m, remote, local)
  <2>1. s \notin TrackedStatus(m, remote, local)
    BY DEF TrackedStatus, TrackedState, ThreeWay
  <2>2. s \notin UntrackedStatus(m, remote, local)
    BY DEF UntrackedStatus, UntrackedState
  <2>. QED
    BY <2>1, <2>2 DEF computeStatus
<1>2. s.path \notin Claimed(m, remote)
  BY <1>1 DEF LocalOnlyStatus
<1>3. findByPath(m, s.path) = {}
  BY <1>2 DEF findByPath, Claimed, Tracked
<1>4. ASSUME NEW t \in computeStatus(m, remote, local), t.path = s.path
      PROVE  t = s
  <2>1. t \notin TrackedStatus(m, remote, local)
    BY <1>2, <1>4 DEF TrackedStatus, Claimed
  <2>2. t \notin UntrackedStatus(m, remote, local)
    BY <1>2, <1>4 DEF UntrackedStatus, Claimed
  <2>3. t \in LocalOnlyStatus(m, remote, local)
    BY <2>1, <2>2 DEF computeStatus
  <2>. QED
    BY <1>1, <1>4, <2>3 DEF LocalOnlyStatus
<1>. QED
  BY <1>3, <1>4

(* An entry for one path does not claim another path.                      *)
LEMMA UpsertElsewhere ==
  ASSUME NEW m \in Manifests, NEW id \in Ids, NEW path \in Paths, NEW base,
         NEW other, other # path, findByPath(m, other) = {}
  PROVE  findByPath(upsertEntry(m, id, path, base), other) = {}
BY DEF findByPath, upsertEntry, Manifests

(* LocalOnlyIsNew, LocalOnlyApart and UploadJustified for one command.     *)
PushSafe(q) ==
  /\ \A s \in todo[q] : s.state = "local-only" =>
       /\ findByPath(mem[q], s.path) = {}
       /\ \A t \in todo[q] : t.path = s.path => t = s
       /\ upload[q] # Absent => upload[q].path # s.path
  /\ upload[q] # Absent /\ ~upload[q].create /\ ~opts[q].force
       => seenRemote[q][upload[q].id].source \in onDisk[upload[q].path]

(* The three parts of the invariant, command by command.                   *)
LEMMA PushSafeForm ==
  (\A q \in Procs : PushSafe(q))
    <=> LocalOnlyIsNew /\ LocalOnlyApart /\ UploadJustified
BY DEF PushSafe, LocalOnlyIsNew, LocalOnlyApart, UploadJustified

(* A command another actor steps beside keeps them.                        *)
LEMMA PushSafeKept ==
  ASSUME IInv, HistoryGrows, NEW q \in Procs, PushSafe(q),
         mem'[q] = mem[q], opts'[q] = opts[q], upload'[q] = upload[q],
         seenRemote'[q] = seenRemote[q], todo'[q] \subseteq todo[q]
  PROVE  PushSafe(q)'
<1>1. upload[q] # Absent => upload[q].path \in Paths
  BY DEF IInv, TypeOK, Upload
<1>. QED
  BY <1>1 DEF PushSafe, HistoryGrows, findByPath

(* So does every command when one of them is over.                         *)
LEMMA PushSafeEnded ==
  ASSUME IInv, HistoryGrows, NEW p \in Procs, Ended(p), \A q \in Procs : PushSafe(q)
  PROVE  \A q \in Procs : PushSafe(q)'
<1>1. PushSafe(p)'
  BY DEF Ended, PushSafe, IInv, TypeOK
<1>2. ASSUME NEW q \in Procs, q # p
      PROVE  PushSafe(q)'
  BY <1>2, PushSafeKept DEF Ended, IInv, TypeOK
<1>. QED
  BY <1>1, <1>2

(* Every step keeps the three parts.                                       *)
LEMMA PushSafeStep ==
  ASSUME IInv, [Next]_vars
  PROVE  \A q \in Procs : PushSafe(q)'
<1>. USE DEF IInv
<1>0. HistoryGrows
  BY HistoryStep
<1>1. \A q \in Procs : PushSafe(q)
  BY PushSafeForm
<1>2. CASE UNCHANGED vars \/ People
  <2>1. UNCHANGED process
    BY <1>2 DEF vars, People, UserSaves, UserDeletes, AdminSaves, AdminDeletes,
                ManifestLost
  <2>. QED
    BY <1>0, <1>1, <2>1, PushSafeKept DEF process
<1>3. ASSUME NEW p \in Procs,
             \/ \E command \in Commands : Start(p, command)
             \/ ScanLocal(p)
             \/ ScanRemote(p)
      PROVE  \A q \in Procs : PushSafe(q)'
  <2>1. PushSafe(p)'
    <3>1. upload[p] = Absent /\ todo[p] = {} /\ UNCHANGED <<upload, todo>>
      BY <1>3 DEF Start, ScanLocal, ScanRemote, Shapes, Shape
    <3>. QED
      BY <3>1 DEF PushSafe
  <2>2. ASSUME NEW q \in Procs, q # p
        PROVE  PushSafe(q)'
    BY <1>0, <1>1, <1>3, <2>2, PushSafeKept DEF Start, ScanLocal, ScanRemote, TypeOK
  <2>. QED
    BY <2>1, <2>2
<1>4. ASSUME NEW p \in Procs, Compare(p)
      PROVE  \A q \in Procs : PushSafe(q)'
  <2> DEFINE all == computeStatus(mem[p], seenRemote[p], seenLocal[p])
  <2>1. /\ mem[p] \in Manifests /\ seenRemote[p] \in Scripts /\ seenLocal[p] \in Files
        /\ upload'[p] = Absent
        /\ mem'[p] = mem[p]
        /\ todo'[p] \subseteq all
    BY <1>4 DEF Compare, Shapes, Shape, TypeOK
  <2>2. PushSafe(p)'
    <3>1. ASSUME NEW s \in todo'[p], s.state = "local-only"
          PROVE  /\ findByPath(mem[p], s.path) = {}
                 /\ \A t \in todo'[p] : t.path = s.path => t = s
      BY <2>1, <3>1, LocalOnlyMeaning
    <3>. QED
      BY <2>1, <3>1 DEF PushSafe, findByPath
  <2>3. ASSUME NEW q \in Procs, q # p
        PROVE  PushSafe(q)'
    BY <1>0, <1>1, <1>4, <2>3, PushSafeKept DEF Compare, TypeOK
  <2>. QED
    BY <2>2, <2>3
<1>5. ASSUME NEW p \in Procs, Finish(p) \/ Abort(p) \/ PushLost(p)
      PROVE  \A q \in Procs : PushSafe(q)'
  BY <1>0, <1>1, <1>5, PushSafeEnded DEF Finish, Abort, PushLost
<1>6. ASSUME NEW p \in Procs, Pull(p)
      PROVE  \A q \in Procs : PushSafe(q)'
  <2>. PICK s \in Current(p, "pull") :
         \/ PullWrite(p, s)
         \/ PullFails(p, s)
         \/ \E torn \in TornSources : PullTorn(p, s, torn)
         \/ PullLeaves(p, s)
    BY <1>6 DEF Pull
  <2>0. s \in todo[p] /\ s.path \in Paths /\ s.id \in Ids /\ pc[p] = "work"
        /\ upload[p] = Absent
    BY DEF Current, FirstOf, TypeOK, Status, Shapes, Shape
  <2>1. CASE PullFails(p, s) \/ PullLeaves(p, s)
    BY <1>0, <1>1, <2>1, PushSafeKept DEF PullFails, PullLeaves, Handled, TypeOK
  <2>2. ASSUME NEW torn \in TornSources, PullTorn(p, s, torn)
        PROVE  \A q \in Procs : PushSafe(q)'
    BY <1>0, <1>1, <2>2, PushSafeEnded DEF PullTorn
  <2>3. CASE PullWrite(p, s)
    <3>1. /\ todo'[p] = todo[p] \ {s}
          /\ UNCHANGED <<opts, upload, seenRemote>>
          /\ \A q \in Procs \ {p} : todo'[q] = todo[q] /\ mem'[q] = mem[q]
      BY <2>3 DEF PullWrite, Handled, TypeOK
    <3>2. \/ mem'[p] = mem[p]
          \/ \E base \in Sources : mem'[p] = upsertEntry(mem[p], s.id, s.path, base)
      <4>1. seenRemote[p] \in Scripts /\ seenRemote[p][s.id] # Absent
        BY <2>0, <2>3 DEF PullWrite, TypeOK, Shapes, Shape
      <4>2. seenRemote[p][s.id].source \in Sources
        BY <2>0, <4>1 DEF Scripts, Script
      <4>3. mem'[p] = mem[p]
            \/ mem'[p] = upsertEntry(mem[p], s.id, s.path, seenRemote[p][s.id].source)
        BY <2>3 DEF PullWrite, TypeOK
      <4>. QED
        BY <4>2, <4>3
    <3>3. ASSUME NEW t \in todo'[p], t.state = "local-only"
          PROVE  findByPath(mem'[p], t.path) = {}
      <4>1. t \in todo[p] /\ t # s /\ findByPath(mem[p], t.path) = {} /\ t.path # s.path
        BY <1>1, <2>0, <3>1, <3>3 DEF PushSafe
      <4>2. mem[p] \in Manifests
        BY DEF TypeOK
      <4>. QED
        BY <2>0, <3>2, <4>1, <4>2, UpsertElsewhere
    <3>4. PushSafe(p)'
      BY <1>1, <2>0, <3>1, <3>3 DEF PushSafe
    <3>5. ASSUME NEW q \in Procs, q # p
          PROVE  PushSafe(q)'
      BY <1>0, <1>1, <3>1, <3>5, PushSafeKept
    <3>. QED
      BY <3>4, <3>5
  <2>. QED
    BY <2>1, <2>2, <2>3
<1>7. ASSUME NEW p \in Procs, NEW s \in Current(p, "push"),
             PushRead(p, s) \/ PushLeaves(p, s)
      PROVE  \A q \in Procs : PushSafe(q)'
  <2>0. s \in todo[p] /\ s \in Status /\ pc[p] = "work" /\ upload[p] = Absent
    BY DEF Current, FirstOf, TypeOK, Shapes, Shape
  <2>1. CASE UNCHANGED upload
    BY <1>0, <1>1, <1>7, <2>1, PushSafeKept DEF PushRead, PushLeaves, Handled, TypeOK
  <2>2. CASE PushRead(p, s) /\ ~opts[p].dry
    <3>1. PICK id \in Owner(p, s) :
            upload' = [upload EXCEPT ![p] =
              [id |-> id, path |-> s.path, source |-> files[s.path],
               engineType |-> s.path[2], create |-> IsNew(p, s)]]
      BY <2>2 DEF PushRead
    <3>2. /\ upload'[p].id = id
          /\ upload'[p].path = s.path
          /\ upload'[p].create = IsNew(p, s)
          /\ \A q \in Procs \ {p} : upload'[q] = upload[q]
      BY <3>1 DEF TypeOK
    <3>3. /\ todo'[p] = todo[p] \ {s}
          /\ \A q \in Procs \ {p} : todo'[q] = todo[q]
          /\ UNCHANGED <<mem, opts, seenRemote, onDisk>>
      BY <2>2 DEF PushRead, Handled, TypeOK, history
    <3>4. ASSUME ~IsNew(p, s), ~opts[p].force
          PROVE  id = s.id /\ seenRemote[p][s.id].source \in onDisk[s.path]
      <4>1. s.state = "local-modified"
        <5>1. s.state \in {"local-modified", "local-only"}
          BY <2>2, <3>4 DEF PushRead, Pushes
        <5>2. s.state # "local-only"
          BY <2>0, <3>4 DEF IsNew, LocalOnlyIsNew
        <5>. QED
          BY <5>1, <5>2
      <4>2. id = s.id
        BY <3>1, <4>1 DEF Owner
      <4>3. seenRemote[p][s.id].source \in onDisk[s.path]
        BY <2>0, <4>1 DEF TodoJustified, Justified
      <4>. QED
        BY <4>2, <4>3
    <3>5. PushSafe(p)'
      <4>1. ASSUME NEW t \in todo'[p], t.state = "local-only"
            PROVE  /\ findByPath(mem[p], t.path) = {}
                   /\ \A r \in todo'[p] : r.path = t.path => r = t
                   /\ t.path # s.path
        BY <1>1, <2>0, <3>3, <4>1 DEF PushSafe
      <4>. QED
        BY <3>2, <3>3, <3>4, <4>1 DEF PushSafe, findByPath
    <3>6. ASSUME NEW q \in Procs, q # p
          PROVE  PushSafe(q)'
      BY <1>0, <1>1, <3>2, <3>3, <3>6, PushSafeKept
    <3>. QED
      BY <3>5, <3>6
  <2>. QED
    BY <1>7, <2>1, <2>2 DEF PushRead, PushLeaves
<1>8. ASSUME NEW p \in Procs, PushSend(p)
      PROVE  \A q \in Procs : PushSafe(q)'
  <2> DEFINE u == upload[p]
  <2>1. /\ u \in Upload /\ u # Absent
        /\ upload'[p] = Absent
        /\ mem'[p] = upsertEntry(mem[p], u.id, u.path, u.source)
        /\ UNCHANGED <<opts, todo, seenRemote>>
        /\ \A q \in Procs \ {p} : upload'[q] = upload[q] /\ mem'[q] = mem[q]
    BY <1>8 DEF PushSend, UploadBase, TypeOK, Shapes, Shape
  <2>2. ASSUME NEW t \in todo[p], t.state = "local-only"
        PROVE  findByPath(mem'[p], t.path) = {}
    <3>1. findByPath(mem[p], t.path) = {} /\ t.path # u.path
      BY <1>1, <2>1, <2>2 DEF PushSafe
    <3>2. mem[p] \in Manifests /\ u.id \in Ids /\ u.path \in Paths
      BY <2>1 DEF TypeOK, Upload
    <3>. QED
      BY <2>1, <3>1, <3>2, UpsertElsewhere
  <2>3. PushSafe(p)'
    BY <1>1, <2>1, <2>2 DEF PushSafe
  <2>4. ASSUME NEW q \in Procs, q # p
        PROVE  PushSafe(q)'
    BY <1>0, <1>1, <2>1, <2>4, PushSafeKept
  <2>. QED
    BY <2>3, <2>4
<1>. QED
  BY <1>2, <1>3, <1>4, <1>5, <1>6, <1>7, <1>8 DEF Next, Run, Push

(* IInv is inductive.                                                      *)
LEMMA InvStep ==
  ASSUME IInv, [Next]_vars
  PROVE  IInv'
<1>1. TypeOK' /\ Shapes'
  BY TypeStep DEF IInv
<1>2. (\A q \in Procs : PushSafe(q)')
        => LocalOnlyIsNew' /\ LocalOnlyApart' /\ UploadJustified'
  BY DEF PushSafe, LocalOnlyIsNew, LocalOnlyApart, UploadJustified
<1>. QED
  BY <1>1, <1>2, ProvenanceStep, PushSafeStep DEF IInv, Provenance

(* IInv holds in every reachable state.                                    *)
THEOREM Invariance == Spec => []IInv
BY InitInv, InvStep, PTL DEF Spec

(* A base recorded anywhere is a content both sides have had.              *)
THEOREM BasesAreShared == Spec => []BaseWasShared
<1>1. IInv => BaseWasShared
  BY DEF IInv
<1>. QED
  BY <1>1, Invariance, PTL

(* The lookup of push.ts:157 never finds an entry.                         *)
THEOREM LocalOnlyNeverTracked == Spec => []LocalOnlyIsNew
<1>1. IInv => LocalOnlyIsNew
  BY DEF IInv
<1>. QED
  BY <1>1, Invariance, PTL

-----------------------------------------------------------------------------
(* A new script is only made of a file that stands for none.               *)

(* The files that are, or are being, pushed as new ones.                   *)
SeenApart(q) ==
  /\ \A s \in todo[q] : s.state = "local-only" => Behind(q, s.path) = {}
  /\ upload[q] # Absent /\ upload[q].create => Behind(q, upload[q].path) = {}

AllApart == \A q \in Procs : SeenApart(q)

(* A local-only path is the place of no script of either side.             *)
LEMMA LocalOnlyUnplaced ==
  ASSUME NEW m \in Manifests, NEW remote \in Scripts, NEW local \in Files,
         NEW s \in computeStatus(m, remote, local), s.state = "local-only",
         NEW id \in Ids, remote[id] # Absent
  PROVE  s.path # (IF m[id] # Absent THEN m[id].path
                   ELSE idToRelPath(id, remote[id].engineType))
<1>1. s \in LocalOnlyStatus(m, remote, local)
  <2>1. s \notin TrackedStatus(m, remote, local)
    BY DEF TrackedStatus, TrackedState, ThreeWay
  <2>2. s \notin UntrackedStatus(m, remote, local)
    BY DEF UntrackedStatus, UntrackedState
  <2>. QED
    BY <2>1, <2>2 DEF computeStatus
<1>2. s.path \notin Claimed(m, remote)
  BY <1>1 DEF LocalOnlyStatus
<1>. QED
  BY <1>2 DEF Claimed, Tracked, Untracked

(* What a loop records for one path places no script at another.           *)
LEMMA BehindElsewhere ==
  ASSUME TypeOK, NEW q \in Procs, NEW id \in Ids, NEW path \in Paths,
         NEW base \in Sources,
         mem'[q] = upsertEntry(mem[q], id, path, base),
         seenRemote'[q] = seenRemote[q],
         NEW other \in Paths, other # path, Behind(q, other) = {}
  PROVE  Behind(q, other)' = {}
<1>1. mem[q] \in Manifests
  BY DEF TypeOK
<1>2. /\ mem'[q][id] = [path |-> path, base |-> base]
      /\ \A i \in Ids \ {id} : mem'[q][i] = mem[q][i]
  BY <1>1 DEF upsertEntry, Manifests
<1>3. mem'[q][id] # Absent /\ mem'[q][id].path = path
  BY <1>2, RecordsAssumption DEF Entry
<1>. QED
  BY <1>2, <1>3 DEF Behind, PlaceOf

(* A command another actor steps beside keeps its files apart.             *)
LEMMA ApartKept ==
  ASSUME NEW q \in Procs, SeenApart(q),
         mem'[q] = mem[q], upload'[q] = upload[q],
         seenRemote'[q] = seenRemote[q], todo'[q] \subseteq todo[q]
  PROVE  SeenApart(q)'
BY DEF SeenApart, Behind, PlaceOf

(* So does every command when one of them is over.                         *)
LEMMA ApartEnded ==
  ASSUME TypeOK, NEW p \in Procs, Ended(p), AllApart
  PROVE  AllApart'
<1>1. SeenApart(p)'
  BY DEF Ended, SeenApart, TypeOK
<1>2. ASSUME NEW q \in Procs, q # p
      PROVE  SeenApart(q)'
  BY <1>2, ApartKept DEF Ended, TypeOK, AllApart
<1>. QED
  BY <1>1, <1>2 DEF AllApart

(* Every step keeps them apart.                                            *)
LEMMA ApartStep ==
  ASSUME IInv, AllApart, [Next]_vars
  PROVE  AllApart'
<1>. USE DEF IInv
<1>1. CASE UNCHANGED vars \/ People
  <2>1. UNCHANGED process
    BY <1>1 DEF vars, People, UserSaves, UserDeletes, AdminSaves, AdminDeletes,
                ManifestLost
  <2>. QED
    BY <2>1, ApartKept DEF process, AllApart
<1>2. ASSUME NEW p \in Procs, \/ \E command \in Commands : Start(p, command)
                              \/ ScanLocal(p)
                              \/ ScanRemote(p)
      PROVE  AllApart'
  <2>1. SeenApart(p)'
    <3>1. upload[p] = Absent /\ todo[p] = {} /\ UNCHANGED <<upload, todo>>
      BY <1>2 DEF Start, ScanLocal, ScanRemote, Shapes, Shape
    <3>. QED
      BY <3>1 DEF SeenApart
  <2>2. ASSUME NEW q \in Procs, q # p
        PROVE  SeenApart(q)'
    BY <1>2, <2>2, ApartKept DEF Start, ScanLocal, ScanRemote, TypeOK, AllApart
  <2>. QED
    BY <2>1, <2>2 DEF AllApart
<1>3. ASSUME NEW p \in Procs, Compare(p)
      PROVE  AllApart'
  <2>1. /\ mem[p] \in Manifests /\ seenRemote[p] \in Scripts
        /\ seenLocal[p] \in Files
        /\ upload'[p] = Absent
        /\ UNCHANGED <<mem, seenRemote>>
        /\ todo'[p] \subseteq computeStatus(mem[p], seenRemote[p], seenLocal[p])
    BY <1>3 DEF Compare, Shapes, Shape, TypeOK
  <2>2. ASSUME NEW s \in todo'[p], s.state = "local-only"
        PROVE  Behind(p, s.path)' = {}
    BY <2>1, <2>2, LocalOnlyUnplaced DEF Behind, PlaceOf
  <2>3. SeenApart(p)'
    BY <2>1, <2>2 DEF SeenApart
  <2>4. ASSUME NEW q \in Procs, q # p
        PROVE  SeenApart(q)'
    BY <1>3, <2>4, ApartKept DEF Compare, TypeOK, AllApart
  <2>. QED
    BY <2>3, <2>4 DEF AllApart
<1>4. ASSUME NEW p \in Procs, Finish(p) \/ Abort(p) \/ PushLost(p)
      PROVE  AllApart'
  BY <1>4, ApartEnded DEF Finish, Abort, PushLost
<1>5. ASSUME NEW p \in Procs, Pull(p)
      PROVE  AllApart'
  <2>. PICK s \in Current(p, "pull") :
         \/ PullWrite(p, s)
         \/ PullFails(p, s)
         \/ \E torn \in TornSources : PullTorn(p, s, torn)
         \/ PullLeaves(p, s)
    BY <1>5 DEF Pull
  <2>0. s \in todo[p] /\ s.path \in Paths /\ s.id \in Ids /\ pc[p] = "work"
        /\ upload[p] = Absent
    BY DEF Current, FirstOf, TypeOK, Status, Shapes, Shape
  <2>1. CASE PullFails(p, s) \/ PullLeaves(p, s)
    BY <2>1, ApartKept DEF PullFails, PullLeaves, Handled, TypeOK, AllApart
  <2>2. ASSUME NEW torn \in TornSources, PullTorn(p, s, torn)
        PROVE  AllApart'
    BY <2>2, ApartEnded DEF PullTorn
  <2>3. CASE PullWrite(p, s)
    <3>1. /\ todo'[p] = todo[p] \ {s}
          /\ UNCHANGED <<upload, seenRemote>>
          /\ \A q \in Procs \ {p} : todo'[q] = todo[q] /\ mem'[q] = mem[q]
      BY <2>3 DEF PullWrite, Handled, TypeOK
    <3>2. \/ mem'[p] = mem[p]
          \/ \E base \in Sources : mem'[p] = upsertEntry(mem[p], s.id, s.path, base)
      <4>1. seenRemote[p] \in Scripts /\ seenRemote[p][s.id] # Absent
        BY <2>0, <2>3 DEF PullWrite, TypeOK, Shapes, Shape
      <4>2. seenRemote[p][s.id].source \in Sources
        BY <2>0, <4>1 DEF Scripts, Script
      <4>3. mem'[p] = mem[p]
            \/ mem'[p] = upsertEntry(mem[p], s.id, s.path, seenRemote[p][s.id].source)
        BY <2>3 DEF PullWrite, TypeOK
      <4>. QED
        BY <4>2, <4>3
    <3>3. ASSUME NEW t \in todo'[p], t.state = "local-only"
          PROVE  Behind(p, t.path)' = {}
      <4>1. t \in todo[p] /\ t # s
        BY <3>1, <3>3
      <4>2. t.path \in Paths
        BY <4>1 DEF TypeOK, Status
      <4>3. t.path # s.path
        BY <2>0, <3>3, <4>1 DEF LocalOnlyApart
      <4>4. Behind(p, t.path) = {}
        BY <3>3, <4>1 DEF AllApart, SeenApart
      <4>5. CASE mem'[p] = mem[p]
        BY <3>1, <4>4, <4>5 DEF Behind, PlaceOf
      <4>. QED
        BY <2>0, <3>1, <3>2, <4>2, <4>3, <4>4, <4>5, BehindElsewhere
    <3>4. SeenApart(p)'
      BY <2>0, <3>1, <3>3 DEF SeenApart
    <3>5. ASSUME NEW q \in Procs, q # p
          PROVE  SeenApart(q)'
      BY <3>1, <3>5, ApartKept DEF AllApart
    <3>. QED
      BY <3>4, <3>5 DEF AllApart
  <2>. QED
    BY <2>1, <2>2, <2>3
<1>6. ASSUME NEW p \in Procs, NEW s \in Current(p, "push"),
             PushRead(p, s) \/ PushLeaves(p, s)
      PROVE  AllApart'
  <2>0. s \in todo[p]
    BY DEF Current, FirstOf
  <2>1. /\ UNCHANGED <<mem, seenRemote>>
        /\ \A q \in Procs : todo'[q] \subseteq todo[q]
    BY <1>6 DEF PushRead, PushLeaves, Handled, TypeOK
  <2>2. CASE UNCHANGED upload
    BY <2>1, <2>2, ApartKept DEF AllApart
  <2>3. CASE PushRead(p, s) /\ ~opts[p].dry
    <3>1. /\ upload'[p].path = s.path
          /\ upload'[p].create = IsNew(p, s)
          /\ \A q \in Procs \ {p} : upload'[q] = upload[q]
      BY <2>3 DEF PushRead, TypeOK
    <3>2. upload'[p].create => Behind(p, s.path) = {}
      BY <2>0, <3>1 DEF IsNew, AllApart, SeenApart
    <3>3. SeenApart(p)'
      BY <2>1, <3>1, <3>2 DEF AllApart, SeenApart, Behind, PlaceOf
    <3>4. ASSUME NEW q \in Procs, q # p
          PROVE  SeenApart(q)'
      BY <2>1, <3>1, <3>4, ApartKept DEF AllApart
    <3>. QED
      BY <3>3, <3>4 DEF AllApart
  <2>. QED
    BY <1>6, <2>2, <2>3 DEF PushRead, PushLeaves
<1>7. ASSUME NEW p \in Procs, PushSend(p)
      PROVE  AllApart'
  <2> DEFINE u == upload[p]
  <2>1. /\ u \in Upload /\ u # Absent
        /\ upload'[p] = Absent
        /\ mem'[p] = upsertEntry(mem[p], u.id, u.path, u.source)
        /\ UNCHANGED <<todo, seenRemote>>
        /\ \A q \in Procs \ {p} : upload'[q] = upload[q] /\ mem'[q] = mem[q]
    BY <1>7 DEF PushSend, UploadBase, TypeOK, Shapes, Shape
  <2>2. u.id \in Ids /\ u.path \in Paths /\ u.source \in Sources
    BY <2>1 DEF Upload
  <2>3. ASSUME NEW t \in todo[p], t.state = "local-only"
        PROVE  Behind(p, t.path)' = {}
    <3>1. t.path \in Paths
      BY <2>3 DEF TypeOK, Status
    <3>2. t.path # u.path
      BY <2>1, <2>3 DEF LocalOnlyApart
    <3>3. Behind(p, t.path) = {}
      BY <2>3 DEF AllApart, SeenApart
    <3>. QED
      BY <2>1, <2>2, <3>1, <3>2, <3>3, BehindElsewhere
  <2>4. SeenApart(p)'
    BY <2>1, <2>3 DEF SeenApart
  <2>5. ASSUME NEW q \in Procs, q # p
        PROVE  SeenApart(q)'
    BY <2>1, <2>5, ApartKept DEF AllApart
  <2>. QED
    BY <2>4, <2>5 DEF AllApart
<1>. QED
  BY <1>1, <1>2, <1>3, <1>4, <1>5, <1>6, <1>7 DEF Next, Run, Push

(* The files of new scripts stay apart from all that was seen.             *)
LEMMA ApartInvariance == Spec => [](IInv /\ AllApart)
<1>1. Init => IInv /\ AllApart
  BY InitInv DEF Init, AllApart, SeenApart
<1>2. IInv /\ AllApart /\ [Next]_vars => (IInv /\ AllApart)'
  BY InvStep, ApartStep
<1>. QED
  BY <1>1, <1>2, PTL DEF Spec

(* However lossy the names: no file of a script which the command has seen *)
(* is sent as a new script under another id (mapping.ts:72-80,             *)
(* compare.ts:139), whatever was saved, deleted or lost meanwhile.         *)
THEOREM NoScriptTwice == Spec => []NoSecondScript
<1>1. IInv /\ AllApart => NoSecondScript
  BY DEF AllApart, SeenApart, NoSecondScript
<1>. QED
  BY <1>1, ApartInvariance, PTL

(* Who lets an upload arrive: the process that sends it.                   *)
LEMMA UploadArrives ==
  ASSUME IInv, Next, NEW p \in Procs, Arrives(p)
  PROVE  Uploaded(upload[p])
<1>1. ~People
  BY DEF Arrives, People, UserSaves, UserDeletes, AdminSaves, AdminDeletes,
         ManifestLost, process
<1>2. PICK q \in Procs : \/ \E command \in Commands : Start(q, command)
                         \/ Run(q)
                         \/ Abort(q)
  BY <1>1 DEF Next
<1>3. PushSend(q) \/ PushLost(q)
  BY <1>2 DEF Arrives, Run, Start, ScanLocal, ScanRemote, Compare, Finish, Abort, Pull,
       PullWrite, PullFails, PullTorn, PullLeaves, Push, PushRead, PushLeaves, world
<1>4. q = p
  BY <1>3 DEF Arrives, PushSend, PushLost, Ended, IInv, TypeOK
<1>. QED
  BY <1>3, <1>4 DEF PushSend, PushLost

(* An update keeps both fields, so what disables or moves a script is a new*)
(* script of the same id, and that is made of a file which is not its own  *)
(* (push.ts:46-58, :98-112).                                               *)
THEOREM ReplacesUnseenOnly == Spec => PushReplacesUnseenOnly
<1>1. ASSUME IInv, AllApart, Next, NEW p \in Procs, NEW id \in Ids, Arrives(p),
             objects[id] \notin {Absent, Stub}, objects'[id] \notin {Absent, Stub},
             \/ objects'[id].enabled # objects[id].enabled
             \/ objects'[id].engine # objects[id].engine
      PROVE  id \notin Behind(p, upload[p].path)
  <2> DEFINE u == upload[p]
  <2>1. /\ u \in Upload /\ u # Absent /\ u.id \in Ids
        /\ objects \in [Ids -> Script \cup {Absent, Stub}]
        /\ objects[id] \in Script
    BY <1>1 DEF Arrives, IInv, TypeOK, Upload
  <2>2. Uploaded(u)
    BY <1>1, UploadArrives
  <2>3. id = u.id
    BY <1>1, <2>1, <2>2 DEF Uploaded
  <2>4. CASE ~u.create
    <3>1. objects'[id] =
            [objects[id] EXCEPT !.source = u.source, !.engineType = u.engineType]
      BY <1>1, <2>1, <2>2, <2>3, <2>4 DEF Uploaded, Extended
    <3>. QED
      BY <1>1, <2>1, <3>1 DEF Script
  <2>5. CASE u.create
    BY <1>1, <2>1, <2>5 DEF AllApart, SeenApart
  <2>. QED
    BY <2>4, <2>5
<1>2. (IInv /\ AllApart) /\ [Next]_vars =>
        [\A p \in Procs : \A id \in Ids :
           /\ Arrives(p)
           /\ objects[id] \notin {Absent, Stub}
           /\ objects'[id] \notin {Absent, Stub}
           /\ \/ objects'[id].enabled # objects[id].enabled
              \/ objects'[id].engine # objects[id].engine
           => id \notin Behind(p, upload[p].path)]_vars
  BY <1>1
<1>. QED
  BY <1>2, ApartInvariance, PTL DEF Spec, PushReplacesUnseenOnly

-----------------------------------------------------------------------------
(* No command takes an edit the other side never saw for an old version.   *)

(* Whoever changes a file while an item of p's plan is handled is p's pull *)
(* writing the file of an item of that plan.                               *)
LEMMA FileWriter ==
  ASSUME TypeOK, Next, NEW p \in Procs, NEW path \in Paths,
         todo'[p] # todo[p], files'[path] # files[path]
  PROVE  \E t \in todo[p] :
           /\ Pulls(t, opts[p].force)
           /\ t.path = path
           /\ pc[p] = "work"
<1>1. ASSUME People
      PROVE  FALSE
  BY <1>1 DEF People, UserSaves, UserDeletes, AdminSaves, AdminDeletes,
              ManifestLost, process
<1>2. PICK q \in Procs : \/ \E command \in Commands : Start(q, command)
                         \/ Run(q)
                         \/ Abort(q)
  BY <1>1 DEF Next
<1>3. PICK t \in Current(q, "pull") :
        PullWrite(q, t) \/ PullFails(q, t) \/ \E torn \in TornSources : PullTorn(q, t, torn)
  BY <1>2 DEF Run, Start, ScanLocal, ScanRemote, Compare, Finish, Abort, Pull, Push,
              PullLeaves, PushRead, PushLeaves, PushSend, PushLost, world
<1>4. q = p
  BY <1>3 DEF PullWrite, PullFails, PullTorn, Handled, Ended, TypeOK
<1>5. t.path = path
  BY <1>3 DEF PullWrite, PullFails, PullTorn, TypeOK, Files
<1>. QED
  BY <1>3, <1>4, <1>5 DEF Current, FirstOf, PullWrite, PullFails, PullTorn

(* An unforced pull replaces what its scan saw only by way of a content the*)
(* server has had (pull.ts:109-147).                                       *)
THEOREM PullKeepsUnsynced == Spec => PullKeepsUnsyncedFile
<1>1. ASSUME IInv, Next, NEW p \in Procs, NEW s \in todo[p] \ todo'[p],
             opts[p].cmd = "pull", ~opts[p].force,
             files[s.path] # Absent,
             files[s.path] = seenLocal[p][s.path],
             files'[s.path] # files[s.path]
      PROVE  \E t \in todo[p] :
               t.path = s.path /\ files[s.path] \in onServer[t.id]
  <2>1. PICK t \in todo[p] : Pulls(t, opts[p].force) /\ t.path = s.path
    <3>1. s.path \in Paths
      BY <1>1 DEF IInv, TypeOK, Status
    <3>. QED
      BY <1>1, <3>1, FileWriter DEF IInv
  <2>2. Justified(p, t)
    BY <1>1 DEF IInv, TodoJustified
  <2>3. t.state = "remote-modified"
    BY <1>1, <2>1, <2>2 DEF Pulls, Justified
  <2>. QED
    BY <1>1, <2>1, <2>2, <2>3 DEF Justified
<1>2. IInv /\ [Next]_vars =>
        [\A p \in Procs : \A s \in todo[p] \ todo'[p] :
           /\ opts[p].cmd = "pull" /\ ~opts[p].force
           /\ files[s.path] # Absent
           /\ files[s.path] = seenLocal[p][s.path]
           /\ files'[s.path] # files[s.path]
           => \E t \in todo[p] :
                t.path = s.path /\ files[s.path] \in onServer[t.id]]_vars
  BY <1>1
<1>. QED
  BY <1>2, Invariance, PTL DEF Spec, PullKeepsUnsyncedFile

(* An unforced push replaces what its scan saw only if the file has had that*)
(* content (push.ts:144-189).                                              *)
THEOREM PushKeepsUnsynced == Spec => PushKeepsUnsyncedScript
<1>1. ASSUME IInv, NEW p \in Procs,
             Arrives(p), ~opts[p].force, ~upload[p].create,
             objects[upload[p].id].source = seenRemote[p][upload[p].id].source
      PROVE  objects[upload[p].id].source \in onDisk[upload[p].path]
  BY <1>1 DEF Arrives, IInv, UploadJustified
<1>2. IInv /\ [Next]_vars =>
        [\A p \in Procs : LET u == upload[p] IN
           /\ Arrives(p) /\ ~opts[p].force /\ ~u.create
           /\ objects[u.id] \notin {Absent, Stub}
           /\ seenRemote[p][u.id] # Absent
           /\ objects[u.id].source = seenRemote[p][u.id].source
           => objects[u.id].source \in onDisk[u.path]]_vars
  BY <1>1
<1>. QED
  BY <1>2, Invariance, PTL DEF Spec, PushKeepsUnsyncedScript

=============================================================================
