------------------------- MODULE DestructiveProofs -------------------------
(***************************************************************************)
(* Theorems about Destructive, for every set of scripts and commands,      *)
(* whatever the server makes of a copy, and however often others edit.     *)
(***************************************************************************)
EXTENDS Destructive, TLAPS

USE DEF Paths

-----------------------------------------------------------------------------
(* Things and jobs *)

(* A thing is only one thing.                                              *)
LEMMA Apart ==
  /\ \A a, b : Obj(a) = Obj(b) => a = b
  /\ \A a, b : Obj(a) # File(b)
  /\ \A a, b, k : Obj(a) # Mark(b, k) /\ File(a) # Mark(b, k)
  /\ \A a, b, k : State # Obj(a) /\ State # Mark(b, k)
BY DEF Obj, File, Mark, State

LEMMA ThingTypes ==
  /\ \A id \in Ids : Obj(id) \in Things
  /\ \A path \in Paths : File(path) \in Things
  /\ \A id \in Ids, k \in Marks : Mark(id, k) \in Things
  /\ State \in Things
BY DEF Things

(* The command line of a job.                                              *)
LEMMA RequestFacts ==
  ASSUME NEW j \in Job
  PROVE  /\ j.req \in Request /\ j.req.id \in Ids /\ j.req.to \in Ids /\ j.req.path \in Paths
         /\ j.req.cmd \in Commands
         /\ j.req.pattern \subseteq Ids
<1>1. j.req \in Request
  BY DEF Job
<1> QED BY <1>1 DEF Request

(* The order of the phases leads to phases, or to the end.                 *)
LEMMA StepsClosed ==
  ASSUME NEW cmd \in Commands,
         NEW phase \in DOMAIN Steps(cmd)
  PROVE  /\ Steps(cmd)[phase] \in DOMAIN Steps(cmd) \cup {"end"}
         /\ phase \in Phases
         /\ phase # "end"
BY DEF Steps, removeSteps, renameSteps, moveSteps, newSteps, toggleSteps,
       backupSteps, Commands, Phases

(* Going on changes the phase and nothing else.                            *)
LEMMA OnwardFacts ==
  ASSUME NEW j \in Job, NEW phase, j.phase = phase, phase \in DOMAIN Steps(j.req.cmd)
  PROVE  LET next == Steps(j.req.cmd)[phase]
             k == Onward(j)
         IN  \/ next = "end" /\ k = Over
             \/ /\ next # "end" /\ next \in DOMAIN Steps(j.req.cmd)
                /\ k \in Job /\ k.phase = next /\ k.req = j.req /\ k.script = j.script
                /\ k.found = j.found /\ k.complete = j.complete /\ k.at = j.at
                /\ k.mem = j.mem /\ k.chosen = j.chosen /\ k.left = j.left
                /\ k.was = j.was /\ k.listed = j.listed /\ k.dir = j.dir
<1> DEFINE next == Steps(j.req.cmd)[phase]
<1>1. next \in DOMAIN Steps(j.req.cmd) \cup {"end"}
  BY RequestFacts, StepsClosed
<1>2. CASE next = "end"
  BY <1>2 DEF Onward
<1>3. CASE next # "end"
  <2>1. Onward(j) = [j EXCEPT !.phase = next]
    BY <1>3 DEF Onward
  <2>2. next \in Phases
    BY <1>1, <1>3, RequestFacts, StepsClosed
  <2> HIDE DEF next
  <2>3. LET k == [j EXCEPT !.phase = next]
        IN  /\ k \in Job /\ k.phase = next /\ k.req = j.req /\ k.script = j.script
            /\ k.found = j.found /\ k.complete = j.complete /\ k.at = j.at
            /\ k.mem = j.mem /\ k.chosen = j.chosen /\ k.left = j.left
            /\ k.was = j.was /\ k.listed = j.listed /\ k.dir = j.dir
    BY <2>2 DEF Job
  <2> QED BY <1>1, <1>3, <2>1, <2>3 DEF next
<1> QED BY <1>2, <1>3

(* The script fetched, the manifest loaded, ...                            *)
LEMMA ScriptFacts ==
  ASSUME NEW j \in Job, NEW script \in Script \cup {Absent}
  PROVE  LET k == [j EXCEPT !.script = script]
         IN  /\ k \in Job /\ k.phase = j.phase /\ k.req = j.req /\ k.script = script
             /\ k.found = j.found /\ k.complete = j.complete /\ k.at = j.at
             /\ k.mem = j.mem /\ k.chosen = j.chosen /\ k.left = j.left
BY DEF Job

LEMMA MemFacts ==
  ASSUME NEW j \in Job, NEW mem \in Rows
  PROVE  LET k == [j EXCEPT !.mem = mem]
         IN  /\ k \in Job /\ k.phase = j.phase /\ k.req = j.req /\ k.script = j.script
             /\ k.found = j.found /\ k.complete = j.complete /\ k.at = j.at
             /\ k.mem = mem /\ k.chosen = j.chosen /\ k.left = j.left
BY DEF Job

LEMMA WasFacts ==
  ASSUME NEW j \in Job, NEW was \in States \cup {Absent}
  PROVE  LET k == [j EXCEPT !.was = was]
         IN  /\ k \in Job /\ k.phase = j.phase /\ k.req = j.req /\ k.script = j.script
             /\ k.found = j.found /\ k.complete = j.complete /\ k.at = j.at
             /\ k.mem = j.mem /\ k.chosen = j.chosen /\ k.left = j.left
BY DEF Job

(* ... the markers found, and the one a sweep is at, ...                   *)
LEMMA FoundFacts ==
  ASSUME NEW j \in Job, NEW found \in SUBSET Leftover
  PROVE  LET k == [j EXCEPT !.found = found]
         IN  /\ k \in Job /\ k.phase = j.phase /\ k.req = j.req /\ k.script = j.script
             /\ k.found = found /\ k.complete = j.complete /\ k.at = j.at
             /\ k.mem = j.mem /\ k.chosen = j.chosen /\ k.left = j.left
BY DEF Job

LEMMA AtFacts ==
  ASSUME NEW j \in Job, NEW at \in Marks \cup Ids \cup {Absent}
  PROVE  LET k == [j EXCEPT !.at = at]
         IN  /\ k \in Job /\ k.phase = j.phase /\ k.req = j.req /\ k.script = j.script
             /\ k.found = j.found /\ k.complete = j.complete /\ k.at = at
             /\ k.mem = j.mem /\ k.chosen = j.chosen /\ k.left = j.left
BY DEF Job

LEMMA SweptFacts ==
  ASSUME NEW j \in Job, NEW e
  PROVE  LET k == [j EXCEPT !.found = @ \ {e}, !.at = Absent]
         IN  /\ k \in Job /\ k.phase = j.phase /\ k.req = j.req /\ k.script = j.script
             /\ k.found = j.found \ {e} /\ k.complete = j.complete /\ k.at = Absent
             /\ k.mem = j.mem /\ k.chosen = j.chosen /\ k.left = j.left
BY DEF Job

(* ... and the scripts to start or stop.                                   *)
LEMMA ChosenFacts ==
  ASSUME NEW j \in Job, NEW chosen \in SUBSET Ids, NEW left \in SUBSET Ids
  PROVE  LET k == [j EXCEPT !.chosen = chosen, !.left = left]
         IN  /\ k \in Job /\ k.phase = j.phase /\ k.req = j.req /\ k.script = j.script
             /\ k.found = j.found /\ k.complete = j.complete /\ k.at = j.at
             /\ k.mem = j.mem /\ k.chosen = chosen /\ k.left = left
BY DEF Job

LEMMA ToggledFacts ==
  ASSUME NEW j \in Job, NEW id
  PROVE  LET k == [j EXCEPT !.at = Absent, !.left = @ \ {id}]
         IN  /\ k \in Job /\ k.phase = j.phase /\ k.req = j.req /\ k.script = j.script
             /\ k.found = j.found /\ k.complete = j.complete /\ k.at = Absent
             /\ k.mem = j.mem /\ k.chosen = j.chosen /\ k.left = j.left \ {id}
BY DEF Job

-----------------------------------------------------------------------------
(* Steps *)

(* The types of the two sides, the manifest and the trash.                 *)
WorldOK ==
  /\ files \in Files
  /\ objects \in [Ids -> Script \cup {Absent, Stub}]
  /\ manifest \in Rows
  /\ marks \in [Ids -> [Marks -> SUBSET Halves]]
  /\ trash \subseteq [id : Ids, script : Script]

(* Objects and markers only change where it is noted.                      *)
NotedIn(news) ==
  /\ \A id \in Ids : objects'[id] = objects[id] \/ Obj(id) \in news
  /\ \A id \in Ids, k \in Marks : marks'[id][k] = marks[id][k] \/ Mark(id, k) \in news

(* What a command knows stays so while others change what it will notice.  *)
LEMMA SoundKept ==
  ASSUME NEW j \in Job, NEW old, NEW news, old \subseteq news, NotedIn(news),
         trash \subseteq trash', JobSound(j, objects, marks, trash, old)
  PROVE  JobSound(j, objects', marks', trash', news)
<1>1. /\ j.req.id \in Ids /\ j.req.to \in Ids /\ j.chosen \subseteq Ids
  BY RequestFacts DEF Job
<1>2. JobShape(j)
  BY DEF JobSound
<1>3. ScriptKnown(j, objects', news)
  BY <1>1 DEF JobSound, ScriptKnown, NotedIn
<1>4. BackedUp(j, trash')
  BY DEF JobSound, BackedUp
<1>5. MarksKnown(j, marks', news)
  BY <1>1 DEF JobSound, MarksKnown, NotedIn
<1>6. TargetsKnown(j, objects', news)
  BY <1>1 DEF JobSound, TargetsKnown, NotedIn
<1> QED BY <1>2, <1>3, <1>4, <1>5, <1>6 DEF JobSound

(* Command p has ended, or goes on as a sound job.                         *)
GoesOnAs(p, k, news) ==
  k = Over \/ (k \in Job /\ JobSound(k, objects', marks', trash', news))

SavedOK == snapshots \in [Moments -> Snapshot \cup {Absent}] /\ crowded \subseteq Moments

(* A turn of one command, as all the others take it.                       *)
LEMMA Goings ==
  ASSUME JobsInv, NEW p \in Procs, NEW k, NEW read, NEW wrote \in SUBSET Things,
         Going(p, k, read, wrote), GoesOnAs(p, k, touched[p] \ read),
         WorldOK', SavedOK', trash \subseteq trash', NotedIn(wrote)
  PROVE  /\ TypeOK'
         /\ \A q \in Procs : Running(q)' =>
              JobSound(jobs'[q], objects', marks', trash', touched'[q])
<1>1. /\ jobs \in [Procs -> Job \cup {Absent, Over}] /\ touched \in [Procs -> SUBSET Things]
      /\ edits \in 0 .. MaxEdits
  BY DEF JobsInv, TypeOK
<1>2. /\ jobs' = [jobs EXCEPT ![p] = k] /\ edits' = edits
      /\ touched' = [q \in Procs |->
           CASE q = p -> IF k = Over THEN {} ELSE touched[q] \ read
             [] q # p /\ Running(q) -> touched[q] \cup wrote
             [] OTHER -> {}]
  BY DEF Going
<1>3. touched' \in [Procs -> SUBSET Things]
  <2>1. ASSUME NEW q \in Procs
        PROVE  (CASE q = p -> IF k = Over THEN {} ELSE touched[q] \ read
                  [] q # p /\ Running(q) -> touched[q] \cup wrote
                  [] OTHER -> {}) \in SUBSET Things
    BY <1>1
  <2> QED BY <1>2, <2>1
<1>4. jobs' \in [Procs -> Job \cup {Absent, Over}]
  BY <1>1, <1>2 DEF GoesOnAs
<1>5. TypeOK'
  BY <1>1, <1>2, <1>3, <1>4 DEF TypeOK, WorldOK, SavedOK
<1>6. ASSUME NEW q \in Procs, jobs'[q] \notin {Absent, Over}
      PROVE  JobSound(jobs'[q], objects', marks', trash', touched'[q])
  <2>1. CASE q = p
    <3>1. jobs'[q] = k /\ k # Over
      BY <1>1, <1>2, <1>6, <2>1
    <3>2. touched'[q] = touched[p] \ read
      BY <1>2, <2>1, <3>1
    <3> QED BY <3>1, <3>2 DEF GoesOnAs
  <2>2. CASE q # p
    <3>1. jobs'[q] = jobs[q] /\ Running(q)
      BY <1>1, <1>2, <1>6, <2>2 DEF Running
    <3>2. touched'[q] = touched[q] \cup wrote
      BY <1>2, <2>2, <3>1
    <3>3. jobs[q] \in Job /\ JobSound(jobs[q], objects, marks, trash, touched[q])
      BY <1>1, <3>1 DEF JobsInv, Running
    <3>4. NotedIn(touched[q] \cup wrote)
      BY DEF NotedIn
    <3> QED BY <3>1, <3>2, <3>3, <3>4, SoundKept
  <2> QED BY <2>1, <2>2
<1> QED BY <1>5, <1>6 DEF Running

(* Nothing happens to the snapshots while no backup goes on.               *)
LEMMA SnapshotsKept ==
  ASSUME JobsInv, UNCHANGED saved,
         \A q \in Procs : At(q, "snapshot")' => At(q, "snapshot") /\ jobs'[q] = jobs[q]
  PROVE  SnapshotsSound' /\ SavedOK'
<1>1. snapshots' = snapshots /\ crowded' = crowded
  BY DEF saved
<1>2. SavedOK'
  BY <1>1 DEF JobsInv, TypeOK, SavedOK
<1>3. ASSUME SnapshotsGo
      PROVE  SnapshotsGo'
  BY <1>1, <1>3 DEF SnapshotsGo
<1>4. SnapshotWhole => SnapshotWhole'
  BY <1>1 DEF SnapshotWhole
<1>5. \A q \in Procs : At(q, "snapshot")' => snapshots'[jobs'[q].dir] # Absent
  BY <1>1 DEF JobsInv, SnapshotsSound
<1> QED BY <1>2, <1>3, <1>4, <1>5 DEF JobsInv, SnapshotsSound

(* A turn of one command that does not write a snapshot then.              *)
LEMMA Turns ==
  ASSUME JobsInv, NEW p \in Procs, NEW k, NEW read, NEW wrote \in SUBSET Things,
         Turn(p, k, read, wrote), GoesOnAs(p, k, touched[p] \ read),
         k = Over \/ k.phase # "snapshot",
         WorldOK', trash \subseteq trash', NotedIn(wrote)
  PROVE  JobsInv'
<1>1. Going(p, k, read, wrote) /\ UNCHANGED saved
  BY DEF Turn
<1>2. jobs' = [jobs EXCEPT ![p] = k] /\ jobs \in [Procs -> Job \cup {Absent, Over}]
  BY <1>1 DEF Going, JobsInv, TypeOK
<1>3. \A q \in Procs : At(q, "snapshot")' => At(q, "snapshot") /\ jobs'[q] = jobs[q]
  BY <1>2 DEF At, Running
<1>4. SnapshotsSound' /\ SavedOK'
  BY <1>1, <1>3, SnapshotsKept
<1>5. /\ TypeOK'
      /\ \A q \in Procs : Running(q)' =>
           JobSound(jobs'[q], objects', marks', trash', touched'[q])
  BY <1>1, <1>4, Goings
<1> QED BY <1>4, <1>5 DEF JobsInv

(* A turn that only reads.                                                 *)
LEMMA Reads ==
  ASSUME JobsInv, NEW p \in Procs, NEW k, NEW read, Turn(p, k, read, {}), UNCHANGED world,
         \/ k = Over
         \/ /\ k \in Job /\ k.phase # "snapshot"
            /\ JobSound(k, objects, marks, trash, touched[p] \ read)
  PROVE  JobsInv'
<1>1. UNCHANGED <<files, objects, manifest, marks, trash>>
  BY DEF world
<1>2. WorldOK' /\ trash \subseteq trash' /\ NotedIn({})
  BY <1>1 DEF JobsInv, TypeOK, WorldOK, NotedIn
<1>3. GoesOnAs(p, k, touched[p] \ read)
  BY <1>1 DEF GoesOnAs
<1> QED BY <1>2, <1>3, Turns

(* What a command is, where it is.                                         *)
LEMMA JobAt ==
  ASSUME JobsInv, NEW p \in Procs, NEW phase, At(p, phase)
  PROVE  /\ jobs[p] \in Job /\ JobSound(jobs[p], objects, marks, trash, touched[p])
         /\ jobs[p].phase = phase
         /\ phase \in DOMAIN Steps(jobs[p].req.cmd)
         /\ jobs[p].req \in Request /\ jobs[p].req.id \in Ids /\ jobs[p].req.to \in Ids
         /\ jobs[p].req.path \in Paths
         /\ jobs[p].req.cmd \in
              Commands
<1>1. /\ jobs[p] \in Job /\ JobSound(jobs[p], objects, marks, trash, touched[p])
      /\ jobs[p].phase = phase
  BY DEF JobsInv, TypeOK, At, Running
<1>2. phase \in DOMAIN Steps(jobs[p].req.cmd)
  BY <1>1 DEF JobSound, JobShape
<1> QED BY <1>1, <1>2, RequestFacts

(* The server's listing.                                                   *)
LEMMA ScanFacts ==
  ASSUME JobsInv, NEW id \in Ids
  PROVE  /\ scanRemote(objects)[id] \in Script \cup {Absent}
         /\ scanRemote(objects)[id] # Absent => objects[id] = scanRemote(objects)[id]
         /\ scanRemote(objects)[id] = Absent => objects[id] \notin Script
BY RecordsAssumption DEF JobsInv, TypeOK, scanRemote

-----------------------------------------------------------------------------
(* Starting and ending *)

LEMMA InvStart ==
  ASSUME JobsInv, NEW p \in Procs, NEW req \in Requests, Start(p, req)
  PROVE  JobsInv'
<1> DEFINE k == [req |-> req, phase |-> FirstPhase(req.cmd), script |-> Absent,
                 found |-> {}, complete |-> TRUE, at |-> Absent,
                 mem |-> [id \in Ids |-> Absent], chosen |-> {}, left |-> {},
                 was |-> Absent, listed |-> NoScripts, dir |-> Absent]
<1>1. req \in Request
  BY DestructiveAssumption
<1>2. /\ FirstPhase(req.cmd) \in DOMAIN Steps(req.cmd)
      /\ FirstPhase(req.cmd) \in {"fetch", "targets"}
      /\ FirstPhase(req.cmd) = "targets" => req.cmd \notin {"remove", "rename", "move", "new"}
  BY <1>1 DEF FirstPhase, Request, Steps, removeSteps, renameSteps, moveSteps, newSteps,
              toggleSteps, backupSteps, Commands
<1>3. k \in Job
  BY <1>1, <1>2 DEF Job, Rows, Phases, NoScripts, Scripts
<1>4. /\ k.req = req /\ k.phase = FirstPhase(req.cmd) /\ k.script = Absent /\ k.found = {}
      /\ k.at = Absent /\ k.chosen = {} /\ k.left = {}
  OBVIOUS
<1>5. Turn(p, k, {}, {}) /\ UNCHANGED world
  BY DEF Start
<1> HIDE DEF k
<1>6. JobShape(k)
  BY <1>1, <1>2, <1>4 DEF JobShape, Moving, Request
<1>7. ScriptKnown(k, objects, touched[p] \ {}) /\ BackedUp(k, trash)
  BY <1>2, <1>4 DEF ScriptKnown, BackedUp
<1>8. /\ MarksKnown(k, marks, touched[p] \ {})
      /\ TargetsKnown(k, objects, touched[p] \ {})
  BY <1>2, <1>4, DestructiveAssumption DEF MarksKnown, TargetsKnown
<1> QED BY <1>2, <1>3, <1>4, <1>5, <1>6, <1>7, <1>8, Reads DEF JobSound

LEMMA InvAbort ==
  ASSUME JobsInv, NEW p \in Procs, Abort(p)
  PROVE  JobsInv'
BY Reads DEF Abort

-----------------------------------------------------------------------------
(* Reading, action by action *)

(* Which phase follows which.                                              *)
LEMMA NextPhases ==
  ASSUME NEW cmd \in Commands,
         NEW phase \in DOMAIN Steps(cmd)
  PROVE  LET next == Steps(cmd)[phase]
         IN  /\ phase = "fetch" => \/ cmd = "remove" /\ next = "leftovers"
                                   \/ cmd \in Moving /\ next = "target"
                                   \/ cmd = "new" /\ next = "folders"
             /\ phase = "leftovers" => cmd = "remove" /\ next = "load"
             /\ phase = "target" => cmd \in Moving /\ next \in {"create", "folders"}
             /\ phase = "folders" => cmd \in {"move", "new"} /\ next = "create"
             /\ phase = "load" => \/ cmd = "remove" /\ next = "backup"
                                  \/ cmd \in Moving /\ next = "movefile"
                                  \/ cmd = "new" /\ next = "save"
             /\ phase = "list" => cmd \in Moving \cup {"remove"} /\ next = "sweep"
             /\ phase = "sweep" => \/ cmd = "remove" /\ next = "unlink"
                                   \/ cmd \in Moving /\ next = "load"
             /\ phase = "create" => \/ cmd \in Moving /\ next = "verify"
                                    \/ cmd = "new" /\ next = "write"
             /\ phase = "verify" => cmd \in Moving /\ next = "backup"
             /\ phase = "backup" => cmd \in Moving \cup {"remove"} /\ next = "delete"
             /\ phase = "delete" => cmd \in Moving \cup {"remove"} /\ next = "list"
             /\ phase = "unlink" => cmd = "remove" /\ next = "save"
             /\ phase = "movefile" => cmd \in Moving /\ next = "save"
             /\ phase = "write" => cmd = "new" /\ next = "load"
             /\ phase = "save" => cmd \in Moving \cup {"remove", "new"} /\ next = "end"
             /\ phase = "targets" => \/ cmd \in {"start", "stop", "restart"} /\ next = "toggle"
                                     \/ cmd = "backup" /\ next = "mkdir"
             /\ phase = "toggle" => cmd \in {"start", "stop", "restart"} /\ next = "end"
             /\ phase = "mkdir" => cmd = "backup" /\ next = "snapshot"
             /\ phase = "snapshot" => cmd = "backup" /\ next = "end"
BY DEF Moving, Steps, removeSteps, renameSteps, moveSteps, newSteps, toggleSteps,
       backupSteps, Commands

(* The script is read, and refused or held.                                *)
LEMMA InvFetch ==
  ASSUME JobsInv, NEW p \in Procs, Fetch(p)
  PROVE  JobsInv'
<1> DEFINE j == jobs[p]
           id == j.req.id
           script == scanRemote(objects)[id]
           refused == \/ /\ j.req.cmd \in {"rename", "move"}
                         /\ script = Absent \/ j.req.to = id
                      \/ j.req.cmd = "new" /\ script # Absent
           i == [j EXCEPT !.script = script]
           k == Onward(i)
           news == touched[p] \ {Obj(id)}
<1>0. At(p, "fetch")
  BY DEF Fetch
<1>1. /\ j \in Job /\ JobSound(j, objects, marks, trash, touched[p]) /\ j.phase = "fetch"
      /\ "fetch" \in DOMAIN Steps(j.req.cmd) /\ id \in Ids
      /\ j.req.cmd \in Commands
  BY <1>0, JobAt
<1>2. Turn(p, IF refused THEN Over ELSE k, {Obj(id)}, {}) /\ UNCHANGED world
  BY DEF Fetch
<1>3. CASE refused
  BY <1>2, <1>3, Reads
<1>4. CASE ~refused
  <2>1. /\ script \in Script \cup {Absent}
        /\ script # Absent => objects[id] = script
        /\ script = Absent => objects[id] \notin Script
    BY <1>1, ScanFacts
  <2>2. /\ j.req.cmd \in Moving => script # Absent /\ j.req.to # id
        /\ j.req.cmd = "new" => script = Absent
    BY <1>4 DEF Moving
  <2>3. Turn(p, k, {Obj(id)}, {})
    BY <1>2, <1>4
  <2> HIDE DEF script, refused
  <2>4. /\ i \in Job /\ i.phase = "fetch" /\ i.req = j.req /\ i.script = script
        /\ i.found = j.found /\ i.complete = j.complete /\ i.at = j.at
        /\ i.mem = j.mem /\ i.chosen = j.chosen /\ i.left = j.left
    BY <1>1, <2>1, ScriptFacts
  <2> HIDE DEF i
  <2>5. /\ \/ j.req.cmd = "remove" /\ k.phase = "leftovers"
           \/ j.req.cmd \in Moving /\ k.phase = "target"
           \/ j.req.cmd = "new" /\ k.phase = "folders"
        /\ k.phase \in DOMAIN Steps(j.req.cmd)
        /\ k \in Job /\ k.req = j.req /\ k.script = script
        /\ k.found = j.found /\ k.complete = j.complete /\ k.at = j.at
        /\ k.chosen = j.chosen /\ k.left = j.left
    BY <1>1, <2>4, OnwardFacts, NextPhases
  <2>6. j.req.cmd = "new" => j.req.to = id
    BY <1>1, DestructiveAssumption DEF JobSound, JobShape
  <2>7. /\ JobShape(j) /\ j.at = Absent
        /\ MarksKnown(j, marks, touched[p])
    BY <1>1 DEF JobSound, JobShape, Unlisted
  <2> HIDE DEF j, k, id
  <2>8. JobShape(k)
    BY <2>2, <2>5, <2>7 DEF JobShape, Moving, id
  <2>9. ScriptKnown(k, objects, news) /\ BackedUp(k, trash)
    BY <2>1, <2>2, <2>5, <2>6 DEF ScriptKnown, BackedUp, Moving, id
  <2>10. MarksKnown(k, marks, news) /\ TargetsKnown(k, objects, news)
    BY <1>1, <2>5, <2>7, Apart DEF MarksKnown, TargetsKnown, id
  <2>11. JobSound(k, objects, marks, trash, touched[p] \ {Obj(id)})
    BY <2>8, <2>9, <2>10 DEF JobSound
  <2> QED BY <1>2, <2>3, <2>5, <2>11, Reads
<1> QED BY <1>3, <1>4

(* The new id is free.                                                     *)
LEMMA InvCheckTarget ==
  ASSUME JobsInv, NEW p \in Procs, CheckTarget(p)
  PROVE  JobsInv'
<1> DEFINE j == jobs[p]
           k == Onward(j)
           taken == scanRemote(objects)[j.req.to] # Absent
           news == touched[p] \ {Obj(j.req.to)}
<1>0. At(p, "target")
  BY DEF CheckTarget
<1>1. /\ j \in Job /\ JobSound(j, objects, marks, trash, touched[p]) /\ j.phase = "target"
      /\ "target" \in DOMAIN Steps(j.req.cmd) /\ j.req.to \in Ids
      /\ j.req.cmd \in Commands
  BY <1>0, JobAt
<1>2. Turn(p, IF taken THEN Over ELSE k, {Obj(j.req.to)}, {}) /\ UNCHANGED world
  BY DEF CheckTarget
<1>3. CASE taken
  BY <1>2, <1>3, Reads
<1>4. CASE ~taken
  <2>1. objects[j.req.to] \notin Script
    BY <1>1, <1>4, ScanFacts
  <2>2. Turn(p, k, {Obj(j.req.to)}, {})
    BY <1>2, <1>4
  <2>3. /\ j.req.cmd \in Moving /\ k.phase \in {"create", "folders"}
        /\ k.phase \in DOMAIN Steps(j.req.cmd)
        /\ k \in Job /\ k.req = j.req /\ k.script = j.script
        /\ k.found = j.found /\ k.complete = j.complete /\ k.at = j.at
        /\ k.chosen = j.chosen /\ k.left = j.left
    BY <1>1, OnwardFacts, NextPhases
  <2> HIDE DEF j, k, taken
  <2>4. /\ JobShape(j) /\ j.at = Absent /\ j.script # Absent /\ j.req.to # j.req.id
        /\ MarksKnown(j, marks, touched[p])
        /\ Obj(j.req.id) \notin touched[p] => objects[j.req.id] = j.script
    BY <1>1, <2>3 DEF JobSound, JobShape, Unlisted, Undeleted, ScriptKnown
  <2>5. JobShape(k)
    BY <2>3, <2>4 DEF JobShape, Moving
  <2>6. ScriptKnown(k, objects, news) /\ BackedUp(k, trash)
    BY <2>1, <2>3, <2>4, Apart DEF ScriptKnown, BackedUp
  <2>7. MarksKnown(k, marks, news) /\ TargetsKnown(k, objects, news)
    BY <1>1, <2>3, <2>4, Apart DEF MarksKnown, TargetsKnown
  <2>8. JobSound(k, objects, marks, trash, touched[p] \ {Obj(j.req.to)})
    BY <2>5, <2>6, <2>7 DEF JobSound
  <2> QED BY <1>2, <2>2, <2>3, <2>8, Reads
<1> QED BY <1>3, <1>4

LEMMA InvEnsureFolders ==
  ASSUME JobsInv, NEW p \in Procs, EnsureFolders(p)
  PROVE  JobsInv'
<1> DEFINE j == jobs[p]
           k == Onward(j)
<1>0. At(p, "folders")
  BY DEF EnsureFolders
<1>1. /\ j \in Job /\ JobSound(j, objects, marks, trash, touched[p]) /\ j.phase = "folders"
      /\ "folders" \in DOMAIN Steps(j.req.cmd)
      /\ j.req.cmd \in Commands
  BY <1>0, JobAt
<1>2. Turn(p, k, {}, {}) /\ UNCHANGED world
  BY DEF EnsureFolders
<1>3. /\ j.req.cmd \in {"move", "new"} /\ k.phase = "create"
      /\ k.phase \in DOMAIN Steps(j.req.cmd)
      /\ k \in Job /\ k.req = j.req /\ k.script = j.script
      /\ k.found = j.found /\ k.complete = j.complete /\ k.at = j.at
      /\ k.chosen = j.chosen /\ k.left = j.left
  BY <1>1, OnwardFacts, NextPhases
<1> HIDE DEF j, k
<1>4. JobShape(k)
  BY <1>1, <1>3 DEF JobSound, JobShape, Unlisted, Moving
<1>5. ScriptKnown(k, objects, touched[p] \ {}) /\ BackedUp(k, trash)
  BY <1>1, <1>3 DEF JobSound, JobShape, ScriptKnown, BackedUp, Undeleted
<1>6. MarksKnown(k, marks, touched[p] \ {}) /\ TargetsKnown(k, objects, touched[p] \ {})
  BY <1>1, <1>3 DEF JobSound, MarksKnown, TargetsKnown
<1> QED BY <1>2, <1>3, <1>4, <1>5, <1>6, Reads DEF JobSound

(* A state before a rename is a state.                                     *)
LEMMA StateBeforeType ==
  ASSUME NEW j, NEW row, j.script # Absent
  PROVE  StateBefore(j, row) \in States \cup {Absent}
BY DEF StateBefore, TrackedState, ThreeWay, States

(* The manifest is loaded, and what is to be done with it decided.         *)
LEMMA InvLoad ==
  ASSUME JobsInv, NEW p \in Procs, Load(p)
  PROVE  JobsInv'
<1> DEFINE j == jobs[p]
           i == [j EXCEPT !.mem = manifest]
           row == manifest[j.req.id]
           moves == j.req.cmd \in {"rename", "move"}
           sweepOnly == j.req.cmd = "remove" /\ j.script = Absent
           was == StateBefore(i, row)
           after == CASE moves /\ row = Absent         -> Over
                      [] moves /\ row # Absent         -> Onward([i EXCEPT !.was = was])
                      [] sweepOnly /\ i.found = {}     -> Over
                      [] sweepOnly /\ i.found # {}     -> [i EXCEPT !.phase = "sweep"]
                      [] OTHER -> Onward([i EXCEPT !.found = {}])
           read == {State} \cup {File(path) : path \in Paths}
           news == touched[p] \ read
<1>0. At(p, "load")
  BY DEF Load
<1>1. /\ j \in Job /\ JobSound(j, objects, marks, trash, touched[p]) /\ j.phase = "load"
      /\ "load" \in DOMAIN Steps(j.req.cmd) /\ j.req.id \in Ids
      /\ j.req.cmd \in Commands
  BY <1>0, JobAt
<1>2. manifest \in Rows /\ row \in Row \cup {Absent}
  BY <1>1 DEF JobsInv, TypeOK, Rows
<1>3. /\ i \in Job /\ i.phase = "load" /\ i.req = j.req /\ i.script = j.script
      /\ i.found = j.found /\ i.complete = j.complete /\ i.at = j.at
      /\ i.mem = manifest /\ i.chosen = j.chosen /\ i.left = j.left
  BY <1>1, <1>2, MemFacts
<1>4. Turn(p, after, read, {}) /\ UNCHANGED world
  <2>1. i.req = j.req /\ i.script = j.script
    BY <1>3
  <2> QED BY <2>1 DEF Load
<1>5. /\ JobShape(j) /\ MarksKnown(j, marks, touched[p])
      /\ j.script # Absent /\ Undeleted(j) /\ Obj(j.req.id) \notin touched[p]
           => objects[j.req.id] = j.script
  BY <1>1 DEF JobSound, ScriptKnown
<1>6. /\ \A id \in Ids : Obj(id) \notin read
      /\ \A id \in Ids, m \in Marks : Mark(id, m) \notin read
  BY Apart
<1> HIDE DEF i, was, read, row
<1>7. MarksKnown(i, marks, news)
  BY <1>1, <1>3, <1>5, <1>6 DEF MarksKnown
<1>8. CASE after = Over
  BY <1>4, <1>8, Reads
<1>9. CASE moves /\ row # Absent
  <2> DEFINE w == [i EXCEPT !.was = was]
             k == Onward(w)
  <2>1. Turn(p, k, read, {})
    <3>1. after = k
      BY <1>9
    <3> QED BY <1>4, <3>1
  <2>2. j.script # Absent /\ j.req.to # j.req.id
    BY <1>1, <1>5, <1>9 DEF JobShape, Moving
  <2>3. was \in States \cup {Absent}
    BY <1>3, <2>2, StateBeforeType DEF was
  <2>4. /\ w \in Job /\ w.phase = "load" /\ w.req = j.req /\ w.script = j.script
        /\ w.found = j.found /\ w.complete = j.complete /\ w.at = j.at
        /\ w.mem = manifest /\ w.chosen = j.chosen /\ w.left = j.left
    BY <1>3, <2>3, WasFacts
  <2> HIDE DEF w
  <2>5. /\ j.req.cmd \in Moving /\ k.phase = "movefile"
        /\ k.phase \in DOMAIN Steps(j.req.cmd)
        /\ k \in Job /\ k.req = j.req /\ k.script = j.script /\ k.mem = manifest
        /\ k.found = j.found /\ k.complete = j.complete /\ k.at = j.at
        /\ k.chosen = j.chosen /\ k.left = j.left
    BY <1>1, <1>9, <2>4, OnwardFacts, NextPhases DEF Moving
  <2> HIDE DEF j, k
  <2>6. JobShape(k)
    BY <1>5, <1>9, <2>2, <2>5 DEF JobShape, Unlisted, Undeleted, Moving, row
  <2>7. ScriptKnown(k, objects, news) /\ BackedUp(k, trash) /\ TargetsKnown(k, objects, news)
    BY <2>5 DEF ScriptKnown, BackedUp, TargetsKnown, Undeleted
  <2>8. MarksKnown(k, marks, news)
    BY <1>3, <1>7, <2>5 DEF MarksKnown
  <2>9. JobSound(k, objects, marks, trash, touched[p] \ read)
    BY <2>6, <2>7, <2>8 DEF JobSound
  <2> QED BY <1>4, <2>1, <2>5, <2>9, Reads
<1>10. CASE ~moves /\ sweepOnly /\ i.found # {}
  <2> DEFINE k == [i EXCEPT !.phase = "sweep"]
  <2>1. Turn(p, k, read, {})
    <3>1. after = k
      BY <1>10
    <3> QED BY <1>4, <3>1
  <2>2. /\ k \in Job /\ k.phase = "sweep" /\ k.req = j.req /\ k.script = j.script
        /\ k.found = i.found /\ k.complete = i.complete /\ k.at = i.at
        /\ k.mem = manifest /\ k.chosen = j.chosen /\ k.left = j.left
    BY <1>3 DEF Job, Phases
  <2>3. "sweep" \in DOMAIN Steps(j.req.cmd)
    BY <1>10 DEF Steps, removeSteps
  <2> HIDE DEF j, k
  <2>4. JobShape(k)
    BY <1>5, <1>10, <2>2, <2>3 DEF JobShape, Unlisted, Undeleted, Moving
  <2>5. ScriptKnown(k, objects, news) /\ BackedUp(k, trash) /\ TargetsKnown(k, objects, news)
    BY <2>2 DEF ScriptKnown, BackedUp, TargetsKnown, Undeleted
  <2>6. MarksKnown(k, marks, news)
    BY <1>3, <1>7, <2>2 DEF MarksKnown
  <2>7. JobSound(k, objects, marks, trash, touched[p] \ read)
    BY <2>4, <2>5, <2>6 DEF JobSound
  <2> QED BY <1>4, <2>1, <2>2, <2>7, Reads
<1>11. CASE ~moves /\ ~sweepOnly
  <2> DEFINE f == [i EXCEPT !.found = {}]
             k == Onward(f)
  <2>1. Turn(p, k, read, {})
    <3>1. after = k
      BY <1>11
    <3> QED BY <1>4, <3>1
  <2>2. /\ f \in Job /\ f.phase = "load" /\ f.req = j.req /\ f.script = j.script
        /\ f.found = {} /\ f.complete = j.complete /\ f.at = j.at
        /\ f.mem = manifest /\ f.chosen = j.chosen /\ f.left = j.left
    BY <1>3, FoundFacts
  <2> HIDE DEF f
  <2>3. /\ \/ j.req.cmd = "remove" /\ k.phase = "backup" /\ j.script # Absent
           \/ j.req.cmd = "new" /\ k.phase = "save"
        /\ k.phase \in DOMAIN Steps(j.req.cmd)
        /\ k \in Job /\ k.req = j.req /\ k.script = j.script /\ k.mem = manifest
        /\ k.found = {} /\ k.complete = j.complete /\ k.at = j.at
        /\ k.chosen = j.chosen /\ k.left = j.left
    BY <1>1, <1>11, <2>2, OnwardFacts, NextPhases DEF Moving
  <2> HIDE DEF j, k
  <2>4. JobShape(k)
    BY <1>1, <1>5, <2>3 DEF JobShape, Unlisted, Undeleted, Moving
  <2>5. ScriptKnown(k, objects, news)
    BY <1>1, <1>5, <1>6, <2>3 DEF ScriptKnown, Undeleted, Moving
  <2>6. BackedUp(k, trash) /\ TargetsKnown(k, objects, news)
    BY <2>3 DEF BackedUp, TargetsKnown
  <2>7. MarksKnown(k, marks, news)
    BY <1>1, <1>5, <1>6, <2>3 DEF MarksKnown
  <2>8. JobSound(k, objects, marks, trash, touched[p] \ read)
    BY <2>4, <2>5, <2>6, <2>7 DEF JobSound
  <2> QED BY <1>4, <2>1, <2>3, <2>8, Reads
<1> QED BY <1>8, <1>9, <1>10, <1>11

(* The markers are listed.                                                 *)
LEMMA InvListMarkers ==
  ASSUME JobsInv, NEW p \in Procs, ListMarkers(p)
  PROVE  JobsInv'
<1> DEFINE j == jobs[p]
           id == j.req.id
           seen == {Mark(id, m) : m \in Marks}
           news == touched[p] \ seen
<1>1. PICK phase \in {"leftovers", "list"} : At(p, phase)
  BY DEF ListMarkers
<1>2. /\ j \in Job /\ JobSound(j, objects, marks, trash, touched[p]) /\ j.phase = phase
      /\ phase \in DOMAIN Steps(j.req.cmd) /\ id \in Ids
      /\ j.req.cmd \in Commands
  BY <1>1, JobAt
<1>3. PICK read \in SUBSET Halves :
        Turn(p, Onward([j EXCEPT !.found = Listed(id, read), !.complete = (read = Halves)]),
             seen, {})
  BY DEF ListMarkers
<1>4. UNCHANGED world
  BY DEF ListMarkers
<1> DEFINE found == Listed(id, read)
<1>4a. PICK complete \in BOOLEAN : complete = (read = Halves)
  OBVIOUS
<1> DEFINE i == [j EXCEPT !.found = found, !.complete = complete]
           k == Onward(i)
<1>5. found \in SUBSET Leftover
  BY DEF Listed
<1>6. read = Halves => \A e \in found : e.value \/ "value" \notin marks[id][e.mark]
  BY DEF Listed, Halves
<1>7. Turn(p, k, seen, {})
  BY <1>3, <1>4a
<1> HIDE DEF j, found
<1>8. /\ i \in Job /\ i.phase = phase /\ i.req = j.req /\ i.script = j.script
      /\ i.found = found /\ i.complete = complete /\ i.at = j.at
      /\ i.mem = j.mem /\ i.chosen = j.chosen /\ i.left = j.left
  BY <1>2, <1>5 DEF Job
<1> HIDE DEF i
<1>9. /\ \/ phase = "leftovers" /\ j.req.cmd = "remove" /\ k.phase = "load"
         \/ phase = "list" /\ j.req.cmd \in Moving \cup {"remove"} /\ k.phase = "sweep"
      /\ k.phase \in DOMAIN Steps(j.req.cmd)
      /\ k \in Job /\ k.req = j.req /\ k.script = j.script
      /\ k.found = found /\ (k.complete => read = Halves) /\ k.at = j.at
      /\ k.chosen = j.chosen /\ k.left = j.left
  <2> DEFINE next == Steps(j.req.cmd)[phase]
  <2>1. \/ phase = "leftovers" /\ j.req.cmd = "remove" /\ next = "load"
        \/ phase = "list" /\ j.req.cmd \in Moving \cup {"remove"} /\ next = "sweep"
    BY <1>2, NextPhases
  <2>2. /\ k.phase = next /\ next \in DOMAIN Steps(j.req.cmd)
        /\ k \in Job /\ k.req = j.req /\ k.script = j.script
        /\ k.found = found /\ k.complete = complete /\ k.at = j.at
        /\ k.chosen = j.chosen /\ k.left = j.left
    BY <1>2, <1>8, <2>1, OnwardFacts
  <2> HIDE DEF next, k
  <2> QED BY <1>4a, <2>1, <2>2
<1>10. /\ JobShape(j) /\ j.at = Absent
       /\ phase = "leftovers" /\ j.script # Absent /\ Obj(id) \notin touched[p]
            => objects[id] = j.script
  BY <1>2 DEF JobSound, JobShape, ScriptKnown, Unlisted, Undeleted
<1>11. Obj(id) \notin seen
  BY Apart
<1> HIDE DEF j, k, seen
<1>12. JobShape(k)
  BY <1>2, <1>9, <1>10 DEF JobShape, Unlisted, Undeleted, Moving
<1>13. ScriptKnown(k, objects, news)
  BY <1>9, <1>10, <1>11 DEF ScriptKnown, Undeleted, Moving
<1>14. BackedUp(k, trash) /\ TargetsKnown(k, objects, news)
  BY <1>9 DEF BackedUp, TargetsKnown
<1>15. MarksKnown(k, marks, news)
  BY <1>6, <1>9, <1>10, DestructiveAssumption DEF MarksKnown
<1>16. JobSound(k, objects, marks, trash, touched[p] \ seen)
  BY <1>12, <1>13, <1>14, <1>15 DEF JobSound
<1> QED BY <1>4, <1>7, <1>9, <1>16, Reads

-----------------------------------------------------------------------------
(* Sweeping markers, action by action *)

(* What deleting halves of a marker does to all of them.                   *)
LEMMA MarksGone ==
  ASSUME NEW id \in Ids, NEW m \in Marks, NEW gone, marks \in [Ids -> [Marks -> SUBSET Halves]],
         marks' = [marks EXCEPT ![id][m] = @ \ gone]
  PROVE  /\ marks' \in [Ids -> [Marks -> SUBSET Halves]]
         /\ marks'[id][m] = marks[id][m] \ gone
         /\ \A a \in Ids, k \in Marks : a # id \/ k # m => marks'[a][k] = marks[a][k]
<1> DEFINE row == [marks[id] EXCEPT ![m] = @ \ gone]
<1>1. row \in [Marks -> SUBSET Halves] /\ row[m] = marks[id][m] \ gone
      /\ \A k \in Marks \ {m} : row[k] = marks[id][k]
  OBVIOUS
<1>2. marks' = [marks EXCEPT ![id] = row]
  OBVIOUS
<1> HIDE DEF row
<1> QED BY <1>1, <1>2

(* A step of a sweep that leaves the command sweeping.                     *)
LEMMA Sweeps ==
  ASSUME JobsInv, NEW p \in Procs, At(p, "sweep"), NEW k \in Job, NEW m \in Marks,
         NEW wrote \in SUBSET Things, Turn(p, k, {}, wrote), NotedIn(wrote),
         k.phase = "sweep", k.req = jobs[p].req, k.script = jobs[p].script,
         k.complete = jobs[p].complete, k.found \subseteq jobs[p].found,
         k.chosen = jobs[p].chosen, k.left = jobs[p].left,
         k.at = Absent \/ (k.at = m /\ "value" \notin marks'[jobs[p].req.id][m]),
         marks' \in [Ids -> [Marks -> SUBSET Halves]],
         marks'[jobs[p].req.id][m] \subseteq marks[jobs[p].req.id][m],
         \A a \in Ids, n \in Marks : a # jobs[p].req.id \/ n # m => marks'[a][n] = marks[a][n],
         UNCHANGED <<files, objects, manifest, trash>>
  PROVE  JobsInv'
<1> DEFINE j == jobs[p]
<1>1. /\ j \in Job /\ JobSound(j, objects, marks, trash, touched[p]) /\ j.phase = "sweep"
      /\ j.req.id \in Ids
  BY JobAt
<1>2. JobShape(k)
  BY <1>1 DEF JobSound, JobShape, Unlisted, Undeleted
<1>3. ScriptKnown(k, objects', touched[p] \ {}) /\ BackedUp(k, trash')
      /\ TargetsKnown(k, objects', touched[p] \ {})
  BY DEF ScriptKnown, BackedUp, TargetsKnown, Undeleted
<1>4. \A n \in Marks : marks'[j.req.id][n] \subseteq marks[j.req.id][n]
  BY <1>1
<1>5. MarksKnown(k, marks', touched[p] \ {})
  <2> SUFFICES ASSUME k.complete, NEW n \in Marks, Mark(j.req.id, n) \notin touched[p]
               PROVE  /\ \A e \in k.found : e.mark = n => e.value \/ "value" \notin marks'[j.req.id][n]
                      /\ k.at = n => "value" \notin marks'[j.req.id][n]
    BY DEF MarksKnown
  <2>1. \A e \in j.found : e.mark = n => e.value \/ "value" \notin marks[j.req.id][n]
    BY <1>1 DEF JobSound, MarksKnown
  <2>2. Absent \notin Marks
    BY DestructiveAssumption
  <2> QED BY <1>4, <2>1, <2>2
<1>6. GoesOnAs(p, k, touched[p] \ {})
  BY <1>2, <1>3, <1>5 DEF GoesOnAs, JobSound
<1>7. WorldOK' /\ trash \subseteq trash'
  BY DEF WorldOK, JobsInv, TypeOK
<1> QED BY <1>6, <1>7, Turns

(* A leftover a sweep may be at.                                           *)
LEMMA SweepingFacts ==
  ASSUME JobsInv, NEW p \in Procs, NEW e \in Sweeping(p)
  PROVE  /\ At(p, "sweep") /\ e \in jobs[p].found /\ e.mark \in Marks
         /\ jobs[p].at \in {Absent, e.mark}
         /\ jobs[p] \in Job /\ jobs[p].req.id \in Ids /\ jobs[p].phase = "sweep"
         /\ marks \in [Ids -> [Marks -> SUBSET Halves]]
<1>1. At(p, "sweep") /\ e \in jobs[p].found /\ jobs[p].at \in {Absent, e.mark}
  BY DEF Sweeping
<1>2. jobs[p] \in Job /\ jobs[p].req.id \in Ids /\ jobs[p].phase = "sweep"
  BY <1>1, JobAt
<1>3. e \in Leftover
  BY <1>1, <1>2 DEF Job
<1> QED BY <1>1, <1>2, <1>3 DEF Leftover, JobsInv, TypeOK

LEMMA InvSweepValue ==
  ASSUME JobsInv, NEW p \in Procs, SweepValue(p)
  PROVE  JobsInv'
<1> DEFINE j == jobs[p]
<1>1. PICK e \in Sweeping(p), gone \in {{"value"}, Halves} :
        /\ marks' = [marks EXCEPT ![j.req.id][e.mark] = @ \ gone]
        /\ Turn(p, IF e.object /\ j.at = Absent THEN [j EXCEPT !.at = e.mark]
                   ELSE [j EXCEPT !.found = @ \ {e}, !.at = Absent],
                {}, {Mark(j.req.id, e.mark)})
        /\ UNCHANGED <<files, objects, manifest, trash>>
  BY DEF SweepValue
<1>2. /\ At(p, "sweep") /\ e \in j.found /\ e.mark \in Marks /\ j \in Job
      /\ j.req.id \in Ids /\ j.phase = "sweep"
      /\ marks \in [Ids -> [Marks -> SUBSET Halves]]
  BY SweepingFacts
<1>3. /\ marks' \in [Ids -> [Marks -> SUBSET Halves]]
      /\ marks'[j.req.id][e.mark] = marks[j.req.id][e.mark] \ gone
      /\ \A a \in Ids, n \in Marks : a # j.req.id \/ n # e.mark => marks'[a][n] = marks[a][n]
  BY <1>1, <1>2, MarksGone
<1>4. "value" \notin marks'[j.req.id][e.mark]
  BY <1>3 DEF Halves
<1>4a. /\ {Mark(j.req.id, e.mark)} \in SUBSET Things /\ NotedIn({Mark(j.req.id, e.mark)})
      /\ marks'[j.req.id][e.mark] \subseteq marks[j.req.id][e.mark]
  BY <1>1, <1>2, <1>3, ThingTypes DEF NotedIn
<1>4b. UNCHANGED <<files, objects, manifest, trash>>
  BY <1>1
<1>5. CASE e.object /\ j.at = Absent
  <2> DEFINE k == [j EXCEPT !.at = e.mark]
  <2>1. Turn(p, k, {}, {Mark(j.req.id, e.mark)})
    BY <1>1, <1>5
  <2>2. /\ k \in Job /\ k.phase = j.phase /\ k.req = j.req /\ k.script = j.script
        /\ k.found = j.found /\ k.complete = j.complete /\ k.at = e.mark
        /\ k.mem = j.mem /\ k.chosen = j.chosen /\ k.left = j.left
    BY <1>2, AtFacts
  <2> HIDE DEF j, k
  <2> QED BY <1>2, <1>3, <1>4, <1>4a, <1>4b, <2>1, <2>2, Sweeps DEF j
<1>6. CASE ~(e.object /\ j.at = Absent)
  <2> DEFINE k == [j EXCEPT !.found = @ \ {e}, !.at = Absent]
  <2>1. Turn(p, k, {}, {Mark(j.req.id, e.mark)})
    BY <1>1, <1>6
  <2>2. /\ k \in Job /\ k.phase = j.phase /\ k.req = j.req /\ k.script = j.script
        /\ k.found = j.found \ {e} /\ k.complete = j.complete /\ k.at = Absent
        /\ k.mem = j.mem /\ k.chosen = j.chosen /\ k.left = j.left
    BY <1>2, SweptFacts
  <2> HIDE DEF j, k
  <2> QED BY <1>2, <1>3, <1>4a, <1>4b, <2>1, <2>2, Sweeps DEF j
<1> QED BY <1>5, <1>6

LEMMA InvSweepObject ==
  ASSUME JobsInv, NEW p \in Procs, SweepObject(p)
  PROVE  JobsInv'
<1> DEFINE j == jobs[p]
<1>1. PICK e \in Sweeping(p) :
        /\ marks' = [marks EXCEPT ![j.req.id][e.mark] = @ \ {"object"}]
        /\ Turn(p, [j EXCEPT !.found = @ \ {e}, !.at = Absent],
                {}, {Mark(j.req.id, e.mark)})
        /\ UNCHANGED <<files, objects, manifest, trash>>
  BY DEF SweepObject
<1> DEFINE k == [j EXCEPT !.found = @ \ {e}, !.at = Absent]
<1>2. /\ At(p, "sweep") /\ e \in j.found /\ e.mark \in Marks /\ j \in Job
      /\ j.req.id \in Ids /\ j.phase = "sweep"
      /\ marks \in [Ids -> [Marks -> SUBSET Halves]]
  BY SweepingFacts
<1>3. /\ marks' \in [Ids -> [Marks -> SUBSET Halves]]
      /\ marks'[j.req.id][e.mark] = marks[j.req.id][e.mark] \ {"object"}
      /\ \A a \in Ids, n \in Marks : a # j.req.id \/ n # e.mark => marks'[a][n] = marks[a][n]
  <2> HIDE DEF j
  <2> QED BY <1>1, <1>2, MarksGone
<1>4. /\ k \in Job /\ k.phase = j.phase /\ k.req = j.req /\ k.script = j.script
      /\ k.found = j.found \ {e} /\ k.complete = j.complete /\ k.at = Absent
      /\ k.mem = j.mem /\ k.chosen = j.chosen /\ k.left = j.left
  BY <1>2, SweptFacts
<1>5. Turn(p, k, {}, {Mark(j.req.id, e.mark)})
  BY <1>1
<1>6. /\ {Mark(j.req.id, e.mark)} \in SUBSET Things /\ NotedIn({Mark(j.req.id, e.mark)})
      /\ marks'[j.req.id][e.mark] \subseteq marks[j.req.id][e.mark]
  BY <1>1, <1>2, <1>3, ThingTypes DEF NotedIn
<1>7. UNCHANGED <<files, objects, manifest, trash>>
  BY <1>1
<1> HIDE DEF k
<1> QED BY <1>2, <1>3, <1>4, <1>5, <1>6, <1>7, Sweeps

LEMMA InvSweepFails ==
  ASSUME JobsInv, NEW p \in Procs, SweepFails(p)
  PROVE  JobsInv'
<1> DEFINE j == jobs[p]
<1>1. PICK e \in Sweeping(p) :
        Turn(p, [j EXCEPT !.found = @ \ {e}, !.at = Absent], {}, {}) /\ UNCHANGED world
  BY DEF SweepFails
<1> DEFINE k == [j EXCEPT !.found = @ \ {e}, !.at = Absent]
<1>2. /\ At(p, "sweep") /\ e \in j.found /\ e.mark \in Marks /\ j \in Job
      /\ j.req.id \in Ids /\ j.phase = "sweep"
      /\ marks \in [Ids -> [Marks -> SUBSET Halves]]
  BY SweepingFacts
<1>3. /\ k \in Job /\ k.phase = j.phase /\ k.req = j.req /\ k.script = j.script
      /\ k.found = j.found \ {e} /\ k.complete = j.complete /\ k.at = Absent
      /\ k.mem = j.mem /\ k.chosen = j.chosen /\ k.left = j.left
  BY <1>2, SweptFacts
<1>4. Turn(p, k, {}, {}) /\ UNCHANGED <<files, objects, manifest, marks, trash>>
  BY <1>1 DEF world
<1>5. {} \in SUBSET Things /\ NotedIn({})
  BY <1>4 DEF NotedIn
<1> HIDE DEF k
<1> QED BY <1>2, <1>3, <1>4, <1>5, Sweeps

(* A sweep is through.                                                     *)
LEMMA InvSweepEnds ==
  ASSUME JobsInv, NEW p \in Procs, SweepEnds(p)
  PROVE  JobsInv'
<1> DEFINE j == jobs[p]
           k == Onward(j)
<1>0. At(p, "sweep")
  BY DEF SweepEnds
<1>1. /\ j \in Job /\ JobSound(j, objects, marks, trash, touched[p]) /\ j.phase = "sweep"
      /\ "sweep" \in DOMAIN Steps(j.req.cmd)
      /\ j.req.cmd \in Commands
  BY <1>0, JobAt
<1>2. Turn(p, IF j.script = Absent THEN Over ELSE k, {}, {}) /\ UNCHANGED world
  BY DEF SweepEnds
<1>3. CASE j.script = Absent
  BY <1>2, <1>3, Reads
<1>4. CASE j.script # Absent
  <2>1. Turn(p, k, {}, {})
    BY <1>2, <1>4
  <2>2. /\ \/ j.req.cmd = "remove" /\ k.phase = "unlink"
           \/ j.req.cmd \in Moving /\ k.phase = "load"
        /\ k.phase \in DOMAIN Steps(j.req.cmd)
        /\ k \in Job /\ k.req = j.req /\ k.script = j.script
        /\ k.found = j.found /\ k.complete = j.complete /\ k.at = j.at
        /\ k.chosen = j.chosen /\ k.left = j.left
    BY <1>1, OnwardFacts, NextPhases
  <2> HIDE DEF j, k
  <2>3. JobShape(k)
    BY <1>1, <1>4, <2>2 DEF JobSound, JobShape, Unlisted, Undeleted, Moving
  <2>4. /\ ScriptKnown(k, objects, touched[p] \ {}) /\ BackedUp(k, trash)
        /\ TargetsKnown(k, objects, touched[p] \ {})
    BY <2>2 DEF ScriptKnown, BackedUp, TargetsKnown, Undeleted, Moving
  <2>5. MarksKnown(k, marks, touched[p] \ {})
    BY <1>1, <2>2 DEF JobSound, MarksKnown
  <2> QED BY <1>2, <2>1, <2>2, <2>3, <2>4, <2>5, Reads DEF JobSound
<1> QED BY <1>3, <1>4

-----------------------------------------------------------------------------
(* The script on the server, action by action *)

(* What a command creates is a script, or what the server makes of it.     *)
LEMMA CreatedType ==
  ASSUME NEW j \in Job, j.req.cmd # "new" => j.script # Absent
  PROVE  {Created(j)} \cup Mangled(j) \subseteq Script \cup {Absent}
<1>1. Created(j) \in Script
  <2>1. CASE j.req.cmd # "new"
    BY <2>1 DEF Created, Job
  <2>2. CASE j.req.cmd = "new"
    <3>1. j.req.path \in Paths
      BY RequestFacts
    <3> QED BY <2>2, <3>1, DestructiveAssumption DEF Created, Script
  <2> QED BY <2>1, <2>2
<1>2. \A s \in Sources : [Created(j) EXCEPT !.source = s] \in Script
  BY <1>1 DEF Script
<1> QED BY <1>1, <1>2 DEF Mangled

LEMMA InvCreate ==
  ASSUME JobsInv, NEW p \in Procs, Create(p)
  PROVE  JobsInv'
<1> DEFINE j == jobs[p]
           k == Onward(j)
           to == j.req.to
<1>0. At(p, "create")
  BY DEF Create
<1>1. /\ j \in Job /\ JobSound(j, objects, marks, trash, touched[p]) /\ j.phase = "create"
      /\ "create" \in DOMAIN Steps(j.req.cmd) /\ to \in Ids /\ j.req.id \in Ids
      /\ j.req.cmd \in Commands
  BY <1>0, JobAt
<1>2. PICK script \in {Created(j)} \cup Mangled(j) : objects' = [objects EXCEPT ![to] = script]
  BY DEF Create
<1>3. Turn(p, k, {}, {Obj(to)}) /\ UNCHANGED <<files, manifest, marks, trash>>
  BY DEF Create
<1>4. /\ \/ j.req.cmd \in Moving /\ k.phase = "verify"
         \/ j.req.cmd = "new" /\ k.phase = "write"
      /\ k.phase \in DOMAIN Steps(j.req.cmd)
      /\ k \in Job /\ k.req = j.req /\ k.script = j.script
      /\ k.found = j.found /\ k.complete = j.complete /\ k.at = j.at
      /\ k.chosen = j.chosen /\ k.left = j.left
  BY <1>1, OnwardFacts, NextPhases
<1>5. /\ JobShape(j) /\ j.at = Absent
      /\ j.req.cmd \in Moving => j.script # Absent /\ to # j.req.id
      /\ j.script # Absent /\ Obj(j.req.id) \notin touched[p] => objects[j.req.id] = j.script
      /\ MarksKnown(j, marks, touched[p])
  BY <1>1 DEF JobSound, JobShape, Unlisted, Undeleted, ScriptKnown
<1>6. script \in Script \cup {Absent}
  BY <1>1, <1>2, <1>4, <1>5, CreatedType DEF Moving
<1>7. /\ objects' \in [Ids -> Script \cup {Absent, Stub}]
      /\ \A id \in Ids \ {to} : objects'[id] = objects[id]
  BY <1>1, <1>2, <1>6 DEF JobsInv, TypeOK
<1>8. WorldOK' /\ trash \subseteq trash'
  BY <1>3, <1>7 DEF WorldOK, JobsInv, TypeOK
<1>9. NotedIn({Obj(to)}) /\ {Obj(to)} \in SUBSET Things
  BY <1>1, <1>3, <1>7, ThingTypes DEF NotedIn
<1> HIDE DEF j, k
<1>10. JobShape(k)
  BY <1>1, <1>4, <1>5 DEF JobShape, Unlisted, Undeleted, Moving
<1>11. ScriptKnown(k, objects', touched[p] \ {})
  BY <1>1, <1>4, <1>5, <1>7 DEF ScriptKnown, Undeleted, Moving, JobShape
<1>12. /\ BackedUp(k, trash') /\ TargetsKnown(k, objects', touched[p] \ {})
       /\ MarksKnown(k, marks', touched[p] \ {})
  BY <1>1, <1>3, <1>4, <1>5 DEF BackedUp, TargetsKnown, MarksKnown
<1>13. GoesOnAs(p, k, touched[p] \ {})
  BY <1>4, <1>10, <1>11, <1>12 DEF GoesOnAs, JobSound
<1> QED BY <1>3, <1>4, <1>8, <1>9, <1>13, Turns

(* The copy is as good as what was fetched.                                *)
LEMMA InvVerify ==
  ASSUME JobsInv, NEW p \in Procs, Verify(p)
  PROVE  JobsInv'
<1> DEFINE j == jobs[p]
           k == Onward(j)
           copy == scanRemote(objects)[j.req.to]
           news == touched[p] \ {Obj(j.req.to)}
<1>0. At(p, "verify")
  BY DEF Verify
<1>1. /\ j \in Job /\ JobSound(j, objects, marks, trash, touched[p]) /\ j.phase = "verify"
      /\ "verify" \in DOMAIN Steps(j.req.cmd) /\ j.req.to \in Ids
      /\ j.req.cmd \in Commands
  BY <1>0, JobAt
<1>2. /\ Turn(p, IF CopyMatches(copy, j.script) THEN k ELSE Over, {Obj(j.req.to)}, {})
      /\ UNCHANGED world
  BY DEF Verify
<1>3. CASE ~CopyMatches(copy, j.script)
  BY <1>2, <1>3, Reads
<1>4. CASE CopyMatches(copy, j.script)
  <2>1. objects[j.req.to] \in Script /\ objects[j.req.to].source = j.script.source
    <3>1. /\ copy \in Script \cup {Absent}
          /\ copy # Absent => objects[j.req.to] = copy
      BY <1>1, ScanFacts
    <3> HIDE DEF copy
    <3> QED BY <1>4, <3>1 DEF CopyMatches
  <2>2. Turn(p, k, {Obj(j.req.to)}, {})
    BY <1>2, <1>4
  <2>3. /\ j.req.cmd \in Moving /\ k.phase = "backup"
        /\ k.phase \in DOMAIN Steps(j.req.cmd)
        /\ k \in Job /\ k.req = j.req /\ k.script = j.script
        /\ k.found = j.found /\ k.complete = j.complete /\ k.at = j.at
        /\ k.chosen = j.chosen /\ k.left = j.left
    BY <1>1, OnwardFacts, NextPhases
  <2>4. /\ JobShape(j) /\ j.at = Absent /\ j.script # Absent /\ j.req.to # j.req.id
        /\ MarksKnown(j, marks, touched[p])
        /\ Obj(j.req.id) \notin touched[p] => objects[j.req.id] = j.script
    BY <1>1, <2>3 DEF JobSound, JobShape, Unlisted, Undeleted, ScriptKnown
  <2> HIDE DEF j, k, copy
  <2>5. JobShape(k)
    BY <2>3, <2>4 DEF JobShape, Moving
  <2>6. ScriptKnown(k, objects, news)
    BY <2>1, <2>3, <2>4, Apart DEF ScriptKnown
  <2>7. BackedUp(k, trash) /\ TargetsKnown(k, objects, news)
    BY <2>3 DEF BackedUp, TargetsKnown
  <2>8. MarksKnown(k, marks, news)
    BY <1>1, <2>3, <2>4, Apart DEF MarksKnown
  <2>9. JobSound(k, objects, marks, trash, touched[p] \ {Obj(j.req.to)})
    BY <2>5, <2>6, <2>7, <2>8 DEF JobSound
  <2> QED BY <1>2, <2>2, <2>3, <2>9, Reads
<1> QED BY <1>3, <1>4

(* The whole object goes to the trash.                                     *)
LEMMA InvBackup ==
  ASSUME JobsInv, NEW p \in Procs, Backup(p)
  PROVE  JobsInv'
<1> DEFINE j == jobs[p]
           k == Onward(j)
           item == [id |-> j.req.id, script |-> j.script]
<1>0. At(p, "backup")
  BY DEF Backup
<1>1. /\ j \in Job /\ JobSound(j, objects, marks, trash, touched[p]) /\ j.phase = "backup"
      /\ "backup" \in DOMAIN Steps(j.req.cmd) /\ j.req.id \in Ids
      /\ j.req.cmd \in Commands
  BY <1>0, JobAt
<1>2. /\ trash' = trash \cup {item} /\ Turn(p, k, {}, {})
      /\ UNCHANGED <<files, objects, manifest, marks>>
  BY DEF Backup
<1>3. /\ j.req.cmd \in Moving \cup {"remove"} /\ k.phase = "delete"
      /\ k.phase \in DOMAIN Steps(j.req.cmd)
      /\ k \in Job /\ k.req = j.req /\ k.script = j.script
      /\ k.found = j.found /\ k.complete = j.complete /\ k.at = j.at
      /\ k.chosen = j.chosen /\ k.left = j.left
  BY <1>1, OnwardFacts, NextPhases
<1>4. JobShape(j) /\ j.at = Absent /\ j.script # Absent /\ j.script \in Script
  BY <1>1, <1>3 DEF JobSound, JobShape, Unlisted, Undeleted, Job, Moving
<1>5. item \in [id : Ids, script : Script]
  BY <1>1, <1>4
<1>6. item = [id |-> k.req.id, script |-> k.script]
  BY <1>3
<1> HIDE DEF item
<1>7. WorldOK' /\ trash \subseteq trash' /\ NotedIn({})
  BY <1>2, <1>5 DEF WorldOK, NotedIn, JobsInv, TypeOK
<1> HIDE DEF j, k
<1>8. JobShape(k)
  BY <1>1, <1>3, <1>4 DEF JobShape, Unlisted, Undeleted, Moving
<1>9. ScriptKnown(k, objects', touched[p] \ {})
  BY <1>1, <1>2, <1>3 DEF JobSound, ScriptKnown, Undeleted
<1>10. BackedUp(k, trash')
  BY <1>2, <1>6 DEF BackedUp
<1>11. TargetsKnown(k, objects', touched[p] \ {}) /\ MarksKnown(k, marks', touched[p] \ {})
  BY <1>1, <1>2, <1>3 DEF JobSound, TargetsKnown, MarksKnown
<1>12. GoesOnAs(p, k, touched[p] \ {})
  BY <1>3, <1>8, <1>9, <1>10, <1>11 DEF GoesOnAs, JobSound
<1> QED BY <1>2, <1>3, <1>7, <1>12, Turns

LEMMA InvDelete ==
  ASSUME JobsInv, NEW p \in Procs, Delete(p)
  PROVE  JobsInv'
<1> DEFINE j == jobs[p]
           k == Onward(j)
           id == j.req.id
<1>0. At(p, "delete")
  BY DEF Delete
<1>1. /\ j \in Job /\ JobSound(j, objects, marks, trash, touched[p]) /\ j.phase = "delete"
      /\ "delete" \in DOMAIN Steps(j.req.cmd) /\ id \in Ids
      /\ j.req.cmd \in Commands
  BY <1>0, JobAt
<1>2. /\ objects' = [objects EXCEPT ![id] = Absent] /\ Turn(p, k, {}, {Obj(id)})
      /\ UNCHANGED <<files, manifest, marks, trash>>
  BY DEF Delete
<1>3. /\ j.req.cmd \in Moving \cup {"remove"} /\ k.phase = "list"
      /\ k.phase \in DOMAIN Steps(j.req.cmd)
      /\ k \in Job /\ k.req = j.req /\ k.script = j.script
      /\ k.found = j.found /\ k.complete = j.complete /\ k.at = j.at
      /\ k.chosen = j.chosen /\ k.left = j.left
  BY <1>1, OnwardFacts, NextPhases
<1>4. /\ objects' \in [Ids -> Script \cup {Absent, Stub}]
      /\ \A a \in Ids \ {id} : objects'[a] = objects[a]
  BY <1>1, <1>2 DEF JobsInv, TypeOK
<1>5. WorldOK' /\ trash \subseteq trash'
  BY <1>2, <1>4 DEF WorldOK, JobsInv, TypeOK
<1>6. NotedIn({Obj(id)}) /\ {Obj(id)} \in SUBSET Things
  BY <1>1, <1>2, <1>4, ThingTypes DEF NotedIn
<1> HIDE DEF j, k
<1>7. JobShape(k)
  BY <1>1, <1>3 DEF JobSound, JobShape, Unlisted, Undeleted, Moving
<1>8. ScriptKnown(k, objects', touched[p] \ {})
  BY <1>3 DEF ScriptKnown, Undeleted
<1>9. BackedUp(k, trash') /\ TargetsKnown(k, objects', touched[p] \ {})
      /\ MarksKnown(k, marks', touched[p] \ {})
  BY <1>1, <1>2, <1>3 DEF JobSound, BackedUp, TargetsKnown, MarksKnown
<1>10. GoesOnAs(p, k, touched[p] \ {})
  BY <1>3, <1>7, <1>8, <1>9 DEF GoesOnAs, JobSound
<1> QED BY <1>2, <1>3, <1>5, <1>6, <1>10, Turns

-----------------------------------------------------------------------------
(* The file and the manifest, action by action *)

(* A job before its manifest is saved, or loaded, knows little.            *)
LEMMA Settled ==
  ASSUME NEW k \in Job, NEW j \in Job, NEW news, NEW there, NEW markers, NEW bin,
         JobSound(j, objects, marks, trash, news), markers = marks,
         \/ k.phase = "save" /\ j.phase \in {"unlink", "movefile"}
         \/ k.phase = "load" /\ j.phase = "write" /\ j.req.cmd = "new",
         k.phase \in DOMAIN Steps(j.req.cmd),
         k.req = j.req, k.script = j.script, k.found = j.found, k.complete = j.complete,
         k.at = j.at, k.mem = j.mem, k.chosen = j.chosen, k.left = j.left
  PROVE  JobSound(k, there, markers, bin, news)
<1>1. JobShape(k)
  <2>1. JobShape(j) /\ j.phase \in DOMAIN Steps(j.req.cmd)
    BY DEF JobSound, JobShape
  <2>2. j.req.cmd \in Commands
    BY RequestFacts
  <2>3. /\ j.phase = "unlink" => j.req.cmd = "remove"
        /\ j.phase = "movefile" => j.req.cmd \in Moving
    BY <2>1, <2>2, NextPhases
  <2>4. CASE k.phase = "load" /\ j.req.cmd = "new"
    BY <2>1, <2>4 DEF JobShape, Unlisted, Undeleted, Moving
  <2>5. CASE k.phase = "save" /\ j.phase = "unlink"
    BY <2>1, <2>3, <2>5 DEF JobShape, Unlisted, Undeleted, Moving
  <2>6. CASE k.phase = "save" /\ j.phase = "movefile"
    BY <2>1, <2>3, <2>6 DEF JobShape, Unlisted, Undeleted, Moving
  <2> QED BY <2>4, <2>5, <2>6
<1>2. ScriptKnown(k, there, news) /\ BackedUp(k, bin) /\ TargetsKnown(k, there, news)
  BY DEF ScriptKnown, BackedUp, TargetsKnown, Undeleted, Moving
<1>3. MarksKnown(k, markers, news)
  BY DEF JobSound, MarksKnown
<1> QED BY <1>1, <1>2, <1>3 DEF JobSound

(* Steps that only write files.                                            *)
LEMMA Filing ==
  ASSUME JobsInv, NEW p \in Procs, NEW k, NEW wrote \in SUBSET Things, Turn(p, k, {}, wrote),
         k \in Job /\ k.phase # "snapshot" /\ JobSound(k, objects, marks, trash, touched[p]),
         files' \in Files, UNCHANGED <<objects, manifest, marks, trash>>
  PROVE  JobsInv'
<1>1. WorldOK' /\ trash \subseteq trash' /\ NotedIn(wrote)
  BY DEF WorldOK, NotedIn, JobsInv, TypeOK
<1>2. GoesOnAs(p, k, touched[p] \ {})
  BY DEF GoesOnAs
<1> QED BY <1>1, <1>2, Turns

LEMMA InvUnlink ==
  ASSUME JobsInv, NEW p \in Procs, Unlink(p)
  PROVE  JobsInv'
<1> DEFINE j == jobs[p]
           k == Onward(j)
           wanted == j.req.deleteLocal /\ j.mem[j.req.id] # Absent
           path == j.mem[j.req.id].path
           wrote == IF wanted THEN {File(path)} ELSE {}
<1>0. At(p, "unlink")
  BY DEF Unlink
<1>1. /\ j \in Job /\ JobSound(j, objects, marks, trash, touched[p]) /\ j.phase = "unlink"
      /\ "unlink" \in DOMAIN Steps(j.req.cmd) /\ j.req.id \in Ids
      /\ j.req.cmd \in Commands
  BY <1>0, JobAt
<1>2. /\ \/ UNCHANGED files
         \/ wanted /\ files' = [files EXCEPT ![path] = Absent]
      /\ Turn(p, k, {}, wrote)
      /\ UNCHANGED <<objects, manifest, marks, trash>>
  BY DEF Unlink
<1>3. /\ k.phase = "save" /\ k.phase \in DOMAIN Steps(j.req.cmd)
      /\ k \in Job /\ k.req = j.req /\ k.script = j.script /\ k.mem = j.mem
      /\ k.found = j.found /\ k.complete = j.complete /\ k.at = j.at
      /\ k.chosen = j.chosen /\ k.left = j.left
  BY <1>1, OnwardFacts, NextPhases
<1>4. wanted => path \in Paths
  BY <1>1 DEF Job, Rows, Row
<1> HIDE DEF path, wanted
<1>5. wrote \in SUBSET Things
  BY <1>4, ThingTypes
<1>6. files' \in Files
  BY <1>2 DEF JobsInv, TypeOK, Files
<1> HIDE DEF j, k, wrote
<1>7. JobSound(k, objects, marks, trash, touched[p])
  BY <1>1, <1>3, Settled
<1> QED BY <1>2, <1>3, <1>5, <1>6, <1>7, Filing

(* The new path of a renamed script.                                       *)
LEMMA RenamedPathType ==
  ASSUME NEW j \in Job, j.mem[j.req.id] # Absent
  PROVE  /\ j.mem[j.req.id] \in Row
         /\ j.mem[j.req.id].path \in Paths
         /\ RenamedPath(j) \in Paths
<1>1. j.req.id \in Ids /\ j.req.to \in Ids
  BY RequestFacts
<1>2. j.mem[j.req.id] \in Row
  BY <1>1 DEF Job, Rows
<1> QED BY <1>1, <1>2, NamingAssumption DEF Row, RenamedPath, idToRelPath

LEMMA InvMoveFile ==
  ASSUME JobsInv, NEW p \in Procs, MoveFile(p)
  PROVE  JobsInv'
<1> DEFINE j == jobs[p]
           old == j.mem[j.req.id].path
           new == RenamedPath(j)
<1>0. At(p, "movefile")
  BY DEF MoveFile
<1>1. /\ j \in Job /\ JobSound(j, objects, marks, trash, touched[p]) /\ j.phase = "movefile"
      /\ "movefile" \in DOMAIN Steps(j.req.cmd) /\ j.req.id \in Ids
      /\ j.req.cmd \in Commands
  BY <1>0, JobAt
<1>2. UNCHANGED <<objects, manifest, marks, trash>>
  BY DEF MoveFile
<1>3. old \in Paths /\ new \in Paths
  <2>1. j.mem[j.req.id] # Absent
    BY <1>1, NextPhases DEF JobSound, JobShape
  <2> QED BY <1>1, <2>1, RenamedPathType
<1>4. CASE /\ files[old] # Absent
           /\ files' = [[files EXCEPT ![old] = Absent] EXCEPT ![new] = files[old]]
           /\ Turn(p, Onward(j), {}, {File(old), File(new)})
  <2> DEFINE k == Onward(j)
  <2>1. Turn(p, k, {}, {File(old), File(new)})
    BY <1>4
  <2>2. /\ k.phase = "save" /\ k.phase \in DOMAIN Steps(j.req.cmd)
        /\ k \in Job /\ k.req = j.req /\ k.script = j.script /\ k.mem = j.mem
        /\ k.found = j.found /\ k.complete = j.complete /\ k.at = j.at
        /\ k.chosen = j.chosen /\ k.left = j.left
    BY <1>1, OnwardFacts, NextPhases
  <2> HIDE DEF old, new
  <2>3. files' \in Files
    BY <1>3, <1>4 DEF JobsInv, TypeOK, Files
  <2>4. {File(old), File(new)} \in SUBSET Things
    BY <1>3, ThingTypes
  <2> HIDE DEF j, k
  <2>5. JobSound(k, objects, marks, trash, touched[p])
    BY <1>1, <2>2, Settled
  <2> QED BY <1>2, <2>1, <2>2, <2>3, <2>4, <2>5, Filing
<1>5. CASE /\ Turn(p, Onward([j EXCEPT !.was = IF files[old] = Absent THEN @ ELSE Absent]), {}, {})
           /\ UNCHANGED files
  <2> DEFINE was == IF files[old] = Absent THEN j.was ELSE Absent
             w == [j EXCEPT !.was = was]
             k == Onward(w)
  <2>1. Turn(p, k, {}, {})
    BY <1>5
  <2>2. was \in States \cup {Absent}
    BY <1>1 DEF Job
  <2> HIDE DEF was
  <2>3. /\ w \in Job /\ w.phase = "movefile" /\ w.req = j.req /\ w.script = j.script
        /\ w.found = j.found /\ w.complete = j.complete /\ w.at = j.at
        /\ w.mem = j.mem /\ w.chosen = j.chosen /\ w.left = j.left
    BY <1>1, <2>2, WasFacts
  <2> HIDE DEF w
  <2>4. /\ k.phase = "save" /\ k.phase \in DOMAIN Steps(j.req.cmd)
        /\ k \in Job /\ k.req = j.req /\ k.script = j.script /\ k.mem = j.mem
        /\ k.found = j.found /\ k.complete = j.complete /\ k.at = j.at
        /\ k.chosen = j.chosen /\ k.left = j.left
    BY <1>1, <2>3, OnwardFacts, NextPhases
  <2>5. files' \in Files
    BY <1>5 DEF JobsInv, TypeOK
  <2> HIDE DEF j, k
  <2>6. JobSound(k, objects, marks, trash, touched[p])
    BY <1>1, <2>4, Settled
  <2> QED BY <1>2, <2>1, <2>4, <2>5, <2>6, Filing
<1> QED BY <1>4, <1>5 DEF MoveFile

LEMMA InvWriteFile ==
  ASSUME JobsInv, NEW p \in Procs, WriteFile(p)
  PROVE  JobsInv'
<1> DEFINE j == jobs[p]
           k == Onward(j)
           path == j.req.path
<1>0. At(p, "write")
  BY DEF WriteFile
<1>1. /\ j \in Job /\ JobSound(j, objects, marks, trash, touched[p]) /\ j.phase = "write"
      /\ "write" \in DOMAIN Steps(j.req.cmd) /\ path \in Paths
      /\ j.req.cmd \in Commands
  BY <1>0, JobAt
<1>2. /\ files' = [files EXCEPT ![path] = Empty]
      /\ Turn(p, k, {}, {File(path)})
      /\ UNCHANGED <<objects, manifest, marks, trash>>
  BY DEF WriteFile
<1>3. /\ k.phase = "load" /\ k.phase \in DOMAIN Steps(j.req.cmd) /\ j.req.cmd = "new"
      /\ k \in Job /\ k.req = j.req /\ k.script = j.script /\ k.mem = j.mem
      /\ k.found = j.found /\ k.complete = j.complete /\ k.at = j.at
      /\ k.chosen = j.chosen /\ k.left = j.left
  BY <1>1, OnwardFacts, NextPhases
<1>4. files' \in Files
  BY <1>2, DestructiveAssumption DEF JobsInv, TypeOK, Files
<1>5. {File(path)} \in SUBSET Things
  BY <1>1, ThingTypes
<1> HIDE DEF j, k
<1>6. JobSound(k, objects, marks, trash, touched[p])
  BY <1>1, <1>3, Settled
<1> QED BY <1>2, <1>3, <1>4, <1>5, <1>6, Filing

(* The manifest a command saves is one.                                    *)
LEMMA UpdatedType ==
  ASSUME NEW j \in Job, j.req.cmd \in {"remove", "new"} \/ j.mem[j.req.id] # Absent
  PROVE  Updated(j) \in Rows
<1>1. j.mem \in Rows /\ j.req.id \in Ids /\ j.req.to \in Ids /\ j.req.path \in Paths
  BY RequestFacts DEF Job
<1>2. CASE j.req.cmd = "remove"
  BY <1>1, <1>2 DEF Updated, Rows
<1>3. CASE j.req.cmd = "new"
  <2>1. NewRow(j) \in Row
    BY <1>1, DestructiveAssumption DEF NewRow, Row
  <2> QED BY <1>1, <1>3, <2>1 DEF Updated, Rows
<1>4. CASE j.req.cmd \notin {"remove", "new"}
  <2>1. j.mem[j.req.id] \in Row /\ RenamedPath(j) \in Paths
    BY <1>4, RenamedPathType
  <2>2. MovedRow(j) \in Row
    BY <2>1 DEF MovedRow, Row
  <2>3. Updated(j) = [[j.mem EXCEPT ![j.req.id] = Absent] EXCEPT ![j.req.to] = MovedRow(j)]
    BY <1>4 DEF Updated
  <2> QED BY <1>1, <2>2, <2>3 DEF Rows
<1> QED BY <1>2, <1>3, <1>4

LEMMA InvSave ==
  ASSUME JobsInv, NEW p \in Procs, Save(p)
  PROVE  JobsInv'
<1> DEFINE j == jobs[p]
<1>0. At(p, "save")
  BY DEF Save
<1>1. /\ j \in Job /\ JobSound(j, objects, marks, trash, touched[p]) /\ j.phase = "save"
      /\ "save" \in DOMAIN Steps(j.req.cmd)
      /\ j.req.cmd \in Commands
  BY <1>0, JobAt
<1>2. /\ manifest' = Updated(j) /\ Turn(p, Over, {}, {State})
      /\ UNCHANGED <<files, objects, marks, trash>>
  BY DEF Save
<1>3. j.req.cmd \in {"remove", "new"} \/ j.mem[j.req.id] # Absent
  BY <1>1, NextPhases DEF JobSound, JobShape
<1>4. Updated(j) \in Rows
  BY <1>1, <1>3, UpdatedType
<1>5. WorldOK' /\ trash \subseteq trash' /\ NotedIn({State})
  BY <1>2, <1>4 DEF WorldOK, NotedIn, JobsInv, TypeOK
<1>6. GoesOnAs(p, Over, touched[p] \ {}) /\ {State} \in SUBSET Things
  BY ThingTypes DEF GoesOnAs
<1> QED BY <1>2, <1>5, <1>6, Turns


-----------------------------------------------------------------------------
(* Starting and stopping, and the others *)

(* The scripts chosen are all there.                                       *)
LEMMA InvResolveTargets ==
  ASSUME JobsInv, NEW p \in Procs, ResolveTargets(p)
  PROVE  JobsInv'
<1> DEFINE j == jobs[p]
           scripts == scanRemote(objects)
           chosen == {id \in j.req.pattern : scripts[id] # Absent}
           left == ToToggle(j.req.cmd, scripts, chosen)
           i == [j EXCEPT !.chosen = chosen, !.left = left]
           k == Onward(i)
           taken == [id \in Ids |-> IF id \in chosen THEN scripts[id] ELSE Absent]
           b == [j EXCEPT !.chosen = chosen, !.left = chosen, !.listed = taken]
           h == Onward(b)
           read == {Obj(id) : id \in Ids}
<1>0. At(p, "targets")
  BY DEF ResolveTargets
<1>1. /\ j \in Job /\ JobSound(j, objects, marks, trash, touched[p]) /\ j.phase = "targets"
      /\ "targets" \in DOMAIN Steps(j.req.cmd)
      /\ j.req.cmd \in Commands
  BY <1>0, JobAt
<1>2. /\ Turn(p, CASE chosen = {} -> Over
                    [] chosen # {} /\ j.req.cmd = "backup" -> h
                    [] OTHER -> k, read, {})
      /\ UNCHANGED world
  BY DEF ResolveTargets
<1>3. CASE chosen = {}
  BY <1>2, <1>3, Reads
<1>4. CASE chosen # {} /\ j.req.cmd = "backup"
  <2>1. Turn(p, h, read, {})
    BY <1>2, <1>4
  <2>2. j.req.pattern \subseteq Ids
    BY <1>1, RequestFacts
  <2>3. /\ chosen \in SUBSET Ids /\ taken \in Scripts
        /\ chosen = {id \in Ids : taken[id] # Absent}
    BY <2>2, ScanFacts DEF Scripts
  <2>4. JobShape(j) /\ j.at = Absent
    BY <1>1 DEF JobSound, JobShape, Unlisted
  <2> HIDE DEF chosen, taken, j
  <2>5. /\ b \in Job /\ b.phase = "targets" /\ b.req = j.req /\ b.script = j.script
        /\ b.at = j.at /\ b.chosen = chosen /\ b.left = chosen /\ b.listed = taken
    BY <1>1, <2>3 DEF Job
  <2> HIDE DEF b
  <2>6. /\ h.phase = "mkdir" /\ h.phase \in DOMAIN Steps(j.req.cmd)
        /\ h \in Job /\ h.req = j.req /\ h.script = j.script
        /\ h.at = j.at /\ h.chosen = chosen /\ h.left = chosen /\ h.listed = taken
    BY <1>1, <1>4, <2>5, OnwardFacts, NextPhases
  <2> HIDE DEF h
  <2>7. JobShape(h)
    BY <1>4, <2>3, <2>4, <2>6 DEF JobShape, Moving
  <2>8. /\ ScriptKnown(h, objects, touched[p] \ read) /\ BackedUp(h, trash)
        /\ TargetsKnown(h, objects, touched[p] \ read)
    BY <1>4, <2>6 DEF ScriptKnown, BackedUp, TargetsKnown, Undeleted, Moving
  <2>9. MarksKnown(h, marks, touched[p] \ read)
    BY <2>6 DEF MarksKnown
  <2>10. JobSound(h, objects, marks, trash, touched[p] \ read)
    BY <2>7, <2>8, <2>9 DEF JobSound
  <2> HIDE DEF read
  <2> QED BY <1>2, <2>1, <2>6, <2>10, Reads
<1>5. CASE chosen # {} /\ j.req.cmd # "backup"
  <2>1. Turn(p, k, read, {})
    BY <1>2, <1>5
  <2>2. j.req.pattern \subseteq Ids
    BY <1>1, RequestFacts
  <2>3. left \subseteq chosen /\ chosen \in SUBSET Ids
    BY <2>2 DEF ToToggle
  <2>4. \A id \in chosen : /\ objects[id] \in Script /\ objects[id] = scripts[id]
                           /\ id \notin left => objects[id].enabled = Wanted(j.req.cmd)
    <3> SUFFICES ASSUME NEW id \in chosen
                 PROVE  /\ objects[id] \in Script /\ objects[id] = scripts[id]
                        /\ id \notin left => objects[id].enabled = Wanted(j.req.cmd)
      OBVIOUS
    <3>1. id \in Ids /\ scripts[id] # Absent
      BY <2>2
    <3>2. objects[id] \in Script /\ objects[id] = scripts[id]
      BY <3>1, ScanFacts
    <3> HIDE DEF scripts
    <3>3. id \notin left => scripts[id].enabled = Wanted(j.req.cmd)
      BY DEF ToToggle
    <3> QED BY <3>2, <3>3
  <2> HIDE DEF left, chosen, scripts
  <2>5. left \in SUBSET Ids
    BY <2>3
  <2> HIDE DEF j
  <2>6. /\ i \in Job /\ i.phase = "targets" /\ i.req = j.req /\ i.script = j.script
        /\ i.found = j.found /\ i.complete = j.complete /\ i.at = j.at
        /\ i.mem = j.mem /\ i.chosen = chosen /\ i.left = left
    BY <1>1, <2>3, <2>5 DEF Job
  <2> HIDE DEF i
  <2>7. j.req.cmd \in {"start", "stop", "restart"}
    BY <1>1, <1>5, NextPhases
  <2>8. /\ k.phase = "toggle" /\ k.phase \in DOMAIN Steps(j.req.cmd)
        /\ k \in Job /\ k.req = j.req /\ k.script = j.script
        /\ k.found = j.found /\ k.complete = j.complete /\ k.at = j.at
        /\ k.chosen = chosen /\ k.left = left
    BY <1>1, <2>6, <2>7, OnwardFacts, NextPhases
  <2> HIDE DEF k
  <2>9. JobShape(k)
    BY <1>1, <2>3, <2>7, <2>8 DEF JobSound, JobShape, Unlisted, Undeleted, Moving
  <2>10. /\ ScriptKnown(k, objects, touched[p] \ read) /\ BackedUp(k, trash)
         /\ MarksKnown(k, marks, touched[p] \ read)
    BY <2>8 DEF ScriptKnown, BackedUp, MarksKnown, Undeleted
  <2>11. TargetsKnown(k, objects, touched[p] \ read)
    BY <2>4, <2>8 DEF TargetsKnown
  <2>12. JobSound(k, objects, marks, trash, touched[p] \ read)
    BY <2>9, <2>10, <2>11 DEF JobSound
  <2> HIDE DEF read
  <2> QED BY <1>2, <2>1, <2>8, <2>12, Reads
<1> QED BY <1>3, <1>4, <1>5

(* What extendObject leaves, of a script and of anything else.             *)
LEMMA EnabledSet ==
  ASSUME JobsInv, NEW id \in Ids, NEW enabled \in BOOLEAN, setEnabled(id, enabled)
  PROVE  /\ objects' \in [Ids -> Script \cup {Absent, Stub}]
         /\ \A a \in Ids \ {id} : objects'[a] = objects[a]
         /\ objects[id] \in Script => /\ objects'[id] \in Script
                                      /\ objects'[id].enabled = enabled
                                      /\ objects'[id].source = objects[id].source
<1>1. objects \in [Ids -> Script \cup {Absent, Stub}]
  BY DEF JobsInv, TypeOK
<1>2. CASE objects[id] \in {Absent, Stub}
  <2>1. objects' = [objects EXCEPT ![id] = Stub]
    BY <1>2 DEF setEnabled
  <2> QED BY <1>1, <1>2, <2>1, RecordsAssumption
<1>3. CASE objects[id] \notin {Absent, Stub}
  <2> DEFINE new == [objects[id] EXCEPT !.enabled = enabled]
  <2>1. objects' = [objects EXCEPT ![id] = new]
    BY <1>3 DEF setEnabled
  <2>2. new \in Script /\ new.enabled = enabled /\ new.source = objects[id].source
    BY <1>1, <1>3 DEF Script
  <2> HIDE DEF new
  <2> QED BY <1>1, <2>1, <2>2
<1> QED BY <1>2, <1>3

(* A script toggled is as wanted, and the others as they were.             *)
LEMMA InvToggle ==
  ASSUME JobsInv, NEW p \in Procs, At(p, "toggle"), Toggle(p)
  PROVE  JobsInv'
<1> DEFINE j == jobs[p]
<1>1. /\ j \in Job /\ JobSound(j, objects, marks, trash, touched[p]) /\ j.phase = "toggle"
      /\ "toggle" \in DOMAIN Steps(j.req.cmd)
      /\ j.req.cmd \in Commands
  BY JobAt
<1>2. j.req.cmd \in {"start", "stop", "restart"}
  BY <1>1, NextPhases
<1>3. PICK id \in j.left :
        /\ j.at \in {Absent, id}
        /\ IF j.req.cmd = "restart" /\ j.at = Absent
           THEN /\ setEnabled(id, FALSE)
                /\ Turn(p, [j EXCEPT !.at = id], {}, {Obj(id)})
           ELSE /\ setEnabled(id, Wanted(j.req.cmd))
                /\ Turn(p, [j EXCEPT !.at = Absent, !.left = @ \ {id}], {}, {Obj(id)})
        /\ UNCHANGED <<files, manifest, marks, trash>>
  BY DEF Toggle
<1>4. id \in Ids /\ {Obj(id)} \in SUBSET Things /\ j.left \subseteq j.chosen
      /\ j.chosen \subseteq Ids
  BY <1>1, ThingTypes DEF JobSound, JobShape, Job
<1>5. UNCHANGED <<files, manifest, marks, trash>>
  BY <1>3
<1>6. ASSUME NEW k, k \in Job, k.req = j.req, k.phase = "toggle", k.script = j.script,
             k.chosen = j.chosen, k.left \in SUBSET j.left, NEW enabled \in BOOLEAN,
             setEnabled(id, enabled), Turn(p, k, {}, {Obj(id)}),
             \A a \in j.left \ k.left : a = id /\ enabled = Wanted(j.req.cmd)
      PROVE  JobsInv'
  <2>1. /\ objects' \in [Ids -> Script \cup {Absent, Stub}]
        /\ \A a \in Ids \ {id} : objects'[a] = objects[a]
        /\ objects[id] \in Script => /\ objects'[id] \in Script
                                     /\ objects'[id].enabled = enabled
    BY <1>4, <1>6, EnabledSet
  <2>2. WorldOK' /\ trash \subseteq trash' /\ NotedIn({Obj(id)})
    BY <1>4, <1>5, <2>1 DEF WorldOK, NotedIn, JobsInv, TypeOK
  <2>3. JobShape(k)
    BY <1>1, <1>2, <1>4, <1>6 DEF JobSound, JobShape, Unlisted, Undeleted, Moving
  <2>4. /\ ScriptKnown(k, objects', touched[p] \ {}) /\ BackedUp(k, trash')
        /\ MarksKnown(k, marks', touched[p] \ {})
    BY <1>6 DEF ScriptKnown, BackedUp, MarksKnown, Undeleted
  <2>5. TargetsKnown(k, objects', touched[p] \ {})
    <3> SUFFICES ASSUME NEW a \in j.chosen, Obj(a) \notin touched[p]
                 PROVE  /\ objects'[a] \in Script
                        /\ a \notin k.left => objects'[a].enabled = Wanted(j.req.cmd)
      BY <1>6 DEF TargetsKnown
    <3>1. /\ objects[a] \in Script
          /\ a \notin j.left => objects[a].enabled = Wanted(j.req.cmd)
      BY <1>1 DEF JobSound, TargetsKnown
    <3>2. CASE a # id
      BY <1>4, <1>6, <2>1, <3>1, <3>2
    <3>3. CASE a = id
      BY <1>6, <1>3, <2>1, <3>1, <3>3
    <3> QED BY <3>2, <3>3
  <2>6. GoesOnAs(p, k, touched[p] \ {})
    BY <1>6, <2>3, <2>4, <2>5 DEF GoesOnAs, JobSound
  <2> QED BY <1>4, <1>6, <2>2, <2>6, Turns
<1>7. CASE j.req.cmd = "restart" /\ j.at = Absent
  <2> DEFINE k == [j EXCEPT !.at = id]
  <2>1. setEnabled(id, FALSE) /\ Turn(p, k, {}, {Obj(id)})
    BY <1>3, <1>7
  <2> HIDE DEF j
  <2>2. /\ k \in Job /\ k.req = j.req /\ k.phase = "toggle" /\ k.script = j.script
        /\ k.chosen = j.chosen /\ k.left = j.left
    BY <1>1, <1>4, AtFacts
  <2> HIDE DEF k
  <2>3. k.left \in SUBSET j.left /\ \A a \in j.left \ k.left : a = id /\ FALSE = Wanted(j.req.cmd)
    BY <2>2
  <2> QED BY <1>6, <2>1, <2>2, <2>3
<1>8. CASE ~(j.req.cmd = "restart" /\ j.at = Absent)
  <2> DEFINE k == [j EXCEPT !.at = Absent, !.left = @ \ {id}]
             wanted == Wanted(j.req.cmd)
  <2>1. setEnabled(id, wanted) /\ Turn(p, k, {}, {Obj(id)})
    BY <1>3, <1>8
  <2>2. wanted \in BOOLEAN
    BY DEF Wanted
  <2> HIDE DEF j
  <2>3. /\ k \in Job /\ k.req = j.req /\ k.phase = "toggle" /\ k.script = j.script
        /\ k.chosen = j.chosen /\ k.left = j.left \ {id}
    BY <1>1, ToggledFacts
  <2> HIDE DEF k, wanted
  <2>4. k.left \in SUBSET j.left /\ \A a \in j.left \ k.left : a = id /\ wanted = Wanted(j.req.cmd)
    BY <2>3 DEF wanted
  <2> QED BY <1>6, <2>1, <2>2, <2>3, <2>4
<1> QED BY <1>7, <1>8

LEMMA InvToggleEnds ==
  ASSUME JobsInv, NEW p \in Procs, ToggleEnds(p)
  PROVE  JobsInv'
BY Reads DEF ToggleEnds


-----------------------------------------------------------------------------
(* Backing up, action by action *)

(* A turn of a backup: the rest of the world stays as it is.               *)
LEMMA Backs ==
  ASSUME JobsInv, NEW p \in Procs, NEW k, Going(p, k, {}, {}), UNCHANGED world, SavedOK',
         k = Over \/ (k \in Job /\ k.phase = "snapshot" /\ JobShape(k))
  PROVE  /\ TypeOK'
         /\ \A q \in Procs : Running(q)' =>
              JobSound(jobs'[q], objects', marks', trash', touched'[q])
<1>1. UNCHANGED <<files, objects, manifest, marks, trash>>
  BY DEF world
<1>2. WorldOK' /\ trash \subseteq trash' /\ NotedIn({})
  BY <1>1 DEF JobsInv, TypeOK, WorldOK, NotedIn
<1>3. GoesOnAs(p, k, touched[p] \ {})
  BY DEF GoesOnAs, JobSound, ScriptKnown, Undeleted, BackedUp, MarksKnown, TargetsKnown
<1> QED BY <1>2, <1>3, Goings

(* What a backup is doing, and what its directory holds.                   *)
LEMMA BackupAt ==
  ASSUME JobsInv, NEW p \in Procs, At(p, "snapshot")
  PROVE  LET j == jobs[p]
             snapshot == snapshots[j.dir]
         IN  /\ j \in Job /\ JobShape(j) /\ j.phase = "snapshot" /\ j.req.cmd = "backup"
             /\ j.dir \in Moments /\ snapshot \in Snapshot
             /\ j.listed \in Scripts /\ j.left \subseteq j.chosen
             /\ j.chosen = {id \in Ids : j.listed[id] # Absent}
             /\ j.at \in j.left \cup {Absent}
             /\ NamesApart /\ j.dir \notin crowded => SnapshotGoes(j, snapshot)
<1> DEFINE j == jobs[p]
<1>1. /\ j \in Job /\ JobShape(j) /\ j.phase = "snapshot" /\ j.req.cmd = "backup"
  BY JobAt, NextPhases DEF JobSound
<1>2. snapshots[j.dir] # Absent /\ snapshots \in [Moments -> Snapshot \cup {Absent}]
  BY DEF JobsInv, TypeOK, SnapshotsSound
<1>3. j.dir \in Moments /\ j.listed \in Scripts
  BY <1>1 DEF Job, JobShape
<1>4. NamesApart /\ j.dir \notin crowded => SnapshotGoes(j, snapshots[j.dir])
  BY DEF JobsInv, SnapshotsSound, SnapshotsGo
<1> QED BY <1>1, <1>2, <1>3, <1>4 DEF JobShape

(* A backup writes in its directory.                                       *)
LEMMA Writes ==
  ASSUME JobsInv, NEW p \in Procs, At(p, "snapshot"), NEW k, NEW new \in Snapshot,
         jobs' = [jobs EXCEPT ![p] = k], crowded' = crowded,
         snapshots' = [snapshots EXCEPT ![jobs[p].dir] = new],
         k = Over \/ k.dir = jobs[p].dir,
         NamesApart /\ jobs[p].dir \notin crowded =>
           /\ k # Over => SnapshotGoes(k, new)
           /\ new.entries \in Scripts =>
                \A id \in Ids : new.entries[id] # Absent => Holds(new, new.entries, id)
  PROVE  SnapshotsSound' /\ SavedOK'
<1> DEFINE d == jobs[p].dir
<1>1. /\ jobs \in [Procs -> Job \cup {Absent, Over}]
      /\ snapshots \in [Moments -> Snapshot \cup {Absent}] /\ crowded \subseteq Moments
      /\ d \in Moments
  BY BackupAt DEF JobsInv, TypeOK
<1>2. new # Absent
  BY DestructiveAssumption
<1>3. SavedOK'
  BY <1>1 DEF SavedOK
<1>4. /\ snapshots'[d] = new
      /\ \A moment \in Moments \ {d} : snapshots'[moment] = snapshots[moment]
      /\ \A q \in Procs \ {p} : jobs'[q] = jobs[q]
      /\ jobs'[p] = k
  BY <1>1
<1>5. \A q \in Procs : At(q, "snapshot")' => snapshots'[jobs'[q].dir] # Absent
  <2> SUFFICES ASSUME NEW q \in Procs, At(q, "snapshot")'
               PROVE  snapshots'[jobs'[q].dir] # Absent
    OBVIOUS
  <2>1. CASE q = p
    BY <1>2, <1>4, <2>1 DEF At, Running
  <2>2. CASE q # p
    <3>1. At(q, "snapshot") /\ jobs'[q] = jobs[q]
      BY <1>4, <2>2 DEF At, Running
    <3>2. jobs[q].dir \in Moments /\ snapshots[jobs[q].dir] # Absent
      BY <3>1, BackupAt DEF JobsInv, SnapshotsSound
    <3> QED BY <1>2, <1>4, <3>1, <3>2
  <2> QED BY <2>1, <2>2
<1>6. ASSUME NamesApart
      PROVE  SnapshotWhole'
  <2>1. SnapshotWhole
    BY <1>6 DEF JobsInv, SnapshotsSound
  <2>2. SUFFICES ASSUME NEW moment \in Moments \ crowded', snapshots'[moment] # Absent,
                        snapshots'[moment].entries \in Scripts
                 PROVE  \A id \in Ids : snapshots'[moment].entries[id] # Absent =>
                          Holds(snapshots'[moment], snapshots'[moment].entries, id)
    BY DEF SnapshotWhole
  <2>3. CASE moment = d
    BY <1>4, <1>6, <2>2, <2>3
  <2>4. CASE moment # d
    BY <1>4, <2>1, <2>2, <2>4 DEF SnapshotWhole
  <2> QED BY <2>3, <2>4
<1>7. ASSUME NamesApart
      PROVE  SnapshotsGo'
  <2>1. SnapshotsGo
    BY <1>7 DEF JobsInv, SnapshotsSound
  <2>2. SUFFICES ASSUME NEW q \in Procs, At(q, "snapshot")', jobs'[q].dir \notin crowded
                 PROVE  /\ SnapshotGoes(jobs'[q], snapshots'[jobs'[q].dir])
                        /\ \A o \in Procs : At(o, "snapshot")' /\ jobs'[o].dir = jobs'[q].dir
                             => o = q
    BY DEF SnapshotsGo
  <2>3. \A o \in Procs : At(o, "snapshot")' =>
          At(o, "snapshot") /\ jobs'[o].dir = jobs[o].dir
    BY <1>4 DEF At, Running
  <2>4. \A o \in Procs : At(o, "snapshot")' /\ jobs'[o].dir = jobs'[q].dir => o = q
    BY <2>1, <2>2, <2>3 DEF SnapshotsGo
  <2>5. CASE q = p
    <3>1. jobs'[q] = k /\ k # Over /\ k.dir = d
      BY <1>4, <2>2, <2>5 DEF At, Running
    <3> QED BY <1>4, <1>7, <2>2, <2>4, <3>1
  <2>6. CASE q # p
    <3>1. At(q, "snapshot") /\ jobs'[q] = jobs[q] /\ jobs[q].dir # d
      BY <1>4, <2>1, <2>2, <2>3, <2>6 DEF SnapshotsGo
    <3>2. jobs[q].dir \in Moments /\ SnapshotGoes(jobs[q], snapshots[jobs[q].dir])
      BY <2>1, <2>2, <3>1, BackupAt DEF SnapshotsGo
    <3> QED BY <1>4, <2>4, <3>1, <3>2
  <2> QED BY <2>5, <2>6
<1> QED BY <1>3, <1>5, <1>6, <1>7 DEF SnapshotsSound

(* A directory of its own, unless it is there already.                     *)
LEMMA InvMakeDirectory ==
  ASSUME JobsInv, NEW p \in Procs, MakeDirectory(p)
  PROVE  JobsInv'
<1> DEFINE j == jobs[p]
<1>0. At(p, "mkdir")
  BY DEF MakeDirectory
<1>1. /\ j \in Job /\ JobShape(j) /\ j.phase = "mkdir" /\ "mkdir" \in DOMAIN Steps(j.req.cmd)
      /\ j.req.cmd \in Commands
  BY <1>0, JobAt DEF JobSound
<1>2. PICK moment \in Moments :
        /\ IF snapshots[moment] = Absent
           THEN /\ snapshots' = [snapshots EXCEPT ![moment] = EmptySnapshot]
                /\ UNCHANGED crowded
           ELSE /\ crowded' = crowded \cup {moment}
                /\ UNCHANGED snapshots
        /\ Going(p, Onward([j EXCEPT !.dir = moment]), {}, {})
  BY DEF MakeDirectory
<1>3. UNCHANGED world
  BY DEF MakeDirectory
<1> DEFINE i == [j EXCEPT !.dir = moment]
           k == Onward(i)
<1>4. /\ i \in Job /\ i.phase = "mkdir" /\ i.req = j.req /\ i.script = j.script
      /\ i.at = j.at /\ i.chosen = j.chosen /\ i.left = j.left /\ i.listed = j.listed
      /\ i.dir = moment
  <2> HIDE DEF j
  <2> QED BY <1>1, <1>2 DEF Job
<1> HIDE DEF i
<1>5. /\ j.req.cmd = "backup" /\ k.phase = "snapshot" /\ k \in Job /\ k.req = j.req
      /\ k.phase \in DOMAIN Steps(j.req.cmd)
      /\ k.script = j.script /\ k.at = j.at /\ k.chosen = j.chosen /\ k.left = j.left
      /\ k.listed = j.listed /\ k.dir = moment
  BY <1>1, <1>4, OnwardFacts, NextPhases
<1> HIDE DEF k
<1>6. k.at = Absent /\ k.left = k.chosen
  BY <1>1, <1>5 DEF JobShape, Unlisted
<1>7. JobShape(k)
  <2> HIDE DEF j
  <2> QED BY <1>1, <1>2, <1>5, <1>6, DestructiveAssumption
             DEF JobShape, Moving, Unlisted, Undeleted
<1>8. /\ jobs \in [Procs -> Job \cup {Absent, Over}]
      /\ snapshots \in [Moments -> Snapshot \cup {Absent}] /\ crowded \subseteq Moments
      /\ jobs' = [jobs EXCEPT ![p] = k]
  BY <1>2 DEF JobsInv, TypeOK, Going, k, i
<1>9. k \notin {Absent, Over}
  BY <1>5, DestructiveAssumption
<1>10. EmptySnapshot \in Snapshot /\ EmptySnapshot.entries = Absent /\ EmptySnapshot # Absent
  <2>1. EmptySnapshot \in Snapshot /\ EmptySnapshot.entries = Absent
    BY DEF EmptySnapshot, Snapshot, NoScripts
  <2> QED BY <2>1, DestructiveAssumption
<1> HIDE DEF j
<1>11. /\ crowded' \subseteq Moments /\ crowded \subseteq crowded'
       /\ snapshots' \in [Moments -> Snapshot \cup {Absent}]
       /\ snapshots'[moment] # Absent
       /\ \A d \in Moments \ {moment} : snapshots'[d] = snapshots[d]
       /\ moment \notin crowded' =>
            snapshots[moment] = Absent /\ snapshots'[moment] = EmptySnapshot
       /\ snapshots[moment] # Absent => snapshots'[moment] = snapshots[moment]
  <2>1. CASE snapshots[moment] = Absent
    BY <1>2, <1>8, <1>10, <2>1
  <2>2. CASE snapshots[moment] # Absent
    BY <1>2, <1>8, <2>2
  <2> QED BY <2>1, <2>2
<1>12. \A q \in Procs : At(q, "snapshot")' =>
         \/ q = p /\ jobs'[q] = k
         \/ q # p /\ At(q, "snapshot") /\ jobs'[q] = jobs[q] /\ jobs[q].dir \in Moments
              /\ snapshots[jobs[q].dir] # Absent
  <2>1. \A q \in Procs : At(q, "snapshot")' =>
          \/ q = p /\ jobs'[q] = k
          \/ q # p /\ At(q, "snapshot") /\ jobs'[q] = jobs[q]
    BY <1>8 DEF At, Running
  <2>2. \A q \in Procs : At(q, "snapshot") =>
          jobs[q].dir \in Moments /\ snapshots[jobs[q].dir] # Absent
    BY BackupAt DEF JobsInv, SnapshotsSound
  <2> QED BY <2>1, <2>2
<1>13. SnapshotsSound'
  <2>1. \A q \in Procs : At(q, "snapshot")' => snapshots'[jobs'[q].dir] # Absent
    BY <1>5, <1>11, <1>12
  <2>2. ASSUME NamesApart
        PROVE  SnapshotWhole'
    <3>1. SnapshotWhole
      BY <2>2 DEF JobsInv, SnapshotsSound
    <3>2. SUFFICES ASSUME NEW d \in Moments \ crowded', snapshots'[d] # Absent,
                          snapshots'[d].entries \in Scripts
                   PROVE  \A id \in Ids : snapshots'[d].entries[id] # Absent =>
                            Holds(snapshots'[d], snapshots'[d].entries, id)
      BY DEF SnapshotWhole
    <3>3. CASE d = moment
      BY <1>10, <1>11, <3>2, <3>3, DestructiveAssumption
    <3>4. CASE d # moment
      BY <1>11, <3>1, <3>2, <3>4 DEF SnapshotWhole
    <3> QED BY <3>3, <3>4
  <2>3. ASSUME NamesApart
        PROVE  SnapshotsGo'
    <3>1. SnapshotsGo
      BY <2>3 DEF JobsInv, SnapshotsSound
    <3>2. SUFFICES ASSUME NEW q \in Procs, At(q, "snapshot")', jobs'[q].dir \notin crowded'
                   PROVE  /\ SnapshotGoes(jobs'[q], snapshots'[jobs'[q].dir])
                          /\ \A o \in Procs : At(o, "snapshot")' /\ jobs'[o].dir = jobs'[q].dir
                               => o = q
      BY DEF SnapshotsGo
    <3>3. CASE q = p
      <4>1. jobs'[q] = k /\ snapshots'[k.dir] = EmptySnapshot /\ snapshots[moment] = Absent
        BY <1>5, <1>11, <1>12, <3>2, <3>3
      <4>2. SnapshotGoes(k, EmptySnapshot)
        BY <1>6, <1>10 DEF SnapshotGoes
      <4> QED BY <1>5, <1>12, <3>3, <4>1, <4>2
    <3>4. CASE q # p
      <4>1. /\ At(q, "snapshot") /\ jobs'[q] = jobs[q] /\ jobs[q].dir \in Moments
            /\ snapshots[jobs[q].dir] # Absent
        BY <1>12, <3>2, <3>4
      <4>2. jobs[q].dir # moment /\ jobs[q].dir \notin crowded
        BY <1>11, <3>2, <4>1
      <4>3. /\ SnapshotGoes(jobs[q], snapshots[jobs[q].dir])
            /\ \A o \in Procs : At(o, "snapshot") /\ jobs[o].dir = jobs[q].dir => o = q
        BY <3>1, <4>1, <4>2 DEF SnapshotsGo
      <4> QED BY <1>5, <1>11, <1>12, <4>1, <4>2, <4>3
    <3> QED BY <3>3, <3>4
  <2> QED BY <2>1, <2>2, <2>3 DEF SnapshotsSound
<1>14. /\ TypeOK'
       /\ \A q \in Procs : Running(q)' =>
            JobSound(jobs'[q], objects', marks', trash', touched'[q])
  <2>1. Going(p, k, {}, {})
    BY <1>2 DEF k, i, j
  <2> QED BY <1>3, <1>5, <1>7, <1>11, <2>1, Backs DEF SavedOK
<1> QED BY <1>13, <1>14 DEF JobsInv

(* One object, ...                                                         *)
LEMMA InvSnapshotObject ==
  ASSUME JobsInv, NEW p \in Procs, SnapshotObject(p)
  PROVE  JobsInv'
<1> DEFINE j == jobs[p]
           d == j.dir
           snapshot == snapshots[d]
<1>0. At(p, "snapshot") /\ j.at = Absent
  BY DEF SnapshotObject
<1>1. /\ j \in Job /\ JobShape(j) /\ j.phase = "snapshot" /\ j.req.cmd = "backup"
      /\ d \in Moments /\ snapshot \in Snapshot
      /\ j.listed \in Scripts /\ j.left \subseteq j.chosen
      /\ j.chosen = {id \in Ids : j.listed[id] # Absent}
      /\ j.at \in j.left \cup {Absent}
      /\ NamesApart /\ d \notin crowded => SnapshotGoes(j, snapshot)
  BY <1>0, BackupAt
<1>2. PICK id \in j.left, whole \in BOOLEAN :
        /\ snapshots' = [snapshots EXCEPT ![d].objects[id] =
                           IF whole THEN j.listed[id] ELSE Torn]
        /\ Going(p, IF whole THEN [j EXCEPT !.at = id] ELSE Failed(j), {}, {})
  BY DEF SnapshotObject
<1>3. UNCHANGED world /\ UNCHANGED crowded
  BY DEF SnapshotObject
<1> DEFINE value == IF whole THEN j.listed[id] ELSE Torn
           there == [snapshot.objects EXCEPT ![id] = value]
           new == [snapshot EXCEPT !.objects = there]
           k == IF whole THEN [j EXCEPT !.at = id] ELSE Over
<1>4. id \in Ids /\ id \in j.chosen
  BY <1>1, <1>2
<1>5. snapshots' = [snapshots EXCEPT ![d] = new]
  BY <1>1, <1>2
<1>6. Going(p, k, {}, {}) /\ jobs' = [jobs EXCEPT ![p] = k]
  BY <1>2 DEF Going, Failed
<1>7. value \in Script \cup {Absent, Torn}
  BY <1>1, <1>4 DEF Scripts
<1> HIDE DEF value
<1>8. /\ there \in [Ids -> Script \cup {Absent, Torn}] /\ there[id] = value
      /\ \A a \in Ids \ {id} : there[a] = snapshot.objects[a]
  BY <1>1, <1>4, <1>7 DEF Snapshot
<1> HIDE DEF there, snapshot
<1>9. /\ new \in Snapshot /\ new.objects = there /\ new.sources = snapshot.sources
      /\ new.entries = snapshot.entries
  BY <1>1, <1>8 DEF Snapshot
<1> HIDE DEF new
<1>10. whole => /\ k \in Job /\ k.phase = "snapshot" /\ k.req = j.req /\ k.script = j.script
                /\ k.chosen = j.chosen /\ k.left = j.left /\ k.listed = j.listed
                /\ k.dir = d /\ k.at = id /\ k.mem = j.mem
  <2> HIDE DEF j
  <2> QED BY <1>1, <1>4 DEF Job, d
<1>11. ~whole => k = Over
  OBVIOUS
<1> HIDE DEF j, k
<1>12. whole => JobShape(k)
  BY <1>1, <1>2, <1>10, DestructiveAssumption DEF JobShape, Moving, Unlisted, Undeleted, d
<1>13. NamesApart /\ d \notin crowded =>
         /\ k # Over => SnapshotGoes(k, new)
         /\ new.entries \notin Scripts
  <2> SUFFICES ASSUME NamesApart, d \notin crowded
               PROVE  /\ k # Over => SnapshotGoes(k, new)
                      /\ new.entries \notin Scripts
    OBVIOUS
  <2>1. /\ snapshot.entries = Absent
        /\ \A a \in j.chosen \ j.left : Holds(snapshot, j.listed, a)
    BY <1>1 DEF SnapshotGoes
  <2>2. new.entries = Absent /\ Absent \notin Scripts
    BY <1>9, <2>1, DestructiveAssumption
  <2>3. ASSUME k # Over
        PROVE  SnapshotGoes(k, new)
    <3>1. \A a \in k.chosen \ k.left : Holds(new, k.listed, a)
      BY <1>1, <1>2, <1>8, <1>9, <1>10, <1>11, <2>1, <2>3 DEF Holds
    <3>2. new.objects[k.at] = k.listed[k.at]
      BY <1>8, <1>9, <1>10, <1>11, <2>3 DEF value
    <3> QED BY <2>2, <3>1, <3>2 DEF SnapshotGoes
  <2> QED BY <2>2, <2>3
<1>14. SnapshotsSound' /\ SavedOK'
  BY <1>0, <1>3, <1>5, <1>6, <1>9, <1>10, <1>11, <1>13, Writes DEF d, j
<1>15. /\ TypeOK'
       /\ \A q \in Procs : Running(q)' =>
            JobSound(jobs'[q], objects', marks', trash', touched'[q])
  BY <1>3, <1>6, <1>10, <1>11, <1>12, <1>14, Backs
<1> QED BY <1>14, <1>15 DEF JobsInv

(* ... its source, ...                                                     *)
LEMMA InvSnapshotSource ==
  ASSUME JobsInv, NEW p \in Procs, SnapshotSource(p)
  PROVE  JobsInv'
<1> DEFINE j == jobs[p]
           d == j.dir
           snapshot == snapshots[d]
           script == j.listed[j.at]
           path == idToRelPath(j.at, script.engineType)
<1>0. At(p, "snapshot") /\ j.at # Absent
  BY DEF SnapshotSource
<1>1. /\ j \in Job /\ JobShape(j) /\ j.phase = "snapshot" /\ j.req.cmd = "backup"
      /\ d \in Moments /\ snapshot \in Snapshot
      /\ j.listed \in Scripts /\ j.left \subseteq j.chosen
      /\ j.chosen = {id \in Ids : j.listed[id] # Absent}
      /\ j.at \in j.left \cup {Absent}
      /\ NamesApart /\ d \notin crowded => SnapshotGoes(j, snapshot)
  BY <1>0, BackupAt
<1>2. PICK whole \in BOOLEAN :
        /\ snapshots' = [snapshots EXCEPT ![d].sources[path] =
                           IF whole THEN script.source ELSE Torn]
        /\ Going(p, IF whole THEN [j EXCEPT !.left = @ \ {j.at}, !.at = Absent]
                    ELSE Failed(j), {}, {})
  BY DEF SnapshotSource
<1>3. UNCHANGED world /\ UNCHANGED crowded
  BY DEF SnapshotSource
<1> DEFINE value == IF whole THEN script.source ELSE Torn
           there == [snapshot.sources EXCEPT ![path] = value]
           new == [snapshot EXCEPT !.sources = there]
           left == j.left \ {j.at}
           k == IF whole THEN [j EXCEPT !.left = left, !.at = Absent] ELSE Over
<1>4. j.at \in j.left /\ j.at \in Ids /\ script \in Script
  <2>1. j.at \in j.left /\ j.at \in Ids /\ script # Absent
    BY <1>0, <1>1
  <2> QED BY <1>1, <2>1 DEF Scripts
<1>5. path \in Paths /\ value \in Sources \cup {Absent, Torn}
  BY <1>4, NamingAssumption DEF idToRelPath, Script
<1>6. snapshots' = [snapshots EXCEPT ![d] = new]
  BY <1>1, <1>2
<1>7. Going(p, k, {}, {}) /\ jobs' = [jobs EXCEPT ![p] = k]
  BY <1>2 DEF Going, Failed
<1> HIDE DEF value, path
<1>8. /\ there \in [Paths -> Sources \cup {Absent, Torn}] /\ there[path] = value
      /\ \A a \in Paths \ {path} : there[a] = snapshot.sources[a]
  BY <1>1, <1>5 DEF Snapshot
<1> HIDE DEF there, snapshot, script
<1>9. /\ new \in Snapshot /\ new.objects = snapshot.objects /\ new.sources = there
      /\ new.entries = snapshot.entries
  BY <1>1, <1>8 DEF Snapshot
<1> HIDE DEF new
<1>10. whole => /\ k \in Job /\ k.phase = "snapshot" /\ k.req = j.req /\ k.script = j.script
                /\ k.chosen = j.chosen /\ k.left = left /\ k.listed = j.listed
                /\ k.dir = d /\ k.at = Absent /\ k.mem = j.mem
  <2>1. left \in SUBSET Ids
    BY <1>1
  <2> HIDE DEF j, left
  <2> QED BY <1>1, <2>1 DEF Job, d
<1>11. ~whole => k = Over
  OBVIOUS
<1> HIDE DEF j, k
<1>12. whole => JobShape(k)
  BY <1>1, <1>10 DEF JobShape, Moving, Unlisted, Undeleted, d
<1>13. NamesApart /\ d \notin crowded =>
         /\ k # Over => SnapshotGoes(k, new)
         /\ new.entries \notin Scripts
  <2> SUFFICES ASSUME NamesApart, d \notin crowded
               PROVE  /\ k # Over => SnapshotGoes(k, new)
                      /\ new.entries \notin Scripts
    OBVIOUS
  <2>1. /\ snapshot.entries = Absent
        /\ \A a \in j.chosen \ j.left : Holds(snapshot, j.listed, a)
        /\ snapshot.objects[j.at] = j.listed[j.at]
    BY <1>0, <1>1 DEF SnapshotGoes, j
  <2>2. new.entries = Absent /\ Absent \notin Scripts
    BY <1>9, <2>1, DestructiveAssumption
  <2>3. ASSUME whole
        PROVE  Holds(new, j.listed, j.at)
    BY <1>8, <1>9, <2>1, <2>3 DEF Holds, value, path, script
  <2>4. ASSUME NEW a \in j.chosen \ j.left
        PROVE  Holds(new, j.listed, a)
    <3>1. a \in Ids /\ a # j.at /\ j.listed[a] \in Script
      BY <1>1, <1>4 DEF Scripts
    <3>2. StemOf[a] # StemOf[j.at]
      BY <1>4, <3>1 DEF NamesApart
    <3>3. idToRelPath(a, j.listed[a].engineType) \in Paths \ {path}
      BY <3>1, <3>2, NamingAssumption DEF idToRelPath, path, Script
    <3> QED BY <1>8, <1>9, <2>1, <3>3 DEF Holds
  <2>5. ASSUME k # Over
        PROVE  SnapshotGoes(k, new)
    <3>1. \A a \in k.chosen \ k.left : Holds(new, k.listed, a)
      BY <1>10, <1>11, <2>3, <2>4, <2>5
    <3> QED BY <1>10, <1>11, <2>2, <2>5, <3>1 DEF SnapshotGoes
  <2> QED BY <2>2, <2>5
<1>14. SnapshotsSound' /\ SavedOK'
  BY <1>0, <1>3, <1>6, <1>7, <1>9, <1>10, <1>11, <1>13, Writes DEF d, j
<1>15. /\ TypeOK'
       /\ \A q \in Procs : Running(q)' =>
            JobSound(jobs'[q], objects', marks', trash', touched'[q])
  BY <1>3, <1>7, <1>10, <1>11, <1>12, <1>14, Backs
<1> QED BY <1>14, <1>15 DEF JobsInv

(* ... and, once all are there, the manifest.                              *)
LEMMA InvSnapshotManifest ==
  ASSUME JobsInv, NEW p \in Procs, SnapshotManifest(p)
  PROVE  JobsInv'
<1> DEFINE j == jobs[p]
           d == j.dir
           snapshot == snapshots[d]
<1>0. At(p, "snapshot") /\ j.left = {}
  BY DEF SnapshotManifest
<1>1. /\ j \in Job /\ d \in Moments /\ snapshot \in Snapshot /\ j.listed \in Scripts
      /\ j.chosen = {id \in Ids : j.listed[id] # Absent}
      /\ NamesApart /\ d \notin crowded => SnapshotGoes(j, snapshot)
  BY <1>0, BackupAt
<1>2. PICK whole \in BOOLEAN :
        snapshots' = [snapshots EXCEPT ![d].entries = IF whole THEN j.listed ELSE Torn]
  BY DEF SnapshotManifest
<1>3. Going(p, Over, {}, {}) /\ UNCHANGED world /\ UNCHANGED crowded
  BY DEF SnapshotManifest
<1> DEFINE value == IF whole THEN j.listed ELSE Torn
           new == [snapshot EXCEPT !.entries = value]
<1>4. snapshots' = [snapshots EXCEPT ![d] = new]
  BY <1>1, <1>2
<1>5. value \in Scripts \cup {Torn}
  BY <1>1
<1> HIDE DEF value, snapshot
<1>6. /\ new \in Snapshot /\ new.objects = snapshot.objects
      /\ new.sources = snapshot.sources /\ new.entries = value
  BY <1>1, <1>5 DEF Snapshot
<1> HIDE DEF new
<1>7. ASSUME NamesApart, d \notin crowded, new.entries \in Scripts, NEW id \in Ids,
             new.entries[id] # Absent
      PROVE  Holds(new, new.entries, id)
  <2>1. new.entries = j.listed
    BY <1>6, <1>7, DestructiveAssumption DEF value
  <2>2. Holds(snapshot, j.listed, id)
    BY <1>0, <1>1, <1>7, <2>1 DEF SnapshotGoes
  <2> QED BY <1>6, <2>1, <2>2 DEF Holds
<1>8. SnapshotsSound' /\ SavedOK'
  <2>1. jobs' = [jobs EXCEPT ![p] = Over]
    BY <1>3 DEF Going
  <2> QED BY <1>0, <1>3, <1>4, <1>6, <1>7, <2>1, Writes
<1>9. /\ TypeOK'
      /\ \A q \in Procs : Running(q)' =>
           JobSound(jobs'[q], objects', marks', trash', touched'[q])
  BY <1>3, <1>8, Backs
<1> QED BY <1>8, <1>9 DEF JobsInv

-----------------------------------------------------------------------------
(* Others *)

(* What somebody else changes is noted for every command that runs.        *)
LEMMA Outsiders ==
  ASSUME JobsInv, NEW thing \in Things, Outside(thing), WorldOK', trash' = trash,
         NotedIn({thing})
  PROVE  JobsInv'
<1>1. /\ jobs \in [Procs -> Job \cup {Absent, Over}] /\ touched \in [Procs -> SUBSET Things]
      /\ edits \in 0 .. MaxEdits
  BY DEF JobsInv, TypeOK
<1>2. /\ jobs' = jobs /\ edits < MaxEdits /\ edits' = edits + 1
      /\ touched' = [q \in Procs |-> IF Running(q) THEN touched[q] \cup {thing} ELSE {}]
  BY DEF Outside
<1>3. edits' \in 0 .. MaxEdits
  BY <1>1, <1>2, DestructiveAssumption
<1>4. touched' \in [Procs -> SUBSET Things]
  BY <1>1, <1>2
<1>4a. SnapshotsSound' /\ SavedOK'
  <2>1. \A q \in Procs : At(q, "snapshot")' => At(q, "snapshot") /\ jobs'[q] = jobs[q]
    BY <1>2 DEF At, Running
  <2> QED BY <2>1, SnapshotsKept DEF Outside
<1>5. TypeOK'
  BY <1>1, <1>2, <1>3, <1>4, <1>4a DEF TypeOK, WorldOK, SavedOK
<1>6. ASSUME NEW q \in Procs, Running(q)
      PROVE  JobSound(jobs[q], objects', marks', trash', touched'[q])
  <2>1. jobs[q] \in Job /\ JobSound(jobs[q], objects, marks, trash, touched[q])
    BY <1>1, <1>6 DEF JobsInv, Running
  <2>2. touched'[q] = touched[q] \cup {thing}
    BY <1>2, <1>6
  <2>3. NotedIn(touched[q] \cup {thing})
    BY DEF NotedIn
  <2> QED BY <2>1, <2>2, <2>3, SoundKept
<1>7. \A q \in Procs : Running(q)' => Running(q)
  BY <1>2 DEF Running
<1> QED BY <1>2, <1>4a, <1>5, <1>6, <1>7 DEF JobsInv

(* One edit by the user, in Admin, or by an instance.                      *)
LEMMA InvOthers ==
  ASSUME JobsInv, Others
  PROVE  JobsInv'
<1>1. /\ files \in Files /\ objects \in [Ids -> Script \cup {Absent, Stub}]
      /\ manifest \in Rows /\ marks \in [Ids -> [Marks -> SUBSET Halves]]
      /\ trash \subseteq [id : Ids, script : Script]
  BY DEF JobsInv, TypeOK
<1>2. ASSUME NEW path \in Paths, NEW script \in AdminScripts, UserSaves(path, script.source)
      PROVE  JobsInv'
  <2>1. script.source \in Sources
    BY DestructiveAssumption DEF Script
  <2>2. /\ files' = [files EXCEPT ![path] = script.source] /\ Outside(File(path))
        /\ UNCHANGED <<objects, manifest, marks, trash>>
    BY <1>2 DEF UserSaves
  <2>3. files' \in Files
    BY <1>1, <2>1, <2>2 DEF Files
  <2>4. WorldOK' /\ NotedIn({File(path)})
    BY <1>1, <2>2, <2>3 DEF WorldOK, NotedIn
  <2> QED BY <2>2, <2>4, ThingTypes, Outsiders
<1>3. ASSUME NEW id \in Ids, NEW script \in Script \cup {Absent},
             objects' = [objects EXCEPT ![id] = script], Outside(Obj(id)),
             UNCHANGED <<files, manifest, marks, trash>>
      PROVE  JobsInv'
  <2>1. /\ objects' \in [Ids -> Script \cup {Absent, Stub}]
        /\ \A a \in Ids \ {id} : objects'[a] = objects[a]
    BY <1>1, <1>3
  <2>2. WorldOK' /\ NotedIn({Obj(id)})
    BY <1>1, <1>3, <2>1 DEF WorldOK, NotedIn
  <2> QED BY <1>3, <2>2, ThingTypes, Outsiders
<1>4. ASSUME NEW id \in Ids, NEW k \in Marks, NEW new \in SUBSET Halves,
             marks' = [marks EXCEPT ![id][k] = new], Outside(Mark(id, k)),
             UNCHANGED <<files, objects, manifest, trash>>
      PROVE  JobsInv'
  <2>1. /\ marks' \in [Ids -> [Marks -> SUBSET Halves]]
        /\ \A a \in Ids, m \in Marks : marks'[a][m] = marks[a][m] \/ (a = id /\ m = k)
    BY <1>1, <1>4
  <2>2. WorldOK' /\ NotedIn({Mark(id, k)})
    BY <1>1, <1>4, <2>1 DEF WorldOK, NotedIn
  <2> QED BY <1>4, <2>2, ThingTypes, Outsiders
<1>5. CASE \E id \in Ids : \/ \E script \in AdminScripts : AdminSaves(id, script)
                           \/ AdminDeletes(id)
  BY <1>3, <1>5, DestructiveAssumption DEF AdminSaves, AdminDeletes
<1>6. CASE \E id \in Ids, k \in Marks : InstanceLoads(id, k)
  BY <1>4, <1>6 DEF InstanceLoads
<1>7. CASE \E id \in Ids, k \in Marks, half \in Halves : OwnerCleans(id, k, half)
  <2>1. PICK id \in Ids, k \in Marks, half \in Halves : OwnerCleans(id, k, half)
    BY <1>7
  <2> DEFINE new == marks[id][k] \ {half}
  <2>2. /\ marks' = [marks EXCEPT ![id][k] = new] /\ Outside(Mark(id, k))
        /\ UNCHANGED <<files, objects, manifest, trash>>
    BY <2>1 DEF OwnerCleans
  <2>3. new \in SUBSET Halves
    BY <1>1
  <2> HIDE DEF new
  <2> QED BY <1>4, <2>2, <2>3
<1> QED BY <1>2, <1>5, <1>6, <1>7 DEF Others

-----------------------------------------------------------------------------
(* The invariant *)

LEMMA InvInit == Init => JobsInv
<1> SUFFICES ASSUME Init
             PROVE  JobsInv
  OBVIOUS
<1>1. files \in Files
  <2>1. \A script \in StartScripts : script.source \in Sources
    BY DestructiveAssumption DEF Script
  <2> QED BY <2>1 DEF Init, Files
<1>2. objects \in [Ids -> Script \cup {Absent, Stub}]
  BY DestructiveAssumption DEF Init
<1>3. manifest \in Rows
  <2>1. ASSUME NEW id \in Ids
        PROVE  StartRows(id) \subseteq Row \cup {Absent}
    <3> SUFFICES ASSUME NEW ext \in ScriptExts, NEW type \in ScriptExts,
                        NEW script \in StartScripts
                 PROVE  [path |-> idToRelPath(id, ext), base |-> script.source,
                         engineType |-> type] \in Row
      BY DEF StartRows
    <3>1. script.source \in Sources
      BY DestructiveAssumption DEF Script
    <3> QED BY <3>1, NamingAssumption DEF Row, idToRelPath, EngineTypes
  <2>2. manifest \in {m \in [Ids -> UNION {StartRows(id) : id \in Ids}] :
                        \A id \in Ids : m[id] \in StartRows(id)}
    BY DEF Init
  <2>3. \A id \in Ids : manifest[id] \in Row \cup {Absent}
    BY <2>1, <2>2
  <2> QED BY <2>2, <2>3 DEF Rows
<1>4. /\ marks \in [Ids -> [Marks -> SUBSET Halves]] /\ trash = {}
      /\ jobs = [p \in Procs |-> Absent] /\ touched = [p \in Procs |-> {}] /\ edits = 0
  BY DEF Init
<1>5. \A p \in Procs : ~Running(p)
  BY <1>4 DEF Running
<1>6. /\ snapshots \in [Moments -> Snapshot \cup {Absent}]
      /\ crowded = {}
      /\ \A moment \in Moments : snapshots[moment] # Absent =>
           snapshots[moment].entries = Absent
  <2>1. EmptySnapshot \in Snapshot /\ EmptySnapshot.entries = Absent
    BY DEF EmptySnapshot, Snapshot, NoScripts
  <2> QED BY <2>1 DEF Init
<1>7. SnapshotsSound
  <2>1. SnapshotWhole
    BY <1>6, DestructiveAssumption DEF SnapshotWhole
  <2>2. SnapshotsGo
    BY <1>5 DEF SnapshotsGo, At
  <2>3. \A p \in Procs : ~At(p, "snapshot")
    BY <1>5 DEF At
  <2> QED BY <2>1, <2>2, <2>3 DEF SnapshotsSound
<1>8. TypeOK
  BY <1>1, <1>2, <1>3, <1>4, <1>6, DestructiveAssumption DEF TypeOK
<1> QED BY <1>5, <1>7, <1>8 DEF JobsInv

LEMMA InvRun ==
  ASSUME JobsInv, NEW p \in Procs, Run(p)
  PROVE  JobsInv'
BY InvFetch, InvCheckTarget, InvEnsureFolders, InvLoad, InvListMarkers, InvSweepValue,
   InvSweepObject, InvSweepFails, InvSweepEnds, InvCreate, InvVerify, InvBackup, InvDelete,
   InvUnlink, InvMoveFile, InvWriteFile, InvSave, InvResolveTargets, InvToggle,
   InvToggleEnds, InvMakeDirectory, InvSnapshotObject, InvSnapshotSource,
   InvSnapshotManifest DEF Run

LEMMA InvStutter ==
  ASSUME JobsInv, UNCHANGED vars
  PROVE  JobsInv'
<1>1. /\ files' = files /\ objects' = objects /\ manifest' = manifest /\ marks' = marks
      /\ trash' = trash /\ jobs' = jobs /\ touched' = touched /\ edits' = edits
      /\ snapshots' = snapshots /\ crowded' = crowded
  BY DEF vars, world, saved
<1>2. TypeOK'
  BY <1>1 DEF JobsInv, TypeOK
<1>3. \A p \in Procs : Running(p)' = Running(p)
  BY <1>1 DEF Running
<1>4. \A q \in Procs : At(q, "snapshot")' => At(q, "snapshot") /\ jobs'[q] = jobs[q]
  BY <1>1 DEF At, Running
<1>5. SnapshotsSound'
  BY <1>1, <1>4, SnapshotsKept DEF saved
<1> QED BY <1>1, <1>2, <1>3, <1>5 DEF JobsInv

LEMMA InvNext ==
  ASSUME JobsInv, [Next]_vars
  PROVE  JobsInv'
BY InvOthers, InvStart, InvRun, InvAbort, InvStutter DEF Next

LEMMA JobsInvariant == Spec => []JobsInv
<1> QED BY InvInit, InvNext, PTL DEF Spec

(* The two sides, the manifest, the markers, the trash and every command   *)
(* keep their types, whoever interferes.                                   *)
THEOREM TypeCorrect == Spec => []TypeOK
<1>1. JobsInv => TypeOK
  BY DEF JobsInv
<1> QED BY <1>1, JobsInvariant, PTL


-----------------------------------------------------------------------------
(* What a step may do *)

(* A command only moves in its own steps.                                  *)
LEMMA OwnTurn ==
  ASSUME JobsInv, NEW p \in Procs, NEW q \in Procs, NEW k, NEW read, NEW wrote,
         Going(q, k, read, wrote), jobs'[p] # jobs[p]
  PROVE  p = q
BY DEF Going, JobsInv, TypeOK

LEMMA OwnRun ==
  ASSUME JobsInv, NEW p \in Procs, NEW q \in Procs, Run(q), jobs'[p] # jobs[p]
  PROVE  p = q
<1>1. CASE Fetch(q) \/ CheckTarget(q) \/ EnsureFolders(q)
  BY <1>1, OwnTurn DEF Fetch, CheckTarget, EnsureFolders, Turn
<1>2. CASE Load(q)
  <2>1. \E k, read, wrote : Going(q, k, read, wrote)
    BY <1>2 DEF Load, Turn
  <2> QED BY <2>1, OwnTurn
<1>3. CASE ListMarkers(q)
  BY <1>3, OwnTurn DEF ListMarkers, Turn
<1>4. CASE SweepValue(q) \/ SweepObject(q) \/ SweepFails(q) \/ SweepEnds(q)
  BY <1>4, OwnTurn DEF SweepValue, SweepObject, SweepFails, SweepEnds, Turn
<1>5. CASE Create(q) \/ Verify(q) \/ Backup(q) \/ Delete(q)
  BY <1>5, OwnTurn DEF Create, Verify, Backup, Delete, Turn
<1>6. CASE Unlink(q) \/ WriteFile(q) \/ Save(q)
  BY <1>6, OwnTurn DEF Unlink, WriteFile, Save, Turn
<1>7. CASE MoveFile(q)
  <2>1. \E k, read, wrote : Going(q, k, read, wrote)
    BY <1>7 DEF MoveFile, Turn
  <2> QED BY <2>1, OwnTurn
<1>8. CASE ResolveTargets(q) \/ ToggleEnds(q)
  BY <1>8, OwnTurn DEF ResolveTargets, ToggleEnds, Turn
<1>9. CASE Toggle(q)
  <2>1. \E k, read, wrote : Going(q, k, read, wrote)
    BY <1>9 DEF Toggle, Turn
  <2> QED BY <2>1, OwnTurn
<1>10. CASE MakeDirectory(q) \/ SnapshotObject(q) \/ SnapshotSource(q) \/ SnapshotManifest(q)
  BY <1>10, OwnTurn DEF MakeDirectory, SnapshotObject, SnapshotSource, SnapshotManifest
<1> QED BY <1>1, <1>2, <1>3, <1>4, <1>5, <1>6, <1>7, <1>8, <1>9, <1>10 DEF Run

(* Whatever else changes in a step that moves command p, it is p's step.   *)
LEMMA Steppers ==
  ASSUME JobsInv, Next, NEW p \in Procs, jobs'[p] # jobs[p]
  PROVE  Run(p) \/ UNCHANGED world
<1>1. CASE Others
  <2>1. \E thing : Outside(thing)
    BY <1>1 DEF Others, UserSaves, AdminSaves, AdminDeletes, InstanceLoads, OwnerCleans
  <2> QED BY <2>1 DEF Outside
<1>2. ASSUME NEW q \in Procs, Run(q)
      PROVE  Run(p)
  BY <1>2, OwnRun
<1>3. CASE \E q \in Procs : Abort(q) \/ \E req \in Requests : Start(q, req)
  BY <1>3 DEF Start, Abort
<1> QED BY <1>1, <1>2, <1>3 DEF Next

(* The three steps that change objects, and what they leave alone.         *)
LEMMA Touching ==
  ASSUME NEW p \in Procs, Run(p)
  PROVE  Create(p) \/ Delete(p) \/ (At(p, "toggle") /\ Toggle(p)) \/ UNCHANGED objects
BY DEF Run, Fetch, CheckTarget, EnsureFolders, Load, ListMarkers, SweepValue, SweepObject,
       SweepFails, SweepEnds, Verify, Backup, Unlink, MoveFile, WriteFile, Save,
       ResolveTargets, ToggleEnds, MakeDirectory, SnapshotObject, SnapshotSource,
       SnapshotManifest, world

(* What a step of a command makes of a script.                             *)
Spared(p, id) ==
  \/ objects'[id] \in Script /\ objects'[id].source = objects[id].source
  \/ [id |-> id, script |-> objects[id]] \in trash
  \/ Obj(id) \in touched[p]

LEMMA SparedByCreate ==
  ASSUME JobsInv, NEW p \in Procs, NEW id \in Ids, objects[id] \in Script, Create(p)
  PROVE  Spared(p, id)
<1> DEFINE j == jobs[p]
<1>1. At(p, "create")
  BY DEF Create
<1>2. /\ JobSound(j, objects, marks, trash, touched[p]) /\ j.phase = "create"
      /\ j.req.to \in Ids
  BY <1>1, JobAt
<1>3. PICK script : objects' = [objects EXCEPT ![j.req.to] = script]
  BY DEF Create
<1>4. CASE id = j.req.to
  BY <1>2, <1>4 DEF JobSound, ScriptKnown, Spared
<1>5. CASE id # j.req.to
  BY <1>2, <1>3, <1>5 DEF Spared, JobsInv, TypeOK
<1> QED BY <1>4, <1>5

LEMMA SparedByDelete ==
  ASSUME JobsInv, NEW p \in Procs, NEW id \in Ids, objects[id] \in Script, Delete(p)
  PROVE  Spared(p, id)
<1> DEFINE j == jobs[p]
<1>1. At(p, "delete")
  BY DEF Delete
<1>2. /\ j \in Job /\ JobSound(j, objects, marks, trash, touched[p]) /\ j.phase = "delete"
      /\ "delete" \in DOMAIN Steps(j.req.cmd) /\ j.req.id \in Ids
      /\ j.req.cmd \in Commands
  BY <1>1, JobAt
<1>3. objects' = [objects EXCEPT ![j.req.id] = Absent]
  BY DEF Delete
<1>4. CASE id = j.req.id
  <2>1. j.req.cmd \in Moving \cup {"remove"}
    BY <1>2, NextPhases
  <2>2. [id |-> id, script |-> j.script] \in trash
    BY <1>2, <1>4 DEF JobSound, BackedUp
  <2>3. Obj(id) \in touched[p] \/ objects[id] = j.script \/ j.script = Absent
    BY <1>2, <1>4 DEF JobSound, ScriptKnown, Undeleted
  <2>4. j.script # Absent
    <3>1. trash \subseteq [id : Ids, script : Script]
      BY DEF JobsInv, TypeOK
    <3>2. j.script \in Script
      BY <2>2, <3>1
    <3> QED BY <3>2, RecordsAssumption
  <2> QED BY <2>2, <2>3, <2>4 DEF Spared
<1>5. CASE id # j.req.id
  BY <1>2, <1>3, <1>5 DEF Spared, JobsInv, TypeOK
<1> QED BY <1>4, <1>5

LEMMA SparedByToggle ==
  ASSUME JobsInv, NEW p \in Procs, NEW id \in Ids, objects[id] \in Script,
         At(p, "toggle"), Toggle(p)
  PROVE  Spared(p, id)
<1>1. jobs[p] \in Job
  BY JobAt
<1>2. jobs[p].left \subseteq Ids
  BY <1>1 DEF Job
<1>3. PICK a \in jobs[p].left, enabled \in BOOLEAN : setEnabled(a, enabled)
  BY DEF Toggle, Wanted
<1>4. /\ \A b \in Ids \ {a} : objects'[b] = objects[b]
      /\ objects[a] \in Script => /\ objects'[a] \in Script
                                  /\ objects'[a].source = objects[a].source
  BY <1>2, <1>3, EnabledSet
<1> QED BY <1>4 DEF Spared

(* No command makes a script disappear, or puts another in its place,      *)
(* unless the whole object is in the trash or somebody saved it after the  *)
(* command last read it.                                                   *)
THEOREM BackupBeforeLoss == Spec => DestroysOnlyBackedUp
<1>1. ASSUME JobsInv, [Next]_vars, NEW p \in Procs, NEW id \in Ids, jobs'[p] # jobs[p],
             objects[id] \in Script
      PROVE  Spared(p, id)
  <2>1. Next
    BY <1>1 DEF vars
  <2>2. Run(p) \/ UNCHANGED objects
    BY <1>1, <2>1, Steppers DEF world
  <2>3. CASE UNCHANGED objects
    BY <1>1, <2>3 DEF Spared
  <2> QED BY <1>1, <2>2, <2>3, Touching, SparedByCreate, SparedByDelete, SparedByToggle
<1>2. JobsInv /\ [Next]_vars =>
        [\A p \in Procs : \A id \in Ids :
           /\ jobs'[p] # jobs[p]
           /\ objects[id] \in Script
           /\ IF objects'[id] \in Script THEN objects'[id].source # objects[id].source
                                         ELSE TRUE
           => \/ [id |-> id, script |-> objects[id]] \in trash
              \/ Obj(id) \in touched[p]]_vars
  BY <1>1 DEF Spared
<1> QED BY <1>2, JobsInvariant, PTL DEF Spec, DestroysOnlyBackedUp

(* A rename or a move that deletes the original has a good copy.           *)
THEOREM GoodCopyFirst == Spec => OriginalOutlivesBadCopy
<1>1. ASSUME JobsInv, NEW p \in Procs, Delete(p), jobs[p].req.cmd # "remove"
      PROVE  \/ /\ objects[jobs[p].req.to] \in Script
                /\ objects[jobs[p].req.to].source = jobs[p].script.source
             \/ Obj(jobs[p].req.to) \in touched[p]
  <2> DEFINE j == jobs[p]
  <2>1. At(p, "delete")
    BY <1>1 DEF Delete
  <2>2. /\ JobSound(j, objects, marks, trash, touched[p]) /\ j.phase = "delete"
        /\ "delete" \in DOMAIN Steps(j.req.cmd)
        /\ j.req.cmd \in Commands
    BY <1>1, <2>1, JobAt
  <2>3. j.req.cmd \in Moving
    BY <1>1, <2>2, NextPhases
  <2> QED BY <2>2, <2>3 DEF JobSound, ScriptKnown
<1>2. JobsInv /\ [Next]_vars =>
        [\A p \in Procs : LET j == jobs[p] IN
           Delete(p) /\ j.req.cmd # "remove"
           => \/ objects[j.req.to] \in Script /\ objects[j.req.to].source = j.script.source
              \/ Obj(j.req.to) \in touched[p]]_vars
  BY <1>1
<1> QED BY <1>2, JobsInvariant, PTL DEF Spec, OriginalOutlivesBadCopy

(* A sweep that read both halves takes no object from a value.             *)
THEOREM NoOrphans == Spec => SweepLeavesNoValue
<1>1. ASSUME JobsInv, [Next]_vars, NEW p \in Procs, NEW id \in Ids, NEW k \in Marks,
             jobs'[p] # jobs[p], "object" \in marks[id][k] \ marks'[id][k],
             jobs[p].complete, Mark(id, k) \notin touched[p]
      PROVE  "value" \notin marks'[id][k]
  <2> DEFINE j == jobs[p]
  <2>1. marks \in [Ids -> [Marks -> SUBSET Halves]]
    BY <1>1 DEF JobsInv, TypeOK
  <2>2. Run(p)
    BY <1>1, Steppers DEF vars, world
  <2>3. CASE SweepValue(p)
    <3>1. PICK e \in Sweeping(p), gone \in {{"value"}, Halves} :
            marks' = [marks EXCEPT ![j.req.id][e.mark] = @ \ gone]
      BY <2>3 DEF SweepValue
    <3> QED BY <1>1, <2>1, <3>1 DEF Halves
  <2>4. CASE SweepObject(p)
    <3>1. PICK e \in Sweeping(p) :
            /\ ~ValueDue(j, e)
            /\ marks' = [marks EXCEPT ![j.req.id][e.mark] = @ \ {"object"}]
      BY <2>4 DEF SweepObject
    <3>2. id = j.req.id /\ k = e.mark
      BY <1>1, <2>1, <3>1
    <3>3. At(p, "sweep") /\ e \in j.found /\ j.at \in {Absent, e.mark}
      BY DEF Sweeping
    <3>4. JobSound(j, objects, marks, trash, touched[p]) /\ j.phase = "sweep"
      BY <1>1, <3>3, JobAt
    <3>5. /\ e.value \/ "value" \notin marks[id][k]
          /\ j.at = k => "value" \notin marks[id][k]
      BY <1>1, <3>2, <3>3, <3>4 DEF JobSound, MarksKnown
    <3>6. "value" \notin marks[id][k]
      BY <3>1, <3>2, <3>3, <3>5 DEF ValueDue
    <3> QED BY <2>1, <3>1, <3>6
  <2>5. CASE UNCHANGED marks
    BY <1>1, <2>5
  <2>6. SweepValue(p) \/ SweepObject(p) \/ UNCHANGED marks
    BY <2>2 DEF Run, Fetch, CheckTarget, EnsureFolders, Load, ListMarkers, SweepFails,
      SweepEnds, Create, Verify, Backup, Delete, Unlink, MoveFile, WriteFile, Save,
      ResolveTargets, Toggle, ToggleEnds, MakeDirectory, SnapshotObject, SnapshotSource,
      SnapshotManifest, world
  <2> QED BY <2>3, <2>4, <2>5, <2>6
<1>2. JobsInv /\ [Next]_vars =>
        [\A p \in Procs : \A id \in Ids, k \in Marks :
           /\ jobs'[p] # jobs[p]
           /\ "object" \in marks[id][k] \ marks'[id][k]
           /\ jobs[p].complete
           /\ Mark(id, k) \notin touched[p]
           => "value" \notin marks'[id][k]]_vars
  BY <1>1
<1> QED BY <1>2, JobsInvariant, PTL DEF Spec, SweepLeavesNoValue

(* Every script start, stop and restart chose is as promised in the end.   *)
THEOREM AllToggled == Spec => TargetsSettled
<1>1. ASSUME JobsInv, NEW p \in Procs, NEW id \in Ids, ToggleEnds(p), id \in jobs[p].chosen,
             Obj(id) \notin touched[p]
      PROVE  objects[id] \in Script /\ objects[id].enabled = Wanted(jobs[p].req.cmd)
  <2>1. At(p, "toggle") /\ jobs[p].left = {}
    BY <1>1 DEF ToggleEnds
  <2>2. JobSound(jobs[p], objects, marks, trash, touched[p]) /\ jobs[p].phase = "toggle"
    BY <1>1, <2>1, JobAt
  <2> QED BY <1>1, <2>1, <2>2 DEF JobSound, TargetsKnown
<1>2. JobsInv /\ [Next]_vars =>
        [\A p \in Procs : \A id \in Ids :
           /\ ToggleEnds(p)
           /\ id \in jobs[p].chosen
           /\ Obj(id) \notin touched[p]
           => objects[id] \in Script /\ objects[id].enabled = Wanted(jobs[p].req.cmd)]_vars
  BY <1>1
<1> QED BY <1>2, JobsInvariant, PTL DEF Spec, TargetsSettled

(* A snapshot with a manifest holds every script the manifest names.       *)
THEOREM BackupsWhole ==
  ASSUME NamesApart
  PROVE  Spec => []SnapshotWhole
<1>1. JobsInv => SnapshotWhole
  BY DEF JobsInv, SnapshotsSound
<1> QED BY <1>1, JobsInvariant, PTL

-----------------------------------------------------------------------------
(* What a rename carries over *)

(* The phases of a rename once the original is gone.                       *)
Late == {"list", "sweep", "load", "movefile", "save"}

(* Files and objects only change where it is noted.                        *)
SidesNoted(news) ==
  /\ \A path \in Paths : files'[path] = files[path] \/ File(path) \in news
  /\ \A id \in Ids : objects'[id] = objects[id] \/ Obj(id) \in news

LEMMA MoveKept ==
  ASSUME NEW j \in Job, JobShape(j), NEW old, NEW news, old \subseteq news,
         SidesNoted(news), MoveKnown(j, files, objects, old)
  PROVE  MoveKnown(j, files', objects', news)
<1> DEFINE row  == j.mem[j.req.id]
           new  == RenamedPath(j)
           here == IF j.phase = "movefile" THEN row.path ELSE new
<1>1. j.req.to \in Ids
  BY RequestFacts
<1>2. j.req.cmd \in Moving /\ j.phase \in Late /\ Obj(j.req.to) \notin news
        => objects'[j.req.to] \in Script /\ objects'[j.req.to].source = j.script.source
  BY <1>1 DEF MoveKnown, SidesNoted, Late
<1>3. ASSUME j.was # Absent
      PROVE  /\ j.req.cmd \in Moving /\ j.phase \in {"movefile", "save"}
             /\ {new[2], row.path[2]} \subseteq ScriptExts
             /\ {File(row.path), File(new)} \cap news = {} =>
                  /\ j.was = TrackedState(row, files'[here], j.script)
                  /\ j.phase = "movefile" => files'[new] = Absent
  <2>1. /\ j.req.cmd \in Moving /\ j.phase \in {"movefile", "save"}
        /\ {new[2], row.path[2]} \subseteq ScriptExts
        /\ {File(row.path), File(new)} \cap old = {} =>
             /\ j.was = TrackedState(row, files[here], j.script)
             /\ j.phase = "movefile" => files[new] = Absent
    BY <1>3 DEF MoveKnown
  <2>2. row.path \in Paths /\ new \in Paths
    BY <2>1, RenamedPathType DEF JobShape
  <2>3. ASSUME {File(row.path), File(new)} \cap news = {}
        PROVE  files'[here] = files[here] /\ files'[new] = files[new]
    BY <2>2, <2>3 DEF SidesNoted
  <2> HIDE DEF row, new, here
  <2> QED BY <2>1, <2>3
<1> QED BY <1>2, <1>3 DEF MoveKnown, Late

(* One command takes a step, and the others notice.                        *)
LEMMA MovesGo ==
  ASSUME JobsInv, MovesSound, NEW p \in Procs, NEW k, NEW read, NEW wrote,
         Going(p, k, read, wrote), SidesNoted(wrote),
         k = Over \/ MoveKnown(k, files', objects', touched[p] \ read)
  PROVE  MovesSound'
<1>1. jobs \in [Procs -> Job \cup {Absent, Over}] /\ touched \in [Procs -> SUBSET Things]
  BY DEF JobsInv, TypeOK
<1>2. /\ jobs' = [jobs EXCEPT ![p] = k]
      /\ touched' = [q \in Procs |->
           CASE q = p -> IF k = Over THEN {} ELSE touched[q] \ read
             [] q # p /\ Running(q) -> touched[q] \cup wrote
             [] OTHER -> {}]
  BY DEF Going
<1>3. ASSUME NEW q \in Procs, jobs'[q] \notin {Absent, Over}
      PROVE  MoveKnown(jobs'[q], files', objects', touched'[q])
  <2>1. CASE q = p
    <3>1. jobs'[q] = k /\ k # Over
      BY <1>1, <1>2, <1>3, <2>1
    <3>2. touched'[q] = touched[p] \ read
      BY <1>2, <2>1, <3>1
    <3> QED BY <3>1, <3>2
  <2>2. CASE q # p
    <3>1. jobs'[q] = jobs[q] /\ Running(q)
      BY <1>1, <1>2, <1>3, <2>2 DEF Running
    <3>2. touched'[q] = touched[q] \cup wrote
      BY <1>2, <2>2, <3>1
    <3>3. jobs[q] \in Job /\ JobShape(jobs[q])
      BY <1>1, <3>1 DEF JobsInv, Running, JobSound
    <3>4. MoveKnown(jobs[q], files, objects, touched[q])
      BY <3>1 DEF MovesSound
    <3>5. SidesNoted(touched[q] \cup wrote)
      BY DEF SidesNoted
    <3> QED BY <3>1, <3>2, <3>3, <3>4, <3>5, MoveKept
  <2> QED BY <2>1, <2>2
<1> QED BY <1>3 DEF MovesSound, Running

(* What a command has in hand where it is.                                 *)
LEMMA MoveAt ==
  ASSUME JobsInv, MovesSound, NEW p \in Procs, NEW phase, At(p, phase)
  PROVE  /\ MoveKnown(jobs[p], files, objects, touched[p])
         /\ phase \notin {"movefile", "save"} => jobs[p].was = Absent
BY JobAt DEF MovesSound, MoveKnown, At

(* Most steps carry nothing over and lose nothing: they lead to a phase    *)
(* before the original is gone, or leave the copy alone.                   *)
Carried(k, j) ==
  \/ k = Over
  \/ /\ k.was = Absent
     /\ \/ k.req.cmd \notin Moving
        \/ k.phase \notin Late
        \/ /\ j.phase \in Late /\ k.req = j.req /\ k.script = j.script
           /\ UNCHANGED objects

LEMMA Carries ==
  ASSUME JobsInv, MovesSound, NEW p \in Procs, NEW k, NEW read, NEW wrote, Running(p),
         Going(p, k, read, wrote), SidesNoted(wrote), Carried(k, jobs[p]),
         jobs[p].phase \notin Late \/ \A id \in Ids : Obj(id) \notin read
  PROVE  MovesSound'
<1>1. CASE k = Over
  BY <1>1, MovesGo
<1>2. ASSUME k # Over
      PROVE  MoveKnown(k, files', objects', touched[p] \ read)
  <2>1. k.was = Absent
    BY <1>2 DEF Carried
  <2>2. CASE k.req.cmd \notin Moving \/ k.phase \notin Late
    BY <2>1, <2>2 DEF MoveKnown, Late
  <2>3. CASE k.req.cmd \in Moving /\ k.phase \in Late
    <3>1. /\ jobs[p].phase \in Late /\ k.req = jobs[p].req /\ k.script = jobs[p].script
          /\ objects' = objects
      BY <1>2, <2>3 DEF Carried
    <3>2. At(p, jobs[p].phase)
      BY <3>1 DEF At
    <3>3. MoveKnown(jobs[p], files, objects, touched[p]) /\ jobs[p].req.to \in Ids
      BY <3>2, JobAt, MoveAt
    <3>4. Obj(jobs[p].req.to) \notin read
      BY <3>1, <3>3
    <3> QED BY <2>1, <2>3, <3>1, <3>3, <3>4 DEF MoveKnown, Late
  <2> QED BY <2>2, <2>3
<1> QED BY <1>1, <1>2, MovesGo

(* Going on from any phase but the delete carries the copy along.          *)
LEMMA OnwardCarried ==
  ASSUME NEW j \in Job, NEW i, j.was = Absent, j.phase \in DOMAIN Steps(j.req.cmd),
         j.phase # "delete", i.phase = j.phase, i.req = j.req,
         j.phase \in Late => i.script = j.script /\ UNCHANGED objects
  PROVE  Carried(Onward(j), i)
<1> DEFINE k == Onward(j)
<1>1. \/ k = Over
      \/ /\ k.phase = Steps(j.req.cmd)[j.phase] /\ k.was = Absent
         /\ k.req = j.req /\ k.script = j.script
  BY OnwardFacts
<1>2. j.req.cmd \in Commands
  BY RequestFacts
<1>3. \/ j.req.cmd \notin Moving
      \/ Steps(j.req.cmd)[j.phase] \notin Late
      \/ j.phase \in Late
  <2>1. j.phase \in Phases
    BY <1>2, StepsClosed
  <2> QED BY <1>2, <2>1, NextPhases DEF Late, Moving, Phases
<1> HIDE DEF k
<1>4. Carried(k, i)
  BY <1>1, <1>3 DEF Carried
<1> QED BY <1>4 DEF k

(* The steps of a command that neither read nor write a file or an object, *)
(* but for reading early on.                                               *)
LEMMA CarriesReading ==
  ASSUME JobsInv, MovesSound, NEW p \in Procs, NEW k, NEW read, NEW wrote, Running(p),
         Going(p, k, read, wrote), UNCHANGED <<files, objects>>, Carried(k, jobs[p]),
         jobs[p].phase \notin Late \/ \A id \in Ids : Obj(id) \notin read
  PROVE  MovesSound'
<1>1. SidesNoted(wrote)
  BY DEF SidesNoted
<1> QED BY <1>1, Carries

LEMMA MovesStart ==
  ASSUME JobsInv, MovesSound, NEW p \in Procs, NEW req \in Requests, Start(p, req)
  PROVE  MovesSound'
<1> DEFINE k == [req |-> req, phase |-> FirstPhase(req.cmd), script |-> Absent,
                 found |-> {}, complete |-> TRUE, at |-> Absent,
                 mem |-> [id \in Ids |-> Absent], chosen |-> {}, left |-> {},
                 was |-> Absent, listed |-> NoScripts, dir |-> Absent]
<1>1. Going(p, k, {}, {}) /\ jobs[p] = Absent /\ UNCHANGED <<files, objects>>
  BY DEF Start, Turn, world
<1>2. k.was = Absent /\ k.phase \notin Late
  BY DEF FirstPhase, Late
<1> HIDE DEF k
<1>3. SidesNoted({}) /\ MoveKnown(k, files', objects', touched[p] \ {})
  BY <1>1, <1>2 DEF SidesNoted, MoveKnown, Late
<1> QED BY <1>1, <1>3, MovesGo

LEMMA MovesEnd ==
  ASSUME JobsInv, MovesSound, NEW p \in Procs, NEW read, NEW wrote,
         Going(p, Over, read, wrote), SidesNoted(wrote)
  PROVE  MovesSound'
BY MovesGo

LEMMA MovesFetch ==
  ASSUME JobsInv, MovesSound, NEW p \in Procs, Fetch(p)
  PROVE  MovesSound'
<1> DEFINE j == jobs[p]
           script == scanRemote(objects)[j.req.id]
           w == [j EXCEPT !.script = script]
<1>1. At(p, "fetch")
  BY DEF Fetch
<1>2. /\ j \in Job /\ j.phase = "fetch" /\ "fetch" \in DOMAIN Steps(j.req.cmd)
      /\ j.req.id \in Ids /\ j.was = Absent
  BY <1>1, JobAt, MoveAt
<1>3. \E k \in {Over, Onward(w)} :
        Going(p, k, {Obj(j.req.id)}, {}) /\ UNCHANGED <<files, objects>>
  BY DEF Fetch, Turn, world
<1>4. script \in Script \cup {Absent}
  BY <1>2, ScanFacts
<1> HIDE DEF script
<1>5. w \in Job /\ w.phase = "fetch" /\ w.req = j.req /\ w.was = Absent
  BY <1>2, <1>4 DEF Job
<1>6. Carried(Onward(w), j) /\ Carried(Over, j)
  BY <1>2, <1>5, OnwardCarried DEF Late, Carried
<1> QED BY <1>1, <1>2, <1>3, <1>6, CarriesReading DEF At, Late

LEMMA MovesCheckTarget ==
  ASSUME JobsInv, MovesSound, NEW p \in Procs, CheckTarget(p)
  PROVE  MovesSound'
<1> DEFINE j == jobs[p]
<1>1. At(p, "target")
  BY DEF CheckTarget
<1>2. /\ j \in Job /\ j.phase = "target" /\ "target" \in DOMAIN Steps(j.req.cmd)
      /\ j.was = Absent
  BY <1>1, JobAt, MoveAt
<1>3. \E k \in {Over, Onward(j)} :
        Going(p, k, {Obj(j.req.to)}, {}) /\ UNCHANGED <<files, objects>>
  BY DEF CheckTarget, Turn, world
<1>4. Carried(Onward(j), j) /\ Carried(Over, j)
  BY <1>2, OnwardCarried DEF Late, Carried
<1> QED BY <1>1, <1>2, <1>3, <1>4, CarriesReading DEF At, Late

(* Folders, the trash, the directory of a backup.                          *)
LEMMA MovesOnward ==
  ASSUME JobsInv, MovesSound, NEW p \in Procs,
         EnsureFolders(p) \/ Backup(p)
  PROVE  MovesSound'
<1> DEFINE j == jobs[p]
<1>1. PICK phase \in {"folders", "backup"} : At(p, phase)
  BY DEF EnsureFolders, Backup
<1>2. /\ j \in Job /\ j.phase = phase /\ phase \in DOMAIN Steps(j.req.cmd)
      /\ j.was = Absent
  BY <1>1, JobAt, MoveAt
<1>3. Going(p, Onward(j), {}, {}) /\ UNCHANGED <<files, objects>>
  BY DEF EnsureFolders, Backup, Turn, world
<1>4. Carried(Onward(j), j)
  BY <1>2, OnwardCarried DEF Late
<1> QED BY <1>1, <1>3, <1>4, CarriesReading DEF At

LEMMA MovesListMarkers ==
  ASSUME JobsInv, MovesSound, NEW p \in Procs, ListMarkers(p)
  PROVE  MovesSound'
<1> DEFINE j == jobs[p]
<1>1. PICK phase \in {"leftovers", "list"} : At(p, phase)
  BY DEF ListMarkers
<1>2. /\ j \in Job /\ j.phase = phase /\ phase \in DOMAIN Steps(j.req.cmd)
      /\ j.req.id \in Ids /\ j.was = Absent
  BY <1>1, JobAt, MoveAt
<1>3. PICK read \in SUBSET Halves :
        Turn(p, Onward([j EXCEPT !.found = Listed(j.req.id, read),
                                 !.complete = (read = Halves)]),
             {Mark(j.req.id, k) : k \in Marks}, {})
  BY DEF ListMarkers
<1> DEFINE w == [j EXCEPT !.found = Listed(j.req.id, read), !.complete = (read = Halves)]
<1>4. /\ Going(p, Onward(w), {Mark(j.req.id, k) : k \in Marks}, {})
      /\ UNCHANGED <<files, objects>>
  BY <1>3 DEF ListMarkers, Turn, world
<1>5. w \in Job /\ w.phase = phase /\ w.req = j.req /\ w.script = j.script /\ w.was = Absent
  <2>1. Listed(j.req.id, read) \subseteq Leftover /\ (read = Halves) \in BOOLEAN
    BY DEF Listed
  <2> QED BY <1>2, <2>1 DEF Job
<1>6. Carried(Onward(w), j)
  BY <1>2, <1>4, <1>5, OnwardCarried
<1>7. \A id \in Ids : Obj(id) \notin {Mark(j.req.id, k) : k \in Marks}
  BY Apart
<1> QED BY <1>1, <1>4, <1>6, <1>7, CarriesReading DEF At

(* A sweep stays where it is until it ends.                                *)
LEMMA MovesSweep ==
  ASSUME JobsInv, MovesSound, NEW p \in Procs, SweepValue(p) \/ SweepObject(p) \/ SweepFails(p)
  PROVE  MovesSound'
<1> DEFINE j == jobs[p]
<1>1. At(p, "sweep") /\ UNCHANGED <<files, objects>>
  BY DEF SweepValue, SweepObject, SweepFails, Sweeping, world
<1>2. j \in Job /\ j.phase = "sweep" /\ j.was = Absent
  BY <1>1, JobAt, MoveAt
<1>3. \E k, wrote : /\ Going(p, k, {}, wrote)
                    /\ \/ \E m : k = [j EXCEPT !.at = m]
                       \/ \E e : k = [j EXCEPT !.found = @ \ {e}, !.at = Absent]
  <2>1. CASE SweepValue(p)
    BY <2>1 DEF SweepValue, Turn
  <2>2. CASE SweepObject(p)
    BY <2>2 DEF SweepObject, Turn
  <2>3. CASE SweepFails(p)
    BY <2>3 DEF SweepFails, Turn
  <2> QED BY <2>1, <2>2, <2>3
<1>4. PICK k, wrote : /\ Going(p, k, {}, wrote)
                      /\ \/ \E m : k = [j EXCEPT !.at = m]
                         \/ \E e : k = [j EXCEPT !.found = @ \ {e}, !.at = Absent]
  BY <1>3
<1>5. k.was = Absent /\ k.phase = "sweep" /\ k.req = j.req /\ k.script = j.script
  BY <1>2, <1>4 DEF Job
<1>6. Carried(k, j)
  BY <1>1, <1>2, <1>5 DEF Carried, Late
<1> QED BY <1>1, <1>4, <1>6, CarriesReading DEF At

LEMMA MovesSweepEnds ==
  ASSUME JobsInv, MovesSound, NEW p \in Procs, SweepEnds(p)
  PROVE  MovesSound'
<1> DEFINE j == jobs[p]
<1>1. At(p, "sweep") /\ UNCHANGED <<files, objects>>
  BY DEF SweepEnds, world
<1>2. /\ j \in Job /\ j.phase = "sweep" /\ "sweep" \in DOMAIN Steps(j.req.cmd)
      /\ j.was = Absent
  BY <1>1, JobAt, MoveAt
<1>3. \E k \in {Over, Onward(j)} : Going(p, k, {}, {})
  BY DEF SweepEnds, Turn
<1>4. Carried(Onward(j), j) /\ Carried(Over, j)
  BY <1>1, <1>2, OnwardCarried DEF Carried
<1> QED BY <1>1, <1>3, <1>4, CarriesReading DEF At

LEMMA MovesCreate ==
  ASSUME JobsInv, MovesSound, NEW p \in Procs, Create(p)
  PROVE  MovesSound'
<1> DEFINE j == jobs[p]
<1>1. At(p, "create")
  BY DEF Create
<1>2. /\ j \in Job /\ j.phase = "create" /\ "create" \in DOMAIN Steps(j.req.cmd)
      /\ j.req.to \in Ids /\ j.was = Absent
  BY <1>1, JobAt, MoveAt
<1>3. /\ Going(p, Onward(j), {}, {Obj(j.req.to)}) /\ files' = files
      /\ \E script : objects' = [objects EXCEPT ![j.req.to] = script]
  BY DEF Create, Turn
<1>4. SidesNoted({Obj(j.req.to)})
  BY <1>2, <1>3 DEF SidesNoted, JobsInv, TypeOK
<1>5. Carried(Onward(j), j)
  BY <1>2, OnwardCarried DEF Late
<1> QED BY <1>1, <1>2, <1>3, <1>4, <1>5, Carries DEF At, Late

LEMMA MovesVerify ==
  ASSUME JobsInv, MovesSound, NEW p \in Procs, Verify(p)
  PROVE  MovesSound'
<1> DEFINE j == jobs[p]
<1>1. At(p, "verify")
  BY DEF Verify
<1>2. /\ j \in Job /\ j.phase = "verify" /\ "verify" \in DOMAIN Steps(j.req.cmd)
      /\ j.was = Absent
  BY <1>1, JobAt, MoveAt
<1>3. \E k \in {Over, Onward(j)} :
        Going(p, k, {Obj(j.req.to)}, {}) /\ UNCHANGED <<files, objects>>
  BY DEF Verify, Turn, world
<1>4. Carried(Onward(j), j) /\ Carried(Over, j)
  BY <1>2, OnwardCarried DEF Late, Carried
<1> QED BY <1>1, <1>2, <1>3, <1>4, CarriesReading DEF At, Late

(* The original goes, the copy is as it was compared.                      *)
LEMMA MovesDelete ==
  ASSUME JobsInv, MovesSound, NEW p \in Procs, Delete(p)
  PROVE  MovesSound'
<1> DEFINE j == jobs[p]
           k == Onward(j)
<1>1. At(p, "delete")
  BY DEF Delete
<1>2. /\ j \in Job /\ j.phase = "delete" /\ "delete" \in DOMAIN Steps(j.req.cmd)
      /\ JobSound(j, objects, marks, trash, touched[p])
      /\ j.req.id \in Ids /\ j.req.to \in Ids /\ j.req.cmd \in Commands /\ j.was = Absent
  BY <1>1, JobAt, MoveAt
<1>3. /\ Going(p, k, {}, {Obj(j.req.id)}) /\ files' = files
      /\ objects' = [objects EXCEPT ![j.req.id] = Absent]
  BY DEF Delete, Turn
<1>4. SidesNoted({Obj(j.req.id)})
  BY <1>2, <1>3 DEF SidesNoted, JobsInv, TypeOK
<1>5. k.was = Absent /\ k.req = j.req /\ k.script = j.script
  BY <1>2, OnwardFacts, NextPhases
<1>6. ASSUME j.req.cmd \in Moving, Obj(j.req.to) \notin touched[p]
      PROVE  objects'[j.req.to] \in Script /\ objects'[j.req.to].source = j.script.source
  <2>1. j.req.to # j.req.id
    BY <1>2, <1>6 DEF JobSound, JobShape
  <2>2. objects[j.req.to] \in Script /\ objects[j.req.to].source = j.script.source
    BY <1>2, <1>6 DEF JobSound, ScriptKnown
  <2> QED BY <1>2, <1>3, <2>1, <2>2 DEF JobsInv, TypeOK
<1> HIDE DEF j, k
<1>7. MoveKnown(k, files', objects', touched[p] \ {})
  BY <1>5, <1>6 DEF MoveKnown
<1> QED BY <1>3, <1>4, <1>7, MovesGo

(* How the script compares is settled once the manifest is loaded.         *)
LEMMA StateBeforeFacts ==
  ASSUME JobsInv, NEW j \in Job, manifest[j.req.id] # Absent,
         StateBefore(j, manifest[j.req.id]) # Absent
  PROVE  LET row == manifest[j.req.id]
             new == RenamedPath([j EXCEPT !.mem = manifest])
         IN  /\ {new[2], row.path[2]} \subseteq ScriptExts
             /\ StateBefore(j, row) = TrackedState(row, files[row.path], j.script)
             /\ files[new] = Absent
BY DEF StateBefore

LEMMA LoadMoves ==
  ASSUME JobsInv, MovesSound, NEW p \in Procs, Load(p),
         jobs[p].req.cmd \in Moving, manifest[jobs[p].req.id] # Absent
  PROVE  MovesSound'
<1> DEFINE i == jobs[p]
           j == [i EXCEPT !.mem = manifest]
           row == manifest[i.req.id]
           was == StateBefore(j, row)
           w == [j EXCEPT !.was = was]
           k == Onward(w)
           read == {State} \cup {File(path) : path \in Paths}
<1>1. At(p, "load")
  BY DEF Load
<1>2. /\ i \in Job /\ i.phase = "load" /\ "load" \in DOMAIN Steps(i.req.cmd)
      /\ i.req.cmd \in Commands /\ i.req.id \in Ids /\ i.req.to \in Ids /\ i.was = Absent
      /\ MoveKnown(i, files, objects, touched[p])
  BY <1>1, JobAt, MoveAt
<1>3. manifest \in Rows
  BY DEF JobsInv, TypeOK
<1>4. /\ j \in Job /\ j.req = i.req /\ j.script = i.script /\ j.mem = manifest
      /\ j.phase = "load" /\ [j EXCEPT !.mem = manifest] = j
  BY <1>2, <1>3 DEF Job
<1>5. Going(p, k, read, {}) /\ UNCHANGED <<files, objects>>
  BY <1>4 DEF Load, Turn, Moving, world
<1> HIDE DEF j
<1>6. was \in States \cup {Absent}
  <2>1. i.script # Absent
    BY <1>1, <1>2, JobAt DEF JobSound, JobShape, Moving
  <2> QED BY <1>4, <2>1, StateBeforeType
<1>7. was # Absent => /\ {RenamedPath(j)[2], row.path[2]} \subseteq ScriptExts
                      /\ was = TrackedState(row, files[row.path], j.script)
                      /\ files[RenamedPath(j)] = Absent
  BY <1>4, StateBeforeFacts
<1> HIDE DEF was
<1>8. /\ w \in Job /\ w.phase = "load" /\ w.req = i.req /\ w.script = i.script
      /\ w.mem = manifest /\ w.was = was
  BY <1>4, <1>6 DEF Job
<1> HIDE DEF w
<1>9. /\ k \in Job /\ k.phase = "movefile" /\ k.req = i.req /\ k.script = i.script
      /\ k.mem = manifest /\ k.was = was /\ k.req.cmd \in Moving
  BY <1>2, <1>8, OnwardFacts, NextPhases DEF Moving
<1> HIDE DEF k
<1>10. RenamedPath(k) = RenamedPath(j)
  BY <1>4, <1>9 DEF RenamedPath
<1>11. Obj(i.req.to) \notin read
  BY Apart
<1>12. Obj(i.req.to) \notin touched[p]
         => objects[i.req.to] \in Script /\ objects[i.req.to].source = i.script.source
  BY <1>2 DEF MoveKnown
<1> HIDE DEF read, i
<1>13. MoveKnown(k, files', objects', touched[p] \ read)
  <2>1. Obj(k.req.to) \notin touched[p] \ read
          => objects'[k.req.to] \in Script /\ objects'[k.req.to].source = k.script.source
    BY <1>5, <1>9, <1>11, <1>12
  <2>2. k.mem[k.req.id] = row
    BY <1>9
  <2> HIDE DEF row
  <2>3. k.was # Absent =>
          /\ {RenamedPath(k)[2], row.path[2]} \subseteq ScriptExts
          /\ k.was = TrackedState(row, files'[row.path], k.script)
          /\ files'[RenamedPath(k)] = Absent
    BY <1>4, <1>5, <1>7, <1>9, <1>10
  <2> QED BY <1>2, <1>9, <2>1, <2>2, <2>3 DEF MoveKnown
<1>14. SidesNoted({})
  BY <1>5 DEF SidesNoted
<1> QED BY <1>5, <1>13, <1>14, MovesGo

LEMMA MovesLoad ==
  ASSUME JobsInv, MovesSound, NEW p \in Procs, Load(p)
  PROVE  MovesSound'
<1> DEFINE i == jobs[p]
           j == [i EXCEPT !.mem = manifest]
           w == [j EXCEPT !.found = {}]
           k == Onward(w)
           read == {State} \cup {File(path) : path \in Paths}
<1>1. At(p, "load")
  BY DEF Load
<1>2. /\ i \in Job /\ i.phase = "load" /\ "load" \in DOMAIN Steps(i.req.cmd)
      /\ i.req.cmd \in Commands /\ i.was = Absent
  BY <1>1, JobAt, MoveAt
<1>3. manifest \in Rows
  BY DEF JobsInv, TypeOK
<1>4. j \in Job /\ j.req = i.req /\ j.script = i.script /\ j.phase = "load" /\ j.was = Absent
  BY <1>2, <1>3 DEF Job
<1>5. UNCHANGED <<files, objects>>
  BY DEF Load, world
<1>6. \A id \in Ids : Obj(id) \notin read
  BY Apart
<1>7. CASE i.req.cmd \in Moving /\ manifest[i.req.id] = Absent
  <2>1. Going(p, Over, read, {})
    BY <1>4, <1>7 DEF Load, Turn, Moving
  <2> QED BY <1>5, <2>1, MovesEnd DEF SidesNoted
<1>8. CASE i.req.cmd \in Moving /\ manifest[i.req.id] # Absent
  BY <1>8, LoadMoves
<1>9. CASE i.req.cmd \notin Moving
  <2>1. \E m \in {Over, [j EXCEPT !.phase = "sweep"], k} : Going(p, m, read, {})
    BY <1>4, <1>9 DEF Load, Turn, Moving
  <2>2. w \in Job /\ w.req = i.req /\ w.script = i.script /\ w.phase = "load" /\ w.was = Absent
    BY <1>4 DEF Job
  <2> HIDE DEF w
  <2>3. Carried(k, i) /\ Carried(Over, i)
    BY <1>2, <1>5, <2>2, OnwardCarried DEF Carried
  <2>4. Carried([j EXCEPT !.phase = "sweep"], i)
    <3>1. /\ [j EXCEPT !.phase = "sweep"].was = Absent
          /\ [j EXCEPT !.phase = "sweep"].req = i.req
      BY <1>4 DEF Job
    <3> QED BY <1>9, <3>1 DEF Carried
  <2> HIDE DEF i, j, k, read
  <2> QED BY <1>1, <1>5, <1>6, <2>1, <2>3, <2>4, CarriesReading DEF At, i
<1> QED BY <1>7, <1>8, <1>9

(* A command other than a rename carries nothing.                          *)
LEMMA MovesUnlink ==
  ASSUME JobsInv, MovesSound, NEW p \in Procs, Unlink(p)
  PROVE  MovesSound'
<1> DEFINE j == jobs[p]
           wanted == j.req.deleteLocal /\ j.mem[j.req.id] # Absent
           wrote == IF wanted THEN {File(j.mem[j.req.id].path)} ELSE {}
<1>1. At(p, "unlink")
  BY DEF Unlink
<1>2. /\ j \in Job /\ j.phase = "unlink" /\ "unlink" \in DOMAIN Steps(j.req.cmd)
      /\ j.was = Absent
  BY <1>1, JobAt, MoveAt
<1>3. /\ Going(p, Onward(j), {}, wrote) /\ objects' = objects
      /\ \/ files' = files
         \/ wanted /\ files' = [files EXCEPT ![j.mem[j.req.id].path] = Absent]
  BY DEF Unlink, Turn
<1>4. SidesNoted(wrote)
  BY <1>3 DEF SidesNoted, JobsInv, TypeOK, Files
<1>5. Carried(Onward(j), j)
  BY <1>2, OnwardCarried DEF Late
<1>6. Running(p) /\ jobs[p].phase \notin Late
  BY <1>1 DEF At, Late
<1> HIDE DEF wanted, wrote
<1> QED BY <1>3, <1>4, <1>5, <1>6, Carries

LEMMA MovesWriteFile ==
  ASSUME JobsInv, MovesSound, NEW p \in Procs, WriteFile(p)
  PROVE  MovesSound'
<1> DEFINE j == jobs[p]
<1>1. At(p, "write")
  BY DEF WriteFile
<1>2. /\ j \in Job /\ j.phase = "write" /\ "write" \in DOMAIN Steps(j.req.cmd)
      /\ j.was = Absent
  BY <1>1, JobAt, MoveAt
<1>3. /\ Going(p, Onward(j), {}, {File(j.req.path)}) /\ objects' = objects
      /\ files' = [files EXCEPT ![j.req.path] = Empty]
  BY DEF WriteFile, Turn
<1>4. SidesNoted({File(j.req.path)})
  BY <1>3 DEF SidesNoted, JobsInv, TypeOK, Files
<1>5. Carried(Onward(j), j)
  BY <1>2, OnwardCarried DEF Late
<1> QED BY <1>1, <1>3, <1>4, <1>5, Carries DEF At

(* The file takes what it says to the new path; if it is not there, the    *)
(* new path is as empty; and if it cannot be moved, nothing is promised.   *)
LEMMA MovesMoveFile ==
  ASSUME JobsInv, MovesSound, NEW p \in Procs, MoveFile(p)
  PROVE  MovesSound'
<1> DEFINE j == jobs[p]
           row == j.mem[j.req.id]
           old == row.path
           new == RenamedPath(j)
<1>1. At(p, "movefile")
  BY DEF MoveFile
<1>2. /\ j \in Job /\ JobSound(j, objects, marks, trash, touched[p]) /\ j.phase = "movefile"
      /\ "movefile" \in DOMAIN Steps(j.req.cmd) /\ j.req.cmd \in Commands
      /\ j.req.cmd \in Moving
      /\ MoveKnown(j, files, objects, touched[p])
  BY <1>1, JobAt, MoveAt, NextPhases DEF Moving
<1>3. old \in Paths /\ new \in Paths /\ j.was \in States \cup {Absent}
  <2>1. j.mem[j.req.id] # Absent
    BY <1>2 DEF JobSound, JobShape
  <2>2. j.was \in States \cup {Absent}
    BY <1>2 DEF Job
  <2> QED BY <1>2, <2>1, <2>2, RenamedPathType
<1>4. objects' = objects
  BY DEF MoveFile
<1>5. files \in Files
  BY DEF JobsInv, TypeOK
<1>6. /\ Obj(j.req.to) \notin touched[p]
         => objects[j.req.to] \in Script /\ objects[j.req.to].source = j.script.source
      /\ j.was # Absent =>
           /\ {new[2], old[2]} \subseteq ScriptExts
           /\ {File(old), File(new)} \cap touched[p] = {} =>
                j.was = TrackedState(row, files[old], j.script) /\ files[new] = Absent
  BY <1>2 DEF MoveKnown
<1>7. ASSUME NEW k, k \in Job, k.phase = "save", k.req = j.req, k.script = j.script,
             k.mem = j.mem, k.was # Absent => k.was = j.was,
             k.was # Absent => files'[new] = files[old]
      PROVE  MoveKnown(k, files', objects', touched[p] \ {})
  <2>1. RenamedPath(k) = new /\ k.mem[k.req.id] = row
    BY <1>7 DEF RenamedPath
  <2>2. Obj(k.req.to) \notin touched[p]
         => objects'[k.req.to] \in Script /\ objects'[k.req.to].source = k.script.source
    BY <1>4, <1>6, <1>7
  <2> HIDE DEF row, new
  <2>3. k.was # Absent =>
          /\ {new[2], row.path[2]} \subseteq ScriptExts
          /\ {File(row.path), File(new)} \cap touched[p] = {} =>
               k.was = TrackedState(row, files'[new], k.script)
    BY <1>6, <1>7
  <2> QED BY <1>2, <1>7, <2>1, <2>2, <2>3 DEF MoveKnown
<1>8. CASE /\ files[old] # Absent
           /\ files' = [[files EXCEPT ![old] = Absent] EXCEPT ![new] = files[old]]
           /\ Turn(p, Onward(j), {}, {File(old), File(new)})
  <2> DEFINE k == Onward(j)
  <2>1. Going(p, k, {}, {File(old), File(new)})
    BY <1>8 DEF Turn
  <2>2. /\ k.phase = "save" /\ k \in Job /\ k.req = j.req /\ k.script = j.script
        /\ k.mem = j.mem /\ k.was = j.was
    BY <1>2, OnwardFacts, NextPhases
  <2> HIDE DEF old, new, k
  <2>3. files'[new] = files[old] /\ SidesNoted({File(old), File(new)})
    BY <1>3, <1>4, <1>5, <1>8 DEF SidesNoted, Files
  <2>4. MoveKnown(k, files', objects', touched[p] \ {})
    BY <1>7, <2>2, <2>3
  <2> QED BY <2>1, <2>3, <2>4, MovesGo
<1>9. CASE /\ Turn(p, Onward([j EXCEPT !.was = IF files[old] = Absent THEN @ ELSE Absent]), {}, {})
           /\ UNCHANGED files
  <2> DEFINE was == IF files[old] = Absent THEN j.was ELSE Absent
             w == [j EXCEPT !.was = was]
             k == Onward(w)
  <2>1. Going(p, k, {}, {})
    BY <1>9 DEF Turn
  <2>2. was \in States \cup {Absent} /\ (was # Absent => was = j.was /\ files[old] = Absent)
    BY <1>3
  <2> HIDE DEF was
  <2>3. /\ w \in Job /\ w.phase = "movefile" /\ w.req = j.req /\ w.script = j.script
        /\ w.mem = j.mem /\ w.was = was
    BY <1>2, <2>2 DEF Job
  <2> HIDE DEF w
  <2>4. /\ k.phase = "save" /\ k \in Job /\ k.req = j.req /\ k.script = j.script
        /\ k.mem = j.mem /\ k.was = was
    BY <1>2, <2>3, OnwardFacts, NextPhases
  <2> HIDE DEF k
  <2>5. SidesNoted({})
    BY <1>4, <1>9 DEF SidesNoted
  <2>6. CASE {File(old), File(new)} \cap touched[p] = {}
    <3>1. was # Absent => files'[new] = files[old]
      BY <1>6, <1>9, <2>2, <2>6
    <3>2. MoveKnown(k, files', objects', touched[p] \ {})
      BY <1>7, <2>2, <2>4, <3>1
    <3> QED BY <2>1, <2>5, <3>2, MovesGo
  <2>7. CASE {File(old), File(new)} \cap touched[p] # {}
    <3>1. RenamedPath(k) = new /\ k.mem[k.req.id] = row
      BY <2>4 DEF RenamedPath
    <3>2. Obj(k.req.to) \notin touched[p]
           => objects'[k.req.to] \in Script /\ objects'[k.req.to].source = k.script.source
      BY <1>4, <1>6, <2>4
    <3>3. k.was # Absent => {new[2], row.path[2]} \subseteq ScriptExts
      BY <1>6, <2>2, <2>4
    <3>4. {File(row.path), File(new)} \cap (touched[p] \ {}) # {}
      BY <2>7
    <3> HIDE DEF row, new
    <3>5. MoveKnown(k, files', objects', touched[p] \ {})
      BY <1>2, <2>4, <3>1, <3>2, <3>3, <3>4 DEF MoveKnown
    <3> QED BY <2>1, <2>5, <3>5, MovesGo
  <2> QED BY <2>6, <2>7
<1> QED BY <1>8, <1>9 DEF MoveFile

LEMMA MovesResolveTargets ==
  ASSUME JobsInv, MovesSound, NEW p \in Procs, ResolveTargets(p)
  PROVE  MovesSound'
<1> DEFINE j == jobs[p]
<1>1. At(p, "targets")
  BY DEF ResolveTargets
<1>2. /\ j \in Job /\ j.phase = "targets" /\ "targets" \in DOMAIN Steps(j.req.cmd)
      /\ j.req.cmd \in Commands /\ j.was = Absent
  BY <1>1, JobAt, MoveAt
<1>3. j.req.cmd \notin Moving
  BY <1>2, NextPhases DEF Moving
<1>4. \E chosen, left, listed :
        LET b == [j EXCEPT !.chosen = chosen, !.left = left, !.listed = listed]
            t == [j EXCEPT !.chosen = chosen, !.left = left]
        IN  \E k \in {Over, Onward(b), Onward(t)} :
              Going(p, k, {Obj(id) : id \in Ids}, {}) /\ UNCHANGED <<files, objects>>
  BY DEF ResolveTargets, Turn, world
<1>5. PICK chosen, left, listed :
        LET b == [j EXCEPT !.chosen = chosen, !.left = left, !.listed = listed]
            t == [j EXCEPT !.chosen = chosen, !.left = left]
        IN  \E k \in {Over, Onward(b), Onward(t)} :
              Going(p, k, {Obj(id) : id \in Ids}, {}) /\ UNCHANGED <<files, objects>>
  BY <1>4
<1> DEFINE b == [j EXCEPT !.chosen = chosen, !.left = left, !.listed = listed]
           t == [j EXCEPT !.chosen = chosen, !.left = left]
<1>6. /\ b.was = Absent /\ b.req = j.req /\ t.was = Absent /\ t.req = j.req
      /\ \A phase : /\ [b EXCEPT !.phase = phase].was = Absent
                    /\ [b EXCEPT !.phase = phase].req = j.req
                    /\ [t EXCEPT !.phase = phase].was = Absent
                    /\ [t EXCEPT !.phase = phase].req = j.req
  BY <1>2 DEF Job
<1>7. Carried(Onward(b), j) /\ Carried(Onward(t), j) /\ Carried(Over, j)
  BY <1>3, <1>6 DEF Onward, Carried
<1> QED BY <1>1, <1>2, <1>5, <1>7, CarriesReading DEF At, Late

(* The loops and the backups are no renames.                               *)
LEMMA MovesAtRest ==
  ASSUME JobsInv, MovesSound, NEW p \in Procs, NEW k, NEW read, NEW wrote, NEW phase,
         phase \in {"toggle", "mkdir", "snapshot"}, At(p, phase), UNCHANGED files,
         Going(p, k, read, wrote), SidesNoted(wrote),
         k = Over \/ (k.req = jobs[p].req /\ k.was = jobs[p].was)
  PROVE  MovesSound'
<1> DEFINE j == jobs[p]
<1>1. /\ j.phase = phase /\ phase \in DOMAIN Steps(j.req.cmd) /\ j.req.cmd \in Commands
      /\ j.was = Absent
  BY JobAt, MoveAt
<1>2. j.req.cmd \notin Moving
  BY <1>1, NextPhases DEF Moving
<1>3. Carried(k, j)
  BY <1>1, <1>2 DEF Carried
<1> QED BY <1>1, <1>3, Carries DEF At, Late

LEMMA MovesToggle ==
  ASSUME JobsInv, MovesSound, NEW p \in Procs, At(p, "toggle"), Toggle(p)
  PROVE  MovesSound'
<1> DEFINE j == jobs[p]
<1>1. j \in Job
  BY JobAt
<1>2. PICK id \in j.left :
        \E k : /\ Going(p, k, {}, {Obj(id)})
               /\ k = [j EXCEPT !.at = id] \/ k = [j EXCEPT !.at = Absent, !.left = @ \ {id}]
               /\ \E enabled : setEnabled(id, enabled)
  BY DEF Toggle, Turn
<1>3. PICK k : /\ Going(p, k, {}, {Obj(id)})
               /\ k = [j EXCEPT !.at = id] \/ k = [j EXCEPT !.at = Absent, !.left = @ \ {id}]
               /\ \E enabled : setEnabled(id, enabled)
  BY <1>2
<1>4. k.req = j.req /\ k.was = j.was
  BY <1>1, <1>3 DEF Job
<1>5. files' = files
  BY DEF Toggle
<1>6. SidesNoted({Obj(id)})
  BY <1>3, <1>5 DEF SidesNoted, setEnabled, JobsInv, TypeOK
<1> QED BY <1>3, <1>4, <1>5, <1>6, MovesAtRest

LEMMA MovesToggleEnds ==
  ASSUME JobsInv, MovesSound, NEW p \in Procs, ToggleEnds(p)
  PROVE  MovesSound'
BY MovesEnd DEF ToggleEnds, Turn, world, SidesNoted

LEMMA MovesBackups ==
  ASSUME JobsInv, MovesSound, NEW p \in Procs,
         \/ MakeDirectory(p) \/ SnapshotObject(p)
         \/ SnapshotSource(p) \/ SnapshotManifest(p)
  PROVE  MovesSound'
<1> DEFINE j == jobs[p]
<1>1. UNCHANGED <<files, objects>>
  BY DEF MakeDirectory, SnapshotObject, SnapshotSource, SnapshotManifest, world
<1>2. SidesNoted({})
  BY <1>1 DEF SidesNoted
<1>3. CASE MakeDirectory(p)
  <2>1. PICK moment \in Moments :
          At(p, "mkdir") /\ Going(p, Onward([j EXCEPT !.dir = moment]), {}, {})
    BY <1>3 DEF MakeDirectory
  <2>2. j \in Job
    BY <2>1, JobAt
  <2> DEFINE w == [j EXCEPT !.dir = moment]
             k == Onward(w)
  <2>3. /\ w \in Job /\ w.req = j.req /\ w.phase = j.phase /\ w.was = j.was
    BY <2>2 DEF Job
  <2>4. k = Over \/ (k.req = j.req /\ k.was = j.was)
    <3> HIDE DEF w
    <3>1. w.phase \in DOMAIN Steps(w.req.cmd)
      BY <2>1, <2>3, JobAt
    <3> QED BY <2>3, <3>1, OnwardFacts
  <2>5. At(p, "mkdir") /\ Going(p, k, {}, {})
    BY <2>1
  <2> HIDE DEF k
  <2> QED BY <1>1, <1>2, <2>4, <2>5, MovesAtRest
<1>4. CASE SnapshotObject(p)
  <2>1. PICK id \in j.left, whole \in BOOLEAN :
          /\ At(p, "snapshot")
          /\ Going(p, IF whole THEN [j EXCEPT !.at = id] ELSE Over, {}, {})
    BY <1>4 DEF SnapshotObject, Failed
  <2>2. [j EXCEPT !.at = id].req = j.req /\ [j EXCEPT !.at = id].was = j.was
    BY <2>1, JobAt DEF Job
  <2> QED BY <1>1, <1>2, <2>1, <2>2, MovesAtRest
<1>5. CASE SnapshotSource(p)
  <2> DEFINE w == [j EXCEPT !.left = @ \ {j.at}, !.at = Absent]
  <2>1. PICK whole \in BOOLEAN :
          At(p, "snapshot") /\ Going(p, IF whole THEN w ELSE Over, {}, {})
    BY <1>5 DEF SnapshotSource, Failed
  <2>2. w.req = j.req /\ w.was = j.was
    BY <2>1, JobAt DEF Job
  <2> QED BY <1>1, <1>2, <2>1, <2>2, MovesAtRest
<1>6. CASE SnapshotManifest(p)
  BY <1>2, <1>6, MovesEnd DEF SnapshotManifest
<1> QED BY <1>3, <1>4, <1>5, <1>6

(* Others, and steps of nobody.                                            *)
LEMMA MovesNoted ==
  ASSUME JobsInv, MovesSound, UNCHANGED jobs,
         \A q \in Procs : Running(q) => touched[q] \subseteq touched'[q] /\ SidesNoted(touched'[q])
  PROVE  MovesSound'
<1> SUFFICES ASSUME NEW q \in Procs, Running(q)
             PROVE  MoveKnown(jobs[q], files', objects', touched'[q])
  BY DEF MovesSound, Running
<1>1. jobs[q] \in Job /\ JobShape(jobs[q]) /\ MoveKnown(jobs[q], files, objects, touched[q])
  BY DEF JobsInv, TypeOK, Running, JobSound, MovesSound
<1> QED BY <1>1, MoveKept

LEMMA MovesOthers ==
  ASSUME JobsInv, MovesSound, Others
  PROVE  MovesSound'
<1>1. files \in Files /\ objects \in [Ids -> Script \cup {Absent, Stub}]
  BY DEF JobsInv, TypeOK
<1>2. ASSUME NEW thing, Outside(thing), SidesNoted({thing})
      PROVE  MovesSound'
  <2>1. /\ jobs' = jobs
        /\ \A q \in Procs : Running(q) => touched'[q] = touched[q] \cup {thing}
    BY <1>2 DEF Outside
  <2>2. \A q \in Procs : SidesNoted(touched[q] \cup {thing})
    BY <1>2 DEF SidesNoted
  <2> QED BY <2>1, <2>2, MovesNoted
<1>3. ASSUME NEW path \in Paths, NEW source, UserSaves(path, source)
      PROVE  MovesSound'
  BY <1>1, <1>2, <1>3 DEF UserSaves, SidesNoted, Files
<1>4. ASSUME NEW id \in Ids, NEW script, AdminSaves(id, script) \/ AdminDeletes(id)
      PROVE  MovesSound'
  BY <1>1, <1>2, <1>4 DEF AdminSaves, AdminDeletes, SidesNoted
<1>5. ASSUME NEW id \in Ids, NEW k \in Marks, NEW half,
             InstanceLoads(id, k) \/ OwnerCleans(id, k, half)
      PROVE  MovesSound'
  <2>1. Outside(Mark(id, k)) /\ UNCHANGED <<files, objects>>
    BY <1>5 DEF InstanceLoads, OwnerCleans
  <2> QED BY <1>2, <2>1 DEF SidesNoted
<1> QED BY <1>3, <1>4, <1>5 DEF Others

LEMMA MovesSave ==
  ASSUME JobsInv, MovesSound, NEW p \in Procs, Save(p)
  PROVE  MovesSound'
BY MovesEnd DEF Save, Turn, SidesNoted

LEMMA MovesAbort ==
  ASSUME JobsInv, MovesSound, NEW p \in Procs, Abort(p)
  PROVE  MovesSound'
BY MovesEnd DEF Abort, Turn, world, SidesNoted

LEMMA MovesRun ==
  ASSUME JobsInv, MovesSound, NEW p \in Procs, Run(p)
  PROVE  MovesSound'
BY MovesFetch, MovesCheckTarget, MovesOnward, MovesLoad, MovesListMarkers, MovesSweep,
   MovesSweepEnds, MovesCreate, MovesVerify, MovesDelete, MovesUnlink, MovesMoveFile,
   MovesWriteFile, MovesSave, MovesResolveTargets, MovesToggle, MovesToggleEnds,
   MovesBackups DEF Run

LEMMA MovesStutter ==
  ASSUME JobsInv, MovesSound, UNCHANGED vars
  PROVE  MovesSound'
BY MovesNoted DEF vars, world, SidesNoted

LEMMA MovesNext ==
  ASSUME IInv, [Next]_vars
  PROVE  IInv'
<1>1. JobsInv /\ MovesSound /\ JobsInv'
  BY InvNext DEF IInv
<1>2. MovesSound'
  BY <1>1, MovesOthers, MovesStart, MovesRun, MovesAbort, MovesStutter DEF Next
<1> QED BY <1>1, <1>2 DEF IInv

LEMMA MovesInit == Init => IInv
<1> SUFFICES ASSUME Init
             PROVE  MovesSound
  BY InvInit DEF IInv
<1> QED BY DEF Init, MovesSound, Running

(* What a running command knows, a rename that has deleted its original    *)
(* and is about to move the file and the entry included, stays so until    *)
(* somebody interferes; and a snapshot with a manifest is whole.           *)
THEOREM Invariant == Spec => []IInv
BY MovesInit, MovesNext, PTL DEF Spec

(* What a rename saves: the old entry, with the new name and the new path. *)
LEMMA SavedMove ==
  ASSUME NEW j \in Job, j.req.cmd \in Moving, j.mem[j.req.id] # Absent
  PROVE  LET row == Updated(j)[j.req.to]
         IN  row # Absent /\ row.path = RenamedPath(j) /\ row.base = j.mem[j.req.id].base
<1> DEFINE new == RenamedPath(j)
<1>1. j.mem[j.req.id] \in Row /\ new \in Paths
  BY RenamedPathType
<1>2. j.req.to \in Ids /\ j.mem \in Rows
  BY RequestFacts DEF Job
<1>3. Updated(j) = [[j.mem EXCEPT ![j.req.id] = Absent] EXCEPT ![j.req.to] = MovedRow(j)]
  BY DEF Updated, Moving
<1>4. Updated(j)[j.req.to] = MovedRow(j)
  BY <1>2, <1>3 DEF Rows
<1> HIDE DEF new
<1>5. [j.mem[j.req.id] EXCEPT !.path = new] \in Row
  BY <1>1 DEF Row
<1>6. /\ MovedRow(j) \in Row /\ MovedRow(j).path = new
      /\ MovedRow(j).base = j.mem[j.req.id].base
  BY <1>1, <1>5 DEF MovedRow, new, Row
<1> QED BY <1>4, <1>6, DestructiveAssumption DEF new

(* A rename changes the name and nothing else: with no file in the way and *)
(* nobody interfering, the renamed script compares as the old one did      *)
(* (rename.ts:115-136).                                                    *)
THEOREM RenameChangesNameOnly == Spec => RenameKeepsState
<1>1. ASSUME IInv, NEW p \in Procs, Save(p), jobs[p].was # Absent,
             touched[p] \cap {Obj(jobs[p].req.to), File(jobs[p].mem[jobs[p].req.id].path),
                              File(RenamedPath(jobs[p]))} = {}
      PROVE  [id |-> jobs[p].req.to, path |-> RenamedPath(jobs[p]), state |-> jobs[p].was]
               \in computeStatus(manifest', scanRemote(objects'), scanLocal(files'))
  <2> DEFINE j == jobs[p]
             old == j.mem[j.req.id]
             new == RenamedPath(j)
             to == j.req.to
             row == Updated(j)[to]
  <2>1. /\ manifest' = Updated(j) /\ objects' = objects /\ files' = files /\ At(p, "save")
    BY <1>1 DEF Save
  <2>2. /\ j \in Job /\ j.phase = "save" /\ to \in Ids
        /\ JobSound(j, objects, marks, trash, touched[p])
        /\ MoveKnown(j, files, objects, touched[p])
    BY <1>1, <2>1, JobAt, MoveAt DEF IInv
  <2>3. /\ j.req.cmd \in Moving
        /\ objects[to] \in Script /\ objects[to].source = j.script.source
        /\ new[2] \in ScriptExts
        /\ j.was = TrackedState(old, files[new], j.script)
    BY <1>1, <2>2 DEF MoveKnown
  <2>4. j.script # Absent /\ old # Absent
    BY <2>2, <2>3 DEF JobSound, JobShape
  <2>5. row # Absent /\ row.path = new /\ row.base = old.base
    BY <2>2, <2>3, <2>4, SavedMove
  <2>6. new \in Paths
    BY <2>2, <2>4, RenamedPathType
  <2>7. scanRemote(objects)[to] = objects[to] /\ scanLocal(files)[new] = files[new]
    BY <2>2, <2>3, <2>6, RecordsAssumption DEF scanRemote, scanLocal
  <2> HIDE DEF j, old, new, to, row
  <2>8. TrackedState(row, files[new], objects[to]) = j.was
    BY <2>3, <2>4, <2>5, RecordsAssumption DEF TrackedState
  <2>9. to \in Tracked(Updated(j))
    BY <2>2, <2>5 DEF Tracked, row
  <2>10. [id |-> to, path |-> new, state |-> j.was]
           \in TrackedStatus(Updated(j), scanRemote(objects), scanLocal(files))
    BY <2>5, <2>7, <2>8, <2>9 DEF TrackedStatus, row
  <2> QED BY <2>1, <2>10 DEF computeStatus, j, new, to
<1>2. ASSUME IInv, [Next]_vars
      PROVE  [\A p \in Procs : LET j == jobs[p] IN
                /\ Save(p)
                /\ j.was # Absent
                /\ touched[p] \cap {Obj(j.req.to), File(j.mem[j.req.id].path),
                                    File(RenamedPath(j))} = {}
                => [id |-> j.req.to, path |-> RenamedPath(j), state |-> j.was]
                     \in computeStatus(manifest', scanRemote(objects'), scanLocal(files'))]_vars
  BY <1>1, <1>2
<1> QED BY <1>2, Invariant, PTL DEF Spec, RenameKeepsState

=============================================================================
