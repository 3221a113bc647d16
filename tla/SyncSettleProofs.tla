-------------------------- MODULE SyncSettleProofs --------------------------
(***************************************************************************)
(* Proofs about Sync where nobody interferes: one command at a time, no    *)
(* edit while it runs.  Then a finished pull or push has left nothing to   *)
(* do.                                                                     *)
(***************************************************************************)
EXTENDS SyncProofs

USE DEF Paths

-----------------------------------------------------------------------------
(* Paths: where the naming functions undo one another, every id that is    *)
(* tracked, reported or uploaded keeps the stem derived from it.           *)

Named(m) == \A id \in Ids : m[id] # Absent => m[id].path[1] = StemOf[id]

PlanNamed(p) ==
  /\ Named(mem[p])
  /\ \A s \in todo[p] : s.path[1] = StemOf[s.id]
  /\ upload[p] # Absent => upload[p].path[1] = StemOf[upload[p].id]

AllNamed == Named(manifest) /\ \A p \in Procs : PlanNamed(p)

(* The comparison keeps the stems of a manifest that has them.             *)
LEMMA StatusNamed ==
  ASSUME NamesRoundTrip, NEW m \in Manifests, NEW remote \in Scripts,
         NEW local \in Files, Named(m), NEW s \in computeStatus(m, remote, local)
  PROVE  s.path[1] = StemOf[s.id]
<1>1. CASE s \in TrackedStatus(m, remote, local)
  BY <1>1 DEF TrackedStatus, Tracked, Named
<1>2. CASE s \in UntrackedStatus(m, remote, local)
  <2>1. PICK id \in Ids : s.id = id /\ s.path = idToRelPath(id, remote[id].engineType)
    BY <1>2 DEF UntrackedStatus, Untracked
  <2>. QED
    BY <2>1 DEF idToRelPath
<1>3. CASE s \in LocalOnlyStatus(m, remote, local)
  <2>1. s.path \in Paths /\ s.id = IdOf[s.path[1]]
    BY <1>3 DEF LocalOnlyStatus, relPathToId
  <2>. QED
    BY <2>1 DEF NamesRoundTrip
<1>. QED
  BY <1>1, <1>2, <1>3 DEF computeStatus

(* An entry written under the stem of its id.                              *)
LEMMA UpsertNamed ==
  ASSUME NEW m \in Manifests, Named(m), NEW id \in Ids, NEW path, NEW base,
         path[1] = StemOf[id]
  PROVE  Named(upsertEntry(m, id, path, base))
BY DEF Named, upsertEntry, Manifests

(* An ended command has forgotten its plan; the others keep theirs.        *)
LEMMA EndedNamed ==
  ASSUME TypeOK, AllNamed, NEW p \in Procs, Ended(p)
  PROVE  \A q \in Procs : PlanNamed(q)'
BY DEF TypeOK, AllNamed, Ended, PlanNamed, Named, emptyManifest

(* Every step keeps the stems.                                             *)
LEMMA NamedStep ==
  ASSUME NamesRoundTrip, TypeOK, Shapes, AllNamed, [Next]_vars
  PROVE  AllNamed'
<1>1. CASE UNCHANGED vars \/ People
  <2>1. UNCHANGED process /\ (manifest' = manifest \/ manifest' = emptyManifest)
    BY <1>1 DEF vars, world, People, UserSaves, UserDeletes, AdminSaves,
                AdminDeletes, ManifestLost
  <2>. QED
    BY <2>1 DEF AllNamed, PlanNamed, Named, process, emptyManifest
<1>2. ASSUME NEW p \in Procs, \/ \E command \in Commands : Start(p, command)
                              \/ ScanLocal(p)
                              \/ ScanRemote(p)
      PROVE  AllNamed'
  <2>1. /\ UNCHANGED <<manifest, todo, upload>>
        /\ mem' = mem \/ mem' = [mem EXCEPT ![p] = manifest]
    BY <1>2 DEF Start, ScanLocal, ScanRemote, world
  <2>. QED
    BY <2>1 DEF AllNamed, PlanNamed, Named, TypeOK
<1>3. ASSUME NEW p \in Procs, Compare(p)
      PROVE  AllNamed'
  <2>1. /\ mem[p] \in Manifests /\ seenRemote[p] \in Scripts
        /\ seenLocal[p] \in Files
        /\ todo'[p] \subseteq computeStatus(mem[p], seenRemote[p], seenLocal[p])
        /\ \A q \in Procs \ {p} : todo'[q] = todo[q]
        /\ UNCHANGED <<manifest, mem, upload>>
    BY <1>3 DEF Compare, world, TypeOK
  <2>2. \A s \in todo'[p] : s.path[1] = StemOf[s.id]
    BY <2>1, StatusNamed DEF AllNamed, PlanNamed
  <2>. QED
    BY <2>1, <2>2 DEF AllNamed, PlanNamed, Named
<1>4. ASSUME NEW p \in Procs, Finish(p) \/ Abort(p) \/ PushLost(p)
      PROVE  AllNamed'
  <2>1. manifest' = manifest \/ manifest' = mem[p]
    BY <1>4 DEF Finish, Abort, PushLost, world
  <2>. QED
    BY <1>4, <2>1, EndedNamed
       DEF Finish, Abort, PushLost, AllNamed, PlanNamed, Named
<1>5. ASSUME NEW p \in Procs, Pull(p)
      PROVE  AllNamed'
  <2>. PICK s \in Current(p, "pull") :
         \/ PullWrite(p, s)
         \/ PullFails(p, s)
         \/ \E torn \in TornSources : PullTorn(p, s, torn)
         \/ PullLeaves(p, s)
    BY <1>5 DEF Pull
  <2>0. s \in todo[p] /\ s.path[1] = StemOf[s.id] /\ s.id \in Ids
    BY DEF Current, FirstOf, AllNamed, PlanNamed, TypeOK, Status
  <2>1. ASSUME NEW torn \in TornSources, PullTorn(p, s, torn)
        PROVE  AllNamed'
    BY <2>1, EndedNamed DEF PullTorn, AllNamed, Named
  <2>2. CASE PullFails(p, s) \/ PullLeaves(p, s)
    <3>1. UNCHANGED <<manifest, mem, upload>> /\ \A q \in Procs : todo'[q] \subseteq todo[q]
      BY <2>2 DEF PullFails, PullLeaves, Handled, world, TypeOK
    <3>. QED
      BY <3>1 DEF AllNamed, PlanNamed, Named
  <2>3. CASE PullWrite(p, s)
    <3>1. /\ \A q \in Procs : todo'[q] \subseteq todo[q]
          /\ UNCHANGED <<manifest, upload>>
          /\ \A q \in Procs \ {p} : mem'[q] = mem[q]
          /\ \/ mem'[p] = mem[p]
             \/ \E base : mem'[p] = upsertEntry(mem[p], s.id, s.path, base)
      BY <2>3 DEF PullWrite, Handled, TypeOK
    <3>2. Named(mem'[p])
      <4>1. mem[p] \in Manifests /\ Named(mem[p])
        BY DEF AllNamed, PlanNamed, TypeOK
      <4>2. ASSUME NEW base, mem'[p] = upsertEntry(mem[p], s.id, s.path, base)
            PROVE  Named(mem'[p])
        BY <2>0, <4>1, <4>2, UpsertNamed
      <4>. QED
        BY <3>1, <4>1, <4>2
    <3>3. \A q \in Procs : Named(mem'[q])
      BY <3>1, <3>2 DEF AllNamed, PlanNamed
    <3>. QED
      BY <3>1, <3>3 DEF AllNamed, PlanNamed, Named
  <2>. QED
    BY <2>1, <2>2, <2>3
<1>6. ASSUME NEW p \in Procs, NEW s \in Current(p, "push"),
             PushRead(p, s) \/ PushLeaves(p, s)
      PROVE  AllNamed'
  <2>0. s \in todo[p] /\ s.path[1] = StemOf[s.id]
    BY DEF Current, FirstOf, AllNamed, PlanNamed
  <2>1. /\ UNCHANGED <<manifest, mem>>
        /\ \A q \in Procs : todo'[q] \subseteq todo[q]
    BY <1>6 DEF PushRead, PushLeaves, Handled, world, TypeOK
  <2>2. CASE UNCHANGED upload
    BY <2>1, <2>2 DEF AllNamed, PlanNamed, Named
  <2>3. CASE PushRead(p, s) /\ ~opts[p].dry
    <3>1. PICK id \in Owner(p, s) :
            upload' = [upload EXCEPT ![p] =
              [id |-> id, path |-> s.path, source |-> files[s.path],
               engineType |-> s.path[2], create |-> IsNew(p, s)]]
      BY <2>3 DEF PushRead
    <3>2. StemOf[id] = s.path[1]
      BY <2>0, <3>1 DEF Owner, findByPath, AllNamed, PlanNamed, Named
    <3>3. /\ upload'[p].id = id /\ upload'[p].path = s.path
          /\ \A q \in Procs \ {p} : upload'[q] = upload[q]
      BY <3>1 DEF TypeOK
    <3>. QED
      BY <2>1, <3>2, <3>3 DEF AllNamed, PlanNamed, Named
  <2>. QED
    BY <1>6, <2>2, <2>3 DEF PushRead, PushLeaves
<1>7. ASSUME NEW p \in Procs, PushSend(p)
      PROVE  AllNamed'
  <2> DEFINE u == upload[p]
  <2>1. /\ u \in Upload /\ u.path[1] = StemOf[u.id]
        /\ upload' = [upload EXCEPT ![p] = Absent]
        /\ mem' = [mem EXCEPT ![p] = upsertEntry(@, u.id, u.path, u.source)]
        /\ UNCHANGED <<manifest, todo>>
    BY <1>7 DEF PushSend, UploadBase, TypeOK, Shapes, Shape, AllNamed, PlanNamed
  <2>2. Named(mem[p]) /\ mem[p] \in Manifests /\ u.id \in Ids
    BY <2>1 DEF AllNamed, PlanNamed, TypeOK, Upload
  <2>3. Named(upsertEntry(mem[p], u.id, u.path, u.source))
    BY <2>1, <2>2, UpsertNamed
  <2>. QED
    BY <2>1, <2>3 DEF AllNamed, PlanNamed, Named, TypeOK
<1>. QED
  BY <1>1, <1>2, <1>3, <1>4, <1>5, <1>6, <1>7 DEF Next, Run, Push

-----------------------------------------------------------------------------
(* What a write at one id and one path does to the comparison.             *)

(* The scripts of the other ids are compared as before.                    *)
LEMMA StatusElsewhere ==
  ASSUME NamesRoundTrip,
         NEW m \in Manifests, NEW remote \in Scripts, NEW local \in Files,
         NEW m2 \in Manifests, NEW remote2 \in Scripts, NEW local2 \in Files,
         NEW id \in Ids, NEW path \in Paths, path[1] = StemOf[id],
         Named(m2),
         \A i \in Ids \ {id} : m2[i] = m[i] /\ remote2[i] = remote[i],
         \A q \in Paths \ {path} : local2[q] = local[q],
         NEW s \in computeStatus(m2, remote2, local2),
         s.state # "local-only", s.id # id
  PROVE  s \in computeStatus(m, remote, local)
<1>1. s \notin LocalOnlyStatus(m2, remote2, local2)
  BY DEF LocalOnlyStatus
<1>2. ASSUME NEW i \in Ids, i # id
      PROVE  StemOf[i] # path[1]
  BY <1>2 DEF NamesRoundTrip
<1>3. CASE s \in TrackedStatus(m2, remote2, local2)
  <2>1. PICK i \in Tracked(m2) :
          s = [id |-> i, path |-> m2[i].path,
               state |-> TrackedState(m2[i], local2[m2[i].path], remote2[i])]
    BY <1>3 DEF TrackedStatus
  <2>2. i \in Ids /\ i # id /\ m2[i] = m[i] /\ remote2[i] = remote[i] /\ i \in Tracked(m)
    BY <2>1 DEF Tracked
  <2>3. m2[i].path \in Paths /\ m2[i].path # path
    BY <1>2, <2>1, <2>2 DEF Tracked, Named, Manifests, Entry
  <2>4. local2[m2[i].path] = local[m[i].path]
    BY <2>2, <2>3
  <2>5. s = [id |-> i, path |-> m[i].path,
             state |-> TrackedState(m[i], local[m[i].path], remote[i])]
    BY <2>1, <2>2, <2>4
  <2>6. s \in TrackedStatus(m, remote, local)
    BY <2>2, <2>5 DEF TrackedStatus
  <2>. QED
    BY <2>6 DEF computeStatus
<1>4. CASE s \in UntrackedStatus(m2, remote2, local2)
  <2>1. PICK i \in Untracked(m2, remote2) :
          s = [id |-> i, path |-> idToRelPath(i, remote2[i].engineType),
               state |-> UntrackedState(local2[idToRelPath(i, remote2[i].engineType)],
                                        remote2[i])]
    BY <1>4 DEF UntrackedStatus
  <2>2. /\ i \in Ids /\ i # id /\ m2[i] = m[i] /\ remote2[i] = remote[i]
        /\ i \in Untracked(m, remote)
    BY <2>1 DEF Untracked
  <2> DEFINE q == idToRelPath(i, remote2[i].engineType)
  <2>3. q \in Paths /\ q # path
    BY <1>2, <2>1, <2>2, NamingAssumption
       DEF Untracked, idToRelPath, Scripts, Script
  <2>4. local2[q] = local[q] /\ q = idToRelPath(i, remote[i].engineType)
    BY <2>2, <2>3
  <2>5. s \in UntrackedStatus(m, remote, local)
    BY <2>1, <2>2, <2>4 DEF UntrackedStatus
  <2>. QED
    BY <2>5 DEF computeStatus
<1>. QED
  BY <1>1, <1>3, <1>4 DEF computeStatus

(* A script recorded with what both sides have, or what the local side has *)
(* and no script, has nothing left to do.                                  *)
LEMMA StatusRecorded ==
  ASSUME NEW m \in Manifests, NEW remote \in Scripts, NEW local \in Files,
         NEW id \in Ids, m[id] # Absent, local[m[id].path] = m[id].base,
         remote[id] = Absent \/ remote[id].source = m[id].base,
         NEW s \in computeStatus(m, remote, local),
         s.state # "local-only", s.id = id
  PROVE  s.state \in {"in-sync", "remote-missing"}
<1>1. s \notin LocalOnlyStatus(m, remote, local)
  BY DEF LocalOnlyStatus
<1>2. s \notin UntrackedStatus(m, remote, local)
  BY DEF UntrackedStatus, Untracked
<1>3. PICK i \in Tracked(m) :
        s = [id |-> i, path |-> m[i].path,
             state |-> TrackedState(m[i], local[m[i].path], remote[i])]
  BY <1>1, <1>2 DEF computeStatus, TrackedStatus
<1>4. s.state = TrackedState(m[id], local[m[id].path], remote[id])
  BY <1>3
<1>5. m[id].base \in Sources
  BY DEF Manifests, Entry
<1>. QED
  BY <1>4, <1>5, MarkersAssumption DEF TrackedState, ThreeWay

(* What is reported in sync is the same on both sides.                     *)
THEOREM InSyncIsEqual ==
  ASSUME NEW m \in Manifests, NEW remote \in Scripts, NEW local \in Files,
         NEW s \in computeStatus(m, remote, local), s.state = "in-sync"
  PROVE  /\ local[s.path] # Absent /\ remote[s.id] # Absent
         /\ local[s.path] = remote[s.id].source
<1>1. s \notin LocalOnlyStatus(m, remote, local)
  BY DEF LocalOnlyStatus
<1>2. CASE s \in TrackedStatus(m, remote, local)
  <2>1. PICK i \in Tracked(m) :
          s = [id |-> i, path |-> m[i].path,
               state |-> TrackedState(m[i], local[m[i].path], remote[i])]
    BY <1>2 DEF TrackedStatus
  <2>2. TrackedState(m[i], local[s.path], remote[i]) = "in-sync"
    BY <2>1
  <2>3. remote[i] # Absent /\ local[s.path] # Absent
        /\ local[s.path] = remote[i].source
    BY <2>2 DEF TrackedState, ThreeWay
  <2>. QED
    BY <2>1, <2>3
<1>3. CASE s \in UntrackedStatus(m, remote, local)
  <2>1. PICK i \in Untracked(m, remote) :
          /\ s.id = i
          /\ s.state = UntrackedState(local[s.path], remote[i])
    BY <1>3 DEF UntrackedStatus
  <2>2. remote[i].source # Absent
    BY <2>1, MarkersAssumption DEF Untracked, Scripts, Script
  <2>3. local[s.path] # Absent /\ local[s.path] = remote[i].source
    BY <2>1, <2>2 DEF UntrackedState
  <2>. QED
    BY <2>1, <2>3 DEF Untracked
<1>. QED
  BY <1>1, <1>2, <1>3 DEF computeStatus

(* No script on the server goes unreported,                                *)
LEMMA ScriptReported ==
  ASSUME NEW m \in Manifests, NEW remote \in Scripts, NEW local \in Files,
         NEW id \in Ids, remote[id] # Absent
  PROVE  \E s \in computeStatus(m, remote, local) :
           s.id = id /\ s.state \in ToPull \cup {"in-sync"}
<1>1. CASE m[id] # Absent
  <2> DEFINE state == TrackedState(m[id], local[m[id].path], remote[id])
             s == [id |-> id, path |-> m[id].path, state |-> state]
  <2>1. s \in TrackedStatus(m, remote, local)
    BY <1>1 DEF TrackedStatus, Tracked
  <2>2. state \in ToPull \cup {"in-sync"}
    BY DEF TrackedState, ThreeWay, ToPull
  <2>. QED
    BY <2>1, <2>2 DEF computeStatus
<1>2. CASE m[id] = Absent
  <2> DEFINE path == idToRelPath(id, remote[id].engineType)
             state == UntrackedState(local[path], remote[id])
             s == [id |-> id, path |-> path, state |-> state]
  <2>1. s \in UntrackedStatus(m, remote, local)
    BY <1>2 DEF UntrackedStatus, Untracked
  <2>2. state \in ToPull \cup {"in-sync"}
    BY DEF UntrackedState, ToPull
  <2>. QED
    BY <2>1, <2>2 DEF computeStatus
<1>. QED
  BY <1>1, <1>2

(* and no file: whatever is there belongs to a status, and only to one     *)
(* where it is local-only.                                                 *)
LEMMA FileReported ==
  ASSUME NEW m \in Manifests, NEW remote \in Scripts, NEW local \in Files,
         NEW path \in Paths, local[path] # Absent
  PROVE  \E s \in computeStatus(m, remote, local) : s.path = path
<1>1. CASE \E id \in Tracked(m) : path = m[id].path
  <2>1. PICK id \in Tracked(m) : path = m[id].path
    BY <1>1
  <2>2. [id |-> id, path |-> path, state |-> TrackedState(m[id], local[path], remote[id])]
          \in TrackedStatus(m, remote, local)
    BY <2>1 DEF TrackedStatus
  <2>. QED
    BY <2>2 DEF computeStatus
<1>2. CASE \E id \in Untracked(m, remote) : path = idToRelPath(id, remote[id].engineType)
  <2>1. PICK id \in Untracked(m, remote) : path = idToRelPath(id, remote[id].engineType)
    BY <1>2
  <2>2. [id |-> id, path |-> path, state |-> UntrackedState(local[path], remote[id])]
          \in UntrackedStatus(m, remote, local)
    BY <2>1 DEF UntrackedStatus
  <2>. QED
    BY <2>2 DEF computeStatus
<1>3. CASE path \notin Claimed(m, remote)
  <2>1. [id |-> relPathToId(path), path |-> path, state |-> "local-only"]
          \in LocalOnlyStatus(m, remote, local)
    BY <1>3 DEF LocalOnlyStatus
  <2>. QED
    BY <2>1 DEF computeStatus
<1>. QED
  BY <1>1, <1>2, <1>3 DEF Claimed

(* What there is to say of a file that a push has nothing to do for.       *)
LEMMA NothingToPush ==
  ASSUME NEW m \in Manifests, NEW remote \in Scripts, NEW local \in Files,
         NEW s \in computeStatus(m, remote, local), local[s.path] # Absent,
         s.state \notin ToPush
  PROVE  \/ remote[s.id] # Absent /\ local[s.path] = remote[s.id].source
         \/ /\ m[s.id] # Absent /\ m[s.id].path = s.path
            /\ local[s.path] = m[s.id].base \/ remote[s.id] = Absent
<1>1. s.state \in {"in-sync", "remote-modified", "remote-only", "remote-missing"}
  BY ComputeStatusType DEF Status, States, ToPush
<1>2. CASE s.state = "in-sync"
  BY <1>2, InSyncIsEqual
<1>3. CASE s.state \in {"remote-modified", "remote-only"}
  BY <1>3, ComputeStatusMeaning
<1>4. CASE s.state = "remote-missing"
  <2>1. s \in TrackedStatus(m, remote, local)
    BY <1>4 DEF computeStatus, UntrackedStatus, UntrackedState, LocalOnlyStatus
  <2>2. PICK i \in Tracked(m) :
          s = [id |-> i, path |-> m[i].path,
               state |-> TrackedState(m[i], local[m[i].path], remote[i])]
    BY <2>1 DEF TrackedStatus
  <2>3. remote[i] = Absent
    BY <1>4, <2>2 DEF TrackedState, ThreeWay
  <2>. QED
    BY <2>2, <2>3 DEF Tracked
<1>. QED
  BY <1>1, <1>2, <1>3, <1>4

(* Every path reported is one that scanLocal would report.                 *)
LEMMA StatusTypes ==
  ASSUME NEW m \in Manifests, NEW remote \in Scripts, NEW local \in Files,
         KnownPaths(m),
         \A id \in Ids : remote[id] # Absent => remote[id].engineType \in ScriptExts,
         \A q \in Paths : local[q] # Absent => q[2] \in ScriptExts,
         NEW s \in computeStatus(m, remote, local)
  PROVE  s.path[2] \in ScriptExts
<1>1. CASE s \in TrackedStatus(m, remote, local)
  BY <1>1 DEF TrackedStatus, Tracked, KnownPaths
<1>2. CASE s \in UntrackedStatus(m, remote, local)
  <2>1. PICK i \in Untracked(m, remote) :
          s.path = idToRelPath(i, remote[i].engineType)
    BY <1>2 DEF UntrackedStatus
  <2>. QED
    BY <2>1 DEF Untracked, idToRelPath
<1>3. CASE s \in LocalOnlyStatus(m, remote, local)
  BY <1>3 DEF LocalOnlyStatus
<1>. QED
  BY <1>1, <1>2, <1>3 DEF computeStatus

(* Where there is one type, two known paths of one stem are the same.      *)
LEMMA OnePath ==
  ASSUME OneType, NEW q \in Paths, NEW r \in Paths,
         q[1] = r[1], q[2] \in ScriptExts, r[2] \in ScriptExts
  PROVE  q = r
BY DEF OneType

(* There, a local-only file is not one of a script on the server,          *)
LEMMA LocalOnlyUnclaimed ==
  ASSUME NamesRoundTrip, OneType,
         NEW m \in Manifests, NEW remote \in Scripts, NEW local \in Files,
         KnownPaths(m), Named(m),
         \A id \in Ids : remote[id] # Absent => remote[id].engineType \in ScriptExts,
         \A q \in Paths : local[q] # Absent => q[2] \in ScriptExts,
         NEW s \in computeStatus(m, remote, local), s.state = "local-only"
  PROVE  remote[s.id] = Absent
<1>1. s \notin TrackedStatus(m, remote, local)
  BY DEF TrackedStatus, TrackedState, ThreeWay
<1>2. s \notin UntrackedStatus(m, remote, local)
  BY DEF UntrackedStatus, UntrackedState
<1>3. PICK q \in {r \in Paths : local[r] # Absent} \ Claimed(m, remote) :
        s = [id |-> relPathToId(q), path |-> q, state |-> "local-only"]
  BY <1>1, <1>2 DEF computeStatus, LocalOnlyStatus
<1>4. s.id = IdOf[q[1]] /\ s.id \in Ids /\ StemOf[s.id] = q[1] /\ q[2] \in ScriptExts
  BY <1>3, NamingAssumption DEF relPathToId, NamesRoundTrip
<1>5. ASSUME m[s.id] # Absent
      PROVE  FALSE
  <2>1. m[s.id].path \in Paths /\ m[s.id].path \in Claimed(m, remote)
    BY <1>4, <1>5 DEF Manifests, Entry, Claimed, Tracked
  <2>2. m[s.id].path[1] = q[1] /\ m[s.id].path[2] \in ScriptExts
    BY <1>4, <1>5 DEF Named, KnownPaths
  <2>. QED
    BY <1>3, <1>4, <2>1, <2>2, OnePath
<1>6. ASSUME m[s.id] = Absent, remote[s.id] # Absent
      PROVE  FALSE
  <2> DEFINE r == idToRelPath(s.id, remote[s.id].engineType)
  <2>1. r \in Claimed(m, remote)
    BY <1>4, <1>6 DEF Claimed, Untracked
  <2>2. r \in Paths /\ r[1] = q[1] /\ r[2] \in ScriptExts
    BY <1>4, <1>6 DEF idToRelPath, EngineTypes
  <2>. QED
    BY <1>3, <1>4, <2>1, <2>2, OnePath
<1>. QED
  BY <1>5, <1>6

(* and a file nobody claims after the write was claimed by nobody before.  *)
LEMMA LocalOnlyElsewhere ==
  ASSUME NamesRoundTrip, OneType,
         NEW m \in Manifests, NEW remote \in Scripts, NEW local \in Files,
         NEW m2 \in Manifests, NEW remote2 \in Scripts,
         NEW id \in Ids, NEW path \in Paths, path[1] = StemOf[id],
         path[2] \in ScriptExts,
         KnownPaths(m), Named(m),
         \A i \in Ids : remote[i] # Absent => remote[i].engineType \in ScriptExts,
         \A q \in Paths : local[q] # Absent => q[2] \in ScriptExts,
         m2[id] # Absent, m2[id].path = path,
         \A i \in Ids \ {id} : m2[i] = m[i] /\ remote2[i] = remote[i],
         NEW s \in computeStatus(m2, remote2, local), s.state = "local-only"
  PROVE  s \in computeStatus(m, remote, local) /\ s.path # path
<1>1. s \notin TrackedStatus(m2, remote2, local)
  BY DEF TrackedStatus, TrackedState, ThreeWay
<1>2. s \notin UntrackedStatus(m2, remote2, local)
  BY DEF UntrackedStatus, UntrackedState
<1>3. PICK q \in {r \in Paths : local[r] # Absent} \ Claimed(m2, remote2) :
        s = [id |-> relPathToId(q), path |-> q, state |-> "local-only"]
  BY <1>1, <1>2 DEF computeStatus, LocalOnlyStatus
<1>4. q # path /\ q[2] \in ScriptExts
  BY <1>3 DEF Claimed, Tracked
<1>5. q[1] # path[1]
  BY <1>4, OnePath
<1>6. ASSUME q \in Claimed(m, remote)
      PROVE  FALSE
  <2>1. CASE \E i \in Tracked(m) : q = m[i].path
    <3>1. PICK i \in Tracked(m) : q = m[i].path
      BY <2>1
    <3>2. i # id /\ i \in Tracked(m2) /\ m2[i].path = q
      BY <1>5, <3>1 DEF Tracked, Named
    <3>. QED
      BY <1>3, <3>2 DEF Claimed
  <2>2. CASE \E i \in Untracked(m, remote) : q = idToRelPath(i, remote[i].engineType)
    <3>1. PICK i \in Untracked(m, remote) : q = idToRelPath(i, remote[i].engineType)
      BY <2>2
    <3>2. /\ i # id /\ i \in Untracked(m2, remote2)
          /\ q = idToRelPath(i, remote2[i].engineType)
      BY <1>5, <3>1 DEF Untracked, idToRelPath
    <3>. QED
      BY <1>3, <3>2 DEF Claimed
  <2>. QED
    BY <1>6, <2>1, <2>2 DEF Claimed
<1>7. s \in LocalOnlyStatus(m, remote, local)
  BY <1>3, <1>6 DEF LocalOnlyStatus
<1>. QED
  BY <1>3, <1>4, <1>7 DEF computeStatus

-----------------------------------------------------------------------------
(* Every step keeps QuietInv.                                              *)

Quiet == IInv /\ AllNamed /\ QuietInv

Undisturbed == NamesRoundTrip /\ OneAtATime /\ KnownEngines

(* QuietInv for the only command there is.                                 *)
QuietOf(p) ==
  /\ ScansCurrent(p) /\ PullKeepsPlan(p)
  /\ OneType => PushKeepsPlan(p) /\ NewIsNew(p)

ObjectsKnown ==
  \A id \in Ids : objects[id] \notin {Absent, Stub}
                    => objects[id].engineType \in ScriptExts

TypesKnownOf(p) ==
  /\ KnownPaths(mem[p])
  /\ \A s \in todo[p] : s.path[2] \in ScriptExts
  /\ upload[p] # Absent => /\ upload[p].path[2] \in ScriptExts
                           /\ upload[p].engineType = upload[p].path[2]

(* QuietInv, one command at a time.                                         *)
LEMMA QuietForm ==
  ASSUME OneAtATime, NEW p \in Procs
  PROVE  /\ \A q \in Procs : q = p
         /\ QuietInv <=> /\ ObjectsKnown /\ KnownPaths(manifest)
                         /\ TypesKnownOf(p) /\ QuietOf(p)
BY DEF OneAtATime, QuietInv, ObjectsKnown, TypesKnown, TypesKnownOf, QuietOf

(* The same in the next state.                                             *)
LEMMA QuietFormNext ==
  ASSUME OneAtATime, NEW p \in Procs,
         ObjectsKnown', KnownPaths(manifest)', TypesKnownOf(p)', QuietOf(p)'
  PROVE  QuietInv'
BY DEF OneAtATime, QuietInv, ObjectsKnown, TypesKnown, TypesKnownOf, QuietOf

(* Both scans report scripts of known types only.                           *)
LEMMA ScannedTypes ==
  ASSUME TypeOK, ObjectsKnown
  PROVE  /\ \A id \in Ids : scanRemote(objects)[id] # Absent
                             => scanRemote(objects)[id].engineType \in ScriptExts
         /\ \A q \in Paths : scanLocal(files)[q] # Absent => q[2] \in ScriptExts
BY DEF ObjectsKnown, scanRemote, scanLocal

(* The manifest of a fresh pull names no path.                              *)
LEMMA EmptyKnown == KnownPaths(emptyManifest)
BY DEF KnownPaths, emptyManifest

(* An entry at a path of a known type keeps the manifest's types known.     *)
LEMMA UpsertKnown ==
  ASSUME NEW m \in Manifests, KnownPaths(m), NEW id \in Ids, NEW path, NEW base,
         path[2] \in ScriptExts
  PROVE  KnownPaths(upsertEntry(m, id, path, base))
BY DEF KnownPaths, upsertEntry, Manifests

(* A command that ends forgets its scans, its plan and its upload.          *)
LEMMA EndedQuiet ==
  ASSUME Quiet, Undisturbed, NEW p \in Procs, Ended(p), ObjectsKnown',
         KnownPaths(manifest)'
  PROVE  QuietInv'
<1>1. /\ pc'[p] = "idle" /\ mem'[p] = emptyManifest /\ todo'[p] = {}
      /\ seenLocal'[p] = Absent /\ seenRemote'[p] = Absent /\ upload'[p] = Absent
  BY DEF Quiet, IInv, TypeOK, Ended
<1>2. TypesKnownOf(p)' /\ QuietOf(p)'
  BY <1>1, EmptyKnown DEF TypesKnownOf, QuietOf, ScansCurrent, PullKeepsPlan,
        PushKeepsPlan, NewIsNew, emptyManifest, KnownPaths
<1>. QED
  BY <1>2, QuietFormNext DEF Undisturbed

(* The people act while nothing runs.                                      *)
LEMMA PeopleQuiet ==
  ASSUME Quiet, Undisturbed, People
  PROVE  QuietInv'
<1>1. UNCHANGED process /\ \A q \in Procs : pc[q] = "idle"
  BY DEF People, UserSaves, UserDeletes, AdminSaves, AdminDeletes, ManifestLost,
         MayEdit, Undisturbed, OneAtATime
<1>2. ObjectsKnown'
  <2>1. CASE UNCHANGED objects
    BY <2>1 DEF Quiet, QuietInv, TypesKnown, ObjectsKnown
  <2>2. ASSUME NEW id \in Ids, NEW script \in AdminScripts, AdminSaves(id, script)
        PROVE  ObjectsKnown'
    BY <2>2 DEF AdminSaves, Undisturbed, KnownEngines, Quiet, QuietInv, TypesKnown,
          ObjectsKnown, IInv, TypeOK
  <2>3. ASSUME NEW id \in Ids, AdminDeletes(id)
        PROVE  ObjectsKnown'
    BY <2>3 DEF AdminDeletes, Quiet, QuietInv, TypesKnown, ObjectsKnown, IInv, TypeOK
  <2>. QED
    BY <2>1, <2>2, <2>3 DEF People, UserSaves, UserDeletes, ManifestLost
<1>3. KnownPaths(manifest')
  BY EmptyKnown DEF People, UserSaves, UserDeletes, AdminSaves, AdminDeletes,
         ManifestLost, Quiet, QuietInv, TypesKnown
<1>4. TypesKnown'
  BY <1>1, <1>2, <1>3 DEF Quiet, QuietInv, TypesKnown, ObjectsKnown, KnownPaths, process
<1>5. ASSUME NEW q \in Procs
      PROVE  ScansCurrent(q)' /\ PullKeepsPlan(q)' /\ PushKeepsPlan(q)' /\ NewIsNew(q)'
  <2>1. todo[q] = {} /\ upload[q] = Absent /\ ScansCurrent(q) /\ pc[q] = "idle"
    BY <1>1 DEF Quiet, QuietInv, IInv, Shapes, Shape
  <2>. QED
    BY <1>1, <2>1 DEF ScansCurrent, PullKeepsPlan, PushKeepsPlan, NewIsNew, process
<1>. QED
  BY <1>4, <1>5 DEF QuietInv

(* Up to the loop.                                                         *)
LEMMA ScanQuiet ==
  ASSUME Quiet, Undisturbed, NEW p \in Procs,
         (\E command \in Commands : Start(p, command)) \/ ScanLocal(p) \/ ScanRemote(p)
  PROVE  QuietInv'
<1>1. /\ ObjectsKnown /\ KnownPaths(manifest) /\ TypesKnownOf(p) /\ QuietOf(p)
      /\ TypeOK /\ Shape(p) /\ Shape(p)'
  BY QuietForm, TypeScan DEF Quiet, Undisturbed, IInv, Shapes
<1>2. UNCHANGED <<world, todo, upload, changed, skipped>>
  BY DEF Start, ScanLocal, ScanRemote
<1>3. ObjectsKnown' /\ KnownPaths(manifest)'
  BY <1>1, <1>2 DEF world, ObjectsKnown, KnownPaths
<1>4. mem'[p] \in {mem[p], manifest} /\ pc'[p] = "scan" /\ pc[p] \in {"idle", "scan"}
  BY <1>1 DEF Start, ScanLocal, ScanRemote, TypeOK
<1>5. todo[p] = {} /\ upload[p] = Absent
  BY <1>1, <1>4 DEF Shape
<1>6. TypesKnownOf(p)'
  BY <1>1, <1>2, <1>4, <1>5 DEF TypesKnownOf, KnownPaths
<1>7. ScansCurrent(p)'
  BY <1>1, <1>2, <1>4, <1>5
     DEF QuietOf, ScansCurrent, Start, ScanLocal, ScanRemote, world, TypeOK
<1>8. QuietOf(p)'
  BY <1>2, <1>4, <1>5, <1>7 DEF QuietOf, PullKeepsPlan, PushKeepsPlan, NewIsNew
<1>. QED
  BY <1>3, <1>6, <1>8, QuietFormNext DEF Undisturbed

(* The plan holds all that matches.                                        *)
LEMMA CompareQuiet ==
  ASSUME Quiet, Undisturbed, NEW p \in Procs, Compare(p)
  PROVE  QuietInv'
<1> DEFINE here == scanLocal(files)
           there == scanRemote(objects)
<1>1. /\ ObjectsKnown /\ KnownPaths(manifest) /\ TypesKnownOf(p) /\ QuietOf(p)
      /\ TypeOK /\ Shape(p) /\ Named(mem[p])
  BY QuietForm DEF Quiet, Undisturbed, IInv, Shapes, AllNamed, PlanNamed
<1>2. /\ seenLocal[p] = here /\ seenRemote[p] = there
      /\ UNCHANGED <<files, objects, manifest, mem, opts, seenLocal, seenRemote,
                     upload, changed, skipped>>
      /\ pc[p] = "scan" /\ pc'[p] = "work" /\ upload[p] = Absent
      /\ todo'[p] = {s \in computeStatus(mem[p], there, here) :
                       Matches(s, opts[p].pattern)}
  BY <1>1 DEF Compare, QuietOf, ScansCurrent, Shape, world, TypeOK
<1>3. /\ mem[p] \in Manifests /\ here \in Files /\ there \in Scripts
      /\ \A id \in Ids : there[id] # Absent => there[id].engineType \in ScriptExts
      /\ \A q \in Paths : here[q] # Absent => q[2] \in ScriptExts
  BY <1>1, ScanTypes, ScannedTypes DEF TypeOK
<1>4. ASSUME NEW s \in computeStatus(mem[p], there, here)
      PROVE  s.path[2] \in ScriptExts /\ s.id \in Ids
  BY <1>1, <1>3, StatusTypes, ComputeStatusType DEF TypesKnownOf, Status
<1>5. TypesKnownOf(p)'
  BY <1>1, <1>2, <1>4 DEF TypesKnownOf, KnownPaths
<1>6. ScansCurrent(p)'
  BY <1>1, <1>2 DEF QuietOf, ScansCurrent
<1>7. PullKeepsPlan(p)' /\ PushKeepsPlan(p)'
  BY <1>2 DEF PullKeepsPlan, PushKeepsPlan, Left, Pending
<1>8. ASSUME OneType, NEW s \in todo'[p], s.state = "local-only"
      PROVE  objects[s.id] \in {Absent, Stub}
  <2>1. there[s.id] = Absent
    BY <1>1, <1>2, <1>3, <1>8, LocalOnlyUnclaimed DEF TypesKnownOf, Undisturbed
  <2>. QED
    BY <1>2, <1>4, <2>1 DEF scanRemote
<1>9. QuietOf(p)'
  BY <1>2, <1>6, <1>7, <1>8 DEF QuietOf, NewIsNew
<1>10. ObjectsKnown' /\ KnownPaths(manifest)'
  BY <1>1, <1>2 DEF ObjectsKnown, KnownPaths
<1>. QED
  BY <1>5, <1>9, <1>10, QuietFormNext DEF Undisturbed

(* What a command that is at one of its statuses can rely on.              *)
LEMMA AtStatus ==
  ASSUME Quiet, Undisturbed, NEW p \in Procs, NEW cmd, NEW s \in Current(p, cmd)
  PROVE  /\ pc[p] = "work" /\ opts[p].cmd = cmd /\ upload[p] = Absent
         /\ s \in todo[p] /\ s \in Status /\ s.id \in Ids /\ s.path \in Paths
         /\ s.path[1] = StemOf[s.id] /\ s.path[2] \in ScriptExts
         /\ ObjectsKnown /\ KnownPaths(manifest) /\ TypesKnownOf(p) /\ QuietOf(p)
         /\ TypeOK /\ Shape(p)
         /\ mem[p] \in Manifests /\ Named(mem[p])
<1>1. pc[p] = "work" /\ opts[p].cmd = cmd /\ s \in todo[p]
  BY DEF Current, FirstOf
<1>2. /\ ObjectsKnown /\ KnownPaths(manifest) /\ TypesKnownOf(p) /\ QuietOf(p)
      /\ TypeOK /\ Shape(p)
  BY QuietForm DEF Quiet, Undisturbed, IInv, Shapes
<1>3. s \in Status /\ s.id \in Ids /\ s.path \in Paths
  BY <1>1, <1>2 DEF TypeOK, Status
<1>. QED
  BY <1>1, <1>2, <1>3 DEF Quiet, AllNamed, PlanNamed, TypesKnownOf, TypeOK, Shape

(* A status is dropped: nothing is written, and if it was one to do the    *)
(* command has skipped something.                                          *)
LEMMA DroppedQuiet ==
  ASSUME Quiet, Undisturbed, NEW p \in Procs, NEW cmd \in {"pull", "push"},
         NEW s \in Current(p, cmd), Handled(p, s),
         UNCHANGED <<world, pc, opts, mem, seenLocal, seenRemote, upload, changed>>,
         ~opts[p].dry /\ ~skipped'[p]
           => ~skipped[p] /\ s.state \notin (IF cmd = "pull" THEN ToPull ELSE ToPush)
  PROVE  QuietInv'
<1>1. todo'[p] = todo[p] \ {s}
  BY AtStatus DEF Handled, TypeOK
<1>2. /\ pc[p] = "work" /\ opts[p].cmd = cmd /\ upload[p] = Absent
      /\ ObjectsKnown /\ KnownPaths(manifest) /\ TypesKnownOf(p) /\ QuietOf(p)
  BY AtStatus
<1>3. ObjectsKnown' /\ KnownPaths(manifest)' /\ TypesKnownOf(p)'
  BY <1>1, <1>2 DEF ObjectsKnown, KnownPaths, TypesKnownOf, world
<1>4. ScansCurrent(p)'
  BY <1>2 DEF QuietOf, ScansCurrent, world
<1>5. ASSUME NEW states PROVE Left(p, states)' = Left(p, states)
  BY DEF Left, Pending, world
<1>6. PullKeepsPlan(p)'
  BY <1>1, <1>2, <1>5 DEF QuietOf, PullKeepsPlan, Left, Pending, ToPull
<1>7. ASSUME OneType
      PROVE  PushKeepsPlan(p)'
  BY <1>1, <1>2, <1>5, <1>7 DEF QuietOf, PushKeepsPlan, Left, Pending, ToPush
<1>8. ASSUME OneType
      PROVE  NewIsNew(p)'
  BY <1>1, <1>2, <1>8 DEF QuietOf, NewIsNew, world
<1>. QED
  BY <1>3, <1>4, <1>6, <1>7, <1>8, QuietFormNext DEF Undisturbed, QuietOf

(* A pull that writes, fails or leaves a script.                           *)
LEMMA PullWriteQuiet ==
  ASSUME Quiet, Undisturbed, NEW p \in Procs, NEW s \in Current(p, "pull"),
         PullWrite(p, s), ~opts[p].dry
  PROVE  QuietInv'
<1> DEFINE there == scanRemote(objects)
           here == scanLocal(files)
           here2 == scanLocal(files')
           source == there[s.id].source
           mem2 == upsertEntry(mem[p], s.id, s.path, source)
<1>1. /\ pc[p] = "work" /\ opts[p].cmd = "pull" /\ upload[p] = Absent
      /\ s \in todo[p] /\ s \in Status /\ s.id \in Ids /\ s.path \in Paths
      /\ s.path[1] = StemOf[s.id] /\ s.path[2] \in ScriptExts
      /\ ObjectsKnown /\ KnownPaths(manifest) /\ TypesKnownOf(p) /\ QuietOf(p)
      /\ TypeOK /\ Shape(p)
      /\ mem[p] \in Manifests /\ Named(mem[p])
  BY AtStatus
<1>2. seenRemote[p] = there
  BY <1>1 DEF QuietOf, ScansCurrent, Shape
<1>3. /\ files' = [files EXCEPT ![s.path] = source]
      /\ mem' = [mem EXCEPT ![p] = mem2]
      /\ changed'[p]
      /\ todo'[p] = todo[p] \ {s}
      /\ there[s.id] # Absent
      /\ UNCHANGED <<objects, manifest, pc, opts, seenLocal, seenRemote, upload,
                     skipped>>
  BY <1>1, <1>2 DEF PullWrite, Handled, TypeOK
<1>4. /\ there \in Scripts /\ here \in Files /\ source \in Sources
  BY <1>1, <1>3, ScanTypes DEF Scripts, Script
<1>5. mem'[p] = mem2 /\ mem2 \in Manifests /\ Named(mem2) /\ KnownPaths(mem2)
  BY <1>1, <1>3, <1>4, UpsertType, UpsertNamed, UpsertKnown DEF TypesKnownOf, TypeOK
<1>6. here2 \in Files /\ here2[s.path] = source
      /\ \A q \in Paths \ {s.path} : here2[q] = here[q]
  BY <1>1, <1>3, <1>4 DEF scanLocal, Files, TypeOK
<1>7. ObjectsKnown' /\ KnownPaths(manifest)'
  BY <1>1, <1>3 DEF ObjectsKnown, KnownPaths
<1>8. TypesKnownOf(p)'
  BY <1>1, <1>3, <1>5 DEF TypesKnownOf
<1>9. ScansCurrent(p)'
  BY <1>1, <1>2, <1>3 DEF ScansCurrent
<1>10. ASSUME NEW t \in computeStatus(mem2, there, here2), t.state \in ToPull
       PROVE  t \in computeStatus(mem[p], there, here) /\ t # s
  <2>1. t.state # "local-only"
    BY <1>10 DEF ToPull
  <2>2. mem2[s.id] = [path |-> s.path, base |-> source]
    BY <1>1 DEF upsertEntry, Manifests
  <2>3. mem2[s.id] # Absent
    BY <1>1, <1>4, <2>2, RecordsAssumption DEF Entry
  <2>4. t.id # s.id
    <3>1. here2[mem2[s.id].path] = mem2[s.id].base /\ there[s.id].source = mem2[s.id].base
      BY <1>6, <2>2
    <3>2. t.id = s.id => t.state \in {"in-sync", "remote-missing"}
      BY <1>1, <1>4, <1>5, <1>6, <2>1, <2>3, <3>1, StatusRecorded
    <3>. QED
      BY <1>10, <3>2 DEF ToPull
  <2>5. \A i \in Ids \ {s.id} : mem2[i] = mem[p][i]
    BY <1>1 DEF upsertEntry, Manifests
  <2>. QED
    BY <1>1, <1>4, <1>5, <1>6, <2>1, <2>4, <2>5, StatusElsewhere DEF Undisturbed
<1>11. PullKeepsPlan(p)'
  BY <1>1, <1>3, <1>5, <1>10 DEF QuietOf, PullKeepsPlan, Left, Pending
<1>12. PushKeepsPlan(p)'
  BY <1>1, <1>3 DEF PushKeepsPlan
<1>13. OneType => NewIsNew(p)'
  BY <1>1, <1>3 DEF QuietOf, NewIsNew
<1>. QED
  BY <1>7, <1>8, <1>9, <1>11, <1>12, <1>13, QuietFormNext DEF Undisturbed, QuietOf

(* A pull that fails has skipped something, torn file or not.              *)
LEMMA PullFailsQuiet ==
  ASSUME Quiet, Undisturbed, NEW p \in Procs, NEW s \in Current(p, "pull"),
         PullFails(p, s)
  PROVE  QuietInv'
<1>1. /\ pc[p] = "work" /\ opts[p].cmd = "pull" /\ upload[p] = Absent
      /\ ObjectsKnown /\ KnownPaths(manifest) /\ TypesKnownOf(p) /\ QuietOf(p)
      /\ TypeOK
  BY AtStatus
<1>2. /\ todo'[p] = todo[p] \ {s} /\ skipped'[p]
      /\ UNCHANGED <<objects, manifest, pc, opts, mem, seenLocal, seenRemote, upload,
                     changed>>
  BY <1>1 DEF PullFails, Handled, TypeOK
<1>3. ObjectsKnown' /\ KnownPaths(manifest)' /\ TypesKnownOf(p)'
  BY <1>1, <1>2 DEF ObjectsKnown, KnownPaths, TypesKnownOf
<1>4. ScansCurrent(p)'
  BY <1>1, <1>2 DEF QuietOf, ScansCurrent
<1>5. PullKeepsPlan(p)' /\ PushKeepsPlan(p)'
  BY <1>2 DEF PullKeepsPlan, PushKeepsPlan
<1>6. OneType => NewIsNew(p)'
  BY <1>1, <1>2 DEF QuietOf, NewIsNew
<1>. QED
  BY <1>3, <1>4, <1>5, <1>6, QuietFormNext DEF Undisturbed, QuietOf

(* One script of a pull: written, or dropped as already there.              *)
LEMMA PullQuiet ==
  ASSUME Quiet, Undisturbed, NEW p \in Procs, Pull(p)
  PROVE  QuietInv'
<1>. PICK s \in Current(p, "pull") :
       \/ PullWrite(p, s)
       \/ PullFails(p, s)
       \/ \E torn \in TornSources : PullTorn(p, s, torn)
       \/ PullLeaves(p, s)
  BY DEF Pull
<1>0. TypeOK /\ ObjectsKnown /\ KnownPaths(manifest) /\ pc[p] = "work"
  BY AtStatus
<1>1. CASE PullWrite(p, s) /\ ~opts[p].dry
  BY <1>1, PullWriteQuiet
<1>2. CASE PullWrite(p, s) /\ opts[p].dry
  BY <1>2, DroppedQuiet DEF PullWrite, world
<1>3. CASE PullFails(p, s)
  <2>1. CASE UNCHANGED <<files, onDisk>>
    BY <1>0, <1>3, <2>1, DroppedQuiet DEF PullFails, TypeOK, world
  <2>. QED
    BY <1>3, <2>1, PullFailsQuiet DEF PullFails
<1>4. CASE PullLeaves(p, s)
  BY <1>0, <1>4, DroppedQuiet DEF PullLeaves, Pulls, ToPull, TypeOK
<1>5. ASSUME NEW torn \in TornSources, PullTorn(p, s, torn)
      PROVE  QuietInv'
  <2>1. ObjectsKnown' /\ KnownPaths(manifest)'
    BY <1>0, <1>5 DEF PullTorn, ObjectsKnown, KnownPaths
  <2>. QED
    BY <1>5, <2>1, EndedQuiet DEF PullTorn
<1>. QED
  BY <1>1, <1>2, <1>3, <1>4, <1>5

(* A push that reads a file still has it to send.                          *)
LEMMA PushReadQuiet ==
  ASSUME Quiet, Undisturbed, NEW p \in Procs, NEW s \in Current(p, "push"),
         PushRead(p, s), ~opts[p].dry
  PROVE  QuietInv'
<1>1. /\ pc[p] = "work" /\ opts[p].cmd = "push" /\ upload[p] = Absent
      /\ s \in todo[p] /\ s \in Status /\ s.id \in Ids /\ s.path \in Paths
      /\ s.path[1] = StemOf[s.id] /\ s.path[2] \in ScriptExts
      /\ ObjectsKnown /\ KnownPaths(manifest) /\ TypesKnownOf(p) /\ QuietOf(p)
      /\ TypeOK /\ Shape(p)
      /\ mem[p] \in Manifests /\ Named(mem[p])
  BY AtStatus
<1>2. PICK id \in Owner(p, s) :
        upload' = [upload EXCEPT ![p] =
          [id |-> id, path |-> s.path, source |-> files[s.path],
           engineType |-> s.path[2], create |-> IsNew(p, s)]]
  BY DEF PushRead
<1> DEFINE u == upload'[p]
<1>3. /\ u = [id |-> id, path |-> s.path, source |-> files[s.path],
              engineType |-> s.path[2], create |-> IsNew(p, s)]
      /\ pc'[p] = "upload"
      /\ todo'[p] = todo[p] \ {s}
      /\ UNCHANGED <<files, objects, manifest, opts, mem, seenLocal, seenRemote,
                     changed, skipped>>
  BY <1>1, <1>2 DEF PushRead, Handled, world, TypeOK
<1>4. upload'[p] # Absent
  <2>1. Shape(p)'
    BY TypePush DEF Push, Quiet, IInv, Shapes
  <2>. QED
    BY <1>3, <2>1 DEF Shape
<1>5. ObjectsKnown' /\ KnownPaths(manifest)' /\ TypesKnownOf(p)'
  BY <1>1, <1>3 DEF ObjectsKnown, KnownPaths, TypesKnownOf
<1>6. ScansCurrent(p)'
  BY <1>1, <1>3 DEF QuietOf, ScansCurrent
<1>7. PullKeepsPlan(p)'
  BY <1>3 DEF PullKeepsPlan
<1>8. ASSUME OneType
      PROVE  PushKeepsPlan(p)'
  <2>1. Left(p, ToPush)' = Left(p, ToPush)
    BY <1>3 DEF Left, Pending
  <2>. QED
    BY <1>1, <1>3, <1>4, <1>8, <2>1 DEF QuietOf, PushKeepsPlan
<1>9. ASSUME OneType
      PROVE  NewIsNew(p)'
  <2>1. ASSUME IsNew(p, s)
        PROVE  s.state = "local-only" /\ id = s.id
    BY <1>2, <2>1 DEF IsNew, Owner
  <2>2. u.id = id /\ u.create = IsNew(p, s)
    BY <1>3
  <2>3. u.create => s.state = "local-only" /\ u.id = s.id
    BY <2>1, <2>2, Zenon
  <2>. QED
    BY <1>1, <1>3, <1>9, <2>3 DEF QuietOf, NewIsNew
<1>. QED
  BY <1>5, <1>6, <1>7, <1>8, <1>9, QuietFormNext DEF Undisturbed, QuietOf

(* What an upload leaves on the server is of a known type.                 *)
LEMMA UploadedKnown ==
  ASSUME TypeOK, ObjectsKnown, NEW p \in Procs, TypesKnownOf(p), upload[p] # Absent,
         Uploaded(upload[p])
  PROVE  ObjectsKnown'
<1> DEFINE u == upload[p]
<1>1. u \in Upload /\ u.id \in Ids /\ u.engineType \in ScriptExts
  BY DEF TypeOK, Upload, TypesKnownOf
<1>2. NewScript(u).engineType \in ScriptExts
  BY <1>1 DEF NewScript
<1>3. ASSUME Extended(objects[u.id], u) # Stub
      PROVE  Extended(objects[u.id], u).engineType \in ScriptExts
  BY <1>1, <1>3 DEF Extended, TypeOK, Script
<1>4. /\ objects' = [objects EXCEPT ![u.id] =
                       IF u.create THEN NewScript(u) ELSE Extended(objects[u.id], u)]
  BY DEF Uploaded
<1>5. ASSUME NEW i \in Ids, objects'[i] \notin {Absent, Stub}
      PROVE  objects'[i].engineType \in ScriptExts
  BY <1>1, <1>2, <1>3, <1>4, <1>5 DEF ObjectsKnown, TypeOK
<1>. QED
  BY <1>5 DEF ObjectsKnown

(* The upload arrives: the server has what was sent, or no script at all.  *)
LEMMA UploadedScan ==
  ASSUME TypeOK, NEW u \in Upload, Uploaded(u)
  PROVE  /\ scanRemote(objects)'[u.id] = Absent
              \/ scanRemote(objects)'[u.id].source = u.source
         /\ \A i \in Ids \ {u.id} : objects'[i] = objects[i]
<1>1. u.id \in Ids
  BY DEF Upload
<1>2. objects'[u.id] = (IF u.create THEN NewScript(u) ELSE Extended(objects[u.id], u))
      /\ \A i \in Ids \ {u.id} : objects'[i] = objects[i]
  BY <1>1 DEF Uploaded, TypeOK
<1>3. NewScript(u).source = u.source
  BY DEF NewScript
<1>4. CASE objects[u.id] \in {Absent, Stub}
  BY <1>1, <1>2, <1>3, <1>4 DEF Extended, scanRemote
<1>5. CASE objects[u.id] \notin {Absent, Stub}
  <2>1. Extended(objects[u.id], u).source = u.source
    BY <1>1, <1>5 DEF Extended, TypeOK, Script
  <2>. QED
    BY <1>1, <1>2, <1>3, <2>1 DEF scanRemote
<1>. QED
  BY <1>4, <1>5

(* A push sends one script: an object replaced, or a new one created.       *)
LEMMA PushSendQuiet ==
  ASSUME Quiet, Undisturbed, NEW p \in Procs, PushSend(p)
  PROVE  QuietInv'
<1> DEFINE u == upload[p]
           there == scanRemote(objects)
           there2 == scanRemote(objects')
           here == scanLocal(files)
           mem2 == upsertEntry(mem[p], u.id, u.path, u.source)
<1>1. /\ ObjectsKnown /\ KnownPaths(manifest) /\ TypesKnownOf(p) /\ QuietOf(p)
      /\ TypeOK /\ Shape(p)
  BY QuietForm DEF Quiet, Undisturbed, IInv, Shapes
<1>2. /\ mem[p] \in Manifests /\ Named(mem[p]) /\ u # Absent
      /\ u \in Upload /\ u.id \in Ids /\ u.path \in Paths /\ u.source \in Sources
      /\ u.path[1] = StemOf[u.id] /\ u.path[2] \in ScriptExts
      /\ opts[p].cmd = "push" /\ u.source = files[u.path] /\ pc[p] = "upload"
  BY <1>1 DEF PushSend, Shape, Quiet, AllNamed, PlanNamed, TypesKnownOf, TypeOK,
        Upload, QuietOf, ScansCurrent
<1>3. /\ Uploaded(u)
      /\ mem'[p] = mem2 /\ pc'[p] = "work" /\ upload'[p] = Absent /\ changed'[p]
      /\ UNCHANGED <<files, manifest, opts, seenLocal, seenRemote, todo, skipped>>
  BY <1>1 DEF PushSend, UploadBase, TypeOK
<1>4. ObjectsKnown'
  BY <1>1, <1>2, <1>3, UploadedKnown
<1>5. /\ there2[u.id] = Absent \/ there2[u.id].source = u.source
      /\ \A i \in Ids \ {u.id} : objects'[i] = objects[i] /\ there2[i] = there[i]
  BY <1>1, <1>2, <1>3, UploadedScan DEF scanRemote
<1>6. there \in Scripts /\ there2 \in Scripts /\ here \in Files
  <2>1. objects' \in [Ids -> Script \cup {Absent, Stub}]
    BY <1>1, <1>2, <1>3, UploadedType
  <2>. QED
    BY <1>1, <2>1, ScanTypes DEF scanRemote, Scripts
<1>7. mem2 \in Manifests /\ Named(mem2) /\ KnownPaths(mem2)
  BY <1>1, <1>2, UpsertType, UpsertNamed, UpsertKnown DEF TypesKnownOf
<1>8. /\ mem2[u.id] = [path |-> u.path, base |-> u.source] /\ mem2[u.id] # Absent
      /\ \A i \in Ids \ {u.id} : mem2[i] = mem[p][i]
  <2>1. /\ mem2[u.id] = [path |-> u.path, base |-> u.source]
        /\ \A i \in Ids \ {u.id} : mem2[i] = mem[p][i]
    BY <1>2 DEF upsertEntry, Manifests
  <2>. QED
    BY <1>2, <2>1, RecordsAssumption DEF Entry
<1>9. here[u.path] = u.source
  BY <1>2 DEF scanLocal
<1>10. ASSUME OneType, NEW t \in computeStatus(mem2, there2, here), t.state \in ToPush
       PROVE  t \in computeStatus(mem[p], there, here) /\ t.path # u.path
  <2>1. CASE t.state = "local-only"
    BY <1>1, <1>2, <1>5, <1>6, <1>7, <1>8, <1>10, <2>1, LocalOnlyElsewhere,
       ScannedTypes DEF Undisturbed, TypesKnownOf
  <2>2. CASE t.state # "local-only"
    <3>1. t.id # u.id
      <4>1. t.id = u.id => t.state \in {"in-sync", "remote-missing"}
        BY <1>2, <1>5, <1>6, <1>7, <1>8, <1>9, <2>2, StatusRecorded
      <4>. QED
        BY <1>10, <4>1 DEF ToPush
    <3>2. t \in computeStatus(mem[p], there, here)
      BY <1>2, <1>5, <1>6, <1>7, <1>8, <2>2, <3>1, StatusElsewhere DEF Undisturbed
    <3>3. t.path[1] = StemOf[t.id] /\ t.id \in Ids
      BY <1>6, <1>7, StatusNamed, ComputeStatusType DEF Undisturbed, Status
    <3>. QED
      BY <1>2, <3>1, <3>2, <3>3 DEF Undisturbed, NamesRoundTrip
  <2>. QED
    BY <2>1, <2>2
<1>11. ASSUME OneType
       PROVE  PushKeepsPlan(p)'
  BY <1>1, <1>2, <1>3, <1>10, <1>11 DEF QuietOf, PushKeepsPlan, Left, Pending
<1>12. ASSUME OneType
       PROVE  NewIsNew(p)'
  <2>1. ASSUME NEW s \in todo[p], s.state = "local-only"
        PROVE  objects'[s.id] \in {Absent, Stub}
    <3>1. /\ s \in Status /\ s.id \in Ids /\ s.path \in Paths
          /\ s.path[1] = StemOf[s.id] /\ s.path[2] \in ScriptExts
          /\ s.path # u.path
      BY <1>1, <1>2, <2>1 DEF TypeOK, Status, Quiet, AllNamed, PlanNamed, TypesKnownOf,
            IInv, LocalOnlyApart
    <3>2. s.id # u.id
      BY <1>2, <1>12, <3>1, OnePath
    <3>. QED
      BY <1>1, <1>5, <1>12, <2>1, <3>1, <3>2 DEF QuietOf, NewIsNew
  <2>. QED
    BY <1>3, <2>1 DEF NewIsNew
<1>13. KnownPaths(manifest)' /\ TypesKnownOf(p)'
  BY <1>1, <1>3, <1>7 DEF KnownPaths, TypesKnownOf
<1>14. ScansCurrent(p)' /\ PullKeepsPlan(p)'
  BY <1>1, <1>2, <1>3 DEF ScansCurrent, PullKeepsPlan
<1>. QED
  BY <1>4, <1>11, <1>12, <1>13, <1>14, QuietFormNext DEF Undisturbed, QuietOf

(* One script of a push: dropped, read or sent.                             *)
LEMMA PushQuiet ==
  ASSUME Quiet, Undisturbed, NEW p \in Procs, Push(p)
  PROVE  QuietInv'
<1>1. ASSUME NEW s \in Current(p, "push"), PushRead(p, s)
      PROVE  QuietInv'
  <2>1. CASE opts[p].dry
    BY <1>1, <2>1, DroppedQuiet DEF PushRead, world
  <2>. QED
    BY <1>1, <2>1, PushReadQuiet
<1>2. ASSUME NEW s \in Current(p, "push"), PushLeaves(p, s)
      PROVE  QuietInv'
  <2>1. TypeOK
    BY DEF Quiet, IInv
  <2>. QED
    BY <1>2, <2>1, DroppedQuiet DEF PushLeaves, Pushes, ToPush, TypeOK
<1>3. CASE PushLost(p)
  <2>1. ObjectsKnown /\ KnownPaths(manifest) /\ TypesKnownOf(p) /\ TypeOK /\ Shape(p)
    BY QuietForm DEF Quiet, Undisturbed, IInv, Shapes
  <2>2. ObjectsKnown' /\ KnownPaths(manifest)'
    BY <1>3, <2>1, UploadedKnown DEF PushLost, Shape, KnownPaths
  <2>. QED
    BY <1>3, <2>2, EndedQuiet DEF PushLost
<1>. QED
  BY <1>1, <1>2, <1>3, PushSendQuiet DEF Push

(* The command is over.                                                    *)
LEMMA EndQuiet ==
  ASSUME Quiet, Undisturbed, NEW p \in Procs, Finish(p) \/ Abort(p)
  PROVE  QuietInv'
<1>1. ObjectsKnown /\ KnownPaths(manifest) /\ TypesKnownOf(p)
  BY QuietForm DEF Quiet, Undisturbed
<1>2. ObjectsKnown' /\ KnownPaths(manifest)'
  BY <1>1 DEF Finish, Abort, world, ObjectsKnown, KnownPaths, TypesKnownOf
<1>. QED
  BY <1>2, EndedQuiet DEF Finish, Abort

(* Every undisturbed step keeps QuietInv.                                   *)
LEMMA QuietStep ==
  ASSUME Quiet, Undisturbed, [Next]_vars
  PROVE  Quiet'
<1>1. IInv' /\ AllNamed'
  BY InvStep, NamedStep DEF Quiet, Undisturbed, IInv
<1>2. CASE UNCHANGED vars
  <2>1. UNCHANGED <<files, objects, manifest, process>>
    BY <1>2 DEF vars, world
  <2>2. TypesKnown'
    BY <2>1 DEF process, Quiet, QuietInv, TypesKnown, KnownPaths
  <2>3. \A q \in Procs : ScansCurrent(q)' /\ PullKeepsPlan(q)'
    BY <2>1 DEF process, Quiet, QuietInv, ScansCurrent, PullKeepsPlan, Left, Pending
  <2>4. ASSUME OneType
        PROVE  \A q \in Procs : PushKeepsPlan(q)' /\ NewIsNew(q)'
    BY <2>1, <2>4 DEF process, Quiet, QuietInv, PushKeepsPlan, NewIsNew, Left, Pending
  <2>. QED
    BY <1>1, <2>2, <2>3, <2>4 DEF Quiet, QuietInv
<1>3. ASSUME NEW p \in Procs, \/ \E command \in Commands : Start(p, command)
                              \/ Run(p)
                              \/ Abort(p)
      PROVE  QuietInv'
  BY <1>3, ScanQuiet, CompareQuiet, PullQuiet, PushQuiet, EndQuiet DEF Run
<1>. QED
  BY <1>1, <1>2, <1>3, PeopleQuiet DEF Next, Quiet

(* Nothing runs at first.                                                   *)
LEMMA QuietInit == Init => Quiet
<1>1. ASSUME Init
      PROVE  AllNamed /\ QuietInv
  BY <1>1, EmptyKnown DEF Init, AllNamed, PlanNamed, Named, emptyManifest, QuietInv,
        TypesKnown, KnownPaths, ScansCurrent, PullKeepsPlan, PushKeepsPlan, NewIsNew
<1>. QED
  BY <1>1, InitInv DEF Quiet

(* QuietInv is inductive together with IInv and the stems.                 *)
LEMMA QuietInvariance ==
  ASSUME Undisturbed
  PROVE  Spec => []Quiet
<1>1. Quiet /\ [Next]_vars => Quiet'
  BY QuietStep
<1>. QED
  BY <1>1, QuietInit, PTL DEF Spec

(* With nobody editing while it runs, what a command has scanned stays     *)
(* true to both sides, all that is left to do of its kind is in its plan,  *)
(* and a push holds for new only what the server has not got (pull.ts:62,  *)
(* push.ts:52), however the commands before it ended.                      *)
THEOREM PlansStayTrue ==
  ASSUME NamesRoundTrip, OneAtATime, KnownEngines
  PROVE  Spec => []QuietInv
<1>. Undisturbed
  BY DEF Undisturbed
<1>1. Quiet => QuietInv
  BY DEF Quiet
<1>. QED
  BY <1>1, QuietInvariance, PTL

-----------------------------------------------------------------------------
(* What a finished command has left to do                                  *)

(* What the command would save is what its last comparison is made with.   *)
LEMMA FinishedIsSaved ==
  ASSUME Quiet, Undisturbed, NEW p \in Procs, Finish(p), NEW states
  PROVE  /\ PendingAfter(p, states) = Left(p, states)
         /\ manifest' = mem[p] /\ UNCHANGED <<files, objects>>
         /\ QuietOf(p) /\ pc[p] = "work" /\ todo[p] = {} /\ upload[p] = Absent
<1>1. QuietOf(p) /\ Shape(p) /\ pc[p] = "work"
  BY QuietForm DEF Quiet, Undisturbed, IInv, Shapes, Finish
<1>2. manifest' = mem[p] /\ UNCHANGED <<files, objects>>
  BY <1>1 DEF Finish, QuietOf, ScansCurrent
<1>. QED
  BY <1>1, <1>2 DEF PendingAfter, Left, Shape, Finish

(* A pull that skipped nothing leaves a mirror of the scripts of its       *)
(* pattern and nothing to pull, whatever was on the two sides and whichever*)
(* commands ran or died before (test/commands-sync.test.ts:99).            *)
THEOREM PullIsSettled ==
  ASSUME NamesRoundTrip, OneAtATime, KnownEngines
  PROVE  Spec => PullSettles
<1>. Undisturbed
  BY DEF Undisturbed
<1>1. ASSUME Quiet, NEW p \in Procs, Finish(p), opts[p].cmd = "pull",
             ~opts[p].dry, ~skipped[p]
      PROVE  PendingAfter(p, ToPull) = {} /\ Mirrored(p)
  <2> DEFINE there == scanRemote(objects)
             here == scanLocal(files)
  <2>1. PendingAfter(p, ToPull) = {} /\ Left(p, ToPull) = {}
    BY <1>1, FinishedIsSaved DEF QuietOf, PullKeepsPlan
  <2>2. /\ mem[p] \in Manifests /\ Named(mem[p])
        /\ here \in Files /\ there \in Scripts
        /\ UNCHANGED <<files, objects>>
    BY <1>1, ScanTypes, FinishedIsSaved DEF Quiet, IInv, TypeOK, AllNamed, PlanNamed
  <2>3. ASSUME NEW id \in Ids, there[id] # Absent,
               \A path \in PathsOf(id) :
                 Matches([id |-> id, path |-> path], opts[p].pattern)
        PROVE  \E path \in PathsOf(id) : files[path] = objects[id].source
    <3>1. PICK s \in computeStatus(mem[p], there, here) :
            s.id = id /\ s.state \in ToPull \cup {"in-sync"}
      BY <2>2, <2>3, ScriptReported
    <3>2. s.path \in PathsOf(id)
      BY <2>2, <3>1, StatusNamed, ComputeStatusType DEF Undisturbed, Status, PathsOf
    <3>3. s.state = "in-sync"
      BY <2>1, <2>3, <3>1, <3>2 DEF Left, Pending, Matches
    <3>4. here[s.path] # Absent /\ here[s.path] = there[id].source
      BY <2>2, <3>1, <3>3, InSyncIsEqual
    <3>. QED
      BY <2>3, <3>2, <3>4 DEF scanLocal, scanRemote, PathsOf
  <2>. QED
    BY <2>1, <2>2, <2>3 DEF Mirrored, scanRemote
<1>2. Quiet /\ [Next]_vars =>
        [\A p \in Procs :
           Finish(p) /\ opts[p].cmd = "pull" /\ ~opts[p].dry /\ ~skipped[p]
           => PendingAfter(p, ToPull) = {} /\ Mirrored(p)]_vars
  BY <1>1
<1>. QED
  BY <1>2, QuietInvariance, PTL DEF Spec, PullSettles

(* A push that refused nothing leaves nothing to push, where all scripts   *)
(* are of one type: every file of its pattern is on the server, unchanged  *)
(* since the last sync, or that of a deleted script (push.ts:115-196).     *)
THEOREM PushIsSettled ==
  ASSUME NamesRoundTrip, OneAtATime, KnownEngines, OneType
  PROVE  Spec => PushSettles
<1>. Undisturbed
  BY DEF Undisturbed
<1>1. ASSUME Quiet, NEW p \in Procs, Finish(p), opts[p].cmd = "push",
             ~opts[p].dry, ~skipped[p]
      PROVE  PendingAfter(p, ToPush) = {} /\ Delivered(p)
  <2> DEFINE there == scanRemote(objects)
             here == scanLocal(files)
             m == mem[p]
  <2>1. PendingAfter(p, ToPush) = {} /\ Left(p, ToPush) = {}
    BY <1>1, FinishedIsSaved DEF QuietOf, PushKeepsPlan
  <2>2. /\ m \in Manifests /\ Named(m) /\ here \in Files /\ there \in Scripts
        /\ manifest' = m /\ UNCHANGED <<files, objects>>
    BY <1>1, ScanTypes, FinishedIsSaved DEF Quiet, IInv, TypeOK, AllNamed, PlanNamed
  <2>3. ASSUME NEW path \in Paths, here[path] # Absent,
               Matches([id |-> relPathToId(path), path |-> path], opts[p].pattern)
        PROVE  LET id == relPathToId(path)
               IN  \/ there[id] # Absent /\ files[path] = objects[id].source
                   \/ /\ m[id] # Absent /\ m[id].path = path
                      /\ files[path] = m[id].base \/ there[id] = Absent
    <3>1. PICK s \in computeStatus(m, there, here) : s.path = path
      BY <2>2, <2>3, FileReported
    <3>2. s.id \in Ids /\ path[1] = StemOf[s.id]
      BY <2>2, <3>1, StatusNamed, ComputeStatusType DEF Undisturbed, Status
    <3>3. s.id = relPathToId(path)
      BY <3>2 DEF Undisturbed, NamesRoundTrip, relPathToId
    <3>4. s.state \notin ToPush
      BY <2>1, <2>3, <3>1, <3>3 DEF Left, Pending, Matches
    <3>5. \/ there[s.id] # Absent /\ here[path] = there[s.id].source
          \/ /\ m[s.id] # Absent /\ m[s.id].path = path
             /\ here[path] = m[s.id].base \/ there[s.id] = Absent
      BY <2>2, <2>3, <3>1, <3>4, NothingToPush
    <3>6. here[path] = files[path] /\ (there[s.id] # Absent => there[s.id] = objects[s.id])
      BY <2>3, <3>2 DEF scanLocal, scanRemote
    <3>. QED
      BY <3>3, <3>5, <3>6
  <2>. QED
    BY <2>1, <2>2, <2>3 DEF Delivered, scanRemote, scanLocal
<1>2. Quiet /\ [Next]_vars =>
        [\A p \in Procs :
           Finish(p) /\ opts[p].cmd = "push" /\ ~opts[p].dry /\ ~skipped[p]
           => PendingAfter(p, ToPush) = {} /\ Delivered(p)]_vars
  BY <1>1
<1>. QED
  BY <1>2, QuietInvariance, PTL DEF Spec, PushSettles

=============================================================================
