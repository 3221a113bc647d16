---------------------------- MODULE WatchProofs ----------------------------
(***************************************************************************)
(* Theorems about Watch, for every set of scripts and contents, whatever   *)
(* is watched, and however many tasks overlap.                             *)
(***************************************************************************)
EXTENDS Watch, TLAPS

USE DEF Paths

Message == Answer \cup Event

Objects == Script \cup {Absent, Stub}

-----------------------------------------------------------------------------
(* Queues                                                                  *)

(* What is left of a queue once its head is taken.                         *)
LEMMA TailFacts ==
  ASSUME NEW S, NEW q \in Seq(S), q # <<>>
  PROVE  /\ Tail(q) \in Seq(S)
         /\ Head(q) \in S
         /\ 1 \in DOMAIN q /\ q[1] = Head(q)
         /\ \A i \in DOMAIN Tail(q) : /\ i \in Nat /\ i + 1 \in DOMAIN q /\ i + 1 # 1
                                      /\ Tail(q)[i] = q[i + 1]
<1>1. Len(q) \in Nat /\ Len(q) > 0 /\ DOMAIN q = 1 .. Len(q)
  OBVIOUS
<1>2. Tail(q) \in Seq(S) /\ Len(Tail(q)) = Len(q) - 1 /\ DOMAIN Tail(q) = 1 .. Len(q) - 1
  BY <1>1
<1> QED BY <1>1, <1>2

(* A queue and one more.                                                   *)
LEMMA AppendFacts ==
  ASSUME NEW S, NEW q \in Seq(S), NEW e \in S
  PROVE  /\ Append(q, e) \in Seq(S)
         /\ \A i \in DOMAIN Append(q, e) :
              \/ i \in DOMAIN q /\ Append(q, e)[i] = q[i]
              \/ i = Len(q) + 1 /\ Append(q, e)[i] = e
         /\ Len(q) + 1 \notin DOMAIN q
OBVIOUS

(* Appending none, and appending one.                                      *)
LEMMA ConcatFacts ==
  ASSUME NEW S, NEW q \in Seq(S), NEW e \in S
  PROVE  q \o <<>> = q /\ q \o <<e>> = Append(q, e)
OBVIOUS

(* A function on 1 .. n is a sequence.                                     *)
LEMMA SeqOf ==
  ASSUME NEW S, NEW q, NEW n \in Nat, q = [i \in 1 .. n |-> q[i]],
         \A i \in 1 .. n : q[i] \in S
  PROVE  q \in Seq(S)
OBVIOUS

-----------------------------------------------------------------------------
(* Types                                                                   *)

(* Recording a sync keeps a manifest a manifest.                           *)
LEMMA UpsertType ==
  ASSUME NEW m \in Manifests, NEW id \in Ids, NEW path \in Paths,
         NEW base \in Sources
  PROVE  /\ upsertEntry(m, id, path, base) \in Manifests
         /\ upsertEntry(m, id, path, base)[id] = [path |-> path, base |-> base]
         /\ \A other \in Ids \ {id} :
              upsertEntry(m, id, path, base)[other] = m[other]
BY DEF upsertEntry, Manifests, Entry

(* The manifest of a folder never synchronised.                            *)
LEMMA EmptyManifestType == emptyManifest \in Manifests
BY DEF emptyManifest, Manifests

(* The stream to the client after an event.                                *)
LEMMA PublishedType ==
  ASSUME NEW q \in Seq(Message), NEW id \in Ids, NEW object \in Objects
  PROVE  /\ q \o Published(id, object) \in Seq(Message)
         /\ \A i \in DOMAIN (q \o Published(id, object)) :
              \/ i \in DOMAIN q /\ (q \o Published(id, object))[i] = q[i]
              \/ (q \o Published(id, object))[i]
                   = [type |-> "event", id |-> id, object |-> object]
<1> DEFINE e == [type |-> "event", id |-> id, object |-> object]
<1>1. e \in Message
  BY DEF Message, Event, Objects
<1>2. Published(id, object) = IF WithPull THEN <<e>> ELSE <<>>
  BY DEF Published
<1> HIDE DEF e
<1>3. CASE WithPull
  <2>1. q \o Published(id, object) = Append(q, e)
    BY <1>1, <1>2, <1>3, ConcatFacts
  <2> QED BY <2>1, <1>1, AppendFacts DEF e
<1>4. CASE ~WithPull
  <2>1. q \o Published(id, object) = q
    BY <1>1, <1>2, <1>4, ConcatFacts
  <2> QED BY <2>1
<1> QED BY <1>3, <1>4

(* An answer.                                                              *)
LEMMA AnswerType ==
  ASSUME NEW s \in Slots \cup {Absent}, NEW ok \in BOOLEAN,
         NEW seen \in Sources \cup {Absent}
  PROVE  Answered(s, ok, seen) \in Message
BY DEF Answered, Message, Answer

(* What extendObject leaves of an object, and what createScript makes.     *)
LEMMA WrittenType ==
  ASSUME NEW r \in Request, NEW object \in Objects
  PROVE  /\ NewScript(r) \in Objects \ {Absent, Stub}
         /\ NewScript(r).source = r.source
         /\ Extended(object, r) \in Objects
         /\ Extended(object, r) \notin {Absent, Stub}
              => Extended(object, r).source = r.source
<1>1. r.source \in Sources /\ r.path[2] \in EngineTypes
  BY DEF Request
<1>2. NewScript(r) \in Script /\ NewScript(r).source = r.source
  BY <1>1, WatchAssumption DEF NewScript, Script
<1>3. CASE object \in {Absent, Stub}
  BY <1>2, <1>3, MarkersAssumption, RecordsAssumption DEF Extended, Objects
<1>4. CASE object \notin {Absent, Stub}
  <2>1. object \in Script
    BY <1>4 DEF Objects
  <2>2. Extended(object, r)
          = [object EXCEPT !.source = r.source, !.engineType = r.path[2]]
    BY <1>4 DEF Extended
  <2>3. Extended(object, r) \in Script /\ Extended(object, r).source = r.source
    BY <1>1, <2>1, <2>2 DEF Script
  <2> QED BY <1>2, <2>3, RecordsAssumption DEF Objects
<1> QED BY <1>3, <1>4

(* What a task sends.                                                      *)
LEMMA RequestType ==
  ASSUME NEW w \in Seq(Request), NEW s \in Slots, NEW op \in Phases, NEW t \in Task
  PROVE  LET r == [slot |-> s, op |-> op, id |-> t.id, path |-> t.path,
                   source |-> t.source]
         IN  r \in Request /\ Append(w, r) \in Seq(Request)
<1> DEFINE r == [slot |-> s, op |-> op, id |-> t.id, path |-> t.path,
                 source |-> t.source]
<1>1. r \in Request
  BY DEF Request, Task
<1> HIDE DEF r
<1>2. Append(w, r) \in Seq(Request)
  BY <1>1
<1> QED BY <1>1, <1>2 DEF r

(* A request sent keeps the stream what it is.                             *)
LEMMA SendType ==
  ASSUME wire \in Seq(Request), NEW s \in Slots, NEW op \in Phases, NEW t \in Task,
         Send(s, op, t)
  PROVE  wire' \in Seq(Request)
BY RequestType DEF Send

(* Giving up a request keeps the two streams what they are, but for the    *)
(* slot it was to be answered to.                                          *)
LEMMA ForgetFacts ==
  ASSUME NEW s \in Slots, wire \in Seq(Request), inbox \in Seq(Message), Forget(s)
  PROVE  /\ wire' \in Seq(Request)
         /\ inbox' \in Seq(Message)
         /\ DOMAIN wire' = DOMAIN wire
         /\ DOMAIN inbox' = DOMAIN inbox
         /\ \A i \in DOMAIN wire : /\ wire'[i].slot # s
                                   /\ wire'[i].slot = Absent \/ wire'[i] = wire[i]
         /\ \A i \in DOMAIN inbox : /\ ~Answers(i, s)'
                                    /\ \/ inbox'[i] = inbox[i]
                                       \/ inbox'[i].type = "answer" /\ inbox'[i].slot = Absent
<1>0. s # Absent
  BY TaskAssumption
<1>1. ASSUME NEW r \in Request
      PROVE  /\ [r EXCEPT !.slot = Absent] \in Request
             /\ [r EXCEPT !.slot = Absent].slot = Absent
  BY DEF Request
<1>2. ASSUME NEW e \in Message, e.type = "answer"
      PROVE  /\ [e EXCEPT !.slot = Absent] \in Message
             /\ [e EXCEPT !.slot = Absent].slot = Absent
             /\ [e EXCEPT !.slot = Absent].type = "answer"
  BY <1>2 DEF Message, Answer, Event
<1>3. /\ DOMAIN wire' = DOMAIN wire
      /\ \A i \in DOMAIN wire :
           wire'[i] = IF wire[i].slot = s THEN [wire[i] EXCEPT !.slot = Absent] ELSE wire[i]
  BY DEF Forget
<1>4. /\ DOMAIN inbox' = DOMAIN inbox
      /\ \A i \in DOMAIN inbox :
           inbox'[i] = IF inbox[i].type = "answer" /\ inbox[i].slot = s
                       THEN [inbox[i] EXCEPT !.slot = Absent] ELSE inbox[i]
  BY DEF Forget
<1>5. \A i \in DOMAIN wire : wire'[i] \in Request
  BY <1>1, <1>3
<1>6. \A i \in DOMAIN inbox : inbox'[i] \in Message
  <2> SUFFICES ASSUME NEW i \in DOMAIN inbox PROVE inbox'[i] \in Message
    OBVIOUS
  <2>1. inbox[i] \in Message
    OBVIOUS
  <2> QED BY <2>1, <1>2, <1>4
<1>7. wire' \in Seq(Request) /\ inbox' \in Seq(Message)
  <2>1. wire' = [i \in 1 .. Len(wire) |-> wire'[i]] /\ Len(wire) \in Nat
    BY <1>3 DEF Forget
  <2>2. inbox' = [i \in 1 .. Len(inbox) |-> inbox'[i]] /\ Len(inbox) \in Nat
    BY <1>4 DEF Forget
  <2>3. wire' \in Seq(Request)
    BY <1>5, <2>1, SeqOf
  <2>4. inbox' \in Seq(Message)
    BY <1>6, <2>2, SeqOf
  <2> QED BY <2>3, <2>4
<1>8. \A i \in DOMAIN wire : wire'[i].slot # s /\ (wire'[i].slot = Absent \/ wire'[i] = wire[i])
  <2> SUFFICES ASSUME NEW i \in DOMAIN wire
               PROVE  wire'[i].slot # s /\ (wire'[i].slot = Absent \/ wire'[i] = wire[i])
    OBVIOUS
  <2>1. wire[i] \in Request
    OBVIOUS
  <2>2. CASE wire[i].slot = s
    BY <1>0, <1>1, <1>3, <2>1, <2>2
  <2>3. CASE wire[i].slot # s
    BY <1>3, <2>3
  <2> QED BY <2>2, <2>3
<1>9. ASSUME NEW i \in DOMAIN inbox
      PROVE  /\ ~(inbox'[i].type = "answer" /\ inbox'[i].slot = s)
             /\ \/ inbox'[i] = inbox[i]
                \/ inbox'[i].type = "answer" /\ inbox'[i].slot = Absent
  <2>1. inbox[i] \in Message
    OBVIOUS
  <2>2. CASE inbox[i].type = "answer" /\ inbox[i].slot = s
    BY <1>0, <1>2, <1>4, <2>1, <2>2
  <2>3. CASE ~(inbox[i].type = "answer" /\ inbox[i].slot = s)
    BY <1>4, <2>3
  <2> QED BY <2>2, <2>3
<1> QED BY <1>3, <1>4, <1>7, <1>8, <1>9 DEF Answers

(* An answer and its event, whichever leaves first.                        *)
ServedAs(q, p, a, id, object) ==
  \/ p = q \o Published(id, object) \o <<a>>
  \/ p = q \o <<a>> \o Published(id, object)

(* Either way the stream has one answer and at most one event more.        *)
LEMMA BothOrders ==
  ASSUME NEW q \in Seq(Message), NEW p, NEW a \in Message, NEW id \in Ids,
         NEW object \in Objects, ServedAs(q, p, a, id, object)
  PROVE  /\ p \in Seq(Message)
         /\ \E k : /\ k \notin DOMAIN q
                  /\ \A i \in DOMAIN p :
                       \/ i \in DOMAIN q /\ p[i] = q[i]
                       \/ p[i] = [type |-> "event", id |-> id, object |-> object]
                       \/ i = k /\ p[i] = a
<1> DEFINE e == [type |-> "event", id |-> id, object |-> object]
<1>1. CASE p = q \o Published(id, object) \o <<a>>
  <2> DEFINE b == q \o Published(id, object)
  <2>1. /\ b \in Seq(Message)
        /\ \A i \in DOMAIN b : (i \in DOMAIN q /\ b[i] = q[i]) \/ b[i] = e
    BY PublishedType
  <2>2. p = b \o <<a>>
    BY <1>1
  <2>3. DOMAIN q \subseteq DOMAIN b
    BY DEF Published
  <2> HIDE DEF b, e
  <2>4. p = Append(b, a)
    BY <2>1, <2>2, ConcatFacts
  <2>5. /\ p \in Seq(Message)
        /\ \A i \in DOMAIN p : (i \in DOMAIN b /\ p[i] = b[i]) \/ (i = Len(b) + 1 /\ p[i] = a)
        /\ Len(b) + 1 \notin DOMAIN b
    BY <2>1, <2>4, AppendFacts
  <2> QED BY <2>1, <2>3, <2>5 DEF e
<1>2. CASE p = q \o <<a>> \o Published(id, object)
  <2> DEFINE b == q \o <<a>>
  <2>1. b = Append(q, a)
    BY ConcatFacts
  <2>2. /\ b \in Seq(Message)
        /\ \A i \in DOMAIN b : (i \in DOMAIN q /\ b[i] = q[i]) \/ (i = Len(q) + 1 /\ b[i] = a)
        /\ Len(q) + 1 \notin DOMAIN q
    BY <2>1, AppendFacts
  <2>3. p = b \o Published(id, object)
    BY <1>2
  <2> HIDE DEF b
  <2>4. /\ p \in Seq(Message)
        /\ \A i \in DOMAIN p : (i \in DOMAIN b /\ p[i] = b[i]) \/ p[i] = e
    BY <2>2, <2>3, PublishedType
  <2> QED BY <2>2, <2>4
<1> QED BY <1>1, <1>2 DEF ServedAs

(* The initial state is well typed.                                        *)
LEMMA TypeInit == Init => TypeOK
<1> SUFFICES ASSUME Init PROVE TypeOK
  OBVIOUS
<1>1. files \in Files /\ objects \in [Ids -> Script \cup {Absent, Stub}]
  BY WatchAssumption DEF Init, Files, StartScripts, Script, EngineTypes
<1>2. saved \in Manifests /\ entries \in Manifests
  BY DEF Init
<1>3. ASSUME NEW id \in Ids, saved[id] # Absent
      PROVE  saved[id].base \in Sources
  BY <1>2, <1>3 DEF Manifests, Entry
<1>4. onDisk \in [Paths -> SUBSET Sources]
  BY <1>1, <1>3 DEF Init, Content, findByPath, Files
<1>5. ASSUME NEW id \in Ids
      PROVE  InSource(objects[id]) \in Sources \cup {Absent}
  BY <1>1 DEF InSource, Script
<1>6. onServer \in [Ids -> SUBSET Sources]
  BY <1>3, <1>5 DEF Init, Content
<1>7. tasks \in [Slots -> Task \cup {Absent}] /\ snapshot \in [Slots -> Manifests]
  BY EmptyManifestType DEF Init
<1>8. edits \in 0 .. MaxEdits
  BY WatchAssumption DEF Init
<1> QED BY <1>1, <1>2, <1>4, <1>6, <1>7, <1>8 DEF Init, TypeOK

(* So is every state after somebody has edited, in Admin, on the disk, or  *)
(* pull in another terminal.                                               *)
LEMMA TypePeople == TypeOK /\ People => TypeOK'
<1> SUFFICES ASSUME TypeOK, People PROVE TypeOK'
  OBVIOUS
<1>0. inbox \in Seq(Message)
  BY DEF TypeOK, Message
<1>1. ASSUME NEW path \in UserPaths, NEW source \in UserSources, UserSaves(path, source)
      PROVE  TypeOK'
  <2>1. path \in Paths /\ source \in Sources
    BY WatchAssumption DEF UserPaths
  <2> QED BY <1>1, <2>1, WatchAssumption
          DEF UserSaves, MayEdit, TypeOK, Files, work, socket
<1>2. ASSUME NEW path \in UserPaths, UserDeletes(path)
      PROVE  TypeOK'
  BY <1>2, WatchAssumption
     DEF UserDeletes, UserPaths, MayEdit, TypeOK, Files, memory, work, socket
<1>3. ASSUME NEW id \in Ids, NEW script \in Script, AdminSaves(id, script)
      PROVE  TypeOK'
  <2>1. inbox' \in Seq(Message)
    BY <1>0, <1>3, PublishedType DEF AdminSaves, Objects
  <2>2. script.source \in Sources
    BY DEF Script
  <2>3. pending' \in [Paths -> Sources \cup {Absent}]
    BY <1>3 DEF AdminSaves, Settled, TypeOK
  <2>4. edits' \in 0 .. MaxEdits
    BY <1>3, WatchAssumption DEF AdminSaves, MayEdit, TypeOK
  <2> QED BY <1>3, <2>1, <2>2, <2>3, <2>4
          DEF AdminSaves, TypeOK, Message, memory, work
<1>4. ASSUME NEW id \in Ids, AdminDeletes(id)
      PROVE  TypeOK'
  <2>1. inbox' \in Seq(Message)
    BY <1>0, <1>4, PublishedType DEF AdminDeletes, Objects
  <2>2. pending' \in [Paths -> Sources \cup {Absent}]
    BY <1>4 DEF AdminDeletes, TypeOK
  <2>3. edits' \in 0 .. MaxEdits
    BY <1>4, WatchAssumption DEF AdminDeletes, MayEdit, TypeOK
  <2> QED BY <1>4, <2>1, <2>2, <2>3 DEF AdminDeletes, TypeOK, Message, memory, work
<1>5. ASSUME NEW id \in Ids, PullElsewhere(id)
      PROVE  TypeOK'
  <2> DEFINE script == objects[id]
             path   == idToRelPath(id, script.engineType)
  <2>1. script \in Script
    BY <1>5 DEF PullElsewhere, TypeOK
  <2>2. path \in Paths /\ script.source \in Sources
    BY <2>1, NamingAssumption DEF idToRelPath, Script
  <2>3. edits' \in 0 .. MaxEdits
    BY <1>5, WatchAssumption DEF PullElsewhere, MayEdit, TypeOK
  <2>4. /\ files' = [files EXCEPT ![path] = script.source]
        /\ noticed' = noticed \cup {path}
        /\ saved' = upsertEntry(saved, id, path, script.source)
        /\ onDisk' = [onDisk EXCEPT ![path] = @ \cup {script.source}]
        /\ UNCHANGED <<objects, entries, lastPushed, lastWritten, timers, work, socket,
                       due, pending, onServer>>
    BY <1>5 DEF PullElsewhere
  <2> HIDE DEF script, path
  <2>5. saved' \in Manifests
    BY <2>2, <2>4, UpsertType DEF TypeOK
  <2> QED BY <2>2, <2>3, <2>4, <2>5 DEF TypeOK, Files, work, socket
<1>6. ASSUME NEW source \in AdminSources, NEW ext \in ScriptExts
      PROVE  [source |-> source, engineType |-> ext, enabled |-> TRUE,
              engine |-> DefaultInstance] \in Script
  BY WatchAssumption DEF Script, EngineTypes
<1> QED BY <1>1, <1>2, <1>3, <1>4, <1>5, <1>6 DEF People

(* The server and the adapter.                                             *)
LEMMA TypeServer ==
  TypeOK /\ (ServerReads \/ ServerWrites \/ ServerRefuses
               \/ \E id \in Ids : AdapterWritesBack(id))
    => TypeOK'
<1> SUFFICES ASSUME TypeOK PROVE
      (ServerReads \/ ServerWrites \/ ServerRefuses
         \/ \E id \in Ids : AdapterWritesBack(id)) => TypeOK'
  OBVIOUS
<1>0. inbox \in Seq(Message) /\ objects \in [Ids -> Objects] /\ wire \in Seq(Request)
  BY DEF TypeOK, Message, Objects
<1>1. ASSUME wire # <<>>
      PROVE  Head(wire) \in Request /\ Tail(wire) \in Seq(Request)
  BY <1>0, <1>1, TailFacts
<1>2. ASSUME NEW ok \in BOOLEAN, NEW seen \in Sources \cup {Absent}, wire # <<>>
      PROVE  Answered(Head(wire).slot, ok, seen) \in Message
  BY <1>1, <1>2, AnswerType DEF Request
<1>3. ASSUME ServerReads PROVE TypeOK'
  <2>1. InSource(objects[Head(wire).id]) \in Sources \cup {Absent}
    BY <1>0, <1>1, <1>3 DEF ServerReads, InSource, Objects, Script, Request
  <2>2. inbox' \in Seq(Message)
    BY <1>0, <1>2, <1>3, <2>1, AppendFacts DEF ServerReads
  <2> QED BY <1>1, <1>3, <2>2 DEF ServerReads, TypeOK, Message, world, memory, work, history
<1>4. ASSUME ServerRefuses PROVE TypeOK'
  <2>1. inbox' \in Seq(Message)
    BY <1>0, <1>2, <1>4, AppendFacts DEF ServerRefuses
  <2> QED BY <1>1, <1>4, <2>1 DEF ServerRefuses, TypeOK, Message, world, memory, work, history
<1>5. ASSUME NEW id \in Ids, AdapterWritesBack(id) PROVE TypeOK'
  <2>1. inbox' \in Seq(Message)
    BY <1>0, <1>5, PublishedType DEF AdapterWritesBack
  <2> QED BY <1>5, <2>1 DEF AdapterWritesBack, TypeOK, Message, world, memory, work, history
<1>6. ASSUME ServerWrites PROVE TypeOK'
  <2> DEFINE r == Head(wire)
             object == IF r.op = "create" THEN NewScript(r) ELSE Extended(objects[r.id], r)
             a == Answered(r.slot, TRUE, Absent)
  <2>1. r \in Request /\ wire' \in Seq(Request)
    BY <1>1, <1>6 DEF ServerWrites
  <2>2. r.id \in Ids /\ r.source \in Sources /\ r.path \in Paths
    BY <2>1 DEF Request
  <2>3. object \in Objects
    BY <1>0, <2>1, <2>2, WrittenType
  <2>4. a \in Message
    BY <1>2, <1>6 DEF ServerWrites
  <2>5. /\ objects' = [objects EXCEPT ![r.id] = object]
        /\ \/ inbox' = inbox \o Published(r.id, object) \o <<a>>
           \/ inbox' = inbox \o <<a>> \o Published(r.id, object)
        /\ due' = IF object = Stub THEN due ELSE due \cup {r.id}
        /\ onServer' = [onServer EXCEPT ![r.id] = @ \cup {r.source}]
        /\ pending' = Settled(pending, {r.path}, r.source)
        /\ UNCHANGED <<files, saved, memory, work, edits, onDisk>>
    BY <1>6 DEF ServerWrites
  <2> HIDE DEF r, object, a
  <2>6. inbox' \in Seq(Message)
    <3>1. ServedAs(inbox, inbox', a, r.id, object)
      BY <2>5 DEF ServedAs
    <3> QED BY <1>0, <2>2, <2>3, <2>4, <3>1, BothOrders
  <2>7. pending' \in [Paths -> Sources \cup {Absent}]
    BY <2>5 DEF Settled, TypeOK
  <2>8. objects' \in [Ids -> Objects]
    BY <1>0, <2>3, <2>5
  <2>9. due' \subseteq Ids /\ onServer' \in [Ids -> SUBSET Sources]
    BY <2>2, <2>5 DEF TypeOK
  <2> QED BY <2>1, <2>5, <2>6, <2>7, <2>8, <2>9 DEF TypeOK, Message, Objects, memory, work
<1> QED BY <1>3, <1>4, <1>5, <1>6

(* Taking a message off the stream.                                        *)
LEMMA PopType ==
  ASSUME TypeOK, inbox # <<>>
  PROVE  /\ Tail(inbox) \in Seq(Answer \cup Event)
         /\ Head(inbox) \in Message
         /\ Head(inbox).type = "answer" => Head(inbox) \in Answer
         /\ Head(inbox).type = "event" => Head(inbox) \in Event
<1>1. inbox \in Seq(Answer \cup Event)
  BY DEF TypeOK
<1>2. Head(inbox) \in Answer \cup Event /\ Tail(inbox) \in Seq(Answer \cup Event)
  BY <1>1, TailFacts
<1> QED BY <1>2 DEF Answer, Event, Message

(* What a push or an apply does.                                           *)
LEMMA StepType ==
  ASSUME TypeOK, NEW s \in Slots, NEW t \in Task, Over(s) \/ Step(s, t)
  PROVE  tasks' \in [Slots -> Task \cup {Absent}] /\ snapshot' \in [Slots -> Manifests]
BY EmptyManifestType DEF Over, Step, TypeOK

(* Recording a task.                                                       *)
LEMMA RecordType ==
  ASSUME TypeOK, NEW t \in Task, Record(t)
  PROVE  entries' \in Manifests
BY UpsertType DEF TypeOK, Record, RecordedBase, Task

(* Reporting on one.                                                       *)
LEMMA ReportedType ==
  ASSUME TypeOK, NEW t \in Task, Reported(t)
  PROVE  pending' \in [Paths -> Sources \cup {Absent}]
BY DEF TypeOK, Reported, Settled

(* The base pushFile finds for a file.                                     *)
LEMMA BaseType ==
  ASSUME TypeOK, NEW id \in Ids, NEW path
  PROVE  BaseOf(id, path) \in Sources \cup {Absent}
BY DEF TypeOK, BaseOf, Manifests, Entry

(* The owner pushFile finds for a file.                                    *)
LEMMA OwnerType ==
  ASSUME NEW path \in Paths
  PROVE  Owner(path) \subseteq Ids
BY NamingAssumption DEF Owner, findByPath, relPathToId

(* The steps of pushFile.                                                  *)
LEMMA TypePush == ASSUME TypeOK, NEW s \in Slots, pushFile(s) PROVE TypeOK'
<1>0. tasks[s] # Absent => tasks[s] \in Task
  BY DEF TypeOK
<1>a. "get" \in Phases /\ "folders" \in Phases /\ "extend" \in Phases
        /\ "create" \in Phases /\ "save" \in Phases
  BY DEF Phases
<1>b. ASSUME NEW t \in Task, NEW phase \in Phases
      PROVE  [t EXCEPT !.phase = phase] \in Task
  BY DEF Task
<1>1. ASSUME NEW path \in Paths, PushStarts(s, path) PROVE TypeOK'
  <2> PICK id \in Owner(path) :
        LET t == [kind |-> "push", phase |-> "get", id |-> id, path |-> path,
                  source |-> files[path], base |-> BaseOf(id, path), seen |-> Absent]
        IN  Step(s, t) /\ Send(s, "get", t)
    BY <1>1 DEF PushStarts
  <2> DEFINE t == [kind |-> "push", phase |-> "get", id |-> id, path |-> path,
                   source |-> files[path], base |-> BaseOf(id, path), seen |-> Absent]
  <2>1. id \in Ids
    BY OwnerType
  <2>2. files[path] \in Sources
    BY <1>1 DEF PushStarts, Pushable, TypeOK, Files
  <2>3. t \in Task
    BY <1>a, <2>1, <2>2, BaseType DEF Task
  <2>4. Step(s, t) /\ Send(s, "get", t)
    OBVIOUS
  <2> HIDE DEF t
  <2>5. wire' \in Seq(Request)
    BY <1>a, <2>3, <2>4, SendType DEF TypeOK
  <2> QED BY <1>1, <2>3, <2>4, <2>5, StepType DEF PushStarts, TypeOK, world, history
<1>2. ASSUME PushDecides(s) PROVE TypeOK'
  <2> DEFINE t == tasks[s]
             there == Head(inbox).seen
             found == [t EXCEPT !.seen = there]
             op == IF there = Absent THEN "folders" ELSE "extend"
             next == [found EXCEPT !.phase = op]
  <2>1. t \in Task /\ inbox # <<>> /\ Head(inbox) \in Answer /\ inbox' \in Seq(Answer \cup Event)
    BY <1>0, <1>2, PopType DEF PushDecides, HasAnswer
  <2>2. there \in Sources \cup {Absent} /\ op \in Phases
    BY <1>a, <2>1 DEF Answer
  <2>3. found \in Task
    <3> HIDE DEF there, t
    <3> QED BY <2>1, <2>2 DEF Task
  <2>4. next \in Task
    <3> HIDE DEF found, op
    <3> QED BY <2>2, <2>3, <1>b
  <2>5. /\ \/ Over(s) /\ Reported(t) /\ UNCHANGED <<lastPushed, wire>>
           \/ /\ Step(s, next) /\ Send(s, op, t)
              /\ lastPushed' = [lastPushed EXCEPT ![t.id] = t.source]
              /\ UNCHANGED pending
        /\ UNCHANGED <<world, saved, entries, lastWritten, noticed, timers, due, edits,
                       onDisk, onServer>>
    BY <1>2 DEF PushDecides
  <2> HIDE DEF t, next, op
  <2>6. wire' \in Seq(Request)
    <3>1. wire' = wire \/ Send(s, op, t)
      BY <2>5
    <3> QED BY <2>1, <2>2, <3>1, SendType DEF TypeOK
  <2>7. pending' \in [Paths -> Sources \cup {Absent}]
    BY <2>1, <2>5, ReportedType DEF TypeOK
  <2>8. lastPushed' \in [Ids -> Sources \cup {Absent}]
    BY <2>1, <2>5 DEF TypeOK, Task
  <2>9. tasks' \in [Slots -> Task \cup {Absent}] /\ snapshot' \in [Slots -> Manifests]
    BY <2>4, <2>5, StepType
  <2> QED BY <2>1, <2>5, <2>6, <2>7, <2>8, <2>9 DEF TypeOK, world
<1>3. ASSUME PushCreates(s) PROVE TypeOK'
  <2> DEFINE next == [tasks[s] EXCEPT !.phase = "create"]
  <2>1. tasks[s] \in Task /\ inbox' \in Seq(Answer \cup Event)
    BY <1>0, <1>3, PopType DEF PushCreates, HasAnswer
  <2>2. next \in Task
    BY <1>a, <1>b, <2>1
  <2>3. /\ Step(s, next) /\ Send(s, "create", tasks[s])
        /\ UNCHANGED <<world, saved, memory, due, edits, history>>
    BY <1>3 DEF PushCreates
  <2> HIDE DEF next
  <2>4. wire' \in Seq(Request)
    BY <1>a, <2>1, <2>3, SendType DEF TypeOK
  <2> QED BY <2>1, <2>2, <2>3, <2>4, StepType DEF TypeOK, world, memory, history
<1>4. ASSUME PushRecords(s) PROVE TypeOK'
  <2> DEFINE next == [tasks[s] EXCEPT !.phase = "save"]
  <2>1. tasks[s] \in Task /\ inbox' \in Seq(Answer \cup Event)
    BY <1>0, <1>4, PopType DEF PushRecords, HasAnswer
  <2>2. next \in Task
    BY <1>a, <1>b, <2>1
  <2>3. /\ Step(s, next) /\ Record(tasks[s])
        /\ UNCHANGED <<world, saved, lastPushed, lastWritten, noticed, timers, wire, due,
                       edits, history>>
    BY <1>4 DEF PushRecords
  <2> HIDE DEF next
  <2> QED BY <2>1, <2>2, <2>3, StepType, RecordType DEF TypeOK, world, history
<1>5. ASSUME PushFails(s) PROVE TypeOK'
  <2>1. tasks[s] \in Task /\ inbox' \in Seq(Answer \cup Event)
    BY <1>0, <1>5, PopType DEF PushFails, HasAnswer
  <2>2. Over(s) /\ Reported(tasks[s])
    BY <1>5 DEF PushFails
  <2> QED BY <1>5, <2>1, <2>2, StepType, ReportedType DEF PushFails, TypeOK, world, memory
<1>6. ASSUME PushTimesOut(s) PROVE TypeOK'
  <2>1. tasks[s] \in Task /\ Over(s) /\ Reported(tasks[s]) /\ Forget(s)
    BY <1>0, <1>6 DEF PushTimesOut, Free
  <2>2. wire' \in Seq(Request) /\ inbox' \in Seq(Answer \cup Event)
    BY <2>1, ForgetFacts DEF TypeOK, Message
  <2> QED BY <1>6, <2>1, <2>2, StepType, ReportedType DEF PushTimesOut, TypeOK, world, memory
<1> QED BY <1>1, <1>2, <1>3, <1>4, <1>5, <1>6 DEF pushFile

(* The steps of applyRemoteChange and saveManifest.                        *)
LEMMA TypeApply ==
  ASSUME TypeOK, NEW s \in Slots, applyRemoteChange(s) \/ saveManifest(s) PROVE TypeOK'
<1>0. tasks[s] # Absent => tasks[s] \in Task
  BY DEF TypeOK
<1>a. "read" \in Phases /\ "write" \in Phases /\ "wrote" \in Phases
        /\ "save" \in Phases /\ "rename" \in Phases
  BY DEF Phases
<1>b. ASSUME NEW t \in Task, NEW phase \in Phases
      PROVE  [t EXCEPT !.phase = phase] \in Task
  BY DEF Task
<1>1. ASSUME ApplyStarts(s) PROVE TypeOK'
  <2> DEFINE e == Head(inbox)
             path == PathOf(e)
             next == [kind |-> "apply", phase |-> "read", id |-> e.id, path |-> path,
                      source |-> e.object.source, base |-> BaseOf(e.id, path),
                      seen |-> Absent]
  <2>1. e \in Event /\ inbox' \in Seq(Answer \cup Event)
    BY <1>1, PopType DEF ApplyStarts
  <2>2. e.object \in Script /\ e.id \in Ids
    BY <1>1, <2>1 DEF ApplyStarts, Appliable, Event
  <2>3. path \in Paths
    BY <2>2, NamingAssumption DEF PathOf, TypeOK, Manifests, Entry, idToRelPath, Script
  <2>4. Step(s, next) /\ UNCHANGED <<world, saved, memory, wire, due, edits, history>>
    BY <1>1 DEF ApplyStarts
  <2>5. next \in Task
    <3> HIDE DEF e, path
    <3> QED BY <1>a, <2>2, <2>3, BaseType DEF Task, Script
  <2> HIDE DEF next
  <2> QED BY <2>1, <2>4, <2>5, StepType DEF TypeOK, world, memory, history
<1>2. ASSUME ApplyReads(s) PROVE TypeOK'
  <2> DEFINE t == tasks[s]
             here == files[t.path]
             next == [t EXCEPT !.phase = "write", !.seen = here]
  <2>1. t \in Task
    BY <1>0, <1>2 DEF ApplyReads, Free
  <2>2. here \in Sources \cup {Absent}
    BY <2>1 DEF TypeOK, Files, Task
  <2>3. next \in Task
    <3> HIDE DEF t, here
    <3>1. [t EXCEPT !.phase = "write"] \in Task
      BY <1>a, <1>b, <2>1
    <3> DEFINE u == [t EXCEPT !.phase = "write"]
    <3>2. next = [u EXCEPT !.seen = here]
      OBVIOUS
    <3> HIDE DEF u
    <3>3. [u EXCEPT !.seen = here] \in Task
      BY <2>2, <3>1 DEF u, Task
    <3> QED BY <3>2, <3>3
  <2>4. /\ (Over(s) /\ Reported(t)) \/ (Step(s, next) /\ UNCHANGED pending)
        /\ UNCHANGED <<world, saved, memory, socket, due, edits, onDisk, onServer>>
    BY <1>2 DEF ApplyReads
  <2> HIDE DEF t, next
  <2>5. tasks' \in [Slots -> Task \cup {Absent}] /\ snapshot' \in [Slots -> Manifests]
    BY <2>3, <2>4, StepType
  <2>6. pending' \in [Paths -> Sources \cup {Absent}]
    BY <2>1, <2>4, ReportedType DEF TypeOK
  <2> QED BY <2>4, <2>5, <2>6 DEF TypeOK, world, memory, socket
<1>3. ASSUME ApplyWrites(s) PROVE TypeOK'
  <2> DEFINE t == tasks[s]
             next == [t EXCEPT !.phase = "wrote"]
  <2>1. t \in Task
    BY <1>0, <1>3 DEF ApplyWrites, Free
  <2>2. next \in Task
    BY <1>a, <1>b, <2>1
  <2>3. /\ files' = [files EXCEPT ![t.path] = t.source]
        /\ onDisk' = [onDisk EXCEPT ![t.path] = @ \cup {t.source}]
        /\ noticed' = noticed \cup {t.path}
        /\ Step(s, next)
        /\ UNCHANGED <<objects, saved, entries, lastPushed, lastWritten, timers, socket,
                       due, edits, pending, onServer>>
    BY <1>3 DEF ApplyWrites
  <2>4. t.path \in Paths /\ t.source \in Sources
    BY <2>1 DEF Task
  <2> HIDE DEF t, next
  <2>5. files' \in Files /\ onDisk' \in [Paths -> SUBSET Sources] /\ noticed' \subseteq Paths
    BY <2>3, <2>4 DEF TypeOK, Files
  <2> QED BY <2>2, <2>3, <2>5, StepType DEF TypeOK, socket
<1>4. ASSUME ApplyFails(s) PROVE TypeOK'
  <2>1. tasks[s] \in Task /\ Over(s) /\ Reported(tasks[s])
    BY <1>0, <1>4 DEF ApplyFails, Free
  <2> QED BY <1>4, <2>1, StepType, ReportedType DEF ApplyFails, TypeOK, world, memory, socket
<1>5. ASSUME ApplyRecords(s) PROVE TypeOK'
  <2> DEFINE t == tasks[s]
             next == [t EXCEPT !.phase = "save"]
  <2>1. t \in Task
    BY <1>0, <1>5 DEF ApplyRecords, Free
  <2>2. next \in Task
    BY <1>a, <1>b, <2>1
  <2>3. /\ lastWritten' = [lastWritten EXCEPT ![t.path] = t.source]
        /\ Record(t)
        /\ Step(s, next)
        /\ UNCHANGED <<world, saved, lastPushed, noticed, timers, socket, due, edits, history>>
    BY <1>5 DEF ApplyRecords
  <2>4. t.source \in Sources
    BY <2>1 DEF Task
  <2> HIDE DEF t, next
  <2> QED BY <2>1, <2>2, <2>3, <2>4, StepType, RecordType DEF TypeOK, world, socket, history
<1>6. ASSUME SaveStarts(s) PROVE TypeOK'
  <2> DEFINE next == [tasks[s] EXCEPT !.phase = "rename"]
  <2>1. tasks[s] \in Task
    BY <1>0, <1>6 DEF SaveStarts, Free
  <2>2. next \in Task
    BY <1>a, <1>b, <2>1
  <2>3. tasks' = [tasks EXCEPT ![s] = next]
    BY <1>6 DEF SaveStarts
  <2> HIDE DEF next
  <2>4. tasks' \in [Slots -> Task \cup {Absent}]
    BY <2>2, <2>3 DEF TypeOK
  <2> QED BY <1>6, <2>4 DEF SaveStarts, TypeOK, world, memory, socket, history
<1>7. ASSUME SaveEnds(s) \/ SaveFails(s) PROVE TypeOK'
  <2>1. tasks[s] \in Task /\ Over(s)
    BY <1>0, <1>7 DEF SaveEnds, SaveFails, Free
  <2> QED BY <1>7, <2>1, StepType
          DEF SaveEnds, SaveFails, TypeOK, world, memory, socket, history
<1> QED BY <1>1, <1>2, <1>3, <1>4, <1>5, <1>6, <1>7 DEF applyRemoteChange, saveManifest

(* chokidar, what is dropped, and a restart.                               *)
LEMMA TypeRest ==
  TypeOK /\ ((\E path \in Paths : scheduleFile(path) \/ PushIgnored(path))
               \/ LateAnswer \/ EventIgnored \/ Restart)
    => TypeOK'
<1> SUFFICES ASSUME TypeOK PROVE
      (\E path \in Paths : scheduleFile(path) \/ PushIgnored(path))
        \/ LateAnswer \/ EventIgnored \/ Restart => TypeOK'
  OBVIOUS
<1>1. ASSUME NEW path \in Paths, scheduleFile(path) PROVE TypeOK'
  BY <1>1 DEF scheduleFile, TypeOK, world, work, socket, history
<1>2. ASSUME NEW path \in Paths, PushIgnored(path) PROVE TypeOK'
  <2>1. pending' \in [Paths -> Sources \cup {Absent}]
    BY <1>2 DEF PushIgnored, TypeOK
  <2> QED BY <1>2, <2>1 DEF PushIgnored, TypeOK, world, work, socket
<1>3. ASSUME LateAnswer \/ EventIgnored PROVE TypeOK'
  BY <1>3, PopType DEF LateAnswer, EventIgnored, TypeOK, world, memory, work, history
<1>4. ASSUME Restart PROVE TypeOK'
  <2>1. PICK n \in 0 .. Len(wire) :
          wire' = [i \in 1 .. n |-> [wire[i] EXCEPT !.slot = Absent]]
    BY <1>4 DEF Restart
  <2>2. ASSUME NEW r \in Request PROVE [r EXCEPT !.slot = Absent] \in Request
    BY DEF Request
  <2>3. n \in Nat /\ \A i \in 1 .. n : wire[i] \in Request
    BY <2>1 DEF TypeOK
  <2>4. \A i \in 1 .. n : wire'[i] \in Request
    BY <2>1, <2>2, <2>3
  <2>5. wire' \in Seq(Request)
    BY <2>1, <2>3, <2>4, SeqOf
  <2> QED BY <1>4, <2>5, EmptyManifestType DEF Restart, TypeOK, world
<1> QED BY <1>1, <1>2, <1>3, <1>4

(* Every step keeps the types.                                             *)
LEMMA TypeNext == TypeOK /\ [Next]_vars => TypeOK'
<1> SUFFICES ASSUME TypeOK, [Next]_vars PROVE TypeOK'
  OBVIOUS
<1>1. CASE People
  BY <1>1, TypePeople
<1>2. CASE System
  BY <1>2, TypePush, TypeApply, TypeServer, TypeRest DEF System
<1>3. CASE Restart
  BY <1>3, TypeRest
<1>4. CASE UNCHANGED vars
  BY <1>4 DEF vars, world, memory, work, socket, history, TypeOK
<1> QED BY <1>1, <1>2, <1>3, <1>4 DEF Next

-----------------------------------------------------------------------------
(* Histories                                                               *)

(* What a path or a script has had is never forgotten.                     *)
HistoriesGrow ==
  /\ \A path \in Paths : onDisk[path] \subseteq onDisk'[path]
  /\ \A id \in Ids : onServer[id] \subseteq onServer'[id]

(* Every step only adds to the histories, and they hold what is there.     *)
LEMMA Histories ==
  ASSUME TasksInv, TypeOK', [Next]_vars
  PROVE  HistoriesGrow /\ HistoriesTrue'
<1> USE DEF HistoriesGrow, HistoriesTrue
<1>0. TypeOK /\ HistoriesTrue
  BY DEF TasksInv
<1>1. ASSUME UNCHANGED <<world, onDisk, onServer>> PROVE HistoriesGrow /\ HistoriesTrue'
  BY <1>0, <1>1 DEF world
<1>2. ASSUME NEW path \in UserPaths, NEW source \in UserSources, UserSaves(path, source)
      PROVE  HistoriesGrow /\ HistoriesTrue'
  BY <1>0, <1>2 DEF UserSaves, TypeOK, Files
<1>3. ASSUME NEW path \in UserPaths, UserDeletes(path)
      PROVE  HistoriesGrow /\ HistoriesTrue'
  BY <1>0, <1>3 DEF UserDeletes, TypeOK, Files
<1>4. ASSUME NEW id \in Ids, NEW script \in Script, AdminSaves(id, script)
      PROVE  HistoriesGrow /\ HistoriesTrue'
  BY <1>0, <1>4 DEF AdminSaves, TypeOK
<1>5. ASSUME NEW id \in Ids, AdminDeletes(id)
      PROVE  HistoriesGrow /\ HistoriesTrue'
  BY <1>0, <1>5 DEF AdminDeletes, TypeOK
<1>6. ASSUME NEW id \in Ids, PullElsewhere(id)
      PROVE  HistoriesGrow /\ HistoriesTrue'
  <2> DEFINE source == objects[id].source
             path   == idToRelPath(id, objects[id].engineType)
  <2>1. /\ files' = [files EXCEPT ![path] = source]
        /\ onDisk' = [onDisk EXCEPT ![path] = @ \cup {source}]
        /\ UNCHANGED <<objects, onServer>>
    BY <1>6 DEF PullElsewhere
  <2> HIDE DEF source, path
  <2> QED BY <1>0, <2>1 DEF TypeOK, Files
<1>7. ASSUME ServerWrites PROVE HistoriesGrow /\ HistoriesTrue'
  <2> DEFINE r == Head(wire)
             object == IF r.op = "create" THEN NewScript(r) ELSE Extended(objects[r.id], r)
  <2>1. r \in Request
    BY <1>0, <1>7, TailFacts DEF ServerWrites, TypeOK
  <2>2. r.id \in Ids /\ r.source \in Sources
    BY <2>1 DEF Request
  <2>3. object \notin {Absent, Stub} => object.source = r.source
    BY <1>0, <2>1, <2>2, WrittenType DEF TypeOK, Objects
  <2>4. /\ objects' = [objects EXCEPT ![r.id] = object]
        /\ onServer' = [onServer EXCEPT ![r.id] = @ \cup {r.source}]
        /\ UNCHANGED <<files, onDisk>>
    BY <1>7 DEF ServerWrites
  <2> HIDE DEF r, object
  <2> QED BY <1>0, <2>2, <2>3, <2>4 DEF TypeOK
<1>8. ASSUME NEW s \in Slots, ApplyWrites(s) PROVE HistoriesGrow /\ HistoriesTrue'
  <2>1. tasks[s] \in Task
    BY <1>0, <1>8 DEF ApplyWrites, Free, TypeOK
  <2>2. tasks[s].path \in Paths /\ tasks[s].source \in Sources
    BY <2>1 DEF Task
  <2>3. /\ files' = [files EXCEPT ![tasks[s].path] = tasks[s].source]
        /\ onDisk' = [onDisk EXCEPT ![tasks[s].path] = @ \cup {tasks[s].source}]
        /\ UNCHANGED <<objects, onServer>>
    BY <1>8 DEF ApplyWrites
  <2> QED BY <1>0, <2>2, <2>3 DEF TypeOK, Files
<1>9. CASE People
  <2>1. ASSUME NEW source \in AdminSources, NEW ext \in ScriptExts
        PROVE  [source |-> source, engineType |-> ext, enabled |-> TRUE,
                engine |-> DefaultInstance] \in Script
    BY WatchAssumption DEF Script, EngineTypes
  <2> QED BY <1>2, <1>3, <1>4, <1>5, <1>6, <1>9, <2>1 DEF People
<1>10. CASE System
  <2>1. ASSUME NEW s \in Slots, pushFile(s) \/ applyRemoteChange(s) \/ saveManifest(s),
               ~ApplyWrites(s)
        PROVE  UNCHANGED <<world, onDisk, onServer>>
    BY <2>1 DEF pushFile, applyRemoteChange, saveManifest, PushStarts, PushDecides,
         PushCreates, PushRecords, PushFails, PushTimesOut, ApplyStarts, ApplyReads,
         ApplyFails, ApplyRecords, SaveStarts, SaveEnds, SaveFails, history
  <2>2. ASSUME \/ \E path \in Paths : scheduleFile(path) \/ PushIgnored(path)
               \/ LateAnswer \/ EventIgnored \/ ServerReads \/ ServerRefuses
               \/ \E id \in Ids : AdapterWritesBack(id)
        PROVE  UNCHANGED <<world, onDisk, onServer>>
    BY <2>2 DEF scheduleFile, PushIgnored, LateAnswer, EventIgnored, ServerReads,
         ServerRefuses, AdapterWritesBack, history
  <2> QED BY <1>1, <1>7, <1>8, <1>10, <2>1, <2>2 DEF System
<1>11. CASE Restart \/ UNCHANGED vars
  BY <1>1, <1>11 DEF Restart, vars, history
<1> QED BY <1>9, <1>10, <1>11 DEF Next

-----------------------------------------------------------------------------
(* Bases                                                                   *)

(* A shared base stays one.                                                *)
LEMMA BasesKept ==
  ASSUME HistoriesGrow, NEW m \in Manifests, BasesShared(m)
  PROVE  \A id \in Ids :
           m[id] # Absent => m[id].base \in onDisk'[m[id].path] \cap onServer'[id]
<1> SUFFICES ASSUME NEW id \in Ids, m[id] # Absent
             PROVE  m[id].base \in onDisk'[m[id].path] \cap onServer'[id]
  OBVIOUS
<1>1. m[id].path \in Paths
  BY DEF Manifests, Entry
<1>2. m[id].base \in onDisk[m[id].path] \cap onServer[id]
  BY DEF BasesShared
<1> QED BY <1>1, <1>2 DEF HistoriesGrow

(* So does a manifest that records one more sync that took place.          *)
LEMMA BasesRecorded ==
  ASSUME HistoriesGrow, NEW m \in Manifests, BasesShared(m),
         NEW id \in Ids, NEW path \in Paths, NEW base \in Sources,
         base \in onDisk'[path] \cap onServer'[id]
  PROVE  LET next == upsertEntry(m, id, path, base)
         IN  \A other \in Ids :
               next[other] # Absent
                 => next[other].base \in onDisk'[next[other].path] \cap onServer'[other]
<1> DEFINE next == upsertEntry(m, id, path, base)
<1>1. next[id] = [path |-> path, base |-> base] /\ \A other \in Ids \ {id} : next[other] = m[other]
  BY UpsertType
<1>2. next[id].path = path /\ next[id].base = base
  BY <1>1
<1> HIDE DEF next
<1> QED BY <1>1, <1>2, BasesKept DEF next

(* A task that records has moved its content from one side to the other.   *)
LEMMA RecordsShared ==
  ASSUME TasksInv, HistoriesGrow, NEW s \in Slots, tasks[s] # Absent, Record(tasks[s]),
         tasks[s].source \in onDisk[tasks[s].path] \cap onServer[tasks[s].id]
  PROVE  BasesShared(entries)'
<1>1. tasks[s] \in Task /\ entries \in Manifests /\ BasesShared(entries)
  BY DEF TasksInv, TypeOK, BaseWasShared
<1> DEFINE t == tasks[s]
<1>2. t.id \in Ids /\ t.path \in Paths /\ t.source \in Sources
  BY <1>1 DEF Task
<1>3. entries' = upsertEntry(entries, t.id, t.path, t.source)
  BY DEF Record, RecordedBase
<1>4. t.source \in onDisk'[t.path] \cap onServer'[t.id]
  BY <1>2 DEF HistoriesGrow
<1> HIDE DEF t
<1> QED BY <1>1, <1>2, <1>3, <1>4, BasesRecorded DEF BasesShared

(* A push records what the server has just acknowledged.                   *)
LEMMA PushShared ==
  ASSUME TasksInv, NEW s \in Slots, PushRecords(s)
  PROVE  tasks[s].source \in onDisk[tasks[s].path] \cap onServer[tasks[s].id]
<1>1. /\ tasks[s] # Absent /\ tasks[s].phase \in {"extend", "create"}
      /\ inbox # <<>> /\ Head(inbox).type = "answer" /\ Head(inbox).slot = s
      /\ Head(inbox).ok
  BY DEF PushRecords, HasAnswer
<1>2. 1 \in DOMAIN inbox /\ inbox[1] = Head(inbox)
  BY <1>1, TailFacts DEF TasksInv, TypeOK
<1>3. tasks[s].source \in onServer[tasks[s].id]
  BY <1>1, <1>2 DEF TasksInv, AnswersTrue, Answers
<1>4. TaskSound(tasks[s], onDisk, onServer) /\ tasks[s] \in Task
  BY <1>1 DEF TasksInv, TasksSound, TypeOK
<1>5. tasks[s].kind = "push"
  BY <1>1, <1>4 DEF TaskSound, Task
<1> QED BY <1>3, <1>4, <1>5 DEF TaskSound

(* However a manifest comes about, its bases are shared.                   *)
LEMMA Bases ==
  ASSUME TasksInv, TypeOK', [Next]_vars, HistoriesGrow
  PROVE  BaseWasShared'
<1>0. TypeOK /\ BaseWasShared
  BY DEF TasksInv
<1>1. ASSUME UNCHANGED <<entries, saved>>,
             \A s \in Slots : snapshot'[s] \in {snapshot[s], entries, emptyManifest}
      PROVE  BaseWasShared'
  <2>1. BasesShared(entries)' /\ BasesShared(saved)'
    BY <1>0, <1>1, BasesKept DEF BaseWasShared, BasesShared, TypeOK
  <2>2. ASSUME NEW s \in Slots PROVE BasesShared(snapshot[s])'
    <3>1. CASE snapshot'[s] = snapshot[s]
      BY <1>0, <3>1, BasesKept DEF BaseWasShared, BasesShared, TypeOK
    <3>2. CASE snapshot'[s] = entries
      BY <1>0, <3>2, BasesKept DEF BaseWasShared, BasesShared, TypeOK
    <3>3. CASE snapshot'[s] = emptyManifest
      BY <3>3 DEF BasesShared, emptyManifest
    <3> QED BY <1>1, <3>1, <3>2, <3>3
  <2> QED BY <2>1, <2>2 DEF BaseWasShared
<1>2. ASSUME UNCHANGED <<entries, saved, snapshot>> PROVE BaseWasShared'
  BY <1>1, <1>2
<1>3. ASSUME NEW s \in Slots, Over(s), UNCHANGED <<entries, saved>> PROVE BaseWasShared'
  BY <1>0, <1>1, <1>3 DEF Over, TypeOK
<1>4. ASSUME NEW s \in Slots, BasesShared(entries)', UNCHANGED <<saved, snapshot>>
      PROVE  BaseWasShared'
  BY <1>0, <1>4, BasesKept DEF BaseWasShared, BasesShared, TypeOK
<1>5. CASE People
  <2>1. ASSUME NEW id \in Ids, PullElsewhere(id) PROVE BaseWasShared'
    <3> DEFINE source == objects[id].source
               path   == idToRelPath(id, objects[id].engineType)
    <3>1. objects[id] \in Script /\ source \in onServer[id]
      BY <1>0, <2>1 DEF PullElsewhere, TypeOK, TasksInv, HistoriesTrue
    <3>2. path \in Paths /\ source \in Sources
      BY <3>1, NamingAssumption DEF idToRelPath, Script
    <3>3. /\ saved' = upsertEntry(saved, id, path, source)
          /\ onDisk' = [onDisk EXCEPT ![path] = @ \cup {source}]
          /\ UNCHANGED <<entries, snapshot, onServer>>
      BY <2>1 DEF PullElsewhere, work
    <3> HIDE DEF source, path
    <3>4. source \in onDisk'[path] \cap onServer'[id]
      BY <1>0, <3>1, <3>2, <3>3 DEF TypeOK
    <3>5. BasesShared(saved)'
      BY <1>0, <3>2, <3>3, <3>4, BasesRecorded DEF BaseWasShared, BasesShared, TypeOK
    <3>6. BasesShared(entries)'
      BY <1>0, <3>3, BasesKept DEF BaseWasShared, BasesShared, TypeOK
    <3>7. \A s \in Slots : BasesShared(snapshot[s])'
      BY <1>0, <3>3, BasesKept DEF BaseWasShared, BasesShared, TypeOK
    <3> QED BY <3>5, <3>6, <3>7 DEF BaseWasShared
  <2>2. ASSUME People, \A id \in Ids : ~PullElsewhere(id)
        PROVE  UNCHANGED <<entries, saved, snapshot>>
    BY <2>2 DEF People, UserSaves, UserDeletes, AdminSaves, AdminDeletes, memory, work
  <2> QED BY <1>2, <1>5, <2>1, <2>2
<1>6. CASE System
  <2>1. ASSUME NEW s \in Slots, pushFile(s) PROVE BaseWasShared'
    <3>1. CASE PushRecords(s)
      <4>1. Record(tasks[s]) /\ tasks[s] # Absent /\ UNCHANGED <<saved, snapshot>>
        BY <3>1 DEF PushRecords, HasAnswer, Step
      <4> QED BY <1>4, <3>1, <4>1, PushShared, RecordsShared
    <3>2. CASE ~PushRecords(s)
      <4>1. UNCHANGED <<entries, saved>> /\ (Over(s) \/ UNCHANGED snapshot)
        BY <2>1, <3>2 DEF pushFile, PushStarts, PushDecides, PushCreates, PushFails,
             PushTimesOut, Step, memory
      <4> QED BY <1>2, <1>3, <4>1
    <3> QED BY <3>1, <3>2
  <2>2. ASSUME NEW s \in Slots, applyRemoteChange(s) PROVE BaseWasShared'
    <3>1. CASE ApplyRecords(s)
      <4>1. /\ Record(tasks[s]) /\ tasks[s] # Absent /\ tasks[s].phase = "wrote"
            /\ UNCHANGED <<saved, snapshot>>
        BY <3>1 DEF ApplyRecords, Free, Step
      <4>2. TaskSound(tasks[s], onDisk, onServer) /\ tasks[s] \in Task
        BY <4>1 DEF TasksInv, TasksSound, TypeOK
      <4>3. tasks[s].kind = "apply"
        BY <4>1, <4>2 DEF TaskSound, Task, Awaiting
      <4>4. tasks[s].source \in onDisk[tasks[s].path] \cap onServer[tasks[s].id]
        BY <4>1, <4>2, <4>3 DEF TaskSound
      <4> QED BY <1>4, <4>1, <4>4, RecordsShared
    <3>2. CASE ~ApplyRecords(s)
      <4>1. UNCHANGED <<entries, saved>> /\ (Over(s) \/ UNCHANGED snapshot)
        BY <2>2, <3>2 DEF applyRemoteChange, ApplyStarts, ApplyReads, ApplyWrites,
             ApplyFails, Step, memory
      <4> QED BY <1>2, <1>3, <4>1
    <3> QED BY <3>1, <3>2
  <2>3. ASSUME NEW s \in Slots, saveManifest(s) PROVE BaseWasShared'
    <3>1. CASE SaveStarts(s)
      <4>1. UNCHANGED <<entries, saved>> /\ snapshot' = [snapshot EXCEPT ![s] = entries]
        BY <3>1 DEF SaveStarts, memory
      <4> QED BY <1>0, <1>1, <4>1 DEF TypeOK
    <3>2. CASE SaveEnds(s)
      <4>1. /\ entries' = entries /\ saved' = snapshot[s]
            /\ snapshot' = [snapshot EXCEPT ![s] = emptyManifest]
        BY <3>2 DEF SaveEnds, Over, memory
      <4>2. BasesShared(saved)' /\ BasesShared(entries)'
        BY <1>0, <4>1, BasesKept DEF BaseWasShared, BasesShared, TypeOK
      <4>3. ASSUME NEW r \in Slots PROVE BasesShared(snapshot[r])'
        <5>1. CASE r = s
          <6>1. snapshot'[r] = emptyManifest
            BY <1>0, <4>1, <5>1 DEF TypeOK
          <6> QED BY <6>1 DEF BasesShared, emptyManifest
        <5>2. CASE r # s
          <6>1. snapshot'[r] = snapshot[r]
            BY <1>0, <4>1, <5>2 DEF TypeOK
          <6> QED BY <1>0, <6>1, BasesKept DEF BaseWasShared, BasesShared, TypeOK
        <5> QED BY <5>1, <5>2
      <4> QED BY <4>2, <4>3 DEF BaseWasShared
    <3>3. CASE SaveFails(s)
      <4>1. Over(s) /\ UNCHANGED <<entries, saved>>
        BY <3>3 DEF SaveFails, memory
      <4> QED BY <1>3, <4>1
    <3> QED BY <2>3, <3>1, <3>2, <3>3 DEF saveManifest
  <2>4. ASSUME \/ \E path \in Paths : scheduleFile(path) \/ PushIgnored(path)
               \/ LateAnswer \/ EventIgnored \/ ServerReads \/ ServerWrites \/ ServerRefuses
               \/ \E id \in Ids : AdapterWritesBack(id)
        PROVE  UNCHANGED <<entries, saved, snapshot>>
    BY <2>4 DEF scheduleFile, PushIgnored, LateAnswer, EventIgnored, ServerReads,
         ServerWrites, ServerRefuses, AdapterWritesBack, memory, work
  <2> QED BY <1>2, <1>6, <2>1, <2>2, <2>3, <2>4 DEF System
<1>7. CASE Restart
  <2>1. /\ entries' = saved /\ saved' = saved
        /\ \A s \in Slots : snapshot'[s] = emptyManifest
    BY <1>7 DEF Restart
  <2>2. BasesShared(entries)' /\ BasesShared(saved)'
    BY <1>0, <2>1, BasesKept DEF BaseWasShared, BasesShared, TypeOK
  <2>3. ASSUME NEW s \in Slots PROVE BasesShared(snapshot[s])'
    BY <2>1 DEF BasesShared, emptyManifest
  <2> QED BY <2>2, <2>3 DEF BaseWasShared
<1>8. CASE UNCHANGED vars
  BY <1>2, <1>8 DEF vars, memory, work
<1> QED BY <1>5, <1>6, <1>7, <1>8 DEF Next

-----------------------------------------------------------------------------
(* Tasks                                                                   *)

(* What a task has found out stays true as the histories grow.             *)
LEMMA SoundKept ==
  ASSUME HistoriesGrow, NEW t \in Task, TaskSound(t, onDisk, onServer)
  PROVE  TaskSound(t, onDisk', onServer')
<1>1. t.id \in Ids /\ t.path \in Paths
  BY DEF Task
<1>2. onDisk[t.path] \subseteq onDisk'[t.path] /\ onServer[t.id] \subseteq onServer'[t.id]
  BY <1>1 DEF HistoriesGrow
<1> QED BY <1>2 DEF TaskSound

(* Each task is the one it was, is over, or is sound.                      *)
LEMMA TasksKept ==
  ASSUME TasksInv, HistoriesGrow,
         \A s \in Slots : \/ tasks'[s] \in {tasks[s], Absent}
                          \/ TaskSound(tasks'[s], onDisk', onServer')
  PROVE  TasksSound'
<1> SUFFICES ASSUME NEW s \in Slots, tasks'[s] # Absent
             PROVE  TaskSound(tasks'[s], onDisk', onServer')
  BY DEF TasksSound
<1>1. tasks'[s] = tasks[s] => tasks[s] \in Task /\ TaskSound(tasks[s], onDisk, onServer)
  BY DEF TasksInv, TypeOK, TasksSound
<1> QED BY <1>1, SoundKept

(* One task takes a step, or is over.                                      *)
LEMMA TaskSteps ==
  ASSUME TasksInv, HistoriesGrow, NEW s \in Slots, NEW t,
         Over(s) \/ (Step(s, t) /\ TaskSound(t, onDisk', onServer'))
  PROVE  TasksSound'
<1>1. \A r \in Slots : r # s => tasks'[r] = tasks[r]
  BY DEF Over, Step, TasksInv, TypeOK
<1>2. tasks'[s] = Absent \/ TaskSound(tasks'[s], onDisk', onServer')
  BY DEF Over, Step, TasksInv, TypeOK
<1> QED BY <1>1, <1>2, TasksKept

(* The base a new task finds has been on both sides.                       *)
LEMMA BaseOfShared ==
  ASSUME TasksInv, NEW id \in Ids, NEW path, BaseOf(id, path) # Absent
  PROVE  BaseOf(id, path) \in onDisk[path] \cap onServer[id]
BY DEF TasksInv, BaseWasShared, BasesShared, BaseOf

(* What pushFile concludes.                                                *)
LEMMA PushSound ==
  ASSUME TasksInv, HistoriesGrow, NEW s \in Slots, pushFile(s)
  PROVE  TasksSound'
<1>0. TypeOK /\ (tasks[s] # Absent => tasks[s] \in Task /\ TaskSound(tasks[s], onDisk, onServer))
  BY DEF TasksInv, TypeOK, TasksSound
<1>1. ASSUME NEW path \in Paths, PushStarts(s, path) PROVE TasksSound'
  <2> PICK id \in Owner(path) :
        LET t == [kind |-> "push", phase |-> "get", id |-> id, path |-> path,
                  source |-> files[path], base |-> BaseOf(id, path), seen |-> Absent]
        IN  Step(s, t) /\ Send(s, "get", t)
    BY <1>1 DEF PushStarts
  <2> DEFINE source == files[path]
             base   == BaseOf(id, path)
             t == [kind |-> "push", phase |-> "get", id |-> id, path |-> path,
                   source |-> source, base |-> base, seen |-> Absent]
  <2>1. id \in Ids
    BY OwnerType
  <2>2. base # Absent => base \in onDisk[path] \cap onServer[id]
    BY <2>1, BaseOfShared
  <2>3. source \in onDisk[path] /\ onDisk' = onDisk /\ onServer' = onServer
    BY <1>1 DEF PushStarts, Pushable, TasksInv, HistoriesTrue, history
  <2>4. Step(s, t)
    OBVIOUS
  <2> HIDE DEF source, base
  <2>5. TaskSound(t, onDisk', onServer')
    BY <2>2, <2>3 DEF TaskSound, Awaiting
  <2> HIDE DEF t
  <2> QED BY <2>4, <2>5, TaskSteps
<1>2. ASSUME PushDecides(s) PROVE TasksSound'
  <2> DEFINE t == tasks[s]
             there == Head(inbox).seen
             op == IF there = Absent THEN "folders" ELSE "extend"
             next == [[t EXCEPT !.seen = there] EXCEPT !.phase = op]
  <2>1. /\ t \in Task /\ TaskSound(t, onDisk, onServer) /\ t.phase = "get"
        /\ onDisk' = onDisk /\ onServer' = onServer
    BY <1>0, <1>2 DEF PushDecides, HasAnswer
  <2>2. Over(s) \/ (Step(s, next) /\ ~PushConflicts(t, there))
    BY <1>2 DEF PushDecides
  <2>3. op \in {"folders", "extend"}
    OBVIOUS
  <2> HIDE DEF t, there, op
  <2>4. /\ next.kind = t.kind /\ next.base = t.base /\ next.source = t.source
        /\ next.path = t.path /\ next.id = t.id /\ next.seen = there /\ next.phase = op
    BY <2>1 DEF Task
  <2>5. t.kind = "push"
    BY <2>1 DEF TaskSound, Task
  <2> HIDE DEF next
  <2>6. ASSUME ~PushConflicts(t, there) PROVE TaskSound(next, onDisk', onServer')
    BY <2>1, <2>3, <2>4, <2>5, <2>6 DEF TaskSound, PushConflicts, Awaiting
  <2> QED BY <2>2, <2>6, TaskSteps
<1>3. ASSUME PushCreates(s) PROVE TasksSound'
  <2> DEFINE t == tasks[s]
             next == [t EXCEPT !.phase = "create"]
  <2>1. /\ t \in Task /\ TaskSound(t, onDisk, onServer) /\ t.phase = "folders"
        /\ onDisk' = onDisk /\ onServer' = onServer /\ Step(s, next)
    BY <1>0, <1>3 DEF PushCreates, HasAnswer, history
  <2> HIDE DEF t
  <2>2. /\ next.kind = t.kind /\ next.base = t.base /\ next.source = t.source
        /\ next.path = t.path /\ next.id = t.id /\ next.seen = t.seen /\ next.phase = "create"
    BY <2>1 DEF Task
  <2>3. t.kind = "push"
    BY <2>1 DEF TaskSound, Task
  <2> HIDE DEF next
  <2>4. TaskSound(next, onDisk', onServer')
    BY <2>1, <2>2, <2>3 DEF TaskSound, Awaiting
  <2> QED BY <2>1, <2>4, TaskSteps
<1>4. ASSUME PushRecords(s) PROVE TasksSound'
  <2> DEFINE t == tasks[s]
             next == [t EXCEPT !.phase = "save"]
  <2>1. /\ t \in Task /\ TaskSound(t, onDisk, onServer)
        /\ onDisk' = onDisk /\ onServer' = onServer /\ Step(s, next)
    BY <1>0, <1>4 DEF PushRecords, HasAnswer, history
  <2> HIDE DEF t
  <2>2. /\ next.kind = t.kind /\ next.base = t.base /\ next.source = t.source
        /\ next.path = t.path /\ next.id = t.id /\ next.phase = "save"
    BY <2>1 DEF Task
  <2> HIDE DEF next
  <2>3. TaskSound(next, onDisk', onServer')
    BY <2>1, <2>2 DEF TaskSound, Awaiting
  <2> QED BY <2>1, <2>3, TaskSteps
<1>5. ASSUME PushFails(s) \/ PushTimesOut(s) PROVE TasksSound'
  BY <1>5, TaskSteps DEF PushFails, PushTimesOut
<1> QED BY <1>1, <1>2, <1>3, <1>4, <1>5 DEF pushFile

(* What applyRemoteChange concludes, and saving, which concludes nothing.  *)
LEMMA ApplySound ==
  ASSUME TasksInv, TypeOK', HistoriesGrow, NEW s \in Slots,
         applyRemoteChange(s) \/ saveManifest(s)
  PROVE  TasksSound'
<1>0. TypeOK /\ (tasks[s] # Absent => tasks[s] \in Task /\ TaskSound(tasks[s], onDisk, onServer))
  BY DEF TasksInv, TypeOK, TasksSound
<1>1. ASSUME ApplyStarts(s) PROVE TasksSound'
  <2> DEFINE e == Head(inbox)
             path == PathOf(e)
             base == BaseOf(e.id, path)
             source == e.object.source
             id == e.id
             next == [kind |-> "apply", phase |-> "read", id |-> id, path |-> path,
                      source |-> source, base |-> base, seen |-> Absent]
  <2>1. e.type = "event" /\ e.object \notin {Absent, Stub} /\ inbox # <<>>
    BY <1>1 DEF ApplyStarts, Appliable
  <2>2. 1 \in DOMAIN inbox /\ inbox[1] = e /\ e \in Event
    BY <1>0, <2>1, TailFacts, PopType DEF TypeOK
  <2>3. source \in onServer[id] /\ id \in Ids
    BY <2>1, <2>2 DEF TasksInv, EventsTrue, Event
  <2>4. base # Absent => base \in onDisk[path] \cap onServer[id]
    BY <2>3, BaseOfShared
  <2>5. Step(s, next) /\ onDisk' = onDisk /\ onServer' = onServer
    BY <1>1 DEF ApplyStarts, history
  <2> HIDE DEF source, base, path, id
  <2>6. TaskSound(next, onDisk', onServer')
    BY <2>3, <2>4, <2>5 DEF TaskSound
  <2> HIDE DEF next
  <2> QED BY <2>5, <2>6, TaskSteps
<1>2. ASSUME ApplyReads(s) PROVE TasksSound'
  <2> DEFINE t == tasks[s]
             here == files[t.path]
             mid == [t EXCEPT !.phase = "write"]
             next == [mid EXCEPT !.seen = here]
  <2>1. /\ t \in Task /\ TaskSound(t, onDisk, onServer) /\ t.phase = "read"
        /\ onDisk' = onDisk /\ onServer' = onServer
    BY <1>0, <1>2 DEF ApplyReads, Free
  <2>2. Over(s) \/ (Step(s, next) /\ ~ApplyConflicts(t, here))
    BY <1>2 DEF ApplyReads
  <2> HIDE DEF t, here
  <2>3. /\ mid.kind = t.kind /\ mid.base = t.base /\ mid.source = t.source
        /\ mid.path = t.path /\ mid.id = t.id /\ mid.phase = "write"
        /\ mid \in [kind : {"push", "apply"}, phase : Phases, id : Ids, path : Paths,
                    source : Sources, base : Sources \cup {Absent},
                    seen : Sources \cup {Absent}]
    BY <2>1 DEF Task, Phases
  <2> HIDE DEF mid
  <2>4. /\ next.kind = t.kind /\ next.base = t.base /\ next.source = t.source
        /\ next.path = t.path /\ next.id = t.id /\ next.phase = "write" /\ next.seen = here
    BY <2>3
  <2>5. t.kind = "apply"
    BY <2>1 DEF TaskSound, Task, Awaiting
  <2> HIDE DEF next
  <2>6. ASSUME ~ApplyConflicts(t, here) PROVE TaskSound(next, onDisk', onServer')
    BY <2>1, <2>4, <2>5, <2>6 DEF TaskSound, ApplyConflicts
  <2> QED BY <2>2, <2>6, TaskSteps
<1>3. ASSUME ApplyWrites(s) PROVE TasksSound'
  <2> DEFINE t == tasks[s]
             next == [t EXCEPT !.phase = "wrote"]
  <2>1. /\ t \in Task /\ TaskSound(t, onDisk, onServer) /\ t.phase = "write" /\ Step(s, next)
        /\ onDisk' = [onDisk EXCEPT ![t.path] = @ \cup {t.source}]
    BY <1>0, <1>3 DEF ApplyWrites, Free
  <2>2. t.path \in Paths /\ TaskSound(t, onDisk', onServer')
    BY <2>1, SoundKept DEF Task
  <2>3. t.source \in onDisk'[t.path]
    BY <1>0, <2>1, <2>2 DEF TypeOK
  <2> HIDE DEF t
  <2>4. /\ next.kind = t.kind /\ next.base = t.base /\ next.source = t.source
        /\ next.path = t.path /\ next.id = t.id /\ next.phase = "wrote"
    BY <2>1 DEF Task
  <2>5. t.kind = "apply"
    BY <2>1 DEF TaskSound, Task, Awaiting
  <2> HIDE DEF next
  <2>6. TaskSound(next, onDisk', onServer')
    BY <2>2, <2>3, <2>4, <2>5 DEF TaskSound
  <2> QED BY <2>1, <2>6, TaskSteps
<1>4. ASSUME ApplyFails(s) \/ SaveEnds(s) \/ SaveFails(s) PROVE TasksSound'
  BY <1>4, TaskSteps DEF ApplyFails, SaveEnds, SaveFails
<1>5. ASSUME ApplyRecords(s) PROVE TasksSound'
  <2> DEFINE t == tasks[s]
             next == [t EXCEPT !.phase = "save"]
  <2>1. /\ t \in Task /\ TaskSound(t, onDisk, onServer) /\ Step(s, next)
        /\ onDisk' = onDisk /\ onServer' = onServer
    BY <1>0, <1>5 DEF ApplyRecords, Free, history
  <2> HIDE DEF t
  <2>2. /\ next.kind = t.kind /\ next.base = t.base /\ next.source = t.source
        /\ next.path = t.path /\ next.id = t.id /\ next.phase = "save"
    BY <2>1 DEF Task
  <2> HIDE DEF next
  <2>3. TaskSound(next, onDisk', onServer')
    BY <2>1, <2>2 DEF TaskSound, Awaiting
  <2> QED BY <2>1, <2>3, TaskSteps
<1>6. ASSUME SaveStarts(s) PROVE TasksSound'
  <2> DEFINE t == tasks[s]
             next == [t EXCEPT !.phase = "rename"]
  <2>1. /\ t \in Task /\ TaskSound(t, onDisk, onServer)
        /\ tasks' = [tasks EXCEPT ![s] = next]
        /\ onDisk' = onDisk /\ onServer' = onServer
    BY <1>0, <1>6 DEF SaveStarts, Free, history
  <2> HIDE DEF t
  <2>2. /\ next.kind = t.kind /\ next.base = t.base /\ next.source = t.source
        /\ next.path = t.path /\ next.id = t.id /\ next.phase = "rename"
    BY <2>1 DEF Task
  <2> HIDE DEF next
  <2>3. TaskSound(next, onDisk', onServer')
    BY <2>1, <2>2 DEF TaskSound, Awaiting
  <2>4. \A r \in Slots : tasks'[r] = IF r = s THEN next ELSE tasks[r]
    BY <1>0, <2>1 DEF TypeOK
  <2> QED BY <2>3, <2>4, TasksKept
<1> QED BY <1>1, <1>2, <1>3, <1>4, <1>5, <1>6 DEF applyRemoteChange, saveManifest

(* No step of anybody else disturbs a task.                                *)
LEMMA AllSound ==
  ASSUME TasksInv, TypeOK', [Next]_vars, HistoriesGrow
  PROVE  TasksSound'
<1>1. ASSUME tasks' = tasks PROVE TasksSound'
  BY <1>1, TasksKept
<1>2. CASE People
  BY <1>1, <1>2
     DEF People, UserSaves, UserDeletes, AdminSaves, AdminDeletes, PullElsewhere, work
<1>3. CASE System
  BY <1>1, <1>3, PushSound, ApplySound
     DEF System, scheduleFile, PushIgnored, LateAnswer, EventIgnored, ServerReads,
         ServerWrites, ServerRefuses, AdapterWritesBack, work
<1>4. CASE Restart
  BY <1>4, TasksKept DEF Restart
<1>5. CASE UNCHANGED vars
  BY <1>1, <1>5 DEF vars, work
<1> QED BY <1>2, <1>3, <1>4, <1>5 DEF Next

-----------------------------------------------------------------------------
(* The socket                                                              *)

SocketTrue == WireTrue /\ AnswersTrue /\ EventsTrue /\ OneOutstanding

(* Nobody owes task s anything.                                            *)
Settles(s) ==
  /\ \A i \in DOMAIN wire : ~Asks(i, s)
  /\ \A i \in DOMAIN inbox : ~Answers(i, s)

(* A message that is no answer to a task, and tells what is true.          *)
Harmless(e, server) ==
  \/ e.type = "answer" /\ e.slot = Absent
  \/ e.type = "event" /\ (e.object \notin {Absent, Stub}
                           => e.object.source \in server[e.id])

(* A task that is not waiting is owed nothing.                             *)
LEMMA IdleSettles ==
  ASSUME SocketTrue, NEW s \in Slots, tasks[s] = Absent \/ tasks[s].phase \notin Awaiting
  PROVE  Settles(s)
BY DEF SocketTrue, WireTrue, AnswersTrue, Settles

(* Nor is one whose answer has just been taken.                            *)
LEMMA AnswerSettles ==
  ASSUME TypeOK, SocketTrue, NEW s \in Slots, inbox # <<>>, Head(inbox).type = "answer",
         Head(inbox).slot = s
  PROVE  /\ \A i \in DOMAIN wire : ~Asks(i, s)
         /\ \A i \in DOMAIN Tail(inbox) :
              ~(Tail(inbox)[i].type = "answer" /\ Tail(inbox)[i].slot = s)
<1>1. inbox \in Seq(Answer \cup Event)
  BY DEF TypeOK
<1>2. /\ 1 \in DOMAIN inbox /\ inbox[1] = Head(inbox)
      /\ \A i \in DOMAIN Tail(inbox) : i + 1 \in DOMAIN inbox /\ i + 1 # 1
                                      /\ Tail(inbox)[i] = inbox[i + 1]
  BY <1>1, TailFacts
<1>3. Answers(1, s)
  BY <1>2 DEF Answers
<1>4. \A i \in DOMAIN wire : ~Asks(i, s)
  BY <1>2, <1>3 DEF SocketTrue, OneOutstanding
<1>5. \A i \in DOMAIN inbox : i # 1 => ~Answers(i, s)
  BY <1>2, <1>3 DEF SocketTrue, OneOutstanding
<1> QED BY <1>2, <1>4, <1>5 DEF Answers

(* Where every message comes from, when none is asked or answered: x is 1  *)
(* if the head of the stream has been taken, 0 if not.                     *)
Carried(x) ==
  /\ \A i \in DOMAIN inbox' :
       \/ i + x \in DOMAIN inbox /\ inbox'[i] = inbox[i + x]
       \/ Harmless(inbox'[i], onServer')

(* Nothing is asked and nothing answered.                                  *)
LEMMA SocketKept ==
  ASSUME TypeOK, TypeOK', SocketTrue, HistoriesGrow, NEW x \in {0, 1}, Carried(x),
         \A i \in DOMAIN wire' : \/ i \in DOMAIN wire /\ wire'[i] = wire[i]
                                 \/ wire'[i].slot = Absent,
         \A s \in Slots : tasks'[s] = tasks[s] \/ Settles(s)'
  PROVE  SocketTrue'
<1>0. /\ \A s \in Slots : s # Absent
      /\ \A i \in DOMAIN inbox' : i \in Nat /\ inbox'[i] \in Message
      /\ \A i \in DOMAIN inbox : i \in Nat /\ inbox[i] \in Message
  BY TaskAssumption DEF TypeOK, Message
<1>1. ASSUME NEW s \in Slots, NEW i \in DOMAIN wire', Asks(i, s)'
      PROVE  i \in DOMAIN wire /\ wire'[i] = wire[i] /\ Asks(i, s) /\ tasks'[s] = tasks[s]
  BY <1>0, <1>1 DEF Asks, Settles
<1>2. ASSUME NEW s \in Slots, NEW i \in DOMAIN inbox', Answers(i, s)'
      PROVE  /\ i + x \in DOMAIN inbox /\ inbox'[i] = inbox[i + x] /\ Answers(i + x, s)
             /\ tasks'[s] = tasks[s]
  <2>1. ~Harmless(inbox'[i], onServer')
    BY <1>0, <1>2 DEF Answers, Harmless
  <2> QED BY <1>2, <2>1 DEF Answers, Settles, Carried
<1>3. WireTrue'
  <2> SUFFICES ASSUME NEW s \in Slots, NEW i \in DOMAIN wire', Asks(i, s)'
               PROVE  /\ tasks'[s] # Absent
                      /\ tasks'[s].phase = wire'[i].op /\ wire'[i].op \in Awaiting
                      /\ tasks'[s].id = wire'[i].id /\ tasks'[s].path = wire'[i].path
                      /\ tasks'[s].source = wire'[i].source
    BY DEF WireTrue
  <2> QED BY <1>1 DEF SocketTrue, WireTrue
<1>4. AnswersTrue'
  <2> SUFFICES ASSUME NEW s \in Slots, NEW i \in DOMAIN inbox', Answers(i, s)'
               PROVE  /\ tasks'[s] # Absent
                      /\ tasks'[s].phase \in Awaiting
                      /\ inbox'[i].ok /\ tasks'[s].phase \in {"extend", "create"}
                           => tasks'[s].source \in onServer'[tasks'[s].id]
    BY DEF AnswersTrue
  <2>1. /\ i + x \in DOMAIN inbox /\ inbox'[i] = inbox[i + x] /\ Answers(i + x, s)
        /\ tasks'[s] = tasks[s]
    BY <1>2
  <2>2. /\ tasks[s] # Absent /\ tasks[s].phase \in Awaiting
        /\ inbox[i + x].ok /\ tasks[s].phase \in {"extend", "create"}
             => tasks[s].source \in onServer[tasks[s].id]
    BY <2>1 DEF SocketTrue, AnswersTrue
  <2>3. tasks[s].id \in Ids
    BY <2>2 DEF TypeOK, Task
  <2> QED BY <2>1, <2>2, <2>3 DEF HistoriesGrow
<1>5. EventsTrue'
  <2> SUFFICES ASSUME NEW i \in DOMAIN inbox', inbox'[i].type = "event",
                      inbox'[i].object \notin {Absent, Stub}
               PROVE  inbox'[i].object.source \in onServer'[inbox'[i].id]
    BY DEF EventsTrue
  <2>1. CASE i + x \in DOMAIN inbox /\ inbox'[i] = inbox[i + x]
    <3>1. inbox'[i].object.source \in onServer[inbox'[i].id]
      BY <2>1 DEF SocketTrue, EventsTrue
    <3>2. inbox'[i].id \in Ids
      BY <1>0 DEF Message, Answer, Event
    <3> QED BY <3>1, <3>2 DEF HistoriesGrow
  <2>2. CASE Harmless(inbox'[i], onServer')
    BY <2>2 DEF Harmless
  <2> QED BY <2>1, <2>2 DEF Carried
<1>6. OneOutstanding'
  <2> SUFFICES ASSUME NEW s \in Slots
               PROVE  /\ \A i, j \in DOMAIN wire' : Asks(i, s)' /\ Asks(j, s)' => i = j
                      /\ \A i, j \in DOMAIN inbox' : Answers(i, s)' /\ Answers(j, s)' => i = j
                      /\ \A i \in DOMAIN wire', j \in DOMAIN inbox' :
                           ~(Asks(i, s)' /\ Answers(j, s)')
    BY DEF OneOutstanding
  <2>1. ASSUME NEW i \in DOMAIN wire', NEW j \in DOMAIN wire', Asks(i, s)', Asks(j, s)'
        PROVE  i = j
    BY <1>1, <2>1 DEF SocketTrue, OneOutstanding
  <2>2. ASSUME NEW i \in DOMAIN inbox', NEW j \in DOMAIN inbox', Answers(i, s)', Answers(j, s)'
        PROVE  i = j
    <3>1. i + x = j + x
      BY <1>2, <2>2 DEF SocketTrue, OneOutstanding
    <3> QED BY <1>0, <3>1
  <2>3. ASSUME NEW i \in DOMAIN wire', NEW j \in DOMAIN inbox', Asks(i, s)', Answers(j, s)'
        PROVE  FALSE
    BY <1>1, <1>2, <2>3 DEF SocketTrue, OneOutstanding
  <2> QED BY <2>1, <2>2, <2>3
<1> QED BY <1>3, <1>4, <1>5, <1>6 DEF SocketTrue

(* A request leaves for a task that was owed nothing and now waits for it. *)
LEMMA RequestLeaves ==
  ASSUME TypeOK, TypeOK', SocketTrue, HistoriesGrow, NEW x \in {0, 1}, Carried(x),
         NEW s \in Slots, NEW r \in Request, r.slot = s, r.op \in Awaiting,
         wire' = Append(wire, r),
         \A i \in DOMAIN wire : ~Asks(i, s),
         \A i \in DOMAIN inbox' : ~Answers(i, s)',
         tasks'[s] # Absent, tasks'[s].phase = r.op,
         tasks'[s].id = r.id, tasks'[s].path = r.path, tasks'[s].source = r.source,
         \A q \in Slots : q # s => tasks'[q] = tasks[q]
  PROVE  SocketTrue'
<1>0. /\ \A q \in Slots : q # Absent
      /\ \A i \in DOMAIN inbox' : i \in Nat /\ inbox'[i] \in Message
      /\ \A i \in DOMAIN inbox : i \in Nat /\ inbox[i] \in Message
  BY TaskAssumption DEF TypeOK, Message
<1>a. \A i \in DOMAIN wire' : \/ i \in DOMAIN wire /\ wire'[i] = wire[i]
                              \/ i = Len(wire) + 1 /\ wire'[i] = r
  BY AppendFacts DEF TypeOK
<1>1. ASSUME NEW q \in Slots, NEW i \in DOMAIN wire', Asks(i, q)'
      PROVE  \/ q = s /\ i = Len(wire) + 1 /\ wire'[i] = r
             \/ /\ q # s /\ i \in DOMAIN wire /\ wire'[i] = wire[i] /\ Asks(i, q)
                /\ tasks'[q] = tasks[q]
  BY <1>a, <1>1 DEF Asks
<1>2. ASSUME NEW q \in Slots, NEW i \in DOMAIN inbox', Answers(i, q)'
      PROVE  /\ i + x \in DOMAIN inbox /\ inbox'[i] = inbox[i + x] /\ Answers(i + x, q)
             /\ tasks'[q] = tasks[q] /\ q # s
  <2>1. ~Harmless(inbox'[i], onServer')
    BY <1>0, <1>2 DEF Answers, Harmless
  <2> QED BY <1>2, <2>1 DEF Answers, Carried
<1>3. WireTrue'
  <2> SUFFICES ASSUME NEW q \in Slots, NEW i \in DOMAIN wire', Asks(i, q)'
               PROVE  /\ tasks'[q] # Absent
                      /\ tasks'[q].phase = wire'[i].op /\ wire'[i].op \in Awaiting
                      /\ tasks'[q].id = wire'[i].id /\ tasks'[q].path = wire'[i].path
                      /\ tasks'[q].source = wire'[i].source
    BY DEF WireTrue
  <2> QED BY <1>1 DEF SocketTrue, WireTrue
<1>4. AnswersTrue'
  <2> SUFFICES ASSUME NEW q \in Slots, NEW i \in DOMAIN inbox', Answers(i, q)'
               PROVE  /\ tasks'[q] # Absent
                      /\ tasks'[q].phase \in Awaiting
                      /\ inbox'[i].ok /\ tasks'[q].phase \in {"extend", "create"}
                           => tasks'[q].source \in onServer'[tasks'[q].id]
    BY DEF AnswersTrue
  <2>1. /\ i + x \in DOMAIN inbox /\ inbox'[i] = inbox[i + x] /\ Answers(i + x, q)
        /\ tasks'[q] = tasks[q]
    BY <1>2
  <2>2. /\ tasks[q] # Absent /\ tasks[q].phase \in Awaiting
        /\ inbox[i + x].ok /\ tasks[q].phase \in {"extend", "create"}
             => tasks[q].source \in onServer[tasks[q].id]
    BY <2>1 DEF SocketTrue, AnswersTrue
  <2>3. tasks[q].id \in Ids
    BY <2>2 DEF TypeOK, Task
  <2> QED BY <2>1, <2>2, <2>3 DEF HistoriesGrow
<1>5. EventsTrue'
  <2> SUFFICES ASSUME NEW i \in DOMAIN inbox', inbox'[i].type = "event",
                      inbox'[i].object \notin {Absent, Stub}
               PROVE  inbox'[i].object.source \in onServer'[inbox'[i].id]
    BY DEF EventsTrue
  <2>1. CASE i + x \in DOMAIN inbox /\ inbox'[i] = inbox[i + x]
    <3>1. inbox'[i].object.source \in onServer[inbox'[i].id]
      BY <2>1 DEF SocketTrue, EventsTrue
    <3>2. inbox'[i].id \in Ids
      BY <1>0 DEF Message, Answer, Event
    <3> QED BY <3>1, <3>2 DEF HistoriesGrow
  <2>2. CASE Harmless(inbox'[i], onServer')
    BY <2>2 DEF Harmless
  <2> QED BY <2>1, <2>2 DEF Carried
<1>6. OneOutstanding'
  <2> SUFFICES ASSUME NEW q \in Slots
               PROVE  /\ \A i, j \in DOMAIN wire' : Asks(i, q)' /\ Asks(j, q)' => i = j
                      /\ \A i, j \in DOMAIN inbox' : Answers(i, q)' /\ Answers(j, q)' => i = j
                      /\ \A i \in DOMAIN wire', j \in DOMAIN inbox' :
                           ~(Asks(i, q)' /\ Answers(j, q)')
    BY DEF OneOutstanding
  <2>1. ASSUME NEW i \in DOMAIN wire', NEW j \in DOMAIN wire', Asks(i, q)', Asks(j, q)'
        PROVE  i = j
    BY <1>1, <2>1 DEF SocketTrue, OneOutstanding
  <2>2. ASSUME NEW i \in DOMAIN inbox', NEW j \in DOMAIN inbox', Answers(i, q)', Answers(j, q)'
        PROVE  i = j
    <3>1. i + x = j + x
      BY <1>2, <2>2 DEF SocketTrue, OneOutstanding
    <3> QED BY <1>0, <3>1
  <2>3. ASSUME NEW i \in DOMAIN wire', NEW j \in DOMAIN inbox', Asks(i, q)', Answers(j, q)'
        PROVE  FALSE
    BY <1>1, <1>2, <2>3 DEF SocketTrue, OneOutstanding
  <2> QED BY <2>1, <2>2, <2>3
<1> QED BY <1>3, <1>4, <1>5, <1>6 DEF SocketTrue

(* The server answers the oldest request.                                  *)
LEMMA AnswerArrives ==
  ASSUME TypeOK, TypeOK', SocketTrue, HistoriesGrow, tasks' = tasks,
         wire # <<>>, wire' = Tail(wire), NEW a \in Answer, a.slot = Head(wire).slot,
         a.ok /\ Head(wire).op \in {"extend", "create"}
           => Head(wire).source \in onServer'[Head(wire).id],
         NEW k, k \notin DOMAIN inbox,
         \A i \in DOMAIN inbox' : \/ i \in DOMAIN inbox /\ inbox'[i] = inbox[i]
                                  \/ Harmless(inbox'[i], onServer')
                                  \/ i = k /\ inbox'[i] = a
  PROVE  SocketTrue'
<1>0. /\ \A q \in Slots : q # Absent
      /\ \A i \in DOMAIN inbox' : inbox'[i] \in Message
      /\ \A i \in DOMAIN inbox : inbox[i] \in Message
      /\ a.type = "answer"
  BY TaskAssumption DEF TypeOK, Message, Answer
<1>a. /\ 1 \in DOMAIN wire /\ wire[1] = Head(wire)
      /\ \A i \in DOMAIN wire' : i \in Nat /\ i + 1 \in DOMAIN wire /\ i + 1 # 1
                                /\ wire'[i] = wire[i + 1]
  BY TailFacts DEF TypeOK
<1>1. ASSUME NEW q \in Slots, NEW i \in DOMAIN wire', Asks(i, q)'
      PROVE  i + 1 \in DOMAIN wire /\ wire'[i] = wire[i + 1] /\ Asks(i + 1, q)
  BY <1>a, <1>1 DEF Asks
<1>2. ASSUME NEW q \in Slots, NEW i \in DOMAIN inbox', Answers(i, q)'
      PROVE  \/ i \in DOMAIN inbox /\ inbox'[i] = inbox[i] /\ Answers(i, q)
             \/ i = k /\ inbox'[i] = a /\ Asks(1, q)
  <2>1. ~Harmless(inbox'[i], onServer')
    BY <1>0, <1>2 DEF Answers, Harmless
  <2> QED BY <1>2, <1>a, <2>1 DEF Answers, Asks
<1>3. WireTrue'
  <2> SUFFICES ASSUME NEW q \in Slots, NEW i \in DOMAIN wire', Asks(i, q)'
               PROVE  /\ tasks'[q] # Absent
                      /\ tasks'[q].phase = wire'[i].op /\ wire'[i].op \in Awaiting
                      /\ tasks'[q].id = wire'[i].id /\ tasks'[q].path = wire'[i].path
                      /\ tasks'[q].source = wire'[i].source
    BY DEF WireTrue
  <2> QED BY <1>1 DEF SocketTrue, WireTrue
<1>4. AnswersTrue'
  <2> SUFFICES ASSUME NEW q \in Slots, NEW i \in DOMAIN inbox', Answers(i, q)'
               PROVE  /\ tasks[q] # Absent
                      /\ tasks[q].phase \in Awaiting
                      /\ inbox'[i].ok /\ tasks[q].phase \in {"extend", "create"}
                           => tasks[q].source \in onServer'[tasks[q].id]
    BY DEF AnswersTrue
  <2>1. CASE i \in DOMAIN inbox /\ inbox'[i] = inbox[i] /\ Answers(i, q)
    <3>1. /\ tasks[q] # Absent /\ tasks[q].phase \in Awaiting
          /\ inbox[i].ok /\ tasks[q].phase \in {"extend", "create"}
               => tasks[q].source \in onServer[tasks[q].id]
      BY <2>1 DEF SocketTrue, AnswersTrue
    <3>2. tasks[q].id \in Ids
      BY <3>1 DEF TypeOK, Task
    <3> QED BY <2>1, <3>1, <3>2 DEF HistoriesGrow
  <2>2. CASE i = k /\ inbox'[i] = a /\ Asks(1, q)
    <3>1. /\ tasks[q] # Absent /\ tasks[q].phase = Head(wire).op
          /\ Head(wire).op \in Awaiting
          /\ tasks[q].id = Head(wire).id /\ tasks[q].source = Head(wire).source
      BY <1>a, <2>2 DEF SocketTrue, WireTrue
    <3> QED BY <2>2, <3>1
  <2> QED BY <1>2, <2>1, <2>2
<1>5. EventsTrue'
  <2> SUFFICES ASSUME NEW i \in DOMAIN inbox', inbox'[i].type = "event",
                      inbox'[i].object \notin {Absent, Stub}
               PROVE  inbox'[i].object.source \in onServer'[inbox'[i].id]
    BY DEF EventsTrue
  <2>1. CASE i \in DOMAIN inbox /\ inbox'[i] = inbox[i]
    <3>1. inbox'[i].object.source \in onServer[inbox'[i].id]
      BY <2>1 DEF SocketTrue, EventsTrue
    <3>2. inbox'[i].id \in Ids
      BY <1>0 DEF Message, Answer, Event
    <3> QED BY <3>1, <3>2 DEF HistoriesGrow
  <2>2. CASE Harmless(inbox'[i], onServer')
    BY <2>2 DEF Harmless
  <2> QED BY <1>0, <2>1, <2>2
<1>6. OneOutstanding'
  <2> SUFFICES ASSUME NEW q \in Slots
               PROVE  /\ \A i, j \in DOMAIN wire' : Asks(i, q)' /\ Asks(j, q)' => i = j
                      /\ \A i, j \in DOMAIN inbox' : Answers(i, q)' /\ Answers(j, q)' => i = j
                      /\ \A i \in DOMAIN wire', j \in DOMAIN inbox' :
                           ~(Asks(i, q)' /\ Answers(j, q)')
    BY DEF OneOutstanding
  <2>1. ASSUME NEW i \in DOMAIN wire', NEW j \in DOMAIN wire', Asks(i, q)', Asks(j, q)'
        PROVE  i = j
    <3>1. i + 1 = j + 1
      BY <1>1, <2>1 DEF SocketTrue, OneOutstanding
    <3> QED BY <1>a, <3>1
  <2>2. ASSUME NEW i \in DOMAIN inbox', NEW j \in DOMAIN inbox', Answers(i, q)', Answers(j, q)'
        PROVE  i = j
    BY <1>2, <1>a, <2>2 DEF SocketTrue, OneOutstanding
  <2>3. ASSUME NEW i \in DOMAIN wire', NEW j \in DOMAIN inbox', Asks(i, q)', Answers(j, q)'
        PROVE  FALSE
    <3>1. Asks(i + 1, q) /\ i + 1 \in DOMAIN wire /\ i + 1 # 1
      BY <1>1, <1>a, <2>3
    <3>2. CASE j \in DOMAIN inbox /\ Answers(j, q)
      BY <3>1, <3>2 DEF SocketTrue, OneOutstanding
    <3>3. CASE Asks(1, q)
      BY <1>a, <3>1, <3>3 DEF SocketTrue, OneOutstanding
    <3> QED BY <1>2, <2>3, <3>2, <3>3
  <2> QED BY <2>1, <2>2, <2>3
<1> QED BY <1>3, <1>4, <1>5, <1>6 DEF SocketTrue

(* The stream as it was, one event longer, or one message shorter.         *)
LEMMA CarriedSame ==
  ASSUME TypeOK, UNCHANGED inbox
  PROVE  Carried(0)
<1>1. \A i \in DOMAIN inbox : i \in Nat
  BY DEF TypeOK
<1>2. \A i \in DOMAIN inbox : i + 0 = i
  BY <1>1
<1> QED BY <1>2 DEF Carried

(* One event longer.                                                       *)
LEMMA CarriedEvent ==
  ASSUME TypeOK, NEW id \in Ids, NEW object \in Objects,
         inbox' = inbox \o Published(id, object),
         object \notin {Absent, Stub} => object.source \in onServer'[id]
  PROVE  Carried(0)
<1>1. \A i \in DOMAIN inbox : i + 0 = i
  <2>1. \A i \in DOMAIN inbox : i \in Nat
    BY DEF TypeOK
  <2> QED BY <2>1
<1>2. inbox \in Seq(Message)
  BY DEF TypeOK, Message
<1> DEFINE e == [type |-> "event", id |-> id, object |-> object]
<1>3. \A i \in DOMAIN inbox' : (i \in DOMAIN inbox /\ inbox'[i] = inbox[i]) \/ inbox'[i] = e
  BY <1>2, PublishedType
<1>4. Harmless(e, onServer')
  BY DEF Harmless
<1> HIDE DEF e
<1> QED BY <1>1, <1>3, <1>4 DEF Carried

(* One message shorter.                                                    *)
LEMMA CarriedTail ==
  ASSUME TypeOK, inbox # <<>>, inbox' = Tail(inbox)
  PROVE  Carried(1)
BY TailFacts DEF Carried, TypeOK

(* The socket, when somebody edits.                                        *)
LEMMA SocketPeople ==
  ASSUME TypeOK, TypeOK', SocketTrue, HistoriesGrow, HistoriesTrue', People
  PROVE  SocketTrue'
<1>1. ASSUME UNCHANGED <<tasks, wire, inbox>> PROVE SocketTrue'
  <2>1. \A s \in Slots : tasks'[s] = tasks[s]
    BY <1>1
  <2> QED BY <1>1, <2>1, CarriedSame, SocketKept
<1>2. ASSUME UNCHANGED <<tasks, wire>>, Carried(0) PROVE SocketTrue'
  <2>1. \A s \in Slots : tasks'[s] = tasks[s]
    BY <1>2
  <2> QED BY <1>2, <2>1, SocketKept
<1>3. ASSUME NEW id \in Ids, NEW script \in Script, AdminSaves(id, script) PROVE SocketTrue'
  <2>1. script.source \in onServer'[id]
    BY <1>3 DEF AdminSaves, TypeOK
  <2>2. Carried(0)
    BY <1>3, <2>1, CarriedEvent DEF AdminSaves, Objects
  <2> QED BY <1>2, <1>3, <2>2 DEF AdminSaves, work
<1>4. ASSUME NEW id \in Ids, AdminDeletes(id) PROVE SocketTrue'
  <2>1. Carried(0)
    BY <1>4, CarriedEvent DEF AdminDeletes, Objects
  <2> QED BY <1>2, <1>4, <2>1 DEF AdminDeletes, work
<1>5. ASSUME \/ \E path \in UserPaths, source \in UserSources : UserSaves(path, source)
             \/ \E path \in UserPaths : UserDeletes(path)
             \/ \E id \in Ids : PullElsewhere(id)
      PROVE  SocketTrue'
  BY <1>1, <1>5 DEF UserSaves, UserDeletes, PullElsewhere, work, socket
<1>6. ASSUME NEW source \in AdminSources, NEW ext \in ScriptExts
      PROVE  [source |-> source, engineType |-> ext, enabled |-> TRUE,
              engine |-> DefaultInstance] \in Script
  BY WatchAssumption DEF Script, EngineTypes
<1> QED BY <1>3, <1>4, <1>5, <1>6 DEF People

(* When the server or the adapter acts.                                    *)
LEMMA SocketServer ==
  ASSUME TypeOK, TypeOK', SocketTrue, HistoriesTrue, HistoriesGrow,
         ServerReads \/ ServerWrites \/ ServerRefuses \/ \E id \in Ids : AdapterWritesBack(id)
  PROVE  SocketTrue'
<1>0. inbox \in Seq(Message) /\ wire \in Seq(Request)
  BY DEF TypeOK, Message
<1>1. ASSUME NEW ok \in BOOLEAN, NEW seen \in Sources \cup {Absent}, wire # <<>>
      PROVE  LET a == Answered(Head(wire).slot, ok, seen)
             IN  a \in Answer /\ a.slot = Head(wire).slot /\ a.ok = ok
  <2>1. Head(wire) \in Request
    BY <1>0, <1>1, TailFacts
  <2> QED BY <1>1, <2>1 DEF Answered, Answer, Request
<1>2. ASSUME NEW a \in Answer, wire # <<>>, tasks' = tasks, wire' = Tail(wire),
             a.slot = Head(wire).slot, inbox' = Append(inbox, a),
             a.ok => Head(wire).op \notin {"extend", "create"}
      PROVE  SocketTrue'
  <2>1. /\ Len(inbox) + 1 \notin DOMAIN inbox
        /\ \A i \in DOMAIN inbox' : \/ i \in DOMAIN inbox /\ inbox'[i] = inbox[i]
                                    \/ i = Len(inbox) + 1 /\ inbox'[i] = a
    BY <1>0, <1>2, AppendFacts DEF Message
  <2> DEFINE k == Len(inbox) + 1
  <2> HIDE DEF k
  <2>2. /\ k \notin DOMAIN inbox
        /\ \A i \in DOMAIN inbox' : \/ i \in DOMAIN inbox /\ inbox'[i] = inbox[i]
                                    \/ i = k /\ inbox'[i] = a
    BY <2>1 DEF k
  <2> QED BY <1>2, <2>2, AnswerArrives
<1>3. ASSUME ServerReads PROVE SocketTrue'
  <2> DEFINE seen == InSource(objects[Head(wire).id])
             a == Answered(Head(wire).slot, TRUE, seen)
  <2>1. wire # <<>> /\ Head(wire) \in Request
    BY <1>0, <1>3, TailFacts DEF ServerReads
  <2>2. seen \in Sources \cup {Absent}
    BY <2>1 DEF InSource, TypeOK, Script, Request
  <2>3. /\ inbox' = Append(inbox, a) /\ wire' = Tail(wire) /\ tasks' = tasks
        /\ Head(wire).op \notin {"extend", "create"}
    BY <1>3 DEF ServerReads, work
  <2>4. a \in Answer /\ a.slot = Head(wire).slot
    BY <1>1, <2>1, <2>2
  <2> HIDE DEF a
  <2> QED BY <1>2, <2>1, <2>3, <2>4
<1>4. ASSUME ServerRefuses PROVE SocketTrue'
  <2> DEFINE a == Answered(Head(wire).slot, FALSE, Absent)
  <2>1. wire # <<>> /\ inbox' = Append(inbox, a) /\ wire' = Tail(wire) /\ tasks' = tasks
    BY <1>4 DEF ServerRefuses, work
  <2>2. a \in Answer /\ a.slot = Head(wire).slot /\ a.ok = FALSE
    BY <1>1, <2>1
  <2> HIDE DEF a
  <2> QED BY <1>2, <2>1, <2>2
<1>5. ASSUME ServerWrites PROVE SocketTrue'
  <2> DEFINE r == Head(wire)
             object == IF r.op = "create" THEN NewScript(r) ELSE Extended(objects[r.id], r)
             a == Answered(r.slot, TRUE, Absent)
             e == [type |-> "event", id |-> r.id, object |-> object]
  <2>1. r \in Request /\ wire # <<>>
    BY <1>0, <1>5, TailFacts DEF ServerWrites
  <2>2. r.id \in Ids /\ r.source \in Sources
    BY <2>1 DEF Request
  <2>3. object \in Objects /\ (object \notin {Absent, Stub} => object.source = r.source)
    BY <2>1, <2>2, WrittenType DEF TypeOK, Objects
  <2>4. /\ ServedAs(inbox, inbox', a, r.id, object)
        /\ onServer' = [onServer EXCEPT ![r.id] = @ \cup {r.source}]
        /\ wire' = Tail(wire) /\ tasks' = tasks
    BY <1>5 DEF ServerWrites, work, ServedAs
  <2>5. a \in Answer /\ a.slot = r.slot
    BY <1>1, <2>1
  <2> HIDE DEF r, object, a
  <2>6. r.source \in onServer'[r.id]
    BY <2>2, <2>4 DEF TypeOK
  <2>7. PICK k : /\ k \notin DOMAIN inbox
                 /\ \A i \in DOMAIN inbox' :
                      \/ i \in DOMAIN inbox /\ inbox'[i] = inbox[i]
                      \/ inbox'[i] = e
                      \/ i = k /\ inbox'[i] = a
    BY <1>0, <2>2, <2>3, <2>4, <2>5, BothOrders DEF Message
  <2>8. Harmless(e, onServer')
    BY <2>3, <2>6 DEF Harmless
  <2> HIDE DEF e
  <2> QED BY <2>1, <2>4, <2>5, <2>6, <2>7, <2>8, AnswerArrives DEF r
<1>6. ASSUME NEW id \in Ids, AdapterWritesBack(id) PROVE SocketTrue'
  <2>1. objects[id] \notin {Absent, Stub} => objects[id].source \in onServer'[id]
    BY <1>6 DEF HistoriesTrue, HistoriesGrow
  <2>2. Carried(0)
    BY <1>6, <2>1, CarriedEvent DEF AdapterWritesBack, TypeOK, Objects
  <2>3. UNCHANGED <<wire, tasks>>
    BY <1>6 DEF AdapterWritesBack, work
  <2>4. \A s \in Slots : tasks'[s] = tasks[s]
    BY <2>3
  <2> QED BY <2>2, <2>3, <2>4, SocketKept
<1> QED BY <1>3, <1>4, <1>5, <1>6

(* A task's own step that sends nothing: s is owed nothing afterwards.     *)
LEMMA TaskAlone ==
  ASSUME TypeOK, TypeOK', SocketTrue, HistoriesGrow, NEW s \in Slots, NEW x \in {0, 1},
         Carried(x), UNCHANGED wire, Settles(s)',
         \A r \in Slots : r # s => tasks'[r] = tasks[r]
  PROVE  SocketTrue'
BY SocketKept

(* When a push goes on.                                                    *)
LEMMA SocketPush ==
  ASSUME TypeOK, TypeOK', SocketTrue, HistoriesGrow, NEW s \in Slots, pushFile(s)
  PROVE  SocketTrue'
<1>0. /\ \A r \in Slots : tasks[r] # Absent => tasks[r] \in Task
      /\ \A t : Over(s) \/ Step(s, t) => \A r \in Slots : r # s => tasks'[r] = tasks[r]
      /\ \A t : Step(s, t) => tasks'[s] = t
  BY DEF TypeOK, Over, Step
<1>a. {"get", "folders", "extend", "create"} \subseteq Phases
  BY DEF Phases
<1>1. ASSUME NEW path \in Paths, PushStarts(s, path) PROVE SocketTrue'
  <2> PICK id \in Owner(path) :
        LET t == [kind |-> "push", phase |-> "get", id |-> id, path |-> path,
                  source |-> files[path], base |-> BaseOf(id, path), seen |-> Absent]
        IN  Step(s, t) /\ Send(s, "get", t)
    BY <1>1 DEF PushStarts
  <2> DEFINE t == [kind |-> "push", phase |-> "get", id |-> id, path |-> path,
                   source |-> files[path], base |-> BaseOf(id, path), seen |-> Absent]
             r == [slot |-> s, op |-> "get", id |-> t.id, path |-> t.path, source |-> t.source]
  <2>1. Step(s, t) /\ wire' = Append(wire, r) /\ UNCHANGED inbox
    BY <1>1 DEF Send, PushStarts
  <2>2. tasks'[s] = t
    BY <1>0, <2>1
  <2>3. t # Absent /\ t \in Task
    <3>1. id \in Ids
      BY OwnerType
    <3>2. files[path] \in Sources
      BY <1>1 DEF PushStarts, Pushable, TypeOK, Files
    <3>3. t \in Task
      BY <1>a, <3>1, <3>2, BaseType DEF Task
    <3> HIDE DEF t
    <3> QED BY <3>3, TaskAssumption
  <2>4. t.phase = "get"
    OBVIOUS
  <2> HIDE DEF t
  <2>5. r \in Request
    BY <1>a, <2>3, RequestType DEF TypeOK
  <2>6. r.slot = s /\ r.op = "get" /\ r.id = t.id /\ r.path = t.path /\ r.source = t.source
    OBVIOUS
  <2> HIDE DEF r
  <2>7. Settles(s)
    BY <1>1, IdleSettles DEF PushStarts, FirstFree, Free
  <2>8. Carried(0)
    BY <2>1, CarriedSame
  <2>9. \A i \in DOMAIN inbox' : ~Answers(i, s)'
    BY <2>1, <2>7 DEF Settles, Answers
  <2>10. "get" \in Awaiting
    BY DEF Awaiting
  <2>11. \A i \in DOMAIN wire : ~Asks(i, s)
    BY <2>7 DEF Settles
  <2>12. \A q \in Slots : q # s => tasks'[q] = tasks[q]
    BY <1>0, <2>1
  <2> QED BY <2>1, <2>2, <2>3, <2>4, <2>5, <2>6, <2>8, <2>9, <2>10, <2>11, <2>12,
             RequestLeaves
<1>2. ASSUME NEW phases, HasAnswer(s, phases), inbox' = Tail(inbox)
      PROVE  /\ tasks[s] \in Task
             /\ Carried(1)
             /\ \A i \in DOMAIN wire : ~Asks(i, s)
             /\ \A i \in DOMAIN inbox' : ~Answers(i, s)'
  BY <1>0, <1>2, AnswerSettles, CarriedTail DEF HasAnswer, Answers
<1>3. ASSUME NEW phases, HasAnswer(s, phases), inbox' = Tail(inbox), UNCHANGED wire,
             NEW t, Over(s) \/ Step(s, t)
      PROVE  SocketTrue'
  <2>1. Carried(1) /\ Settles(s)'
    BY <1>2, <1>3 DEF Settles, Asks
  <2>2. \A r \in Slots : r # s => tasks'[r] = tasks[r]
    BY <1>0, <1>3
  <2> QED BY <1>3, <2>1, <2>2, TaskAlone
<1>4. ASSUME NEW phases, HasAnswer(s, phases), inbox' = Tail(inbox),
             NEW op \in Awaiting, Send(s, op, tasks[s]), NEW t \in Task, Step(s, t),
             t.phase = op, t.id = tasks[s].id, t.path = tasks[s].path,
             t.source = tasks[s].source
      PROVE  SocketTrue'
  <2> DEFINE r == [slot |-> s, op |-> op, id |-> tasks[s].id, path |-> tasks[s].path,
                   source |-> tasks[s].source]
  <2>1. wire' = Append(wire, r)
    BY <1>4 DEF Send
  <2>2. /\ tasks[s] \in Task /\ Carried(1)
        /\ \A i \in DOMAIN wire : ~Asks(i, s)
        /\ \A i \in DOMAIN inbox' : ~Answers(i, s)'
    BY <1>2, <1>4
  <2>3. r \in Request
    BY <1>a, <1>4, <2>2, RequestType DEF TypeOK, Awaiting
  <2>4. /\ r.slot = s /\ r.op = op /\ r.id = t.id /\ r.path = t.path /\ r.source = t.source
    BY <1>4
  <2> HIDE DEF r
  <2>5. tasks'[s] = t /\ t # Absent /\ \A q \in Slots : q # s => tasks'[q] = tasks[q]
    BY <1>0, <1>4, TaskAssumption
  <2> QED BY <1>4, <2>1, <2>2, <2>3, <2>4, <2>5, RequestLeaves
<1>5. ASSUME PushDecides(s) PROVE SocketTrue'
  <2> DEFINE t == tasks[s]
             there == Head(inbox).seen
             op == IF there = Absent THEN "folders" ELSE "extend"
             next == [[t EXCEPT !.seen = there] EXCEPT !.phase = op]
  <2>1. HasAnswer(s, {"get"}) /\ inbox' = Tail(inbox)
    BY <1>5 DEF PushDecides
  <2>2. (Over(s) /\ UNCHANGED wire) \/ (Step(s, next) /\ Send(s, op, tasks[s]))
    BY <1>5 DEF PushDecides
  <2>3. t \in Task /\ there \in Sources \cup {Absent}
    BY <1>2, <2>1, PopType DEF HasAnswer, Answer
  <2>4. op \in Awaiting /\ op \in Phases
    BY DEF Awaiting, Phases
  <2> HIDE DEF t, there, op
  <2>5. /\ next.phase = op /\ next.id = t.id /\ next.path = t.path /\ next.source = t.source
        /\ next \in Task
    <3> DEFINE mid == [t EXCEPT !.seen = there]
    <3>1. mid \in Task /\ mid.id = t.id /\ mid.path = t.path /\ mid.source = t.source
      BY <2>3 DEF Task
    <3> HIDE DEF mid
    <3>2. LET u == [mid EXCEPT !.phase = op]
          IN  u \in Task /\ u.phase = op /\ u.id = mid.id /\ u.path = mid.path
              /\ u.source = mid.source
      BY <2>4, <3>1 DEF Task
    <3> QED BY <3>1, <3>2 DEF mid
  <2> HIDE DEF next
  <2>6. CASE Over(s) /\ UNCHANGED wire
    BY <1>3, <2>1, <2>6
  <2>7. CASE Step(s, next) /\ Send(s, op, tasks[s])
    BY <1>4, <2>1, <2>4, <2>5, <2>7 DEF t
  <2> QED BY <2>2, <2>6, <2>7
<1>6. ASSUME PushCreates(s) PROVE SocketTrue'
  <2> DEFINE t == tasks[s]
             next == [t EXCEPT !.phase = "create"]
  <2>1. /\ HasAnswer(s, {"folders"}) /\ inbox' = Tail(inbox)
        /\ Step(s, next) /\ Send(s, "create", tasks[s])
    BY <1>6 DEF PushCreates
  <2>2. t \in Task /\ "create" \in Awaiting /\ "create" \in Phases
    BY <1>2, <2>1 DEF Awaiting, Phases
  <2> HIDE DEF t
  <2>3. /\ next.phase = "create" /\ next.id = t.id /\ next.path = t.path
        /\ next.source = t.source /\ next \in Task
    BY <2>2 DEF Task
  <2> HIDE DEF next
  <2> QED BY <1>4, <2>1, <2>2, <2>3 DEF t
<1>7. ASSUME PushRecords(s) PROVE SocketTrue'
  BY <1>3, <1>7 DEF PushRecords
<1>8. ASSUME PushFails(s) PROVE SocketTrue'
  BY <1>3, <1>8 DEF PushFails
<1>9. ASSUME PushTimesOut(s) PROVE SocketTrue'
  <2>1. Forget(s) /\ Over(s)
    BY <1>9 DEF PushTimesOut
  <2>2. inbox \in Seq(Message) /\ wire \in Seq(Request)
    BY DEF TypeOK, Message
  <2>3. /\ DOMAIN wire' = DOMAIN wire
        /\ DOMAIN inbox' = DOMAIN inbox
        /\ \A i \in DOMAIN wire : /\ wire'[i].slot # s
                                  /\ wire'[i].slot = Absent \/ wire'[i] = wire[i]
        /\ \A i \in DOMAIN inbox : /\ ~Answers(i, s)'
                                   /\ \/ inbox'[i] = inbox[i]
                                      \/ inbox'[i].type = "answer" /\ inbox'[i].slot = Absent
    BY <2>1, <2>2, ForgetFacts
  <2>4. Settles(s)'
    BY <2>3 DEF Settles, Asks
  <2>5. Carried(0)
    <3>1. \A i \in DOMAIN inbox : i \in Nat
      BY <2>2
    <3>2. \A i \in DOMAIN inbox : i + 0 = i
      BY <3>1
    <3> QED BY <2>3, <3>2 DEF Carried, Harmless
  <2>6. \A r \in Slots : tasks'[r] = tasks[r] \/ Settles(r)'
    BY <1>0, <2>1, <2>4
  <2> QED BY <2>3, <2>5, <2>6, SocketKept
<1> QED BY <1>1, <1>5, <1>6, <1>7, <1>8, <1>9 DEF pushFile

(* When an apply goes on, or a manifest is saved.                          *)
LEMMA SocketApply ==
  ASSUME TypeOK, TypeOK', SocketTrue, TasksSound, HistoriesGrow, NEW s \in Slots,
         applyRemoteChange(s) \/ saveManifest(s)
  PROVE  SocketTrue'
<1>0. /\ \A t : Over(s) \/ Step(s, t) => \A r \in Slots : r # s => tasks'[r] = tasks[r]
  BY DEF TypeOK, Over, Step
<1>1. CASE ApplyStarts(s)
  <2>1. inbox # <<>> /\ inbox' = Tail(inbox) /\ UNCHANGED wire /\ tasks[s] = Absent
    BY <1>1 DEF ApplyStarts, FirstFree, Free
  <2>2. Settles(s) /\ Carried(1)
    BY <2>1, IdleSettles, CarriedTail
  <2>3. Settles(s)'
    BY <2>1, <2>2, TailFacts DEF Settles, Asks, Answers, TypeOK
  <2>4. \A r \in Slots : r # s => tasks'[r] = tasks[r]
    BY <1>0, <1>1 DEF ApplyStarts
  <2> QED BY <2>1, <2>2, <2>3, <2>4, TaskAlone
<1>2. CASE ~ApplyStarts(s)
  <2>1. /\ tasks[s].phase \in {"read", "write", "wrote", "save", "rename"}
        /\ UNCHANGED <<wire, inbox>>
    BY <1>2 DEF applyRemoteChange, saveManifest, ApplyReads, ApplyWrites, ApplyFails,
         ApplyRecords, SaveStarts, SaveEnds, SaveFails, socket
  <2>2. \A r \in Slots : r # s => tasks'[r] = tasks[r]
    <3>1. CASE SaveStarts(s)
      BY <3>1 DEF SaveStarts, TypeOK
    <3>2. CASE ~SaveStarts(s)
      BY <1>0, <1>2, <3>2 DEF applyRemoteChange, saveManifest, ApplyReads, ApplyWrites,
           ApplyFails, ApplyRecords, SaveEnds, SaveFails
    <3> QED BY <3>1, <3>2
  <2>3. Settles(s)
    BY <2>1, IdleSettles DEF Awaiting
  <2>4. Settles(s)'
    BY <2>1, <2>3 DEF Settles, Asks, Answers
  <2> QED BY <2>1, <2>2, <2>4, CarriedSame, TaskAlone
<1> QED BY <1>1, <1>2

(* Every step keeps requests and answers matched.                          *)
LEMMA SocketNext ==
  ASSUME TasksInv, TypeOK', [Next]_vars, HistoriesGrow, HistoriesTrue'
  PROVE  SocketTrue'
<1>0. TypeOK /\ SocketTrue /\ HistoriesTrue /\ TasksSound
  BY DEF TasksInv, SocketTrue
<1>1. ASSUME UNCHANGED <<tasks, wire, inbox>> PROVE SocketTrue'
  <2>1. \A s \in Slots : tasks'[s] = tasks[s]
    BY <1>1
  <2> QED BY <1>0, <1>1, <2>1, CarriedSame, SocketKept
<1>2. CASE People
  BY <1>0, <1>2, SocketPeople
<1>3. CASE System
  <2>1. ASSUME NEW path \in Paths, scheduleFile(path) \/ PushIgnored(path) PROVE SocketTrue'
    BY <1>1, <2>1 DEF scheduleFile, PushIgnored, work, socket
  <2>2. ASSUME LateAnswer \/ EventIgnored PROVE SocketTrue'
    <3>1. inbox # <<>> /\ inbox' = Tail(inbox) /\ UNCHANGED <<wire, tasks>>
      BY <2>2 DEF LateAnswer, EventIgnored, work
    <3>2. Carried(1) /\ \A s \in Slots : tasks'[s] = tasks[s]
      BY <1>0, <3>1, CarriedTail
    <3> QED BY <1>0, <3>1, <3>2, SocketKept
  <2> QED BY <1>0, <1>3, <2>1, <2>2, SocketPush, SocketApply, SocketServer DEF System
<1>4. CASE Restart
  <2>1. PICK n \in 0 .. Len(wire) :
          wire' = [i \in 1 .. n |-> [wire[i] EXCEPT !.slot = Absent]]
    BY <1>4 DEF Restart
  <2>2. inbox' = <<>>
    BY <1>4 DEF Restart
  <2>3. ASSUME NEW r \in Request PROVE [r EXCEPT !.slot = Absent].slot = Absent
    BY DEF Request
  <2>4. \A i \in 1 .. n : wire[i] \in Request
    BY <1>0, <2>1 DEF TypeOK
  <2>5. \A i \in DOMAIN wire' : wire'[i].slot = Absent
    BY <2>1, <2>3, <2>4
  <2>6. Carried(0)
    BY <2>2 DEF Carried
  <2>7. \A s \in Slots : Settles(s)'
    BY <2>2, <2>5, TaskAssumption DEF Settles, Asks
  <2> QED BY <1>0, <2>5, <2>6, <2>7, SocketKept
<1>5. CASE UNCHANGED vars
  BY <1>1, <1>5 DEF vars, work, socket
<1> QED BY <1>2, <1>3, <1>4, <1>5 DEF Next

-----------------------------------------------------------------------------
(* What is taken for an echo                                               *)

(* What the server has had, it has had ever since.                         *)
LEMMA StaysKnown ==
  ASSUME HistoriesGrow
  PROVE  \A source : (\E id \in Ids : source \in onServer[id])
                        => \E id \in Ids : source \in onServer'[id]
BY DEF HistoriesGrow

(* Without --pull, nobody tells the client of a change.                    *)
LEMMA NothingPublished ==
  ASSUME ~WithPull, TypeOK, NEW id, NEW object
  PROVE  /\ inbox \o Published(id, object) = inbox
         /\ \A e \in Message : /\ inbox \o Published(id, object) \o <<e>> = Append(inbox, e)
                               /\ inbox \o <<e>> \o Published(id, object) = Append(inbox, e)
<1>1. inbox \in Seq(Message) /\ Published(id, object) = <<>>
  BY DEF TypeOK, Message, Published
<1>2. ASSUME NEW e \in Message
      PROVE  inbox \o <<e>> = Append(inbox, e) /\ Append(inbox, e) \o <<>> = Append(inbox, e)
  <2>1. Append(inbox, e) \in Seq(Message)
    BY <1>1
  <2> QED BY <1>1, <2>1, ConcatFacts
<1> QED BY <1>1, <1>2, ConcatFacts

(* Only the continuation of an apply's write and a restart touch the map.  *)
LEMMA WrittenBy ==
  ASSUME TasksInv, [Next]_vars
  PROVE  \/ UNCHANGED lastWritten
         \/ Restart
         \/ \E s \in Slots : ApplyRecords(s)
<1>1. CASE People
  BY <1>1 DEF People, UserSaves, UserDeletes, AdminSaves, AdminDeletes, PullElsewhere, memory
<1>2. ASSUME NEW s \in Slots, pushFile(s) \/ applyRemoteChange(s) \/ saveManifest(s)
      PROVE  UNCHANGED lastWritten \/ ApplyRecords(s)
  BY <1>2 DEF pushFile, PushStarts, PushDecides, PushCreates, PushRecords, PushFails,
     PushTimesOut, applyRemoteChange, ApplyStarts, ApplyReads, ApplyWrites, ApplyFails,
     saveManifest, SaveStarts, SaveEnds, SaveFails, memory
<1>3. CASE System
  BY <1>2, <1>3 DEF System, scheduleFile, PushIgnored, LateAnswer, EventIgnored,
     ServerReads, ServerWrites, ServerRefuses, AdapterWritesBack, memory
<1> QED BY <1>1, <1>3 DEF Next, vars, memory

(* What it holds has come from the server.                                 *)
LEMMA WrittenKnown ==
  ASSUME TasksInv, EchoesKnown, [Next]_vars, HistoriesGrow
  PROVE  \A path \in Paths : lastWritten'[path] # Absent => WithPull /\ Known(lastWritten[path])'
<1>1. CASE UNCHANGED lastWritten
  BY <1>1, StaysKnown DEF EchoesKnown, Known
<1>2. CASE Restart
  BY <1>2 DEF Restart
<1>3. ASSUME NEW s \in Slots, ApplyRecords(s)
      PROVE  \A path \in Paths :
               lastWritten'[path] # Absent => WithPull /\ Known(lastWritten[path])'
  <2>1. /\ tasks[s] # Absent /\ tasks[s].phase = "wrote" /\ UNCHANGED onServer
        /\ lastWritten' = [lastWritten EXCEPT ![tasks[s].path] = tasks[s].source]
    BY <1>3 DEF ApplyRecords, Free, history
  <2>2. tasks[s] \in Task /\ TaskSound(tasks[s], onDisk, onServer)
    BY <2>1 DEF TasksInv, TypeOK, TasksSound
  <2>3. tasks[s].kind = "apply"
    BY <2>1, <2>2 DEF TaskSound, Task, Awaiting
  <2>4. WithPull /\ tasks[s].source \in onServer[tasks[s].id]
    BY <2>1, <2>2, <2>3 DEF TaskSound, EchoesKnown
  <2> QED BY <2>1, <2>2, <2>4 DEF EchoesKnown, TasksInv, TypeOK, Known, Task
<1> QED BY <1>1, <1>2, <1>3, WrittenBy

(* Without --pull all that comes in is answers.                            *)
LEMMA OnlyAnswers ==
  ASSUME TasksInv, EchoesKnown, [Next]_vars, ~WithPull
  PROVE  \A i \in DOMAIN inbox' : inbox'[i].type = "answer"
<1>0. /\ TypeOK /\ inbox \in Seq(Message) /\ wire \in Seq(Request)
      /\ \A i \in DOMAIN inbox : inbox[i].type = "answer"
  BY DEF TasksInv, TypeOK, Message, EchoesKnown
<1>1. CASE inbox' = inbox
  BY <1>0, <1>1
<1>2. ASSUME NEW e \in Message, e.type = "answer", inbox' = Append(inbox, e)
      PROVE  \A i \in DOMAIN inbox' : inbox'[i].type = "answer"
  BY <1>0, <1>2, AppendFacts
<1>3. CASE inbox # <<>> /\ inbox' = Tail(inbox)
  <2>1. \A i \in DOMAIN Tail(inbox) : i + 1 \in DOMAIN inbox /\ Tail(inbox)[i] = inbox[i + 1]
    BY <1>0, <1>3, TailFacts
  <2> QED BY <1>0, <1>3, <2>1
<1>4. ASSUME NEW s \in Slots, Forget(s)
      PROVE  \A i \in DOMAIN inbox' : inbox'[i].type = "answer"
  BY <1>0, <1>4, ForgetFacts
<1>5. CASE ServerReads \/ ServerWrites \/ ServerRefuses
  <2>1. wire # <<>> /\ Head(wire) \in Request
    BY <1>0, <1>5, TailFacts DEF ServerReads, ServerWrites, ServerRefuses
  <2>2. ASSUME NEW ok \in BOOLEAN, NEW seen \in Sources \cup {Absent},
               inbox' = Append(inbox, Answered(Head(wire).slot, ok, seen))
        PROVE  \A i \in DOMAIN inbox' : inbox'[i].type = "answer"
    <3>1. Answered(Head(wire).slot, ok, seen) \in Message
      BY <2>1, AnswerType DEF Request
    <3>2. Answered(Head(wire).slot, ok, seen).type = "answer"
      BY DEF Answered
    <3> QED BY <1>2, <2>2, <3>1, <3>2
  <2>3. CASE ServerReads
    <3>1. InSource(objects[Head(wire).id]) \in Sources \cup {Absent}
      BY <1>0, <2>1 DEF TypeOK, InSource, Request, Script
    <3> QED BY <2>2, <2>3, <3>1 DEF ServerReads
  <2>4. CASE ServerRefuses
    BY <2>2, <2>4 DEF ServerRefuses
  <2>5. CASE ServerWrites
    <3> DEFINE a == Answered(Head(wire).slot, TRUE, Absent)
    <3>1. PICK object : \/ inbox' = inbox \o Published(Head(wire).id, object) \o <<a>>
                        \/ inbox' = inbox \o <<a>> \o Published(Head(wire).id, object)
      BY <2>5 DEF ServerWrites
    <3>2. a \in Message
      BY <2>1, AnswerType DEF Request
    <3> HIDE DEF a
    <3>3. inbox' = Append(inbox, a)
      BY <1>0, <3>1, <3>2, NothingPublished
    <3> QED BY <2>2, <3>3 DEF a
  <2> QED BY <1>5, <2>3, <2>4, <2>5
<1>6. CASE People
  BY <1>0, <1>1, <1>6, NothingPublished DEF People, UserSaves, UserDeletes, AdminSaves,
     AdminDeletes, PullElsewhere, socket
<1>7. ASSUME NEW s \in Slots, pushFile(s) \/ applyRemoteChange(s) \/ saveManifest(s)
      PROVE  \A i \in DOMAIN inbox' : inbox'[i].type = "answer"
  BY <1>1, <1>3, <1>4, <1>7 DEF pushFile, PushStarts, PushDecides, PushCreates, PushRecords,
     PushFails, PushTimesOut, HasAnswer, applyRemoteChange, ApplyStarts, ApplyReads,
     ApplyWrites, ApplyFails, ApplyRecords, saveManifest, SaveStarts, SaveEnds, SaveFails,
     socket
<1>8. CASE System
  BY <1>0, <1>1, <1>3, <1>5, <1>7, <1>8, NothingPublished DEF System, scheduleFile,
     PushIgnored, LateAnswer, EventIgnored, AdapterWritesBack, socket
<1>9. CASE Restart
  BY <1>9 DEF Restart
<1> QED BY <1>1, <1>6, <1>8, <1>9 DEF Next, vars, socket

(* And all there is to do is pushes.                                       *)
LEMMA OnlyPushes ==
  ASSUME TasksInv, EchoesKnown, [Next]_vars, ~WithPull
  PROVE  \A s \in Slots : tasks'[s] # Absent => tasks'[s].kind = "push"
<1>0. /\ TypeOK /\ inbox \in Seq(Answer \cup Event)
      /\ tasks \in [Slots -> Task \cup {Absent}]
      /\ \A s \in Slots : tasks[s] # Absent => tasks[s].kind = "push"
  BY DEF TasksInv, TypeOK, EchoesKnown
<1>1. CASE UNCHANGED tasks \/ Restart
  BY <1>0, <1>1 DEF Restart
<1>2. ASSUME NEW s \in Slots, tasks' = [tasks EXCEPT ![s] = Absent]
      PROVE  \A r \in Slots : tasks'[r] # Absent => tasks'[r].kind = "push"
  BY <1>0, <1>2
<1>3. ASSUME NEW s \in Slots, NEW t, tasks' = [tasks EXCEPT ![s] = t], t.kind = "push"
      PROVE  \A r \in Slots : tasks'[r] # Absent => tasks'[r].kind = "push"
  BY <1>0, <1>3
<1>4. ASSUME NEW t \in Task, NEW phase
      PROVE  [t EXCEPT !.phase = phase].kind = t.kind
  BY DEF Task
<1>5. ASSUME NEW s \in Slots, pushFile(s)
      PROVE  \A r \in Slots : tasks'[r] # Absent => tasks'[r].kind = "push"
  <2>1. CASE \E path \in Paths : PushStarts(s, path)
    BY <1>3, <2>1 DEF PushStarts, Step
  <2>2. CASE PushDecides(s)
    <3> DEFINE mid == [tasks[s] EXCEPT !.seen = Head(inbox).seen]
               op == IF Head(inbox).seen = Absent THEN "folders" ELSE "extend"
               next == [mid EXCEPT !.phase = op]
    <3>1. \/ Over(s)
          \/ Step(s, next)
      BY <2>2 DEF PushDecides
    <3>2. tasks[s] \in Task /\ tasks[s].kind = "push" /\ Head(inbox).seen \in Sources \cup {Absent}
      BY <1>0, <2>2, PopType DEF PushDecides, HasAnswer, Answer
    <3>3. mid \in Task /\ mid.kind = "push"
      BY <3>2 DEF Task
    <3> HIDE DEF mid, op
    <3>4. next.kind = "push"
      BY <1>4, <3>3
    <3> HIDE DEF next
    <3> QED BY <1>2, <1>3, <3>1, <3>4 DEF Over, Step
  <2>3. CASE PushCreates(s) \/ PushRecords(s)
    <3>1. tasks[s] \in Task /\ tasks[s].kind = "push"
      BY <1>0, <2>3 DEF PushCreates, PushRecords, HasAnswer
    <3>2. PICK phase : tasks' = [tasks EXCEPT ![s] = [tasks[s] EXCEPT !.phase = phase]]
      BY <2>3 DEF PushCreates, PushRecords, Step
    <3>3. [tasks[s] EXCEPT !.phase = phase].kind = "push"
      BY <1>4, <3>1
    <3> QED BY <1>3, <3>2, <3>3
  <2>4. CASE PushFails(s) \/ PushTimesOut(s)
    BY <1>2, <2>4 DEF PushFails, PushTimesOut, Over
  <2> QED BY <1>5, <2>1, <2>2, <2>3, <2>4 DEF pushFile
<1>6. ASSUME NEW s \in Slots, applyRemoteChange(s) \/ saveManifest(s)
      PROVE  \A r \in Slots : tasks'[r] # Absent => tasks'[r].kind = "push"
  <2>1. ~ApplyStarts(s)
    <3>1. inbox # <<>> => 1 \in DOMAIN inbox /\ inbox[1] = Head(inbox)
      BY <1>0, TailFacts
    <3> QED BY <3>1 DEF ApplyStarts, EchoesKnown
  <2>2. tasks[s] # Absent => tasks[s].phase \in Awaiting \cup {"save", "rename"}
    BY <1>0 DEF TasksInv, TasksSound, TaskSound
  <2>3. SaveStarts(s) \/ SaveEnds(s) \/ SaveFails(s)
    BY <1>6, <2>1, <2>2 DEF applyRemoteChange, saveManifest, ApplyReads, ApplyWrites,
       ApplyFails, ApplyRecords, Free, Awaiting
  <2>4. CASE SaveStarts(s)
    <3>1. tasks[s] \in Task /\ tasks[s].kind = "push"
      BY <1>0, <2>4 DEF SaveStarts, Free
    <3>2. tasks' = [tasks EXCEPT ![s] = [tasks[s] EXCEPT !.phase = "rename"]]
      BY <2>4 DEF SaveStarts
    <3> QED BY <1>3, <1>4, <3>1, <3>2
  <2> QED BY <1>2, <2>3, <2>4 DEF SaveEnds, SaveFails, Over
<1>7. CASE People
  BY <1>1, <1>7 DEF People, UserSaves, UserDeletes, AdminSaves, AdminDeletes, PullElsewhere,
     work
<1>8. CASE System
  BY <1>1, <1>5, <1>6, <1>8 DEF System, scheduleFile, PushIgnored, LateAnswer, EventIgnored,
     ServerReads, ServerWrites, ServerRefuses, AdapterWritesBack, work
<1> QED BY <1>1, <1>7, <1>8 DEF Next, vars, work

(* Every step keeps the echo map to what the server has had.               *)
LEMMA EchoesNext ==
  ASSUME TasksInv, EchoesKnown, [Next]_vars, HistoriesGrow
  PROVE  EchoesKnown'
BY WrittenKnown, OnlyAnswers, OnlyPushes DEF EchoesKnown

-----------------------------------------------------------------------------
(* Saves on their way                                                      *)

(* What is asked, or answered, for a task stays in the queues.             *)
QueuesKeep(s) ==
  /\ \A i \in DOMAIN wire : Asks(i, s) => \E j \in DOMAIN wire' : wire'[j] = wire[i]
  /\ \A i \in DOMAIN inbox : Answers(i, s) => \E j \in DOMAIN inbox' : inbox'[j] = inbox[i]

(* A task that leads on to a write stays one.                              *)
Stays(s) ==
  /\ tasks[s] # Absent /\ StillPushed(s)
  => /\ tasks'[s] # Absent
     /\ tasks'[s].path = tasks[s].path /\ tasks'[s].source = tasks[s].source
     /\ StillPushed(s)'

LEMMA StaysPut ==
  ASSUME NEW s \in Slots, tasks'[s] = tasks[s], QueuesKeep(s)
  PROVE  Stays(s)
BY DEF Stays, StillPushed, QueuesKeep, Asks, Answers

(* What SavesUnderWay says of one path.                                    *)
SaveSound(path) ==
  pending[path] # Absent =>
    /\ path \in UserPaths
    /\ files[path] = pending[path] /\ ~Spared(path) => UnderWay(path)

(* A save that has been spared once is spared for good.                    *)
LEMMA StaysSpared ==
  ASSUME HistoriesGrow, NEW path \in Paths, pending'[path] = pending[path], ~Spared(path)'
  PROVE  ~Spared(path)
BY DEF HistoriesGrow, Spared, Known

(* A save stays under way while the file, and all the tasks that have its  *)
(* content in hand, do.                                                    *)
LEMMA SaveKept ==
  ASSUME SavesUnderWay, HistoriesGrow, NEW path \in Paths,
         pending'[path] = pending[path], files'[path] = files[path],
         path \in noticed \cup timers => path \in noticed' \cup timers',
         \A s \in Slots : tasks[s].path = path /\ tasks[s].source = pending[path] => Stays(s)
  PROVE  SaveSound(path)'
<1>1. pending[path] # Absent =>
        path \in UserPaths /\ (files[path] = pending[path] /\ ~Spared(path) => UnderWay(path))
  BY DEF SavesUnderWay
<1>2. ASSUME files[path] = pending[path], UnderWay(path)
      PROVE  UnderWay(path)'
  <2>1. CASE path \in noticed \cup timers
    BY <2>1 DEF UnderWay
  <2>2. CASE \E s \in Slots : /\ tasks[s] # Absent
                              /\ tasks[s].path = path /\ tasks[s].source = files[path]
                              /\ StillPushed(s)
    BY <1>2, <2>2 DEF UnderWay, Stays
  <2> QED BY <1>2, <2>1, <2>2 DEF UnderWay
<1> QED BY <1>1, <1>2, StaysSpared DEF SaveSound

(* The people at both ends, and the adapter: what is on its way is left    *)
(* alone, but for what is added to it.                                     *)
LEMMA SavesOutside ==
  ASSUME HistoriesGrow, SavesUnderWay, UNCHANGED <<tasks, wire>>,
         \A i \in DOMAIN inbox : \E k \in DOMAIN inbox' : inbox'[k] = inbox[i],
         \A path \in Paths :
           \/ pending'[path] = Absent
           \/ path \in UserPaths /\ path \in noticed' \cup timers'
           \/ /\ pending'[path] = pending[path] /\ files'[path] = files[path]
              /\ path \in noticed \cup timers => path \in noticed' \cup timers'
           \/ /\ pending'[path] = pending[path]
              /\ path \in noticed' \cup timers'
  PROVE  SavesUnderWay'
<1>1. \A s \in Slots : Stays(s)
  BY StaysPut DEF QueuesKeep
<1>2. ASSUME NEW path \in Paths
      PROVE  SaveSound(path)'
  <2>1. CASE pending'[path] = Absent
    BY <2>1 DEF SaveSound
  <2>2. CASE path \in UserPaths /\ path \in noticed' \cup timers'
    BY <2>2 DEF UnderWay, SaveSound
  <2>3. CASE /\ pending'[path] = pending[path] /\ files'[path] = files[path]
             /\ path \in noticed \cup timers => path \in noticed' \cup timers'
    BY <1>1, <2>3, SaveKept
  <2>4. CASE pending'[path] = pending[path] /\ path \in noticed' \cup timers'
    BY <2>4 DEF UnderWay, SavesUnderWay, SaveSound
  <2> QED BY <2>1, <2>2, <2>3, <2>4
<1> QED BY <1>2 DEF SavesUnderWay, SaveSound

(* An event leaves what is in the inbox alone.                             *)
LEMMA PublishedKeeps ==
  ASSUME TypeOK, NEW id, NEW object
  PROVE  \A i \in DOMAIN inbox :
           /\ i \in DOMAIN (inbox \o Published(id, object))
           /\ (inbox \o Published(id, object))[i] = inbox[i]
<1>1. inbox \in Seq(Message)
  BY DEF TypeOK, Message
<1> DEFINE e == [type |-> "event", id |-> id, object |-> object]
<1>2. Published(id, object) = <<e>> \/ Published(id, object) = <<>>
  BY DEF Published
<1> HIDE DEF e
<1> QED BY <1>1, <1>2

LEMMA SavesPeople ==
  ASSUME TasksInv, HistoriesGrow, SavesUnderWay, People
  PROVE  SavesUnderWay'
<1>1. /\ TypeOK /\ pending \in [Paths -> Sources \cup {Absent}] /\ files \in Files
      /\ UserPaths \subseteq Paths
  BY DEF TasksInv, TypeOK, UserPaths
<1>2. ASSUME NEW path \in UserPaths, NEW source \in UserSources, UserSaves(path, source)
      PROVE  SavesUnderWay'
  <2>1. /\ files' = [files EXCEPT ![path] = source] /\ noticed' = noticed \cup {path}
        /\ pending' = [pending EXCEPT ![path] = source]
        /\ UNCHANGED <<tasks, wire, inbox, timers>>
    BY <1>2 DEF UserSaves, work, socket
  <2> QED BY <1>1, <2>1, SavesOutside DEF Files
<1>3. ASSUME NEW path \in UserPaths, UserDeletes(path)
      PROVE  SavesUnderWay'
  <2>1. /\ files' = [files EXCEPT ![path] = Absent]
        /\ pending' = [pending EXCEPT ![path] = Absent]
        /\ UNCHANGED <<tasks, wire, inbox, timers, noticed>>
    BY <1>3 DEF UserDeletes, work, socket, memory
  <2> QED BY <1>1, <2>1, SavesOutside DEF Files
<1>4. ASSUME NEW id \in Ids, NEW script, AdminSaves(id, script) \/ AdminDeletes(id)
      PROVE  SavesUnderWay'
  <2>1. /\ \A path \in Paths : pending'[path] \in {pending[path], Absent}
        /\ UNCHANGED <<files, tasks, wire, timers, noticed>>
    BY <1>1, <1>4 DEF AdminSaves, AdminDeletes, Settled, work, memory
  <2>2. \A i \in DOMAIN inbox : \E k \in DOMAIN inbox' : inbox'[k] = inbox[i]
    <3>1. PICK object : inbox' = inbox \o Published(id, object)
      BY <1>4 DEF AdminSaves, AdminDeletes
    <3> QED BY <1>1, <3>1, PublishedKeeps
  <2> QED BY <2>1, <2>2, SavesOutside
<1>5. ASSUME NEW id \in Ids, PullElsewhere(id)
      PROVE  SavesUnderWay'
  <2>1. PICK path : /\ files' = [files EXCEPT ![path] = objects[id].source]
                    /\ noticed' = noticed \cup {path}
                    /\ UNCHANGED <<tasks, wire, inbox, timers, pending>>
    BY <1>5 DEF PullElsewhere, work, socket
  <2> QED BY <1>1, <2>1, SavesOutside DEF Files
<1> QED BY <1>2, <1>3, <1>4, <1>5 DEF People

LEMMA SavesAdapter ==
  ASSUME TasksInv, HistoriesGrow, SavesUnderWay, NEW id \in Ids, AdapterWritesBack(id)
  PROVE  SavesUnderWay'
<1>1. UNCHANGED <<files, tasks, wire, timers, noticed, pending>>
  BY DEF AdapterWritesBack, world, work, memory, history
<1>2. \A i \in DOMAIN inbox : \E k \in DOMAIN inbox' : inbox'[k] = inbox[i]
  BY PublishedKeeps DEF AdapterWritesBack, TasksInv
<1> QED BY <1>1, <1>2, SavesOutside

(* Chokidar, and a timer that finds nothing to push: what it takes for an  *)
(* echo is spared.                                                         *)
LEMMA SavesTimers ==
  ASSUME TasksInv, EchoesKnown, HistoriesGrow, SavesUnderWay, NEW path \in Paths,
         scheduleFile(path) \/ PushIgnored(path)
  PROVE  SavesUnderWay'
<1>1. CASE scheduleFile(path)
  <2>1. /\ noticed' = noticed \ {path}
        /\ timers' = IF path[2] \in ScriptExts THEN timers \cup {path} ELSE timers
        /\ UNCHANGED <<files, tasks, wire, inbox, pending>>
    BY <1>1 DEF scheduleFile, world, work, socket, history
  <2>2. \A other \in Paths : pending[other] # Absent => other[2] \in ScriptExts
    BY DEF SavesUnderWay, UserPaths
  <2> QED BY <2>1, <2>2, SavesOutside
<1>2. CASE PushIgnored(path)
  <2>1. /\ timers' = timers \ {path} /\ ~Pushable(path)
        /\ pending' = [pending EXCEPT ![path] =
             IF Matched(path, relPathToId(path)) /\ path[2] \in Editable THEN @ ELSE Absent]
        /\ UNCHANGED <<files, tasks, wire, inbox, noticed, onServer>>
    BY <1>2 DEF PushIgnored, world, work, socket
  <2>2. pending \in [Paths -> Sources \cup {Absent}]
    BY DEF TasksInv, TypeOK
  <2>3. SaveSound(path)'
    <3> SUFFICES ASSUME pending'[path] # Absent, files'[path] = pending'[path]
                 PROVE  path \in UserPaths /\ Spared(path)'
      BY <2>1, <2>2 DEF SaveSound, SavesUnderWay
    <3>1. /\ pending'[path] = pending[path]
          /\ Matched(path, relPathToId(path)) /\ path[2] \in Editable
      BY <2>1, <2>2
    <3>2. lastWritten[path] = pending[path]
      BY <2>1, <3>1 DEF Pushable, OwnEcho
    <3> QED BY <2>1, <3>1, <3>2 DEF EchoesKnown, Spared, Known, SavesUnderWay
  <2>4. \A s \in Slots : Stays(s)
    BY <2>1, StaysPut DEF QueuesKeep
  <2>5. \A other \in Paths : other # path => SaveSound(other)'
    BY <2>1, <2>2, <2>4, SaveKept
  <2> QED BY <2>3, <2>5 DEF SavesUnderWay, SaveSound
<1> QED BY <1>1, <1>2

(* Queues from which one element is taken, or to which one is added.       *)
LEMMA TailKeeps ==
  ASSUME NEW S, NEW q \in Seq(S), q # <<>>, NEW i \in DOMAIN q, i # 1
  PROVE  \E j \in DOMAIN Tail(q) : Tail(q)[j] = q[i]
<1>1. i - 1 \in DOMAIN Tail(q) /\ Tail(q)[i - 1] = q[i]
  OBVIOUS
<1> QED BY <1>1

LEMMA AppendKeeps ==
  ASSUME NEW S, NEW q \in Seq(S), NEW e
  PROVE  /\ \A i \in DOMAIN q : \E j \in DOMAIN Append(q, e) : Append(q, e)[j] = q[i]
         /\ \E j \in DOMAIN Append(q, e) : Append(q, e)[j] = e
         /\ \A j \in DOMAIN Append(q, e) :
              Append(q, e)[j] = e \/ \E i \in DOMAIN q : Append(q, e)[j] = q[i]
<1>1. \A i \in DOMAIN q : i \in DOMAIN Append(q, e) /\ Append(q, e)[i] = q[i]
  OBVIOUS
<1>2. Len(q) + 1 \in DOMAIN Append(q, e) /\ Append(q, e)[Len(q) + 1] = e
  OBVIOUS
<1>3. \A j \in DOMAIN Append(q, e) :
        Append(q, e)[j] = e \/ (j \in DOMAIN q /\ Append(q, e)[j] = q[j])
  OBVIOUS
<1> QED BY <1>1, <1>2, <1>3

(* Whichever of an answer and its event leaves first, both arrive behind   *)
(* what is there.                                                          *)
LEMMA ServedKeeps ==
  ASSUME TypeOK, NEW p, NEW a \in Message, NEW id, NEW object, ServedAs(inbox, p, a, id, object)
  PROVE  /\ \A i \in DOMAIN inbox : \E k \in DOMAIN p : p[k] = inbox[i]
         /\ \E k \in DOMAIN p : p[k] = a
<1>1. inbox \in Seq(Message)
  BY DEF TypeOK, Message
<1> DEFINE e == [type |-> "event", id |-> id, object |-> object]
<1>2. Published(id, object) = <<e>> \/ Published(id, object) = <<>>
  BY DEF Published
<1> HIDE DEF e
<1> DEFINE n == Len(inbox) + Len(Published(id, object)) + 1
           k == Len(inbox) + 1
<1>3. CASE p = inbox \o Published(id, object) \o <<a>>
  <2>1. /\ \A i \in DOMAIN inbox : i \in DOMAIN p /\ p[i] = inbox[i]
        /\ n \in DOMAIN p /\ p[n] = a
    BY <1>1, <1>2, <1>3
  <2> QED BY <2>1
<1>4. CASE p = inbox \o <<a>> \o Published(id, object)
  <2>1. /\ \A i \in DOMAIN inbox : i \in DOMAIN p /\ p[i] = inbox[i]
        /\ k \in DOMAIN p /\ p[k] = a
    BY <1>1, <1>2, <1>4
  <2> QED BY <2>1
<1> QED BY <1>3, <1>4 DEF ServedAs

(* The server answers the oldest request, after a write with what that was *)
(* for settled.                                                            *)
LEMMA SavesServer ==
  ASSUME TasksInv, HistoriesGrow, SavesUnderWay,
         ServerReads \/ ServerWrites \/ ServerRefuses
  PROVE  SavesUnderWay'
<1> DEFINE r == Head(wire)
<1>1. /\ wire \in Seq(Request) /\ inbox \in Seq(Message)
      /\ pending \in [Paths -> Sources \cup {Absent}] /\ WireTrue /\ TypeOK
  BY DEF TasksInv, TypeOK, Message
<1>2. wire # <<>> /\ wire' = Tail(wire) /\ r \in Request /\ 1 \in DOMAIN wire /\ wire[1] = r
  BY <1>1, TailFacts DEF ServerReads, ServerWrites, ServerRefuses
<1>3. UNCHANGED <<files, tasks, noticed, timers>>
  BY DEF ServerReads, ServerWrites, ServerRefuses, world, memory, work
<1>4. PICK e : /\ \A i \in DOMAIN inbox : \E k \in DOMAIN inbox' : inbox'[k] = inbox[i]
               /\ \E k \in DOMAIN inbox' : inbox'[k] = e
               /\ e.type = "answer" /\ e.slot = r.slot
               /\ e.ok => \/ r.op \in {"get", "folders"}
                          \/ pending' = Settled(pending, {r.path}, r.source)
               /\ pending' = pending \/ pending' = Settled(pending, {r.path}, r.source)
  <2>1. CASE ServerReads
    <3> DEFINE a == Answered(r.slot, TRUE, InSource(objects[r.id]))
    <3>1. inbox' = Append(inbox, a) /\ UNCHANGED pending /\ r.op \in {"get", "folders"}
      BY <2>1 DEF ServerReads, history
    <3>2. a.type = "answer" /\ a.slot = r.slot
      BY DEF Answered
    <3> HIDE DEF a, r
    <3>3. /\ \A i \in DOMAIN inbox : \E k \in DOMAIN inbox' : inbox'[k] = inbox[i]
          /\ \E k \in DOMAIN inbox' : inbox'[k] = a
      BY <1>1, <3>1, AppendKeeps
    <3> QED BY <3>1, <3>2, <3>3
  <2>2. CASE ServerRefuses
    <3> DEFINE a == Answered(r.slot, FALSE, Absent)
    <3>1. inbox' = Append(inbox, a) /\ UNCHANGED pending
      BY <2>2 DEF ServerRefuses, history
    <3>2. a.type = "answer" /\ a.slot = r.slot /\ ~a.ok
      BY DEF Answered
    <3> HIDE DEF a, r
    <3>3. /\ \A i \in DOMAIN inbox : \E k \in DOMAIN inbox' : inbox'[k] = inbox[i]
          /\ \E k \in DOMAIN inbox' : inbox'[k] = a
      BY <1>1, <3>1, AppendKeeps
    <3> QED BY <3>1, <3>2, <3>3
  <2>3. CASE ServerWrites
    <3> DEFINE a == Answered(r.slot, TRUE, Absent)
    <3>1. PICK object : ServedAs(inbox, inbox', a, r.id, object)
      BY <2>3 DEF ServerWrites, ServedAs
    <3>2. a \in Message /\ a.type = "answer" /\ a.slot = r.slot
      BY <1>2, AnswerType DEF Request, Answered
    <3>3. pending' = Settled(pending, {r.path}, r.source)
      BY <2>3 DEF ServerWrites
    <3> HIDE DEF a, r
    <3> QED BY <1>1, <3>1, <3>2, <3>3, ServedKeeps
  <2> QED BY <2>1, <2>2, <2>3
<1>5. \A i \in DOMAIN wire : i # 1 => \E j \in DOMAIN wire' : wire'[j] = wire[i]
  <2> HIDE DEF r
  <2>1. wire' = Tail(wire) /\ wire # <<>> /\ wire \in Seq(Request)
    BY <1>1, <1>2
  <2> QED BY <2>1, TailKeeps
<1>6. ASSUME NEW s \in Slots, s # r.slot
      PROVE  Stays(s)
  BY <1>2, <1>3, <1>4, <1>5, <1>6, StaysPut DEF QueuesKeep, Asks
<1>7. ASSUME NEW s \in Slots, s = r.slot, NEW path \in Paths, pending'[path] # Absent,
             tasks[s].path = path, tasks[s].source = pending[path]
      PROVE  Stays(s)
  <2>1. /\ tasks[s] # Absent /\ tasks[s].phase = r.op
        /\ tasks[s].path = r.path /\ tasks[s].source = r.source
    BY <1>1, <1>2, <1>7 DEF WireTrue, Asks
  <2>2. e.ok => r.op \in {"get", "folders"}
    BY <1>1, <1>4, <1>7, <2>1 DEF Settled
  <2>3. StillPushed(s)'
    BY <1>3, <1>4, <1>7, <2>1, <2>2 DEF StillPushed, Answers
  <2> QED BY <1>3, <2>3 DEF Stays
<1>8. ASSUME NEW path \in Paths
      PROVE  SaveSound(path)'
  <2>1. CASE pending'[path] = Absent
    BY <2>1 DEF SaveSound
  <2>2. CASE pending'[path] # Absent
    <3>1. pending'[path] = pending[path]
      BY <1>1, <1>4, <2>2 DEF Settled
    <3>2. \A s \in Slots : tasks[s].path = path /\ tasks[s].source = pending[path] => Stays(s)
      BY <1>6, <1>7, <2>2
    <3> QED BY <1>3, <3>1, <3>2, SaveKept
  <2> QED BY <2>1, <2>2
<1> QED BY <1>8 DEF SavesUnderWay, SaveSound

(* A task's own step: the others stay, and it does so too, or what it is   *)
(* for is settled.                                                         *)
LEMMA SavesStep ==
  ASSUME TasksInv, HistoriesGrow, SavesUnderWay, NEW s \in Slots,
         UNCHANGED <<files, noticed, timers>>,
         \A r \in Slots : r # s => tasks'[r] = tasks[r] /\ QueuesKeep(r),
         \/ Stays(s) /\ pending' = pending
         \/ pending' = Settled(pending, {tasks[s].path}, tasks[s].source)
  PROVE  SavesUnderWay'
<1>1. \A r \in Slots : r # s => Stays(r)
  BY StaysPut
<1>2. pending \in [Paths -> Sources \cup {Absent}]
  BY DEF TasksInv, TypeOK
<1>3. ASSUME NEW path \in Paths
      PROVE  SaveSound(path)'
  <2>1. CASE pending'[path] = Absent
    BY <2>1 DEF SaveSound
  <2>2. CASE pending'[path] # Absent
    <3>1. pending'[path] = pending[path]
      BY <1>2, <2>2 DEF Settled
    <3>2. \A r \in Slots : tasks[r].path = path /\ tasks[r].source = pending[path] => Stays(r)
      BY <1>1, <1>2, <2>2 DEF Settled
    <3> QED BY <3>1, <3>2, SaveKept
  <2> QED BY <2>1, <2>2
<1> QED BY <1>3 DEF SavesUnderWay, SaveSound

(* Taking the answer of a task off the stream leaves those of the others.  *)
LEMMA TakesAnswer ==
  ASSUME TypeOK, inbox # <<>>, inbox' = Tail(inbox)
  PROVE  \A i \in DOMAIN inbox :
           inbox[i] = Head(inbox) \/ \E j \in DOMAIN inbox' : inbox'[j] = inbox[i]
<1>1. inbox \in Seq(Message)
  BY DEF TypeOK, Message
<1>2. inbox[1] = Head(inbox)
  BY <1>1, TailFacts
<1>3. \A i \in DOMAIN inbox : i # 1 => \E j \in DOMAIN inbox' : inbox'[j] = inbox[i]
  BY <1>1, TailKeeps
<1> QED BY <1>2, <1>3

(* Neither a task that is owed nothing, nor one whose answer to a write    *)
(* arrives, leads on to a write.                                           *)
LEMMA IdleStays ==
  ASSUME NEW s \in Slots, Settles(s)
  PROVE  Stays(s)
BY DEF Settles, Stays, StillPushed

LEMMA SavesPushStarts ==
  ASSUME TasksInv, HistoriesGrow, SavesUnderWay, TypeOK', NEW s \in Slots, NEW path \in Paths,
         PushStarts(s, path)
  PROVE  SavesUnderWay'
<1> PICK id \in Owner(path) :
      LET t == [kind |-> "push", phase |-> "get", id |-> id, path |-> path,
                source |-> files[path], base |-> BaseOf(id, path), seen |-> Absent]
      IN  Step(s, t) /\ Send(s, "get", t)
  BY DEF PushStarts
<1> DEFINE t == [kind |-> "push", phase |-> "get", id |-> id, path |-> path,
                 source |-> files[path], base |-> BaseOf(id, path), seen |-> Absent]
           r == [slot |-> s, op |-> "get", id |-> t.id, path |-> t.path, source |-> t.source]
<1>1. /\ tasks \in [Slots -> Task \cup {Absent}] /\ wire \in Seq(Request) /\ TypeOK
      /\ pending \in [Paths -> Sources \cup {Absent}]
  BY DEF TasksInv, TypeOK
<1>2. /\ Step(s, t) /\ wire' = Append(wire, r) /\ tasks[s] = Absent
      /\ UNCHANGED <<files, noticed, inbox, pending>> /\ timers' = timers \ {path}
  BY DEF Send, PushStarts, FirstFree, Free, world, history
<1>3. tasks' = [tasks EXCEPT ![s] = t]
  BY <1>2 DEF Step
<1>4. t.path = path /\ t.source = files[path] /\ r.slot = s
  OBVIOUS
<1>5. t # Absent
  <2>1. tasks'[s] \in Task \cup {Absent} /\ tasks'[s] = t
    BY <1>1, <1>3 DEF TypeOK
  <2>2. id \in Ids
    BY <1>1, OwnerType
  <2>3. t \in Task
    <3>1. files[path] \in Sources
      BY <1>1 DEF PushStarts, Pushable, TypeOK, Files
    <3> QED BY <1>1, <2>2, <3>1, BaseType DEF Task, Phases
  <2> HIDE DEF t
  <2> QED BY <2>3, TaskAssumption
<1> HIDE DEF t, r
<1>6. /\ \A i \in DOMAIN wire : \E j \in DOMAIN wire' : wire'[j] = wire[i]
      /\ \E j \in DOMAIN wire' : wire'[j] = r
  <2>1. wire \in Seq(Request) /\ wire' = Append(wire, r)
    BY <1>1, <1>2
  <2> QED BY <2>1, AppendKeeps
<1>7. \A q \in Slots : q # s => tasks'[q] = tasks[q]
  BY <1>1, <1>3
<1>8. \A q \in Slots : Stays(q)
  <2>1. \A q \in Slots : q # s => Stays(q)
    BY <1>2, <1>6, <1>7, StaysPut DEF QueuesKeep
  <2> QED BY <1>2, <2>1 DEF Stays
<1>9. UnderWay(path)'
  <2>1. tasks'[s] = t
    BY <1>1, <1>3
  <2>2. StillPushed(s)'
    BY <1>4, <1>6 DEF StillPushed, Asks
  <2> QED BY <1>2, <1>4, <1>5, <2>1, <2>2 DEF UnderWay
<1>10. SaveSound(path)'
  BY <1>2, <1>9 DEF SavesUnderWay, SaveSound
<1>11. \A other \in Paths : other # path => SaveSound(other)'
  BY <1>2, <1>8, SaveKept
<1> QED BY <1>10, <1>11 DEF SavesUnderWay, SaveSound

(* A push goes on after its answer.                                        *)
LEMMA SavesPush ==
  ASSUME TasksInv, HistoriesGrow, SavesUnderWay, TypeOK', NEW s \in Slots, pushFile(s)
  PROVE  SavesUnderWay'
<1>0. /\ TypeOK /\ SocketTrue /\ wire \in Seq(Request) /\ inbox \in Seq(Message)
      /\ tasks \in [Slots -> Task \cup {Absent}]
  BY DEF TasksInv, TypeOK, SocketTrue, Message
<1>1. \A t : Over(s) \/ Step(s, t) => \A r \in Slots : r # s => tasks'[r] = tasks[r]
  BY DEF Over, Step, TasksInv, TypeOK
<1>2. \A t : Step(s, t) => tasks'[s] = t
  BY DEF Step, TasksInv, TypeOK
<1>3. tasks[s] # Absent /\ tasks[s].phase \in Awaiting =>
        tasks[s] \in Task /\ tasks[s].kind = "push"
  BY <1>0 DEF TasksInv, TasksSound, TaskSound, Task, Awaiting
<1>4. ASSUME NEW phases, HasAnswer(s, phases), inbox' = Tail(inbox)
      PROVE  /\ tasks[s] \in Task /\ tasks[s].kind = "push"
             /\ \A r \in Slots : r # s => \A i \in DOMAIN inbox : Answers(i, r) =>
                  \E j \in DOMAIN inbox' : inbox'[j] = inbox[i]
  <2>1. 1 \in DOMAIN inbox /\ inbox[1] = Head(inbox) /\ Answers(1, s)
    BY <1>0, <1>4, TailFacts DEF HasAnswer, Answers
  <2>2. tasks[s] # Absent /\ tasks[s].phase \in Awaiting
    BY <1>0, <2>1 DEF SocketTrue, AnswersTrue
  <2>3. \A r \in Slots : r # s => \A i \in DOMAIN inbox : Answers(i, r) => inbox[i] # Head(inbox)
    BY <1>4 DEF HasAnswer, Answers
  <2> QED BY <1>0, <1>3, <1>4, <2>2, <2>3, TakesAnswer DEF HasAnswer
<1>5. ASSUME NEW phases, HasAnswer(s, phases), inbox' = Tail(inbox), Over(s), UNCHANGED wire,
             UNCHANGED <<files, noticed, timers>>, Reported(tasks[s])
      PROVE  SavesUnderWay'
  <2>1. pending' = Settled(pending, {tasks[s].path}, tasks[s].source)
    BY <1>4, <1>5 DEF Reported
  <2>2. \A r \in Slots : r # s => tasks'[r] = tasks[r] /\ QueuesKeep(r)
    BY <1>1, <1>4, <1>5 DEF QueuesKeep
  <2> QED BY <1>5, <2>1, <2>2, SavesStep
<1>6. ASSUME NEW phases, HasAnswer(s, phases), inbox' = Tail(inbox), NEW op,
             NEW t, t # Absent, Step(s, t), Send(s, op, tasks[s]), UNCHANGED pending,
             t.path = tasks[s].path, t.source = tasks[s].source,
             UNCHANGED <<files, noticed, timers>>
      PROVE  SavesUnderWay'
  <2> DEFINE r == [slot |-> s, op |-> op, id |-> tasks[s].id, path |-> tasks[s].path,
                   source |-> tasks[s].source]
  <2>1. wire' = Append(wire, r) /\ r.slot = s
    BY <1>6 DEF Send
  <2> HIDE DEF r
  <2>2. /\ \A i \in DOMAIN wire : \E j \in DOMAIN wire' : wire'[j] = wire[i]
        /\ \E j \in DOMAIN wire' : wire'[j] = r
    BY <1>0, <2>1, AppendKeeps
  <2>3. tasks'[s] = t /\ StillPushed(s)'
    BY <1>2, <1>6, <2>1, <2>2 DEF StillPushed, Asks
  <2>4. Stays(s)
    BY <1>6, <2>3 DEF Stays
  <2>5. \A q \in Slots : q # s => tasks'[q] = tasks[q] /\ QueuesKeep(q)
    BY <1>1, <1>4, <1>6, <2>2 DEF QueuesKeep
  <2> QED BY <1>6, <2>4, <2>5, SavesStep
<1>7. CASE PushDecides(s)
  <2> DEFINE t == tasks[s]
             there == Head(inbox).seen
             op == IF there = Absent THEN "folders" ELSE "extend"
             next == [[t EXCEPT !.seen = there] EXCEPT !.phase = op]
  <2>1. /\ HasAnswer(s, {"get"}) /\ inbox' = Tail(inbox)
        /\ UNCHANGED <<files, noticed, timers>>
    BY <1>7 DEF PushDecides, world
  <2>2. \/ Over(s) /\ Reported(tasks[s]) /\ UNCHANGED wire
        \/ Step(s, next) /\ Send(s, op, tasks[s]) /\ UNCHANGED pending
    BY <1>7 DEF PushDecides
  <2>3. t \in Task /\ there \in Sources \cup {Absent}
    BY <1>0, <1>4, <2>1, PopType DEF HasAnswer, Answer
  <2>4. op \in Phases
    BY DEF Phases
  <2> HIDE DEF there, op
  <2>5. next.path = t.path /\ next.source = t.source /\ next \in Task
    <3> HIDE DEF t
    <3> DEFINE mid == [t EXCEPT !.seen = there]
    <3>1. mid \in Task /\ mid.path = t.path /\ mid.source = t.source
      BY <2>3 DEF Task
    <3> HIDE DEF mid
    <3>2. LET u == [mid EXCEPT !.phase = op]
          IN  u \in Task /\ u.path = mid.path /\ u.source = mid.source
      BY <2>4, <3>1 DEF Task
    <3> QED BY <3>1, <3>2 DEF mid
  <2> HIDE DEF next
  <2>6. next # Absent
    BY <2>5, TaskAssumption
  <2> QED BY <1>5, <1>6, <2>1, <2>2, <2>5, <2>6
<1>8. CASE PushCreates(s)
  <2> DEFINE t == tasks[s]
             next == [t EXCEPT !.phase = "create"]
  <2>1. /\ HasAnswer(s, {"folders"}) /\ inbox' = Tail(inbox) /\ Step(s, next)
        /\ Send(s, "create", tasks[s])
        /\ UNCHANGED <<files, noticed, timers, pending>>
    BY <1>8 DEF PushCreates, world, memory, history
  <2>2. t \in Task
    BY <1>4, <2>1
  <2> HIDE DEF t
  <2>3. next.path = t.path /\ next.source = t.source /\ next \in Task
    BY <2>2 DEF Task, Phases
  <2> HIDE DEF next
  <2>4. next # Absent
    BY <2>3, TaskAssumption
  <2> QED BY <1>6, <2>1, <2>3, <2>4 DEF t
<1>9. CASE PushRecords(s)
  <2>1. /\ HasAnswer(s, {"extend", "create"}) /\ inbox' = Tail(inbox) /\ Head(inbox).ok
        /\ Step(s, [tasks[s] EXCEPT !.phase = "save"])
        /\ UNCHANGED <<files, noticed, timers, pending, wire>>
    BY <1>9 DEF PushRecords, world, history
  <2>2. /\ \A i \in DOMAIN wire : ~Asks(i, s)
        /\ \A i \in DOMAIN inbox : Answers(i, s) => inbox[i] = Head(inbox)
    <3>1. 1 \in DOMAIN inbox /\ inbox[1] = Head(inbox)
      BY <1>0, <2>1, TailFacts DEF HasAnswer
    <3>2. Answers(1, s)
      BY <2>1, <3>1 DEF HasAnswer, Answers
    <3> QED BY <1>0, <3>1, <3>2 DEF SocketTrue, OneOutstanding
  <2>3. Stays(s)
    BY <2>1, <2>2 DEF Stays, StillPushed, HasAnswer
  <2>4. \A r \in Slots : r # s => tasks'[r] = tasks[r] /\ QueuesKeep(r)
    BY <1>1, <1>4, <2>1 DEF QueuesKeep
  <2> QED BY <2>1, <2>3, <2>4, SavesStep
<1>10. CASE PushFails(s)
  <2>1. /\ HasAnswer(s, Phases) /\ inbox' = Tail(inbox) /\ Over(s) /\ Reported(tasks[s])
        /\ UNCHANGED <<files, noticed, timers, wire>>
    BY <1>10 DEF PushFails, world, memory
  <2> QED BY <1>5, <2>1
<1>11. CASE PushTimesOut(s)
  <2>1. /\ Forget(s) /\ Over(s) /\ Reported(tasks[s]) /\ tasks[s] # Absent
        /\ tasks[s].phase \in Awaiting
        /\ UNCHANGED <<files, noticed, timers>>
    BY <1>11 DEF PushTimesOut, Free, world, memory, Awaiting
  <2>2. pending' = Settled(pending, {tasks[s].path}, tasks[s].source)
    BY <1>3, <2>1 DEF Reported
  <2>3. /\ DOMAIN inbox' = DOMAIN inbox /\ DOMAIN wire' = DOMAIN wire
        /\ \A i \in DOMAIN wire : wire[i].slot # s => wire'[i] = wire[i]
        /\ \A i \in DOMAIN inbox : ~Answers(i, s) => inbox'[i] = inbox[i]
    BY <2>1 DEF Forget, Answers
  <2>4. \A r \in Slots : r # s => tasks'[r] = tasks[r] /\ QueuesKeep(r)
    BY <1>1, <2>1, <2>3 DEF QueuesKeep, Asks, Answers
  <2> QED BY <2>1, <2>2, <2>4, SavesStep
<1> QED BY <1>7, <1>8, <1>9, <1>10, <1>11, SavesPushStarts DEF pushFile

(* An apply waits for nobody and leaves the saves alone: what it writes,   *)
(* chokidar has to report.  So does a save of the manifest.                *)
LEMMA SavesApply ==
  ASSUME TasksInv, HistoriesGrow, SavesUnderWay, NEW s \in Slots,
         applyRemoteChange(s) \/ saveManifest(s)
  PROVE  SavesUnderWay'
<1>0. /\ TypeOK /\ SocketTrue /\ tasks \in [Slots -> Task \cup {Absent}]
      /\ inbox \in Seq(Message) /\ files \in Files
  BY DEF TasksInv, TypeOK, SocketTrue, Message
<1>1. CASE ApplyStarts(s)
  <2>1. /\ inbox # <<>> /\ inbox' = Tail(inbox) /\ Head(inbox).type = "event"
        /\ \E t : tasks' = [tasks EXCEPT ![s] = t]
        /\ tasks[s] = Absent
        /\ UNCHANGED <<files, noticed, timers, pending, wire>>
    BY <1>1 DEF ApplyStarts, Step, FirstFree, Free, world, memory, history
  <2>2. \A r \in Slots : QueuesKeep(r)
    BY <1>0, <2>1, TakesAnswer DEF QueuesKeep, Answers
  <2>3. \A r \in Slots : r # s => tasks'[r] = tasks[r]
    BY <1>0, <2>1
  <2>4. Stays(s)
    BY <2>1 DEF Stays
  <2> QED BY <2>1, <2>2, <2>3, <2>4, SavesStep
<1>2. ASSUME UNCHANGED <<wire, inbox>>, \E t : tasks' = [tasks EXCEPT ![s] = t],
             tasks[s] # Absent, tasks[s].phase \notin Awaiting
      PROVE  /\ \A r \in Slots : r # s => tasks'[r] = tasks[r] /\ QueuesKeep(r)
             /\ Stays(s)
  <2>1. \A r \in Slots : r # s => tasks'[r] = tasks[r] /\ QueuesKeep(r)
    BY <1>0, <1>2 DEF QueuesKeep
  <2> QED BY <1>0, <1>2, <2>1, IdleSettles, IdleStays
<1>3. CASE ApplyReads(s) \/ ApplyFails(s) \/ ApplyRecords(s)
  <2>1. /\ UNCHANGED <<files, noticed, timers, wire, inbox>>
        /\ \E t : tasks' = [tasks EXCEPT ![s] = t]
        /\ tasks[s] # Absent /\ tasks[s].phase \in {"read", "write", "wrote"}
        /\ pending' = pending \/ Reported(tasks[s])
    BY <1>3 DEF ApplyReads, ApplyFails, ApplyRecords, Over, Step, Free, world, memory, socket,
       history
  <2>2. tasks[s].kind # "push"
    BY <2>1 DEF TasksInv, TasksSound, TaskSound, Awaiting
  <2>3. UNCHANGED pending
    BY <2>1, <2>2 DEF Reported
  <2> QED BY <1>2, <2>1, <2>3, SavesStep DEF Awaiting
<1>4. CASE ApplyWrites(s)
  <2> DEFINE t == tasks[s]
  <2>1. /\ files' = [files EXCEPT ![t.path] = t.source] /\ noticed' = noticed \cup {t.path}
        /\ UNCHANGED <<timers, wire, inbox, pending>>
        /\ \E u : tasks' = [tasks EXCEPT ![s] = u]
        /\ t # Absent /\ t.phase = "write"
    BY <1>4 DEF ApplyWrites, Step, Free, socket
  <2>2. \A r \in Slots : Stays(r)
    BY <1>2, <2>1, StaysPut DEF Awaiting
  <2>3. \A path \in Paths : path = t.path => SaveSound(path)'
    BY <2>1 DEF SaveSound, SavesUnderWay, UnderWay
  <2>4. \A path \in Paths : path # t.path => SaveSound(path)'
    BY <1>0, <2>1, <2>2, SaveKept DEF Files
  <2> QED BY <2>3, <2>4 DEF SavesUnderWay, SaveSound
<1>5. CASE saveManifest(s)
  <2>1. /\ UNCHANGED <<files, noticed, timers, pending, wire, inbox>>
        /\ tasks[s] # Absent /\ tasks[s].phase \notin Awaiting
        /\ \E t : tasks' = [tasks EXCEPT ![s] = t]
    BY <1>5 DEF saveManifest, SaveStarts, SaveEnds, SaveFails, Over, Free, world, memory,
       socket, history, Awaiting
  <2> QED BY <1>2, <2>1, SavesStep
<1> QED BY <1>1, <1>3, <1>4, <1>5 DEF applyRemoteChange

LEMMA SavesLate ==
  ASSUME TasksInv, HistoriesGrow, SavesUnderWay, LateAnswer \/ EventIgnored
  PROVE  SavesUnderWay'
<1>1. /\ inbox # <<>> /\ inbox' = Tail(inbox)
      /\ Head(inbox).type = "event" \/ Head(inbox).slot = Absent
      /\ UNCHANGED <<files, tasks, noticed, timers, pending, wire>>
  BY DEF LateAnswer, EventIgnored, world, memory, work, history
<1>2. \A r \in Slots : QueuesKeep(r)
  BY <1>1, TakesAnswer, TaskAssumption DEF QueuesKeep, Answers, TasksInv
<1>3. \A r \in Slots : Stays(r)
  BY <1>1, <1>2, StaysPut
<1>4. \A path \in Paths : SaveSound(path)'
  BY <1>1, <1>3, SaveKept
<1> QED BY <1>4 DEF SavesUnderWay, SaveSound

LEMMA SavesRestart ==
  ASSUME Restart
  PROVE  SavesUnderWay'
BY DEF Restart, SavesUnderWay

(* Every step keeps a save under way, or settles it.                       *)
LEMMA SavesNext ==
  ASSUME TasksInv, EchoesKnown, HistoriesGrow, SavesUnderWay, TypeOK', [Next]_vars
  PROVE  SavesUnderWay'
<1>1. CASE People
  BY <1>1, SavesPeople
<1>2. CASE System
  BY <1>2, SavesPush, SavesApply, SavesTimers, SavesLate, SavesServer, SavesAdapter DEF System
<1>3. CASE Restart
  BY <1>3, SavesRestart
<1>4. CASE UNCHANGED vars
  BY <1>4, SavesOutside DEF vars, world, memory, work, socket, history
<1> QED BY <1>1, <1>2, <1>3, <1>4 DEF Next

-----------------------------------------------------------------------------
(* The theorems                                                            *)

(* The initial state satisfies the invariant.                              *)
LEMMA InvInit == Init => TasksInv
<1> SUFFICES ASSUME Init PROVE TasksInv
  OBVIOUS
<1>1. TypeOK
  BY TypeInit
<1>2. HistoriesTrue
  <2>1. ASSUME NEW path \in Paths, files[path] # Absent PROVE files[path] \in onDisk[path]
    BY <2>1 DEF Init, Content
  <2>2. ASSUME NEW id \in Ids, objects[id] \notin {Absent, Stub}
        PROVE  objects[id].source \in onServer[id]
    <3>1. InSource(objects[id]) = objects[id].source
      BY <2>2 DEF InSource
    <3>2. objects[id].source # Absent
      BY <1>1, <2>2, MarkersAssumption DEF TypeOK, Script
    <3> QED BY <3>1, <3>2 DEF Init, Content
  <2> QED BY <2>1, <2>2 DEF HistoriesTrue
<1>3. BasesShared(saved) /\ entries = saved
  <2> SUFFICES ASSUME NEW id \in Ids, saved[id] # Absent
               PROVE  saved[id].base \in onDisk[saved[id].path] \cap onServer[id]
    BY DEF Init, BasesShared
  <2>1. saved[id].path \in Paths
    BY <1>1 DEF TypeOK, Manifests, Entry
  <2>2. id \in findByPath(saved, saved[id].path)
    BY DEF findByPath
  <2> QED BY <2>1, <2>2 DEF Init
<1>4. BaseWasShared
  BY <1>3 DEF Init, BaseWasShared, BasesShared, emptyManifest
<1> QED BY <1>1, <1>2, <1>4
        DEF Init, TasksInv, TasksSound, WireTrue, AnswersTrue, EventsTrue, OneOutstanding

(* Every step keeps the invariant.                                         *)
LEMMA InvNext == TasksInv /\ [Next]_vars => TasksInv'
<1> SUFFICES ASSUME TasksInv, [Next]_vars PROVE TasksInv'
  OBVIOUS
<1>1. TypeOK'
  BY TypeNext DEF TasksInv
<1>2. HistoriesGrow /\ HistoriesTrue'
  BY <1>1, Histories
<1>3. BaseWasShared' /\ TasksSound' /\ SocketTrue'
  BY <1>1, <1>2, Bases, AllSound, SocketNext
<1> QED BY <1>1, <1>2, <1>3 DEF TasksInv, SocketTrue

LEMMA TasksInvariant == Spec => []TasksInv
BY InvInit, InvNext, PTL DEF Spec

(* watch starts with nothing applied and nothing saved.                    *)
LEMMA InvStarts == Init => EchoesKnown /\ SavesUnderWay
BY DEF Init, EchoesKnown, SavesUnderWay

(* The inductive invariant holds in every state of watch: a request is     *)
(* outstanding for a task exactly while the task waits for it, every       *)
(* answer finds the task that asked, the echo map holds only contents that *)
(* have come from the server, and no save of another content is given up   *)
(* in silence.                                                             *)
THEOREM Invariant == Spec => []IInv
<1>1. Init => IInv
  BY InvInit, InvStarts DEF IInv
<1>2. ASSUME IInv, [Next]_vars
      PROVE  IInv'
  <2>1. TasksInv /\ TasksInv' /\ TypeOK'
    BY <1>2, InvNext DEF IInv, TasksInv
  <2>2. HistoriesGrow
    BY <1>2, <2>1, Histories
  <2> QED BY <1>2, <2>1, <2>2, EchoesNext, SavesNext DEF IInv
<1> QED BY <1>1, <1>2, PTL DEF Spec

(* Every variable of watch keeps its type.                                 *)
THEOREM TypeCorrect == Spec => []TypeOK
<1>1. TasksInv => TypeOK
  BY DEF TasksInv
<1> QED BY <1>1, TasksInvariant, PTL

(* A base in memory, on disk or about to be written is a content both      *)
(* sides have had, however many tasks and saves overlap.                   *)
THEOREM SharedBase == Spec => []BaseWasShared
<1>1. TasksInv => BaseWasShared
  BY DEF TasksInv
<1> QED BY <1>1, TasksInvariant, PTL

(* watch never writes over a tracked file it has read and the server has   *)
(* not had.                                                                *)
THEOREM KeepsUnsyncedFile == Spec => WatchKeepsUnsyncedFile
<1> DEFINE Keeps == \A s \in Slots : LET t == tasks[s] IN
              /\ ApplyWrites(s)
              /\ t.base # Absent
              /\ files[t.path] # Absent
              /\ files[t.path] = t.seen
              => files[t.path] \in onServer[t.id] \cup {t.source}
<1>1. ASSUME TasksInv PROVE Keeps
  <2> SUFFICES ASSUME NEW s \in Slots, ApplyWrites(s), tasks[s].base # Absent,
                      files[tasks[s].path] # Absent, files[tasks[s].path] = tasks[s].seen
               PROVE  tasks[s].seen \in onServer[tasks[s].id] \cup {tasks[s].source}
    OBVIOUS
  <2>1. /\ tasks[s] # Absent /\ tasks[s].phase = "write"
    BY DEF ApplyWrites, Free
  <2>2. TaskSound(tasks[s], onDisk, onServer) /\ tasks[s] \in Task
    BY <1>1, <2>1 DEF TasksInv, TasksSound, TypeOK
  <2>3. tasks[s].kind # "push"
    BY <2>1, <2>2 DEF TaskSound, Awaiting
  <2> QED BY <2>1, <2>2, <2>3 DEF TaskSound
<1>2. TasksInv => [Keeps]_vars
  BY <1>1
<1> HIDE DEF Keeps
<1>3. Spec => [][Keeps]_vars
  BY <1>2, TasksInvariant, PTL
<1> QED BY <1>3 DEF WatchKeepsUnsyncedFile, Keeps

(* A push of an edited, tracked file never writes over a source it has     *)
(* seen and the file has not had.                                          *)
THEOREM KeepsUnsyncedScript == Spec => WatchKeepsUnsyncedScript
<1> DEFINE Keeps == \A s \in Slots : LET t == tasks[s] IN
              /\ ServerWrites
              /\ Head(wire).slot = s
              /\ t.base # Absent /\ t.source # t.base
              /\ t.seen # Absent
              /\ InSource(objects[t.id]) = t.seen
              => t.seen \in onDisk[t.path]
<1>1. ASSUME TasksInv PROVE Keeps
  <2> SUFFICES ASSUME NEW s \in Slots, ServerWrites, Head(wire).slot = s,
                      tasks[s].base # Absent, tasks[s].source # tasks[s].base,
                      tasks[s].seen # Absent
               PROVE  tasks[s].seen \in onDisk[tasks[s].path]
    OBVIOUS
  <2>1. wire # <<>> /\ Head(wire).op \in {"extend", "create"}
    BY DEF ServerWrites
  <2>2. 1 \in DOMAIN wire /\ wire[1] = Head(wire)
    BY <1>1, <2>1, TailFacts DEF TasksInv, TypeOK
  <2>3. tasks[s] # Absent /\ tasks[s].phase \in {"extend", "create"}
    BY <1>1, <2>1, <2>2 DEF TasksInv, WireTrue, Asks
  <2>4. TaskSound(tasks[s], onDisk, onServer) /\ tasks[s] \in Task
    BY <1>1, <2>3 DEF TasksInv, TasksSound, TypeOK
  <2>5. tasks[s].kind = "push"
    BY <2>3, <2>4 DEF TaskSound, Task
  <2> QED BY <2>3, <2>4, <2>5 DEF TaskSound
<1>2. TasksInv => [Keeps]_vars
  BY <1>1
<1> HIDE DEF Keeps
<1>3. Spec => [][Keeps]_vars
  BY <1>2, TasksInvariant, PTL
<1> QED BY <1>3 DEF WatchKeepsUnsyncedScript, Keeps

(* Once nothing is under way, a save whose content is still in the file    *)
(* has been spared: it was taken for an echo.                              *)
LEMMA OnlySpared ==
  ASSUME IInv, Quiet, NEW path \in Paths, pending[path] # Absent,
         files[path] = pending[path]
  PROVE  Spared(path)
<1>1. ~UnderWay(path)
  BY DEF UnderWay, Quiet, Free
<1> QED BY <1>1 DEF IInv, SavesUnderWay

(* Without --pull, whatever fails and however tasks overlap: once nothing  *)
(* is under way, what a file still holds of the user's last save is on the *)
(* server, or a conflict, an error or a dry run was reported for it.       *)
THEOREM SavesArrive ==
  ASSUME ~WithPull
  PROVE  Spec => []SavesReachServer
<1>1. IInv => SavesReachServer
  BY OnlySpared DEF SavesReachServer, Spared
<1> QED BY <1>1, Invariant, PTL

(* With --pull, a save may be taken for an echo of what watch has applied; *)
(* but one of a content the server has never had gets there, or a          *)
(* conflict, an error or a dry run is reported for it, however many pushes *)
(* and applies overlap, whatever fails and whoever deletes.                *)
THEOREM NewSavesArrive == Spec => []NewSavesReachServer
<1>1. IInv => NewSavesReachServer
  BY OnlySpared DEF NewSavesReachServer, Spared
<1> QED BY <1>1, Invariant, PTL

=============================================================================
