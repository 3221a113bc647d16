# Formal model of iob-sync

iob-sync keeps a folder of script files in step with the script objects of a
running ioBroker server. The modules in this directory model its engine in
TLA+: `pull` and `push` as processes beside the people who edit both ends,
`watch` with its overlapping tasks, the commands that create, rename, move,
remove, start, stop and back up scripts, the websocket client all of them talk
through, and what happens before any of them is let in: configuration,
certificates, login and stored passwords. TLC checks small instances; TLAPS
proves every safety property those runs check for every value of the
constants.

All paths below are relative to `src/` of the repository; `commands/`,
`sync/` and `client/` are under its `src/src/`.

Run a check with `tlc -config MCSyncRace.cfg MCSync.tla`, a proof with
`tlapm SyncProofs.tla`.

## Inventory

One command line tool, one process per invocation, no daemon. Five pieces of
state outlive a process: the script folder, the script objects (and their
marker states) on the server, and the manifest `.iobroker-sync/state.json`,
which records for each script id the path it was synchronised to, the hash of
the content both sides had then (`baseHash`) and the engine type, the
configuration `.iobroker-sync.json` with the fingerprint of the instance's
certificate, and one credentials file in the user's home for all projects.
What commands delete goes to `.iobroker-sync/trash`, what `backup` copies to
`.iobroker-sync/backup`. Nothing is locked anywhere: two commands, an editor and the Admin web interface share all
of it.

| component | state | operations | what is hard | what makes it correct |
| --- | --- | --- | --- | --- |
| Comparison: `sync/mapping.ts`, `sync/scan.ts`, `sync/compare.ts` | none | id ↔ path, scan of either side, three-way status | the base is all it has to go by; unknown engine types; two extensions, one id | a state says what it means: only a file equal to its base is "remote-modified" |
| Manifest: `sync/manifest.ts` | `state.json` | load, save (temporary file and rename), upsert, remove, find by path | whole-file saves of concurrent commands; a corrupt file counts as empty | a base is a content both sides have had; no script's file is uploaded as a second script |
| `pull`, `push` | what they loaded and scanned | compare, then one awaited write per script, one save at the end | edits between scan and write; a death or a lost answer in mid-loop; `--force`, patterns | no unsynced edit is taken for an old version; a second run finds nothing to do |
| `watch` | manifest in memory, `lastPushedHash`, `lastWrittenHash`, timers | push on save, apply object events (`--pull`), save the manifest after each | tasks overlap at every await; echoes of its own writes in both directions; no order between the file system and the server's events | what is saved reaches the server; no unsynced content is replaced; echoes die out |
| `rename`, `move`, `remove`, `new` | what they fetched | copy, read back, back up, delete, sweep markers, move the file, update the manifest | seven to eleven awaits, each of which others can step between, and a death at each | nothing is destroyed that is not in the trash; a rename keeps what is unsynced |
| `start`, `stop`, `restart` | the scripts listed | one request per script; a restart pauses between two | a listing that is stale when used, a death in the pause | every target ends as promised |
| Markers: `client/objects.ts` | value and object of each marker | list (two halves), delete value, then object | a half that cannot be read, an owner that writes the value again | no value without its object |
| Admin socket client: `client/socket.ts` | websocket, `ready`, `connectPromise`, `userClosed`, `idCounter`, pending requests, handlers | connect, close, emit, subscribe; answers, drops, timeouts | an answer after the timeout, the 'close' of one socket while the next is used, a drop before ready | every promise settles, by its own answer or with its socket |
| Backups: `commands/backup.ts` | a directory per run | list, then one object and one source per script, the manifest last | a write that fails or a death half way; two runs with one timestamp | a snapshot with a manifest is whole |
| Authentication, TLS: `client/auth.ts`, `client/tls.ts`, `commands/trust.ts` | the pin, in the config and in memory | probe, judge, record; GET /login, two login POSTs | a certificate that changes between the probe and a request; a failure in one login path leads to the other; an instance that hangs | no password goes to a certificate nobody accepted; every command ends |
| Credentials: `credentials.ts`, `commands/login.ts` | credentials file | read, merge and rename; empty and write in place | logins and logouts that overlap, in different projects; a torn or unreadable file | what is stored has worked |
| Configuration: `config.ts`, `commands/init.ts`, `commands/doctor.ts` | `.iobroker-sync.json` | load, write as a whole | a write that puts back what was loaded long ago | a pin stands beside the url it was accepted for; none is replaced unasked |
| CLI, prompts; `status`, `diff`, `list`, `logs`, `types` | none to speak of | parse, ask, print, write declaration files | | not modelled |

How they interact: a command calls the objects API, which calls the socket
client; `pull`, `push` and `status` compare through the pure functions;
everything that writes scripts goes through the manifest at the end. Before
any of that, every command that talks to the server loads the config, judges the
certificate and logs in. Commands meet one another only in the folder, the
files named above and the server.

The hazards this gives rise to are listed at their lines in `PROJECT.json`.

## Modules

| module | models |
| --- | --- |
| `SyncStatus` | mapping, scans, comparison, manifest helpers, as pure operators |
| `Sync` (`MCSync`, `SyncProofs`, `SyncSettleProofs`) | `pull` and `push` as processes, the user, Admin |
| `Watch` (`MCWatch`, `WatchProofs`) | one `watch` process, its tasks, the two directions of the wire, the javascript adapter that writes compiled scripts back, a `pull` in another terminal |
| `Destructive` (`MCDestructive`, `DestructiveProofs`) | `remove`, `rename`, `move`, `new`, `start`, `stop`, `restart`, `backup`, the markers, those who edit meanwhile |
| `Session` (`MCSession`, `SessionProofs`) | loading and writing the config, judging the certificate, logging in, storing passwords; `init`, `doctor`, `trust`, `login`, `logout` |
| `AdminSocket` (`MCSocket`, `SocketProofs`) | the socket client, websockets and server as its environment |
| `RequestContract` (`ContractProofs`) | what the client promises whoever sends a request through it |

`Sync`, `Watch` and `Destructive` extend `SyncStatus` and use its comparison,
naming functions and manifest operators. They do not contain the socket: an
await of theirs either returns what the server did, or the command fails with
the request carried out or not. That this is all an await can do is what
`RequestContract` states and `AdminSocket` is shown to implement. (The contract
also allows a request to be carried out after it was given up; `Watch`, where
a process lives on after such a failure, has that late arrival as actions of
its own: `PushTimesOut`, then the request is served from `wire`.) `Session`
ends where they begin, with the websocket opened by a command that was let in;
it shares no state with them.

### SyncStatus

A path is a pair of a stem and an extension, so that `idToRelPath` and
`relPathToId` keep their difference: the second forgets the extension, and
both go through naming functions (`StemOf`, `IdOf`) that stand for
sanitising. They need not undo one another, and in `sync_names` they do not:
"sun rise" has the file `sun rise.ts`, whose id is `sun_rise`. That they do
(`NamesRoundTrip`) is assumed only by the theorems on what a finished command
leaves behind; `NamesApart` (no two ids share a path) by a theorem about
backups. A source is a model value; a hash is modelled by the
content it is of. `Absent` is what is not there, `Stub` the object
`extendObject` makes when it merges into nothing (it has no type and is no
script). `computeStatus` returns a set of statuses; the order of the result is
`PathRank`, used where the code's loops follow it.

### Sync

A command is a process with a program counter: `Start` loads the manifest,
`ScanLocal` and `ScanRemote` are the two halves of the `Promise.all` in either
order, `Compare` is `computeStatus`, then the loop takes the statuses in path
order, `Pull` writing one file per step, `Push` reading (`PushRead`) and sending
(`PushSend`) in two. `Finish` saves the manifest if anything changed.
`Abort` is a rejected await or a kill at any point, `PullTorn` a death
inside `fs.writeFile`, `PushLost` an upload the server applied whose answer
never came. `--force`, `--dry-run` and patterns are fields of the command line.
`onDisk` and `onServer` record every content a file and a script have had.

### Watch

Each file event starts a `pushFile` task after its debounce, each object event
an `applyRemoteChange` task; a task is a record with a phase, and every await
of the code is a boundary between two phases. `wire` carries requests in order,
`inbox` answers and events in order: one stream, as on the websocket.
`lastPushed` and `lastWritten` are the code's two echo maps. `noticed` holds
changes chokidar has yet to report, which it may do before or after the
continuation of the write that caused them. `saveManifest` serialises and
renames in two steps, so saves overtake one another. `PullElsewhere` is another
command that pulls the script and saves its own manifest. `Restart` drops what lives
in memory and any suffix of what is on the wire.

### Destructive

A command's request line is followed by a record of steps (`renameSteps`,
`moveSteps`, ...) that names the order of its awaits; each phase is an action.
`touched` is a history of what others have changed since the command last read
or wrote it; the properties say what may be lost *only* if it was touched.
A marker has two halves; the listing may miss one half, a sweep may
fail between them, an owning instance may write its value again.
The server may store a copy wrongly (`MayMangle`), which is what the
read-back of `copyVerifyAndDelete` is for. Commands are modelled with `--yes`:
without it, and with `--dry-run`, they change nothing.

`backup` writes into a directory named by the time it starts (`Moments`), which
may be there already; `crowded` remembers the directories for which that was so.
Each of its files is written whole or left `Torn`, in which case the command is
over, as it is when the process dies there.

### Session

A command is a record of what it has in hand: the config as it loaded it
(`conf`), the certificate it has probed (`seen`), whether the user agreed, the
password and the path it is trying it on, the credentials file as it read it
(`view`). `Judgement` is the three functions that decide what a probed
certificate leads to; each answers with the next phase. `Verified` is what a
connection that carries a request will accept: `PinnedAgent` with the pin in
hand, or Node's default. `presents` may change between any two steps, so a probe
and the requests after it may meet different certificates.
The config is written by truncating and filling it in place (`TruncateConfig`,
`WriteConfig`), the credentials file by rename when saved and in place on
`logout`: whoever has the old file open writes into one without a name
(`orphaned`). The histories `trusted`, `worked`, `sent` and `recorded`
say which certificates and passwords were ever accepted, where secrets went, and
what a config held when it was last whole.

### AdminSocket

The client's fields are one record, so that 'error' followed by 'close' is the
composition `OnClose(OnError(..))` of its listeners. Websockets are numbered
in the order they are opened. A websocket fails at any point: refused, a frame it
cannot read, lost without a word, an unanswered closing handshake. The
server carries out a request when it likes, or never, also once the websocket
is closed. A request's number is visible in frames (`of`) for the
properties only; the code sees the id.

## Runs

Twelve runs. *Violation* runs show a disagreement between the code and a
sentence of the repository; they are the findings below.

| run | instance | shows |
| --- | --- | --- |
| `sync_race` | two commands, one script, edits at every await | recorded bases stay contents both sides had (`BaseWasShared`); a pull or push without `--force` that replaces what its scan saw replaces a content the other side has had (`PullKeepsUnsyncedFile`, `PushKeepsUnsyncedScript`); the inductive invariant `IInv` |
| `sync_quiet` | one command at a time with any flag, two scripts, patterns, deaths and torn files; nobody edits during a command | a pull that skipped nothing leaves a mirror of the scripts it matched and nothing to pull (`PullSettles`); a push that refused nothing leaves nothing to push, each file being on the server, as last synchronised, or that of a script deleted there (`PushSettles`); the inductive invariant `QuietInv` |
| `sync_names` | push, the ids "sun rise" and "sun_rise", files of two extensions, scripts moved to another instance, edits at every await | what push takes for a new file is unknown to the manifest when its turn comes, whatever its loop has recorded meanwhile (`LocalOnlyIsNew`, the branch push.ts:154 guards against); no script's own file is sent as a second script (`NoSecondScript`); a script that is disabled or moved by an upload had not been seen, or is known under another file (`PushReplacesUnseenOnly`) |
| `watch_push` | `watch`, three tasks, three edits, failures, late answers, restarts, a pull in another terminal | each save has reached the server, or is reported, when all is quiet (`SavesReachServer`); bases in memory, on disk and in half-written saves were shared; the push of an edited, tracked file replaces what `getScript` returned only if the file has had it (`WatchKeepsUnsyncedScript`); `IInv` |
| `watch_rest` | `watch --pull`, two edits, two tasks, three contents, failures; fairness | echoes in both directions, and the adapter's write-back, die out (`ComesToRest`); what the server has never had gets there, or is reported (`NewSavesReachServer`); an apply replaces what its task has read in a tracked file only if the server has had it (`WatchKeepsUnsyncedFile`) |
| `destructive` | one command of the eight, two edits by others anywhere, deaths, bad copies, failing writes | `DestroysOnlyBackedUp`, `OriginalOutlivesBadCopy`, `SweepLeavesNoValue`, `RenameKeepsState`, `TargetsSettled`, `SnapshotWhole`; `IInv` |
| `session_trust` | two commands on one config, two changes of certificate, config or reachability; fairness | `SecretsOnlyToTrusted`, `PinIsTrusted`, `BatchNeverRepins`, `CommandsEnd` |
| `session_store` | two commands, two accounts in two projects, one credentials file, failures anywhere | `StoredPasswordWorked`; `IInv` |
| `socket` | two websockets in turn, three requests, one change; fairness | nothing goes to the wrong request, nothing outlives its socket, `connected` means ready, every promise settles, the contract holds |
| `push_new_replaces` | violation | `foo.js` beside a TypeScript script `foo`: push disables the running script (README.md:145-148) |
| `pull_unknown_engine` | violation | an edited `.txt` file is overwritten by every pull (README.md:143-144) |
| `watch_undo` | violation | with `--pull`, a save that restores what watch once wrote is never pushed (README.md:123) |

`PushKeepsRunningState`, the property `push_new_replaces` violates, has no
passing run: what remains of it is `PushReplacesUnseenOnly`.
`SavesReachServer` holds without `--pull` and fails with it; what
holds with it is the weaker `NewSavesReachServer`: only a content the server has
had before may be dropped.

### Bounds, and why they are enough

- Two contents and an empty or a torn one suffice wherever a property compares
  two versions. `watch_push` and `watch_rest` have three, so that base, file
  and script can all differ.
- One script suffices for races: scripts share nothing but the
  manifest, which is saved whole; `sync_quiet`, `sync_names` and `destructive`
  have two, for lookups by path, patterns, a loop that goes on after it has
  recorded something, and the target of a rename. The user saves files of one
  stem in `sync_names`: the one that two ids could claim.
- Two commands in `sync_race` are enough for a save that drops the other's
  entries. One in `destructive`: all its properties speak of what
  a command did since it last read a thing, and a second command is to it one
  more of the others who edit, create and delete. (The proofs have any
  number.) Two moments: a directory that is there already, and a new one.
- Two commands in `session_trust` and `session_store`: one that writes
  a file between the other's read and write. `MaxChanges` two in the first: a
  certificate that changes and changes back, or changes and is followed by an
  edit; two certificates, one of which the CA store knows. Two accounts and two
  projects in the second: an entry that is not one's own.
- `MaxEdits` two in `destructive` lets one edit precede and one follow any
  await; in `watch_push` three let a save come while another is on its way and
  a third while its answer is.
- `MaxTasks` three in `watch_push`: a push, one that overtakes it, and one more
  that finds both under way. Two in `watch_rest`, of which `MaxPushes` leaves
  one to an apply: events and answers are one stream, and two pushes that wait
  for answers behind an event nobody is free to take would wait for ever, which
  the program, having no such limit, does not. `MaxEdits` two there: an edit
  while the echo of another is on its way, a second push that replaces the hash
  of the first. `MayTimeOut` is false in it (see "Deviations").
- `MaxConns` two: a client that connects again. `MaxCalls` three: one given up,
  one answered late, one that might be mistaken for it. `MaxChanges` one.
- `Eager = FALSE`: callers connect again only once the last websocket has
  closed. Every command in `commands/` connects once, and
  `test/client.test.ts` reconnects after an observed close. What happens
  otherwise is under "Deviations". `TypeOK` and
  `NothingMisdirected` do not depend on it: they are proved for both values, and
  TLC finds no violation with `Eager = TRUE` either.

### Fairness

`Sync` and `Destructive` are checked for safety only: no command there has to go
on. `Watch!LiveSpec` assumes weak fairness of `System`: the event loop
runs what is ready, and the server deals with what it is sent; nothing is
assumed of people, and nothing of how long a timer takes. `ComesToRest` therefore
excepts the one race that timing alone keeps from recurring for ever (`Outrun`): a timer
fires between a write and its entry in the echo map, in every round. `AdminSocket!LiveSpec` assumes that timers fire
and that ws ends a closing handshake nobody answers (its 30 s timeout);
nothing is assumed of the network, nor of the server. `Session!LiveSpec` assumes
that a command goes on when what it awaits is there, which the event loop
provides, and that the user answers a prompt; nothing is assumed of the
instance, which may hang for ever: the probe then ends by its own timeout.

## Proofs

All proofs are for every value of the constants: any number of scripts, files,
contents, commands, websockets and requests.

**SyncProofs.** `TypeCorrect`, `Invariance`, `BasesAreShared`,
`LocalOnlyNeverTracked`, `PullKeepsUnsynced`, `PushKeepsUnsynced`,
`NoScriptTwice`, `ReplacesUnseenOnly`.

`BaseWasShared` is not inductive: that the entry a command records is shared
rests on what the command has in hand. The invariant `IInv` adds that files,
objects, scans and uploads are contents their histories hold (`FilesOnDisk`,
`ObjectsOnServer`, `ScansOnServer`, `UploadsOnDisk`), that every status still
to be handled says what its scan justified (`TodoJustified`), and that a
local-only status shares its path with nothing else in hand
(`LocalOnlyApart`), which is why the lookup by path in push finds nothing.
Histories only grow, so a step of one actor disturbs these only through its own
variables: one lemma says what is *kept* by growth, and each action re-proves
the conjuncts it writes. The two action properties follow from the invariant:
what an unforced command replaces is a base, and a base was shared.
`NoScriptTwice` and `ReplacesUnseenOnly` rest on a second invariant, `AllApart`:
from the comparison to the last upload, no local-only status in a command's plan
or hand stands for a file in which a script the command has seen is kept.
`computeStatus` sets that up by claiming the path of every script and entry before
it looks at what is left (`LocalOnlyUnplaced`), and the loop keeps it: what it
records is the path of the status in hand, which no local-only status still to
come shares (`LocalOnlyApart`).
Assumed: `SyncAssumption` and what `SyncStatus` says of its constants, nothing
of how names are derived.

**SyncSettleProofs.** `PlansStayTrue`, `PullIsSettled`, `PushIsSettled`,
`InSyncIsEqual`: what a command leaves behind where nothing
interferes. They assume `OneAtATime` (one command, no edit while it runs: with either, what was
compared is not what is there at the end), `NamesRoundTrip` and `KnownEngines`
(nobody saves a script of an engine type `scanLocal` has no extension for;
`pull_unknown_engine` is what happens otherwise). `PushIsSettled` also assumes
`OneType`, one extension in the folder: with two, the script that
`push_new_replaces` replaces leaves its old file behind as work for the next push.
The properties say what the comparison would find *after* the last step, so the
invariant `QuietInv` says it of every state on the way: whatever a
comparison made now would still give a pull to do is in its plan
(`PullKeepsPlan`), a push has it in its plan or in hand (`PushKeepsPlan`), and
what either has read is still so (`ScansCurrent`). `PlansStayTrue` is that
invariant, without `OneType`. It is inductive together
with `IInv` and the stems of tracked paths (`AllNamed`). The step that carries the
proof is a write at one id and one path. Five lemmas about `computeStatus`
say that it settles that script (`StatusRecorded`) and leaves the status of
every other as it was (`StatusElsewhere`, `LocalOnlyElsewhere`), which is
where paths must tell scripts apart. `ScriptReported`, `FileReported` and
`InSyncIsEqual` turn an empty plan into contents: no script and no file
goes unreported, and what is reported in sync is equal.

**SocketProofs.** In two parts. `SocketTypeOK` and `NothingGoesAstray` hold
whoever calls what and when, `Eager` or not. Their invariant `Routed` says
nothing of websockets: an id in the table has been given out and its request
waits (`Waiting`), ids are fresh (`IdsFresh`), and a frame on any wire names the
request its id stands for, or one that is settled (`FramesNamed`); what a
handler is for has been asked (`Settled`). A close, an error, a timeout, a
drop, of whichever websocket, is an instance of one relation, `Loses`: requests
fail, their entries go, no entry changes hands. `LossRouted` shows once that
this keeps `Routed`, and only sending, answering and reading a frame need
proofs of their own.
`NoRequestOutlivesItsSocket` and `ConnectedIsReady` assume `~Eager`, and need to,
see "Deviations". They add `Linked`: at most one websocket is alive, and it is
the client's (`OneAlive`); `ready` and every pending request stand for that
websocket, open or closing, and ready (`ReadyAlive`, `OpenReady`,
`PendingAlive`). The steps that take a websocket down (close, connect timeout,
refusal, error, 'close') are shown to be instances of `Drops`, which is then
shown once to preserve `Linked`.

**ContractProofs.** `SocketImplementsContract`: `Spec` implements
`RequestContract` with `link` up when the client is `connected`. Each step
is mapped to a step of the contract or to none; one more conjunct is needed, that
what waits has its entry in the table (`WaitingPending`), since a connection
may only become usable when nothing waits on an earlier one. It assumes `~Eager`.

**WatchProofs.** `Invariant`, `TypeCorrect`, `SharedBase`, `KeepsUnsyncedFile`,
`KeepsUnsyncedScript`, `SavesArrive`, `NewSavesArrive`. The first part of the
invariant says that the histories are true (`HistoriesTrue`: what a file and a script hold they have held), that what a
task has concluded stays true until it acts on it (`TasksSound`), that a
request on the wire, an answer and an event carry contents of the side they
come from (`WireTrue`, `AnswersTrue`, `EventsTrue`), and that a task waits for at
most one request (`OneOutstanding`): otherwise a late answer could be
taken for another and record a base that was never shared.
`SavesArrive` and `NewSavesArrive` need to know where a save is before it
arrives: chokidar has to report it, its timer runs, or a push task with that
very content has something to wait for or to do (`SavesUnderWay`). A task whose
file has changed again does not count, but the save that changed it has been
noticed; a task that fails or gives up reports it. What takes a save off
this way without a report is the echo map. Without `--pull` that map has no
entries, hence `SavesArrive`. With `--pull` its entries are contents the server
has had (`EchoesKnown`), hence `NewSavesArrive`; that such a content is dropped
is the finding `watch_undo`.

**DestructiveProofs.** `Invariant`, `TypeCorrect`, `BackupBeforeLoss`,
`GoodCopyFirst`, `NoOrphans`, `AllToggled`, `BackupsWhole`,
`RenameChangesNameOnly`. What a command has read
of its script, its target, its copy, its markers and its targets is still so,
or stands in `touched` (`JobSound`); what it is about to delete is in the trash
(`BackedUp`). One lemma, `SoundKept`, says that this survives what others do
as long as it is noted; one, `Turns`, reduces every step of a command to the
soundness of that command's next state. `BackupsWhole` adds that a directory
nobody shares holds what its backup has finished (`SnapshotGoes`), and assumes
`NamesApart`: two scripts with one path would overwrite each other's source.
`RenameChangesNameOnly` relates what the old entry compared as before the file
moved to what the new one compares as once it is saved. `MovesSound` follows
that through the two steps between: the copy is on the server with the source
that was fetched, and the file that counts, under the old path and then
under the new, still stands to the recorded base as it did.

**SessionProofs.** `Invariant`, `TypeCorrect`, `SecretsGoToTrusted`,
`PinsAreTrusted`, `StoredPasswordsWorked`, `NeverRepinsAlone`. A pin in a file can be put back by a command that loaded it
long ago, so the invariant follows pins and passwords into the hands of every
command (`PinSound`, `PasswordSound`): those in hand were accepted too, for
the url or the account beside them, and a command past the judgement of the
certificate has the pin its requests will be held to.

Only model-checked: the liveness properties (`ComesToRest`, `EverythingSettles`,
`CommandsEnd`), which rest on fairness and are beyond the prover. Every
invariant and every action property of the passing runs is a theorem, the
inductive invariants included.

## Findings

The three violation runs, with their sources in `PROJECT.json`: `push.ts:112`
replaces an existing script, `mapping.ts:35` with `scan.ts` makes `.txt` files
invisible, `watch.ts:88` never forgets what it wrote.

### Deviations met without a run of their own

The model contains each of these; a property is stated so as to exclude it,
or says nothing of it.

- A save between a command's scan and its write is lost (pull.ts:53, push.ts:58);
  likewise between watch's read and write (watch.ts:242), between a rename's
  check of its target and the creation (rename.ts:95), and an edit in Admin between a
  rename's fetch and its delete (rename.ts:62).
- A local edit of a script that has been deleted in Admin is neither pushed nor
  refused: its state is `remote-missing`, which push passes over in silence
  (push.ts:184; the last case of `Delivered`).
- `remove --delete-local` unlinks the file whatever it holds, with the edit
  that was never pushed; the backup is of the server's object (remove.ts:179).
- Two ids can be tracked under one path, where sanitising makes one name of
  two: a pull of "sun rise" while `sun_rise` is tracked at `sun rise.ts`.
  `findByPath` then answers with either (manifest.ts:98).
- Identical files on both sides are reported in sync without being
  recorded, contrary to docs/CONFIGURATION.md:60.
- `watch --pull` replaces a file the manifest does not know
  (watch.ts:224, against README.md:143-144).
- `lastPushedHash` is never cleared: Admin restoring what was pushed last is
  never pulled (watch.ts:197, against README.md:123).
- watch --pull: two contents can chase each other for ever, file and script
  taking turns, if in every round the debounce expires between the write of a
  file and its entry in `lastWrittenHash` (watch.ts:242-243), or the push of every
  round is given up and carried out late. `ComesToRest` excepts the first,
  `watch_rest` gives up on no request.
- watch: a push that was given up on can be carried out after a newer one
  and replace what that one saved, and so can the creation by an older task
  whose `getScript` found nothing (watch.ts:150). `SavesReachServer` says that a
  save has reached the server, not that nothing came after it.
- A file saved without a change is pushed over a newer script
  (watch.ts:112, against README.md:149-151).
- A sweep whose value half could not be read deletes the object and leaves the
  value (objects.ts:224-225).
- `fs.rename` replaces an untracked file at the new path (rename.ts:126);
  `new` truncates a local file that is there (new.ts:83); a rename's copy is
  enabled while the original still runs.
- With `Eager = TRUE`: connect() while a dropped socket is still closing returns the
  resolved promise of the dead one (socket.ts:120; the comments at :233-235 and
  :256-257 say a retry must not), and the late 'close' of an old socket resets
  `ready` and `connectPromise` of the new one and fails its requests
  (`ConnectedMeansReady` is violated in seven steps). With `MaxConns = 3` that reset
  lets a third connection begin while the second is set up; the second's `ready`
  then opens the third for requests, which its drop, before it was ready itself,
  does not fail (`NoneOutlivesItsSocket`). No command reaches this today.
- After a lost connection nothing reconnects or resubscribes; a running watch stays up and
  deaf (socket.ts:259).
- watch: an unreadable file counts as a missing one (watch.ts:219), a file the
  editor is still writing is pushed as it is (watch.ts:79), two saves of the
  manifest in one millisecond share a temporary file (manifest.ts:82), and the
  manifest is loaded once and saved whole, so entries other commands
  record meanwhile are dropped (watch.ts:64).
- `doctor` goes on to log in without a pin where none is recorded;
  `SecretsOnlyToTrusted` excepts it.
- A save that fails inside the OAuth attempt is taken for a failed login, and
  the legacy login is tried (auth.ts:237-242).
- `writeConfig` and `deleteStoredPassword` write in place: a death leaves a
  config every later command refuses, or a credentials file that counts as empty,
  so that the next save drops every other account. A login that overlaps
  a logout can undo it, the logout writing into a file that has been renamed
  over; with a third command a logout can leave a torn file behind.
- A config written as a whole can replace a pin another command recorded
  meanwhile (config.ts:183), by one that was accepted earlier.
- The requests of a login have no timeout: with an instance that accepts and
  says nothing they wait for ever; `CommandsEnd` excepts them.
- Two backups that begin in the same millisecond share a directory, and neither
  says so; of ids that differ only in characters `sanitizeId` replaces, one
  object file remains (backup.ts:51).

## Not modelled

The command line parser, prompts, and the commands that only report (see the
inventory): they change nothing the others depend on. `diff`
and `status` print the comparison `SyncStatus` models; `types` writes declaration
files into directories no scan enters. Within the modelled parts: directories (a
path is atomic), names of temporary files, which links `safe-path.ts` refuses (a
refusal is one more failed write), file modes, chokidar's readiness and its rename detection, read errors
of single files, `readFile` and its continuation as two steps, the two requests
with which a sweep looks at a marker's object and deletes it (objects.ts:233-235),
halves of a listing that fail for one kind of marker and not the other
(objects.ts:163-202), a file that watch's own write leaves truncated when it fails
or dies (watch.ts:242), ping and pong, the
parsing and payload of frames, exceptions of `ws.close`, what a certificate says
besides its fingerprint (that is part of whether the CA store vouches for it),
the walk up to a parent directory's config (config.ts:142-178),
the rest of `doctor` after the connection, the folder and `.gitignore` that `init`
writes, wording of reports.

## Plan

Done: survey, `SyncStatus`, `Sync`, `Watch`, `Destructive`, `Session`,
`AdminSocket` with its contract, and the proofs of each.

Left, in this order:

1. A violation run of the socket with `Eager = TRUE` for the comments quoted
   above, once a command connects twice, and with it the reconnect `watch` does
   not do.
2. `diff --against`, which picks the last snapshot directory by name, complete
   or not.
3. A composition of `Session` with `Destructive`: a session that ends
   between two requests of a rename.
