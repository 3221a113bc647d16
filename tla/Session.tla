------------------------------ MODULE Session ------------------------------
(***************************************************************************)
(* What a command does before it talks to the server, and the commands     *)
(* that do nothing else: loading and writing .iobroker-sync.json           *)
(* (config.ts), judging the certificate (client/tls.ts, commands/trust.ts),*)
(* logging in (client/auth.ts, commands/login.ts), keeping passwords       *)
(* (credentials.ts), `init` and `doctor`.                                  *)
(*                                                                         *)
(* A command is a process that runs once.  Each await of it is a phase,    *)
(* between any two of which the server may be given another certificate or *)
(* another password, and other commands may write the same two files.      *)
(***************************************************************************)
EXTENDS Naturals

CONSTANTS
  Procs,       \* commands
  Requests,    \* the command lines they may be given
  Roots,       \* project folders, each with a config of its own
  Urls,        \* the instances
  HttpsUrls,   \* those reached over https:
  Usernames,
  Certs,       \* certificates, by their fingerprint
  CaSigned,    \* those the system's CA store vouches for
  Passwords,
  Absent,      \* what is not there
  Torn,        \* a file that is no JSON
  Over,        \* the state of a command that has ended
  StartConfigs,  \* bound: the configs there to begin with
  StartStores,   \* bound: the credentials stored to begin with
  EditedConfigs, \* bound: what the user writes into a config
  StartLogins,   \* bound: the login paths an instance may offer
  MayFail,       \* bound: do requests, reads and writes fail
  MaxChanges     \* bound: how often others change something

Config == [url : Urls, username : Usernames, allowSelfSigned : BOOLEAN,
           certFingerprint : Certs \cup {Absent}]

(* keyFor: credentials are kept per instance and username, in one file for *)
(* all projects.                                                           *)
Keys == Urls \X Usernames
keyFor(config) == <<config.url, config.username>>

CredentialsFile == [Keys -> Passwords \cup {Absent}]
noCredentials == [key \in Keys |-> Absent]

Commands == {"ordinary", "init", "doctor", "trust", "login", "logout"}

(* ordinary stands for every command that runs in withContext.  stdin is   *)
(* what --password-stdin reads, env is IOBROKER_PASSWORD, config what init *)
(* is told to write, tty whether there is anybody to ask.                  *)
Request == [cmd : Commands, root : Roots, tty : BOOLEAN, yes : BOOLEAN,
            force : BOOLEAN, piped : BOOLEAN,
            stdin : Passwords \cup {Absent}, env : Passwords \cup {Absent},
            config : Config]

Sources == {"stdin", "env", "store", "prompt"}

Phases == {"load", "probe", "ask", "truncate", "write", "collect", "hello",
           "resolve", "oauth", "legacy", "offer", "readstore", "savestore",
           "emptystore", "writestore", "connect"}

(* conf is the config in memory, seen the certificate probed, agreed       *)
(* whether the user has said yes to it; view is the credentials file as    *)
(* the command has read it; via is the login path under way.               *)
Job == [req : Request, phase : Phases, conf : Config \cup {Absent},
        seen : Certs \cup {Absent}, agreed : BOOLEAN,
        password : Passwords \cup {Absent}, source : Sources \cup {Absent},
        via : {"oauth", "legacy"}, view : CredentialsFile \cup {Torn}]

ASSUME SessionAssumption ==
  /\ Requests \subseteq Request
  /\ \A r \in Requests : r.config.certFingerprint = Absent
  /\ HttpsUrls \subseteq Urls
  /\ CaSigned \subseteq Certs
  /\ Absent \notin Certs \cup Passwords \cup Config \cup Job \cup Sources
  /\ Torn \notin Config \cup CredentialsFile \cup {Absent}
  /\ Over \notin Job \cup {Absent}
  /\ StartConfigs \subseteq Config
  /\ StartStores \subseteq CredentialsFile
  /\ EditedConfigs \subseteq Config
  /\ StartLogins \subseteq SUBSET {"oauth", "legacy"}
  /\ MayFail \in BOOLEAN
  /\ MaxChanges \in Nat

VARIABLES
  configs,   \* .iobroker-sync.json of each project
  store,     \* the credentials file
  presents,  \* the certificate each instance presents
  logins,    \* the login paths each instance offers, none if auth is off
  secrets,   \* the password of each account
  silent,    \* instances that accept a connection and answer nothing
  jobs,      \* what each command is at
  orphaned,  \* commands whose open credentials file has been replaced
  changes,   \* how often others have changed something
  trusted,   \* history: the certificates accepted for each instance
  worked,    \* history: the passwords each account has accepted
  sent,      \* history: where a password or a cookie has been sent
  recorded   \* history: the last whole config of each project

files   == <<configs, store, orphaned>>
server  == <<presents, logins, secrets, silent>>
history == <<trusted, worked, sent, recorded>>
vars    == <<files, server, jobs, changes, history>>

(* Where a secret went: by which command, with which config, to whom.      *)
Sending == [cmd : Commands, conf : Config, cert : Certs]

TypeOK ==
  /\ configs \in [Roots -> Config \cup {Absent, Torn}]
  /\ store \in CredentialsFile \cup {Torn}
  /\ presents \in [Urls -> Certs]
  /\ logins \in [Urls -> SUBSET {"oauth", "legacy"}]
  /\ secrets \in [Keys -> Passwords]
  /\ silent \subseteq Urls
  /\ jobs \in [Procs -> Job \cup {Absent, Over}]
  /\ orphaned \subseteq Procs
  /\ changes \in 0 .. MaxChanges
  /\ trusted \in [Urls -> SUBSET Certs]
  /\ worked \in [Keys -> SUBSET Passwords]
  /\ sent \subseteq Sending
  /\ recorded \in [Roots -> Config \cup {Absent}]

(* Configs and credentials of earlier commands, an instance in any state.  *)
Init ==
  /\ configs \in [Roots -> StartConfigs \cup {Absent}]
  /\ store \in StartStores
  /\ presents \in [Urls -> Certs]
  /\ logins \in [Urls -> StartLogins]
  /\ secrets \in [Keys -> Passwords]
  /\ silent = {}
  /\ jobs = [p \in Procs |-> Absent]
  /\ orphaned = {}
  /\ changes = 0
  /\ trusted = [url \in Urls |->
       {cert \in Certs : \E root \in Roots : /\ configs[root] # Absent
                                             /\ configs[root].url = url
                                             /\ configs[root].certFingerprint = cert}]
  /\ worked = [key \in Keys |-> {password \in Passwords : store[key] = password}]
  /\ sent = {}
  /\ recorded = configs

-----------------------------------------------------------------------------
(* Judging a certificate *)

pinningApplies(config) == config.allowSelfSigned /\ config.url \in HttpsUrls

(* What a TLS connection that only reads the certificate will accept.      *)
Readable(config, cert) == config.allowSelfSigned \/ cert \in CaSigned

(* Faulty variant: only the probe looks at the pin.                        *)
VerifiedUnpinned(config, cert) ==
  config.url \in HttpsUrls => Readable(config, cert)

(* What a connection a request may be written to will accept: PinnedAgent  *)
(* if a pin is recorded, otherwise what Node does by default.              *)
Verified(config, cert) ==
  config.url \in HttpsUrls =>
    /\ Readable(config, cert)
    /\ pinningApplies(config) => config.certFingerprint \in {Absent, cert}

Running(p) == jobs[p] \notin {Absent, Over}
At(p, phase) == Running(p) /\ jobs[p].phase = phase

Goto(j, phase) == IF phase = "end" THEN Over ELSE [j EXCEPT !.phase = phase]

Become(p, j) == jobs' = [jobs EXCEPT ![p] = j]

(* Where a command goes on once the certificate is the expected one.       *)
AfterTrust(cmd) == CASE cmd = "login" -> "collect"
                     [] cmd = "trust" -> "end"
                     [] OTHER         -> "hello"

(* doctor reads the certificate of any https: instance, the others only    *)
(* where there is something to pin.                                        *)
TrustPhase(cmd, config) ==
  IF IF cmd = "doctor" THEN config.url \in HttpsUrls ELSE pinningApplies(config)
  THEN "probe" ELSE AfterTrust(cmd)

(* Whether the user has to be asked, and can be.                           *)
Asked(req) == IF req.tty THEN "ask" ELSE "end"

(* Faulty variant: a changed certificate is recorded like a first one.     *)
ensureUnasked(req, config, cert) ==
  IF config.certFingerprint = cert THEN AfterTrust(req.cmd) ELSE "truncate"

(* What follows once the certificate has been read: for the commands that  *)
(* go on to log in, ...                                                    *)
ensureTrustedCertificate(req, config, cert) ==
  CASE config.certFingerprint = Absent -> "truncate"
    [] config.certFingerprint = cert   -> AfterTrust(req.cmd)
    [] OTHER                           -> Asked(req)

(* ... for trust, ...                                                      *)
trust(req, config, cert) ==
  IF config.certFingerprint = cert THEN AfterTrust(req.cmd)
  ELSE IF req.yes THEN "truncate" ELSE Asked(req)

(* ... and for doctor, which records nothing and warns of a missing pin.   *)
describeCertificate(req, config, cert) ==
  IF Verified(config, cert) THEN AfterTrust(req.cmd) ELSE "end"

Judgement(req, config, cert) ==
  CASE req.cmd = "doctor" -> describeCertificate(req, config, cert)
    [] req.cmd = "trust"  -> trust(req, config, cert)
    [] OTHER              -> ensureTrustedCertificate(req, config, cert)

-----------------------------------------------------------------------------
(* The config *)

Start(p, req) ==
  /\ jobs[p] = Absent
  /\ Become(p, [req |-> req, phase |-> "load", conf |-> Absent, seen |-> Absent,
                agreed |-> FALSE, password |-> Absent, source |-> Absent,
                via |-> "oauth", view |-> Torn])
  /\ UNCHANGED <<files, server, changes, history>>

(* A rejected await, a signal or a crash.                                  *)
Abort(p) ==
  /\ Running(p)
  /\ Become(p, Over)
  /\ orphaned' = orphaned \ {p}
  /\ UNCHANGED <<configs, store, server, changes, history>>

AfterLoad(j, config) == IF j.req.cmd = "logout" THEN "readstore"
                        ELSE TrustPhase(j.req.cmd, config)

loadConfig(p) ==
  LET j == jobs[p]
      config == configs[j.req.root]
  IN  /\ At(p, "load")
      /\ j.req.cmd # "init"
      /\ Become(p, IF config \in {Absent, Torn} THEN Over
                   ELSE Goto([j EXCEPT !.conf = config], AfterLoad(j, config)))
      /\ UNCHANGED <<files, server, changes, history>>

(* init refuses a config that is there, whatever is in it.                 *)
runInit(p) ==
  LET j == jobs[p]
  IN  /\ At(p, "load")
      /\ j.req.cmd = "init"
      /\ Become(p, IF configs[j.req.root] # Absent /\ ~j.req.force THEN Over
                   ELSE Goto([j EXCEPT !.conf = j.req.config], "truncate"))
      /\ UNCHANGED <<files, server, changes, history>>

(* Faulty variant: the probe has no timeout.                               *)
TimesOutNever(url) == FALSE

TimesOut(url) == url \in silent

(* probeCertificate: it ends by handshake, error or timeout, and writes    *)
(* nothing to the connection.                                              *)
ProbeFails(p) ==
  /\ At(p, "probe")
  /\ \/ MayFail
     \/ TimesOut(jobs[p].conf.url)
     \/ ~Readable(jobs[p].conf, presents[jobs[p].conf.url])
  /\ Become(p, Over)
  /\ UNCHANGED <<files, server, changes, history>>

Probe(p) ==
  LET j == jobs[p]
      cert == presents[j.conf.url]
      next == Judgement(j.req, j.conf, cert)
  IN  /\ At(p, "probe")
      /\ j.conf.url \notin silent
      /\ Readable(j.conf, cert)
      /\ Become(p, Goto([j EXCEPT !.seen = cert], next))
      /\ trusted' = IF next = "truncate"
                    THEN [trusted EXCEPT ![j.conf.url] = @ \cup {cert}] ELSE trusted
      /\ UNCHANGED <<files, server, changes, worked, sent, recorded>>

(* The user looks at both fingerprints.                                    *)
Ask(p) ==
  LET j == jobs[p]
  IN  /\ At(p, "ask")
      /\ \/ /\ Become(p, Over)
            /\ UNCHANGED trusted
         \/ /\ Become(p, Goto([j EXCEPT !.agreed = TRUE], "truncate"))
            /\ trusted' = [trusted EXCEPT ![j.conf.url] = @ \cup {j.seen}]
      /\ UNCHANGED <<files, server, changes, worked, sent, recorded>>

(* writeConfig is fs.writeFile: it empties the file and then fills it.     *)
TruncateConfig(p) ==
  LET j == jobs[p]
  IN  /\ At(p, "truncate")
      /\ configs' = [configs EXCEPT ![j.req.root] = Torn]
      /\ Become(p, Goto(j, "write"))
      /\ UNCHANGED <<store, orphaned, server, changes, history>>

(* Faulty variant: the pin is put into whatever config is there by now.    *)
PinnedInFile(j) ==
  IF recorded[j.req.root] = Absent THEN [j.conf EXCEPT !.certFingerprint = j.seen]
  ELSE [recorded[j.req.root] EXCEPT !.certFingerprint = j.seen]

(* The config as it was loaded, with the certificate just accepted; init's *)
(* first write has seen none yet.                                          *)
Pinned(j) == [j.conf EXCEPT !.certFingerprint = j.seen]

(* Faulty variant: the pin only goes to the file.                          *)
InHandUnpinned(j) == j

(* ... and `config.certFingerprint = actual`.                              *)
InHand(j) == [j EXCEPT !.conf = Pinned(j)]

AfterWrite(j) == IF j.seen = Absent THEN TrustPhase(j.req.cmd, j.conf)
                 ELSE AfterTrust(j.req.cmd)

(* Two writers that overlap may leave the end of one behind the other's.   *)
WriteConfig(p) ==
  LET j == jobs[p]
      root == j.req.root
  IN  /\ At(p, "write")
      /\ \/ /\ configs' = [configs EXCEPT ![root] = Pinned(j)]
            /\ recorded' = [recorded EXCEPT ![root] = Pinned(j)]
         \/ /\ configs[root] # Torn
            /\ configs' = [configs EXCEPT ![root] = Torn]
            /\ UNCHANGED recorded
      /\ Become(p, Goto(InHand(j), AfterWrite(j)))
      /\ UNCHANGED <<store, orphaned, server, changes, trusted, worked, sent>>

-----------------------------------------------------------------------------
(* Logging in *)

(* Faulty variant: login saves what it was given, the server decides later.*)
AfterCollectSaved == "readstore"

AfterCollect == "hello"

(* login asks for the password first and puts it into the environment.     *)
Collect(p) ==
  LET j == jobs[p]
      offered == IF j.req.piped THEN {j.req.stdin}
                 ELSE IF j.req.tty THEN Passwords \cup {Absent} ELSE {Absent}
  IN  /\ At(p, "collect")
      /\ \E password \in offered :
           Become(p, IF password = Absent THEN Over
                     ELSE Goto([j EXCEPT !.password = password], AfterCollect))
      /\ UNCHANGED <<files, server, changes, history>>

(* None of the requests has a timeout.                                     *)
Answers(p) == jobs[p].conf.url \notin silent
Lets(p) == Verified(jobs[p].conf, presents[jobs[p].conf.url])

(* Without a cookie there is no password for login to verify.              *)
NoCookie(cmd) == IF cmd = "login" THEN "end" ELSE "connect"

(* GET /login: 404 means that nobody needs to log in.                      *)
Hello(p) ==
  LET j == jobs[p]
      next == IF logins[j.conf.url] # {} THEN "resolve" ELSE NoCookie(j.req.cmd)
  IN  /\ At(p, "hello")
      /\ Answers(p)
      /\ \/ Lets(p) /\ Become(p, Goto(j, next))
         \/ (MayFail \/ ~Lets(p)) /\ Become(p, Over)
      /\ UNCHANGED <<files, server, changes, history>>

(* What readFileIfPresent makes of a file that cannot be read or parsed.   *)
ReadResults == {store} \cup IF MayFail THEN {Torn} ELSE {}

StoredPassword(file, config) == IF file = Torn THEN Absent ELSE file[keyFor(config)]

Environment(j) == IF j.req.cmd = "login" THEN j.password ELSE j.req.env

(* doctor behaves the same in a terminal and in a script.                  *)
MayPrompt(req) == req.tty /\ req.cmd # "doctor"

(* The sources of a password that are there, in the order they are tried;  *)
(* doctor and init do not look at stdin.                                   *)
Offered(j, file) ==
  LET prompted == IF MayPrompt(j.req) THEN Passwords ELSE {}
      stored == StoredPassword(file, j.conf)
  IN  CASE j.req.cmd = "ordinary" /\ j.req.piped -> {<<"stdin", j.req.stdin>>}
        [] ~(j.req.cmd = "ordinary" /\ j.req.piped) /\ Environment(j) # Absent ->
             {<<"env", Environment(j)>>}
        [] OTHER -> IF stored # Absent THEN {<<"store", stored>>}
                    ELSE {<<"prompt", typed>> : typed \in prompted \cup {Absent}}

resolvePassword(p) ==
  LET j == jobs[p]
  IN  /\ At(p, "resolve")
      /\ \E file \in ReadResults : \E offer \in Offered(j, file) :
           Become(p, IF offer[2] = Absent THEN Over
                     ELSE Goto([j EXCEPT !.source = offer[1], !.password = offer[2]],
                               "oauth"))
      /\ UNCHANGED <<files, server, changes, history>>

(* A command sends its password, or its cookie, to whoever answers.        *)
Sends(p) ==
  sent' = sent \cup {[cmd |-> jobs[p].req.cmd, conf |-> jobs[p].conf,
                      cert |-> presents[jobs[p].conf.url]]}

Accepted(p, path) ==
  LET j == jobs[p]
  IN  path \in logins[j.conf.url] /\ secrets[keyFor(j.conf)] = j.password

(* What follows a cookie: login saves, others offer to save what was typed.*)
AfterCookie(j) == CASE j.req.cmd = "login" -> "readstore"
                    [] j.req.cmd # "login" /\ j.source = "prompt" -> "offer"
                    [] OTHER -> "connect"

(* The two POST requests.  Of the first, every failure but that of the pin *)
(* is swallowed and the second one made.                                   *)
Post(p, path, otherwise) ==
  LET j == jobs[p]
  IN  /\ At(p, path)
      /\ Answers(p)
      /\ \/ /\ Lets(p)
            /\ Sends(p)
            /\ \/ /\ Accepted(p, path)
                  /\ Become(p, Goto([j EXCEPT !.via = path], AfterCookie(j)))
                  /\ worked' = [worked EXCEPT ![keyFor(j.conf)] = @ \cup {j.password}]
               \/ /\ MayFail \/ ~Accepted(p, path)
                  /\ Become(p, Goto(j, otherwise))
                  /\ UNCHANGED worked
         \/ /\ ~Lets(p)
            /\ Become(p, Goto(j, IF pinningApplies(j.conf) THEN "end" ELSE otherwise))
            /\ UNCHANGED <<worked, sent>>
      /\ UNCHANGED <<files, server, changes, trusted, recorded>>

OAuth(p)  == Post(p, "oauth", "legacy")
Legacy(p) == Post(p, "legacy", "end")

(* The websocket, which the same agent guards.  What follows is the        *)
(* command's own business.                                                 *)
Connect(p) ==
  /\ At(p, "connect")
  /\ IF Answers(p) /\ Lets(p) /\ jobs[p].password # Absent THEN Sends(p)
     ELSE UNCHANGED sent
  /\ Become(p, Over)
  /\ UNCHANGED <<files, server, changes, trusted, worked, recorded>>

-----------------------------------------------------------------------------
(* The credentials file *)

AfterSave(j) == IF j.req.cmd = "login" THEN "end" ELSE "connect"

Offer(p) ==
  /\ At(p, "offer")
  /\ \E next \in {"readstore", "connect"} : Become(p, Goto(jobs[p], next))
  /\ UNCHANGED <<files, server, changes, history>>

(* Both saveStoredPassword and deleteStoredPassword read the whole file    *)
(* first.                                                                  *)
ReadStore(p) ==
  LET j == jobs[p]
  IN  /\ At(p, "readstore")
      /\ \E file \in ReadResults :
           Become(p, Goto([j EXCEPT !.view = file],
                          CASE j.req.cmd # "logout" -> "savestore"
                            [] j.req.cmd = "logout" ->
                                 IF StoredPassword(file, j.conf) = Absent THEN "end"
                                 ELSE "emptystore"))
      /\ UNCHANGED <<files, server, changes, history>>

(* Faulty variant: the username and the password change places.            *)
MergedSwapped(j) ==
  LET misplaced == <<j.conf.url, j.password>>
      base == IF j.view = Torn THEN noCredentials ELSE j.view
  IN  [key \in Keys \cup {misplaced} |->
         IF key = misplaced THEN j.conf.username ELSE base[key]]

Merged(j) ==
  [(IF j.view = Torn THEN noCredentials ELSE j.view)
     EXCEPT ![keyFor(j.conf)] = j.password]

(* The rename of the temporary file.  Whoever has the old file open writes *)
(* to a file without a name from now on.                                   *)
SaveStore(p) ==
  LET j == jobs[p]
  IN  /\ At(p, "savestore")
      /\ store' = Merged(j)
      /\ orphaned' = orphaned \cup {q \in Procs : At(q, "writestore")}
      /\ Become(p, Goto(j, AfterSave(j)))
      /\ UNCHANGED <<configs, server, changes, trusted, worked, sent, recorded>>

(* A save that fails leaves the store alone.  Within the OAuth attempt its *)
(* error counts as one of the login (auth.ts:237-242).                     *)
SaveFails(p) ==
  LET j == jobs[p]
  IN  /\ MayFail
      /\ At(p, "savestore")
      /\ Become(p, Goto(j, IF j.req.cmd # "login" /\ j.via = "oauth" THEN "legacy"
                           ELSE "end"))
      /\ UNCHANGED <<files, server, changes, history>>

(* deleteStoredPassword writes in place: it empties the file, then fills   *)
(* it.                                                                     *)
EmptyStore(p) ==
  /\ At(p, "emptystore")
  /\ store' = Torn
  /\ Become(p, Goto(jobs[p], "writestore"))
  /\ UNCHANGED <<configs, orphaned, server, changes, history>>

Removed(j) == [j.view EXCEPT ![keyFor(j.conf)] = Absent]

WriteStore(p) ==
  LET j == jobs[p]
  IN  /\ At(p, "writestore")
      /\ \/ /\ p \in orphaned
            /\ UNCHANGED store
         \/ /\ p \notin orphaned
            /\ store' = Removed(j)
         \/ /\ p \notin orphaned
            /\ store # Torn
            /\ store' = Torn
      /\ orphaned' = orphaned \ {p}
      /\ Become(p, Over)
      /\ UNCHANGED <<configs, server, changes, trusted, worked, sent, recorded>>

-----------------------------------------------------------------------------
(* Others *)

MayChange == changes < MaxChanges /\ changes' = changes + 1

(* ioBroker is reinstalled, or its certificate regenerated.                *)
Reissue(url, cert) ==
  /\ MayChange
  /\ presents' = [presents EXCEPT ![url] = cert]
  /\ UNCHANGED <<files, logins, secrets, silent, jobs, history>>

ChangePassword(key, password) ==
  /\ MayChange
  /\ secrets' = [secrets EXCEPT ![key] = password]
  /\ UNCHANGED <<files, presents, logins, silent, jobs, history>>

(* An instance hangs, or goes on.                                          *)
Hang(url) ==
  /\ MayChange
  /\ silent' = IF url \in silent THEN silent \ {url} ELSE silent \cup {url}
  /\ UNCHANGED <<files, presents, logins, secrets, jobs, history>>

(* The user edits a config, or deletes its pin to start over; a pin that   *)
(* is left in it is meant for the url it stands beside.                    *)
UserEdits(root, config) ==
  /\ MayChange
  /\ configs' = [configs EXCEPT ![root] = config]
  /\ recorded' = [recorded EXCEPT ![root] = config]
  /\ trusted' = [trusted EXCEPT ![config.url] =
                   @ \cup ({config.certFingerprint} \ {Absent})]
  /\ UNCHANGED <<store, orphaned, server, jobs, worked, sent>>

-----------------------------------------------------------------------------

Run(p) ==
  \/ loadConfig(p) \/ runInit(p) \/ Probe(p) \/ ProbeFails(p) \/ Ask(p)
  \/ TruncateConfig(p) \/ WriteConfig(p)
  \/ Collect(p) \/ Hello(p) \/ resolvePassword(p) \/ OAuth(p) \/ Legacy(p)
  \/ Connect(p)
  \/ Offer(p) \/ ReadStore(p) \/ SaveStore(p) \/ SaveFails(p)
  \/ EmptyStore(p) \/ WriteStore(p)

Others ==
  \/ \E url \in Urls : Hang(url) \/ \E cert \in Certs : Reissue(url, cert)
  \/ \E key \in Keys, password \in Passwords : ChangePassword(key, password)
  \/ \E root \in Roots, config \in EditedConfigs : UserEdits(root, config)

Next ==
  \/ Others
  \/ \E p \in Procs : \/ \E req \in Requests : Start(p, req)
                      \/ Run(p)
                      \/ Abort(p)

Spec == Init /\ [][Next]_vars

(* Awaits that are through are gone on from, and the user answers; of the  *)
(* instance nothing is assumed.                                            *)
LiveSpec == Spec /\ \A p \in Procs : WF_vars(Run(p))

-----------------------------------------------------------------------------
(* Properties *)

(* However often the instance's certificate changes, and whatever other    *)
(* commands do to the config meanwhile: a password or a cookie goes only   *)
(* to a certificate that was accepted for that instance, on first use or   *)
(* by the user, or that the CA store vouches for (client/tls.ts:16-24).    *)
(* doctor, which records no pin, goes on without one.                      *)
SecretsOnlyToTrusted ==
  \A s \in sent :
    /\ s.conf.url \in HttpsUrls
    /\ ~(s.cmd = "doctor" /\ s.conf.certFingerprint = Absent)
    => IF s.conf.allowSelfSigned THEN s.cert \in trusted[s.conf.url]
       ELSE s.cert \in CaSigned

(* Whole-file writes of commands that loaded different configs never put   *)
(* one instance's pin beside another one's url: a recorded pin is always a *)
(* certificate that was accepted for that url (config.ts:177-180).         *)
PinIsTrusted ==
  \A root \in Roots :
    LET config == configs[root]
    IN  config \in Config /\ config.certFingerprint # Absent
        => config.certFingerprint \in trusted[config.url]

(* "not something a batch job can drift into" (trust.ts:10-12): the pin of *)
(* a url is only replaced by another if the user said so, by answering, by *)
(* --yes or by --force, or if it was recorded after the command loaded its *)
(* config.                                                                 *)
BatchNeverRepins ==
  [][\A p \in Procs : LET j == jobs[p]
                          old == recorded[j.req.root]
                          new == recorded'[j.req.root] IN
       /\ WriteConfig(p)
       /\ old # Absent
       /\ old.url = new.url
       /\ old.certFingerprint \notin {Absent, new.certFingerprint}
       => \/ j.agreed
          \/ j.req.cmd = "trust" /\ j.req.yes
          \/ j.req.cmd = "init" /\ j.req.force
          \/ j.conf # old]_vars

(* Every stored password is one its account has accepted (login.ts:5-6 and *)
(* auth.ts:204), whoever saved, and whosever entries were merged.          *)
StoredPasswordWorked ==
  store # Torn =>
    \A key \in Keys : store[key] # Absent => store[key] \in worked[key]

(* Every command ends, unless it waits for an HTTP answer of an instance   *)
(* that hangs; the probe in particular gives up (client/tls.ts:50-51).     *)
WaitsForAnswer(p) ==
  /\ Running(p)
  /\ jobs[p].phase \in {"hello", "oauth", "legacy"}
  /\ jobs[p].conf.url \in silent

CommandsEnd == \A p \in Procs : Running(p) ~> ~Running(p) \/ WaitsForAnswer(p)

-----------------------------------------------------------------------------
(* The inductive invariant *)

(* The phases in which a command's password has been accepted, and those   *)
(* beyond the judgement of the certificate.                                *)
Saving == {"offer", "readstore", "savestore"}
Judged == Saving \cup {"collect", "hello", "resolve", "oauth", "legacy", "connect"}

(* Which phases a command can be in, and what it holds in them: j is its   *)
(* job but for the phase.                                                  *)
JobShape(j, phase) ==
  /\ j.req \in Requests
  /\ phase = "load" => j.seen = Absent
  /\ phase # "load" => j.conf # Absent
  /\ phase \in {"oauth", "legacy"} => j.password # Absent
  /\ phase = "ask" => j.seen # Absent
  /\ j.req.cmd = "logout" => phase \in {"load", "readstore", "emptystore", "writestore"}
  /\ phase \in {"emptystore", "writestore"}
       => j.view # Torn /\ j.view[keyFor(j.conf)] # Absent

(* The pin a command goes by, and the one it is about to record.           *)
PinSound(j, phase, accepted) ==
  /\ j.conf # Absent /\ j.conf.certFingerprint # Absent
       => j.conf.certFingerprint \in accepted[j.conf.url]
  /\ phase \in {"truncate", "write"} =>
       /\ j.seen # Absent => j.seen \in accepted[j.conf.url]
       /\ j.conf.certFingerprint # Absent
            => j.agreed \/ (j.req.cmd = "trust" /\ j.req.yes)
  /\ phase \in Judged /\ j.req.cmd \notin {"doctor", "logout"} /\ pinningApplies(j.conf)
       => j.conf.certFingerprint # Absent

(* The passwords a command may write into the credentials file.            *)
PasswordSound(j, phase, passed) ==
  /\ phase \in Saving /\ j.req.cmd # "logout"
       => j.password \in passed[keyFor(j.conf)]
  /\ j.view # Torn
       => \A key \in Keys : j.view[key] # Absent => j.view[key] \in passed[key]

JobSound(j, phase, accepted, passed) ==
  JobShape(j, phase) /\ PinSound(j, phase, accepted) /\ PasswordSound(j, phase, passed)

JobsSound == \A p \in Procs : Running(p) => JobSound(jobs[p], jobs[p].phase, trusted, worked)

IInv ==
  /\ TypeOK
  /\ PinIsTrusted
  /\ StoredPasswordWorked
  /\ SecretsOnlyToTrusted
  /\ JobsSound

=============================================================================
