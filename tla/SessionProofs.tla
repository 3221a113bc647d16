--------------------------- MODULE SessionProofs ---------------------------
(***************************************************************************)
(* Theorems about Session, for every set of commands, instances, accounts  *)
(* and certificates, and however often others change them.                 *)
(***************************************************************************)
EXTENDS Session, TLAPS

-----------------------------------------------------------------------------
(* Jobs: what each assignment to a field of a job leaves alone.            *)

(* The next phase, or none.                                                *)
LEMMA GotoFacts ==
  ASSUME NEW j \in Job, NEW phase \in Phases \cup {"end"}
  PROVE  \/ phase = "end" /\ Goto(j, phase) = Over
         \/ /\ phase # "end"
            /\ Goto(j, phase) \in Job
            /\ Goto(j, phase).phase = phase
            /\ Goto(j, phase).req = j.req
            /\ Goto(j, phase).conf = j.conf
            /\ Goto(j, phase).seen = j.seen
            /\ Goto(j, phase).agreed = j.agreed
            /\ Goto(j, phase).password = j.password
            /\ Goto(j, phase).via = j.via
            /\ Goto(j, phase).source = j.source
            /\ Goto(j, phase).view = j.view
<1>1. "end" \notin Phases
  BY DEF Phases
<1>2. CASE phase = "end"
  BY <1>2 DEF Goto
<1>3. CASE phase # "end"
  <2>1. phase \in Phases /\ Goto(j, phase) = [j EXCEPT !.phase = phase]
    BY <1>3 DEF Goto
  <2> QED BY <1>3, <2>1 DEF Job
<1> QED BY <1>2, <1>3

(* The config in hand.                                                     *)
LEMMA ConfFacts ==
  ASSUME NEW j \in Job, NEW conf \in Config
  PROVE  LET k == [j EXCEPT !.conf = conf]
         IN  /\ k \in Job /\ k.conf = conf /\ k.phase = j.phase /\ k.req = j.req
             /\ k.seen = j.seen /\ k.agreed = j.agreed /\ k.password = j.password
             /\ k.via = j.via /\ k.source = j.source /\ k.view = j.view
BY DEF Job

(* The certificate seen.                                                   *)
LEMMA SeenFacts ==
  ASSUME NEW j \in Job, NEW cert \in Certs
  PROVE  LET k == [j EXCEPT !.seen = cert]
         IN  /\ k \in Job /\ k.seen = cert /\ k.phase = j.phase /\ k.req = j.req
             /\ k.conf = j.conf /\ k.agreed = j.agreed /\ k.password = j.password
             /\ k.via = j.via /\ k.source = j.source /\ k.view = j.view
BY DEF Job

(* What the user says.                                                     *)
LEMMA AgreedFacts ==
  ASSUME NEW j \in Job
  PROVE  LET k == [j EXCEPT !.agreed = TRUE]
         IN  /\ k \in Job /\ k.agreed = TRUE /\ k.phase = j.phase /\ k.req = j.req
             /\ k.conf = j.conf /\ k.seen = j.seen /\ k.password = j.password
             /\ k.via = j.via /\ k.source = j.source /\ k.view = j.view
BY DEF Job

(* The password, and where it is from.                                     *)
LEMMA PasswordFacts ==
  ASSUME NEW j \in Job, NEW password \in Passwords
  PROVE  LET k == [j EXCEPT !.password = password]
         IN  /\ k \in Job /\ k.password = password /\ k.phase = j.phase /\ k.req = j.req
             /\ k.conf = j.conf /\ k.seen = j.seen /\ k.agreed = j.agreed
             /\ k.via = j.via /\ k.source = j.source /\ k.view = j.view
BY DEF Job

LEMMA SourceFacts ==
  ASSUME NEW j \in Job, NEW source \in Sources
  PROVE  LET k == [j EXCEPT !.source = source]
         IN  /\ k \in Job /\ k.source = source /\ k.phase = j.phase /\ k.req = j.req
             /\ k.conf = j.conf /\ k.seen = j.seen /\ k.agreed = j.agreed
             /\ k.via = j.via /\ k.password = j.password /\ k.view = j.view
BY DEF Job

(* The login path under way.                                               *)
LEMMA ViaFacts ==
  ASSUME NEW j \in Job, NEW via \in {"oauth", "legacy"}
  PROVE  LET k == [j EXCEPT !.via = via]
         IN  /\ k \in Job /\ k.via = via /\ k.phase = j.phase /\ k.req = j.req
             /\ k.conf = j.conf /\ k.seen = j.seen /\ k.agreed = j.agreed
             /\ k.source = j.source /\ k.password = j.password /\ k.view = j.view
BY DEF Job

(* The credentials file as read.                                           *)
LEMMA ViewFacts ==
  ASSUME NEW j \in Job, NEW view \in CredentialsFile \cup {Torn}
  PROVE  LET k == [j EXCEPT !.view = view]
         IN  /\ k \in Job /\ k.view = view /\ k.phase = j.phase /\ k.req = j.req
             /\ k.conf = j.conf /\ k.seen = j.seen /\ k.agreed = j.agreed
             /\ k.source = j.source /\ k.password = j.password /\ k.via = j.via
BY DEF Job

(* An account of a config.                                                 *)
LEMMA KeyType ==
  ASSUME NEW conf \in Config
  PROVE  keyFor(conf) \in Keys /\ conf.url \in Urls
BY DEF keyFor, Keys, Config

-----------------------------------------------------------------------------
(* Where commands go: the phases the helpers of the model answer with.     *)

LEMMA AfterTrustPhase ==
  ASSUME NEW cmd \in Commands
  PROVE  /\ AfterTrust(cmd) \in {"collect", "end", "hello"}
         /\ AfterTrust(cmd) \in Phases \cup {"end"}
BY DEF AfterTrust, Phases, Commands

LEMMA TrustPhases ==
  ASSUME NEW cmd \in Commands, NEW conf \in Config
  PROVE  /\ TrustPhase(cmd, conf) \in Phases \cup {"end"}
         /\ TrustPhase(cmd, conf) \in {"probe", "collect", "end", "hello"}
         /\ /\ cmd # "doctor"
            /\ TrustPhase(cmd, conf) # "probe"
            => ~pinningApplies(conf)
BY AfterTrustPhase DEF TrustPhase, Phases

(* What the judgement of a certificate leads to, and what for.             *)
LEMMA JudgementPhases ==
  ASSUME NEW req \in Request, NEW conf \in Config, NEW cert \in Certs
  PROVE  /\ Judgement(req, conf, cert) \in {"truncate", "ask", "collect", "hello", "end"}
         /\ Judgement(req, conf, cert) \in Phases \cup {"end"}
         /\ Judgement(req, conf, cert) = "truncate" =>
              \/ conf.certFingerprint = Absent
              \/ req.cmd = "trust" /\ req.yes
         /\ /\ Judgement(req, conf, cert) \in {"collect", "hello"}
            /\ req.cmd # "doctor"
            => conf.certFingerprint = cert
<1>1. req.cmd \in Commands
  BY DEF Request
<1>2. Asked(req) \in {"ask", "end"}
  BY DEF Asked
<1>3. AfterTrust(req.cmd) \in {"collect", "end", "hello"}
  BY <1>1, AfterTrustPhase
<1>4. CASE req.cmd = "doctor"
  <2>1. Judgement(req, conf, cert) = describeCertificate(req, conf, cert)
    BY <1>4 DEF Judgement
  <2>2. describeCertificate(req, conf, cert) \in {"collect", "end", "hello"}
    BY <1>3 DEF describeCertificate
  <2> QED BY <1>4, <2>1, <2>2 DEF Phases
<1>5. CASE req.cmd = "trust"
  <2>1. Judgement(req, conf, cert) = trust(req, conf, cert)
    BY <1>5 DEF Judgement
  <2> QED BY <1>2, <1>3, <1>5, <2>1 DEF trust, Phases
<1>6. CASE req.cmd \notin {"doctor", "trust"}
  <2>1. Judgement(req, conf, cert) = ensureTrustedCertificate(req, conf, cert)
    BY <1>6 DEF Judgement
  <2>2. CASE conf.certFingerprint = Absent
    <3>1. ensureTrustedCertificate(req, conf, cert) = "truncate"
      BY <2>2, SessionAssumption DEF ensureTrustedCertificate
    <3> QED BY <2>1, <2>2, <3>1 DEF Phases
  <2>3. CASE conf.certFingerprint # Absent /\ conf.certFingerprint = cert
    <3>1. ensureTrustedCertificate(req, conf, cert) = AfterTrust(req.cmd)
      BY <2>3 DEF ensureTrustedCertificate
    <3> QED BY <1>3, <2>1, <2>3, <3>1 DEF Phases
  <2>4. CASE conf.certFingerprint # Absent /\ conf.certFingerprint # cert
    <3>1. ensureTrustedCertificate(req, conf, cert) = Asked(req)
      BY <2>4 DEF ensureTrustedCertificate
    <3> QED BY <1>2, <2>1, <2>4, <3>1 DEF Phases
  <2> QED BY <2>2, <2>3, <2>4
<1> QED BY <1>4, <1>5, <1>6

LEMMA CookiePhases ==
  ASSUME NEW j \in Job
  PROVE  /\ AfterCookie(j) \in {"readstore", "offer", "connect"}
         /\ AfterSave(j) \in {"end", "connect"}
         /\ \A cmd : NoCookie(cmd) \in {"end", "connect"}
BY DEF AfterCookie, AfterSave, NoCookie

(* What a source offers is a password, or nothing.                         *)
LEMMA OfferedType ==
  ASSUME NEW j \in Job, j.conf # Absent, NEW file \in CredentialsFile \cup {Torn},
         NEW offer \in Offered(j, file)
  PROVE  /\ offer[1] \in Sources
         /\ offer[2] \in Passwords \cup {Absent}
<1>1. j.conf \in Config /\ j.req \in Request
  BY DEF Job
<1>2. StoredPassword(file, j.conf) \in Passwords \cup {Absent}
  BY <1>1, KeyType DEF StoredPassword, CredentialsFile
<1>3. Environment(j) \in Passwords \cup {Absent} /\ j.req.stdin \in Passwords \cup {Absent}
  BY <1>1 DEF Environment, Request, Job
<1> DEFINE stored == StoredPassword(file, j.conf)
           prompted == IF MayPrompt(j.req) THEN Passwords ELSE {}
           piped == j.req.cmd = "ordinary" /\ j.req.piped
<1>4. CASE piped
  <2>1. Offered(j, file) = {<<"stdin", j.req.stdin>>}
    BY <1>4 DEF Offered
  <2> QED BY <1>3, <2>1 DEF Sources
<1>5. CASE ~piped /\ Environment(j) # Absent
  <2>1. Offered(j, file) = {<<"env", Environment(j)>>}
    BY <1>5 DEF Offered
  <2> QED BY <1>3, <2>1 DEF Sources
<1>6. CASE ~piped /\ Environment(j) = Absent
  <2>1. Offered(j, file) = IF stored # Absent THEN {<<"store", stored>>}
                           ELSE {<<"prompt", typed>> : typed \in prompted \cup {Absent}}
    BY <1>6 DEF Offered
  <2> QED BY <1>2, <2>1 DEF Sources
<1> QED BY <1>4, <1>5, <1>6

-----------------------------------------------------------------------------
(* Steps *)

(* What has been accepted stays accepted.                                  *)
HistoriesGrow ==
  /\ \A url \in Urls : trusted[url] \subseteq trusted'[url]
  /\ \A key \in Keys : worked[key] \subseteq worked'[key]

(* The types of everything but the jobs.                                   *)
RestOK ==
  /\ configs \in [Roots -> Config \cup {Absent, Torn}]
  /\ store \in CredentialsFile \cup {Torn}
  /\ presents \in [Urls -> Certs]
  /\ logins \in [Urls -> SUBSET {"oauth", "legacy"}]
  /\ secrets \in [Keys -> Passwords]
  /\ silent \subseteq Urls
  /\ orphaned \subseteq Procs
  /\ changes \in 0 .. MaxChanges
  /\ trusted \in [Urls -> SUBSET Certs]
  /\ worked \in [Keys -> SUBSET Passwords]
  /\ sent \subseteq Sending
  /\ recorded \in [Roots -> Config \cup {Absent}]

(* Command p has ended, or gone on as a sound job.                         *)
Moved(p) ==
  \E k : /\ jobs' = [jobs EXCEPT ![p] = k]
         /\ k = Over \/ (k \in Job /\ JobSound(k, k.phase, trusted', worked'))

(* A sound job stays sound.                                                *)
LEMMA SoundKept ==
  ASSUME HistoriesGrow, NEW j \in Job, JobSound(j, j.phase, trusted, worked)
  PROVE  JobSound(j, j.phase, trusted', worked')
<1>1. JobShape(j, j.phase)
  BY DEF JobSound
<1>2. CASE j.conf = Absent
  <2>1. j.phase = "load"
    BY <1>1, <1>2 DEF JobShape
  <2>2. PinSound(j, j.phase, trusted')
    BY <1>2, <2>1 DEF PinSound, Judged, Saving
  <2>3. PasswordSound(j, j.phase, worked')
    BY <2>1 DEF JobSound, PasswordSound, Saving, HistoriesGrow
  <2> QED BY <1>1, <2>2, <2>3 DEF JobSound
<1>3. CASE j.conf # Absent
  <2>1. j.conf \in Config
    BY <1>3 DEF Job
  <2>2. keyFor(j.conf) \in Keys /\ j.conf.url \in Urls
    BY <2>1, KeyType
  <2>3. PinSound(j, j.phase, trusted')
    BY <2>2 DEF JobSound, PinSound, HistoriesGrow
  <2>4. PasswordSound(j, j.phase, worked')
    BY <2>2 DEF JobSound, PasswordSound, HistoriesGrow
  <2> QED BY <1>1, <2>3, <2>4 DEF JobSound
<1> QED BY <1>2, <1>3

(* A move of one command is one of all.                                    *)
LEMMA JobsMove ==
  ASSUME IInv, HistoriesGrow, NEW p \in Procs, Moved(p)
  PROVE  JobsSound' /\ jobs' \in [Procs -> Job \cup {Absent, Over}]
<1>1. PICK k : /\ jobs' = [jobs EXCEPT ![p] = k]
               /\ k = Over \/ (k \in Job /\ JobSound(k, k.phase, trusted', worked'))
  BY DEF Moved
<1>2. jobs \in [Procs -> Job \cup {Absent, Over}] /\ JobsSound
  BY DEF IInv, TypeOK
<1>3. jobs' \in [Procs -> Job \cup {Absent, Over}]
  BY <1>1, <1>2
<1>4. ASSUME NEW q \in Procs, jobs'[q] \notin {Absent, Over}
      PROVE  JobSound(jobs'[q], jobs'[q].phase, trusted', worked')
  <2>1. CASE q = p
    BY <1>1, <1>2, <1>4, <2>1
  <2>2. CASE q # p
    <3>1. jobs'[q] = jobs[q]
      BY <1>1, <1>2, <2>2
    <3>2. jobs[q] \in Job /\ JobSound(jobs[q], jobs[q].phase, trusted, worked)
      BY <1>2, <1>4, <3>1 DEF JobsSound, Running
    <3> QED BY <3>1, <3>2, SoundKept
  <2> QED BY <2>1, <2>2
<1> QED BY <1>3, <1>4 DEF JobsSound, Running

(* Steps of which nobody else notices anything.                            *)
LEMMA OnlyJobs ==
  ASSUME IInv, NEW p \in Procs, Moved(p), orphaned' \subseteq orphaned,
         UNCHANGED <<configs, store, server, changes, history>>
  PROVE  IInv'
<1>1. HistoriesGrow
  BY DEF HistoriesGrow, history
<1>2. JobsSound' /\ jobs' \in [Procs -> Job \cup {Absent, Over}]
  BY <1>1, JobsMove
<1>3. TypeOK'
  BY <1>2 DEF IInv, TypeOK, server, history
<1>4. PinIsTrusted' /\ StoredPasswordWorked' /\ SecretsOnlyToTrusted'
  BY DEF IInv, PinIsTrusted, StoredPasswordWorked, SecretsOnlyToTrusted, history
<1> QED BY <1>2, <1>3, <1>4 DEF IInv

(* What a command is, where it is.                                         *)
LEMMA JobAt ==
  ASSUME IInv, NEW p \in Procs, NEW phase, At(p, phase)
  PROVE  /\ jobs[p] \in Job
         /\ JobSound(jobs[p], phase, trusted, worked)
         /\ jobs[p].phase = phase
         /\ jobs[p].req \in Request
         /\ jobs[p].req.cmd \in Commands
         /\ phase # "load" => /\ jobs[p].conf \in Config
                              /\ jobs[p].conf.url \in Urls
                              /\ keyFor(jobs[p].conf) \in Keys
<1>1. jobs[p] \in Job /\ JobSound(jobs[p], phase, trusted, worked) /\ jobs[p].phase = phase
  BY DEF IInv, TypeOK, JobsSound, At, Running
<1>2. jobs[p].req \in Request
  BY <1>1 DEF Job
<1>3. phase # "load" => jobs[p].conf \in Config
  BY <1>1 DEF Job, JobSound, JobShape
<1> QED BY <1>1, <1>2, <1>3, KeyType DEF Request

(* A command goes on to its next phase, if it may be in it.                *)
LEMMA Goes ==
  ASSUME NEW p \in Procs, NEW j \in Job, NEW next \in Phases \cup {"end"},
         Become(p, Goto(j, next)),
         next # "end" => JobSound(j, next, trusted', worked')
  PROVE  Moved(p)
<1>1. jobs' = [jobs EXCEPT ![p] = Goto(j, next)]
  BY DEF Become
<1>2. CASE next = "end"
  <2>1. Goto(j, next) = Over
    BY <1>2 DEF Goto
  <2> QED BY <1>1, <2>1 DEF Moved
<1>3. CASE next # "end"
  <2> DEFINE g == Goto(j, next)
  <2>1. /\ g \in Job /\ g.phase = next /\ g.req = j.req /\ g.conf = j.conf /\ g.seen = j.seen
        /\ g.agreed = j.agreed /\ g.password = j.password /\ g.view = j.view
    BY <1>3, GotoFacts
  <2> HIDE DEF g
  <2>2. JobSound(g, g.phase, trusted', worked')
    BY <1>3, <2>1 DEF JobSound, JobShape, PinSound, PasswordSound
  <2>3. jobs' = [jobs EXCEPT ![p] = g]
    BY <1>1 DEF g
  <2> QED BY <2>1, <2>2, <2>3 DEF Moved
<1> QED BY <1>2, <1>3

-----------------------------------------------------------------------------
(* The config, action by action *)

(* A new command, and one that dies.                                       *)
LEMMA InvStart ==
  ASSUME IInv, NEW p \in Procs, NEW req \in Requests, Start(p, req)
  PROVE  IInv'
<1> DEFINE k == [req |-> req, phase |-> "load", conf |-> Absent, seen |-> Absent,
                 agreed |-> FALSE, password |-> Absent, source |-> Absent,
                 via |-> "oauth", view |-> Torn]
<1>1. k \in Job
  BY SessionAssumption DEF Job, Phases
<1>2. \A acc, passed : JobSound(k, k.phase, acc, passed)
  BY DEF JobSound, JobShape, PinSound, PasswordSound, Judged, Saving
<1>3. jobs' = [jobs EXCEPT ![p] = k]
  BY DEF Start, Become
<1> HIDE DEF k
<1>4. Moved(p)
  BY <1>1, <1>2, <1>3 DEF Moved
<1> QED BY <1>4, OnlyJobs DEF Start, files

LEMMA InvAbort ==
  ASSUME IInv, NEW p \in Procs, Abort(p)
  PROVE  IInv'
<1>1. Moved(p)
  BY DEF Abort, Become, Moved
<1> QED BY <1>1, OnlyJobs DEF Abort

(* A config is taken into hand.                                            *)
LEMMA InvLoad ==
  ASSUME IInv, NEW p \in Procs, loadConfig(p)
  PROVE  IInv'
<1> DEFINE j == jobs[p]
           config == configs[j.req.root]
           k == [j EXCEPT !.conf = config]
           next == AfterLoad(j, config)
<1>0. At(p, "load")
  BY DEF loadConfig
<1>1. /\ j \in Job /\ JobSound(j, "load", trusted, worked) /\ j.req \in Request
      /\ j.req.cmd \in Commands
  BY <1>0, JobAt
<1>2. Become(p, IF config \in {Absent, Torn} THEN Over ELSE Goto(k, next))
        /\ UNCHANGED <<files, server, changes, history>>
  BY DEF loadConfig
<1>3. UNCHANGED <<trusted, worked>>
  BY <1>2 DEF history
<1>4. CASE config \in {Absent, Torn}
  <2>1. Moved(p)
    BY <1>2, <1>4 DEF Become, Moved
  <2> QED BY <1>2, <2>1, OnlyJobs DEF files
<1>5. CASE config \notin {Absent, Torn}
  <2>1. config \in Config /\ config # Absent
    BY <1>1, <1>5 DEF IInv, TypeOK, Request
  <2>2. config.certFingerprint # Absent => config.certFingerprint \in trusted[config.url]
    BY <1>1, <2>1 DEF IInv, PinIsTrusted, Request
  <2>3. /\ next \in Phases \cup {"end"}
        /\ next \in {"readstore", "probe", "collect", "end", "hello"}
        /\ next = "readstore" <=> j.req.cmd = "logout"
        /\ j.req.cmd # "doctor" /\ next \in {"collect", "hello"} => ~pinningApplies(config)
    BY <1>1, <2>1, TrustPhases DEF AfterLoad, Phases
  <2>4. /\ k \in Job /\ k.conf = config /\ k.req = j.req /\ k.seen = j.seen
        /\ k.view = j.view /\ k.password = j.password
    BY <1>1, <2>1, ConfFacts
  <2>5. Become(p, Goto(k, next))
    BY <1>2, <1>5
  <2> HIDE DEF j, config, k, next
  <2>6. JobShape(k, next)
    BY <1>1, <2>1, <2>3, <2>4 DEF JobSound, JobShape
  <2>7. PinSound(k, next, trusted')
    BY <1>3, <2>2, <2>3, <2>4 DEF PinSound, Judged, Saving
  <2>8. PasswordSound(k, next, worked')
    BY <1>1, <1>3, <2>3, <2>4 DEF JobSound, PasswordSound, Saving
  <2>9. Moved(p)
    BY <2>3, <2>4, <2>5, <2>6, <2>7, <2>8, Goes DEF JobSound
  <2> QED BY <1>2, <2>9, OnlyJobs DEF files
<1> QED BY <1>4, <1>5

(* init starts from the config it has been told, which has no pin.         *)
LEMMA InvRunInit ==
  ASSUME IInv, NEW p \in Procs, runInit(p)
  PROVE  IInv'
<1> DEFINE j == jobs[p]
           config == j.req.config
           k == [j EXCEPT !.conf = config]
<1>0. At(p, "load") /\ j.req.cmd = "init"
  BY DEF runInit
<1>1. j \in Job /\ JobSound(j, "load", trusted, worked) /\ j.req \in Request
  BY <1>0, JobAt
<1>2. /\ Become(p, IF configs[j.req.root] # Absent /\ ~j.req.force THEN Over
                   ELSE Goto(k, "truncate"))
      /\ UNCHANGED <<files, server, changes, history>>
  BY DEF runInit
<1>3. UNCHANGED <<trusted, worked>>
  BY <1>2 DEF history
<1>4. j.req \in Requests /\ j.seen = Absent
  BY <1>1 DEF JobSound, JobShape
<1>5. config \in Config /\ config # Absent /\ config.certFingerprint = Absent
  BY <1>1, <1>4, SessionAssumption DEF Request
<1>6. /\ k \in Job /\ k.conf = config /\ k.req = j.req /\ k.seen = j.seen
      /\ k.view = j.view /\ k.password = j.password
  BY <1>1, <1>5, ConfFacts
<1>7. CASE configs[j.req.root] # Absent /\ ~j.req.force
  <2>1. Moved(p)
    BY <1>2, <1>7 DEF Become, Moved
  <2> QED BY <1>2, <2>1, OnlyJobs DEF files
<1>8. CASE ~(configs[j.req.root] # Absent /\ ~j.req.force)
  <2>1. Become(p, Goto(k, "truncate"))
    BY <1>2, <1>8
  <2> HIDE DEF j, config, k
  <2>2. JobShape(k, "truncate")
    BY <1>0, <1>4, <1>5, <1>6 DEF JobShape, j
  <2>3. PinSound(k, "truncate", trusted')
    BY <1>4, <1>5, <1>6 DEF PinSound, Judged, Saving
  <2>4. PasswordSound(k, "truncate", worked')
    BY <1>1, <1>3, <1>6 DEF JobSound, PasswordSound, Saving
  <2>5. Moved(p)
    BY <1>6, <2>1, <2>2, <2>3, <2>4, Goes DEF JobSound, Phases
  <2> QED BY <1>2, <2>5, OnlyJobs DEF files
<1> QED BY <1>7, <1>8

-----------------------------------------------------------------------------
(* The certificate, action by action *)

LEMMA InvProbeFails ==
  ASSUME IInv, NEW p \in Procs, ProbeFails(p)
  PROVE  IInv'
<1>1. Moved(p)
  BY DEF ProbeFails, Become, Moved
<1> QED BY <1>1, OnlyJobs DEF ProbeFails, files

(* Steps that accept certificates, or find passwords to work, or send them *)
(* where they may go.                                                      *)
LEMMA Accepting ==
  ASSUME IInv, NEW p \in Procs, Moved(p), HistoriesGrow,
         trusted' \in [Urls -> SUBSET Certs], worked' \in [Keys -> SUBSET Passwords],
         sent' \in SUBSET Sending, SecretsOnlyToTrusted',
         UNCHANGED <<files, server, changes, recorded>>
  PROVE  IInv'
<1>1. JobsSound' /\ jobs' \in [Procs -> Job \cup {Absent, Over}]
  BY JobsMove
<1>2. TypeOK'
  BY <1>1 DEF IInv, TypeOK, server, files
<1>3. PinIsTrusted'
  <2> SUFFICES ASSUME NEW root \in Roots, configs[root] \in Config,
                      configs[root].certFingerprint # Absent
               PROVE  configs[root].certFingerprint \in trusted'[configs[root].url]
    BY DEF PinIsTrusted, files
  <2>1. configs[root].url \in Urls
    BY KeyType
  <2> QED BY <2>1 DEF IInv, PinIsTrusted, HistoriesGrow
<1>4. StoredPasswordWorked'
  BY DEF IInv, StoredPasswordWorked, HistoriesGrow, files
<1> QED BY <1>1, <1>2, <1>3, <1>4 DEF IInv

(* What was sent where it could go could go there.                         *)
LEMMA SentBefore ==
  ASSUME IInv, HistoriesGrow, NEW s \in sent,
         s.conf.url \in HttpsUrls, ~(s.cmd = "doctor" /\ s.conf.certFingerprint = Absent)
  PROVE  IF s.conf.allowSelfSigned THEN s.cert \in trusted'[s.conf.url]
         ELSE s.cert \in CaSigned
BY SessionAssumption DEF IInv, SecretsOnlyToTrusted, HistoriesGrow

LEMMA InvProbe ==
  ASSUME IInv, NEW p \in Procs, Probe(p)
  PROVE  IInv'
<1> DEFINE j == jobs[p]
           cert == presents[j.conf.url]
           next == Judgement(j.req, j.conf, cert)
           k == [j EXCEPT !.seen = cert]
<1>0. At(p, "probe")
  BY DEF Probe
<1>1. /\ j \in Job /\ JobSound(j, "probe", trusted, worked) /\ j.req \in Request
      /\ j.conf \in Config /\ j.conf.url \in Urls
  BY <1>0, JobAt
<1>2. /\ Become(p, Goto(k, next))
      /\ trusted' = IF next = "truncate"
                    THEN [trusted EXCEPT ![j.conf.url] = @ \cup {cert}] ELSE trusted
      /\ UNCHANGED <<files, server, changes, worked, sent, recorded>>
  BY DEF Probe
<1>3. cert \in Certs /\ trusted \in [Urls -> SUBSET Certs]
  BY <1>1 DEF IInv, TypeOK
<1>4. cert # Absent
  BY <1>3, SessionAssumption
<1>5. /\ trusted' \in [Urls -> SUBSET Certs]
      /\ \A url \in Urls : trusted[url] \subseteq trusted'[url]
      /\ next = "truncate" => cert \in trusted'[j.conf.url]
  BY <1>1, <1>2, <1>3
<1>6. /\ k \in Job /\ k.conf = j.conf /\ k.req = j.req /\ k.seen = cert
      /\ k.view = j.view /\ k.password = j.password /\ k.agreed = j.agreed
  BY <1>1, <1>3, SeenFacts
<1>7. /\ next \in {"truncate", "ask", "collect", "hello", "end"}
      /\ next \in Phases \cup {"end"}
      /\ next = "truncate" => \/ j.conf.certFingerprint = Absent
                              \/ j.req.cmd = "trust" /\ j.req.yes
      /\ next \in {"collect", "hello"} /\ j.req.cmd # "doctor"
            => j.conf.certFingerprint = cert
  BY <1>1, <1>3, JudgementPhases
<1>8. HistoriesGrow
  BY <1>2, <1>5 DEF HistoriesGrow
<1> HIDE DEF j, cert, next, k
<1>9. JobShape(k, next)
  BY <1>1, <1>4, <1>6, <1>7 DEF JobSound, JobShape
<1>10. PinSound(k, next, trusted')
  <2>0. j.conf # Absent
    BY <1>1, SessionAssumption
  <2>1. j.conf.certFingerprint # Absent => j.conf.certFingerprint \in trusted'[j.conf.url]
    BY <1>1, <1>5, <2>0 DEF JobSound, PinSound
  <2>2. next \notin {"write", "readstore", "offer", "savestore", "resolve", "oauth",
                     "legacy", "connect"}
    BY <1>7
  <2> QED BY <1>4, <1>5, <1>6, <1>7, <2>1, <2>2 DEF PinSound, Judged, Saving
<1>11. PasswordSound(k, next, worked')
  BY <1>1, <1>2, <1>6, <1>7 DEF JobSound, PasswordSound, Saving
<1>12. Moved(p)
  BY <1>2, <1>6, <1>7, <1>9, <1>10, <1>11, Goes DEF JobSound
<1>13. sent' = sent /\ worked' = worked
  BY <1>2
<1>14. SecretsOnlyToTrusted'
  BY <1>8, <1>13, SentBefore DEF SecretsOnlyToTrusted
<1> QED BY <1>2, <1>5, <1>8, <1>12, <1>13, <1>14, Accepting DEF IInv, TypeOK

LEMMA InvAsk ==
  ASSUME IInv, NEW p \in Procs, Ask(p)
  PROVE  IInv'
<1> DEFINE j == jobs[p]
           k == [j EXCEPT !.agreed = TRUE]
<1>0. At(p, "ask")
  BY DEF Ask
<1>1. /\ j \in Job /\ JobSound(j, "ask", trusted, worked) /\ j.req \in Request
      /\ j.conf \in Config /\ j.conf.url \in Urls
  BY <1>0, JobAt
<1>2. UNCHANGED <<files, server, changes, worked, sent, recorded>>
  BY DEF Ask
<1>3. CASE Become(p, Over) /\ UNCHANGED trusted
  <2>1. Moved(p)
    BY <1>3 DEF Become, Moved
  <2> QED BY <1>2, <1>3, <2>1, OnlyJobs DEF files, history
<1>4. CASE /\ Become(p, Goto(k, "truncate"))
           /\ trusted' = [trusted EXCEPT ![j.conf.url] = @ \cup {j.seen}]
  <2>1. j.seen \in Certs /\ j.seen # Absent
    BY <1>1 DEF JobSound, JobShape, Job
  <2>2. trusted \in [Urls -> SUBSET Certs]
    BY DEF IInv, TypeOK
  <2>3. /\ trusted' \in [Urls -> SUBSET Certs]
        /\ \A url \in Urls : trusted[url] \subseteq trusted'[url]
        /\ j.seen \in trusted'[j.conf.url]
    BY <1>1, <1>4, <2>1, <2>2
  <2>4. HistoriesGrow
    BY <1>2, <2>3 DEF HistoriesGrow
  <2>5. /\ k \in Job /\ k.conf = j.conf /\ k.req = j.req /\ k.seen = j.seen
        /\ k.view = j.view /\ k.password = j.password /\ k.agreed = TRUE
    BY <1>1, AgreedFacts
  <2>6. Become(p, Goto(k, "truncate"))
    BY <1>4
  <2> HIDE DEF j, k
  <2>7. JobShape(k, "truncate")
    BY <1>1, <2>5 DEF JobSound, JobShape
  <2>8. PinSound(k, "truncate", trusted')
    BY <1>1, <2>3, <2>5 DEF JobSound, PinSound, Judged, Saving
  <2>9. PasswordSound(k, "truncate", worked')
    BY <1>1, <1>2, <2>5 DEF JobSound, PasswordSound, Saving
  <2>10. Moved(p)
    BY <2>5, <2>6, <2>7, <2>8, <2>9, Goes DEF JobSound, Phases
  <2>11. SecretsOnlyToTrusted'
    BY <1>2, <2>4, SentBefore DEF SecretsOnlyToTrusted
  <2> QED BY <1>2, <2>3, <2>4, <2>10, <2>11, Accepting DEF IInv, TypeOK
<1> QED BY <1>3, <1>4 DEF Ask

-----------------------------------------------------------------------------
(* The two writes of a config *)

(* The config about to be written.                                         *)
LEMMA PinnedFacts ==
  ASSUME NEW j \in Job, j.conf \in Config
  PROVE  /\ Pinned(j) \in Config
         /\ Pinned(j).certFingerprint = j.seen
         /\ Pinned(j).url = j.conf.url
         /\ Pinned(j).allowSelfSigned = j.conf.allowSelfSigned
         /\ keyFor(Pinned(j)) = keyFor(j.conf)
         /\ pinningApplies(Pinned(j)) = pinningApplies(j.conf)
<1> DEFINE c == Pinned(j)
<1>1. c = [j.conf EXCEPT !.certFingerprint = j.seen] /\ j.seen \in Certs \cup {Absent}
  BY DEF Pinned, Job
<1>2. /\ c \in Config /\ c.certFingerprint = j.seen /\ c.url = j.conf.url
      /\ c.allowSelfSigned = j.conf.allowSelfSigned /\ c.username = j.conf.username
  <2> HIDE DEF c
  <2> QED BY <1>1 DEF Config
<1> HIDE DEF c
<1>3. keyFor(c) = keyFor(j.conf) /\ pinningApplies(c) = pinningApplies(j.conf)
  BY <1>2 DEF keyFor, pinningApplies
<1> QED BY <1>2, <1>3 DEF c

(* Steps that write a config, with a pin accepted for its url or none.     *)
LEMMA Recording ==
  ASSUME IInv, NEW p \in Procs, Moved(p), PinIsTrusted',
         configs' \in [Roots -> Config \cup {Absent, Torn}],
         recorded' \in [Roots -> Config \cup {Absent}],
         UNCHANGED <<store, orphaned, server, changes, trusted, worked, sent>>
  PROVE  IInv'
<1>1. HistoriesGrow
  BY DEF HistoriesGrow
<1>2. JobsSound' /\ jobs' \in [Procs -> Job \cup {Absent, Over}]
  BY <1>1, JobsMove
<1>3. TypeOK'
  BY <1>2 DEF IInv, TypeOK, server
<1>4. StoredPasswordWorked' /\ SecretsOnlyToTrusted'
  BY DEF IInv, StoredPasswordWorked, SecretsOnlyToTrusted
<1> QED BY <1>2, <1>3, <1>4 DEF IInv

LEMMA InvTruncateConfig ==
  ASSUME IInv, NEW p \in Procs, TruncateConfig(p)
  PROVE  IInv'
<1> DEFINE j == jobs[p]
<1>0. At(p, "truncate")
  BY DEF TruncateConfig
<1>1. /\ j \in Job /\ JobSound(j, "truncate", trusted, worked) /\ j.req \in Request
      /\ j.conf \in Config
  BY <1>0, JobAt
<1>2. /\ configs' = [configs EXCEPT ![j.req.root] = Torn]
      /\ Become(p, Goto(j, "write"))
      /\ UNCHANGED <<store, orphaned, server, changes, history>>
  BY DEF TruncateConfig
<1>3. UNCHANGED <<trusted, worked, sent, recorded>>
  BY <1>2 DEF history
<1>4. configs \in [Roots -> Config \cup {Absent, Torn}] /\ j.req.root \in Roots
  BY <1>1 DEF IInv, TypeOK, Request
<1>5. PinIsTrusted'
  BY <1>2, <1>3, <1>4, SessionAssumption DEF IInv, PinIsTrusted
<1> HIDE DEF j
<1>6. JobSound(j, "write", trusted', worked')
  BY <1>1, <1>3 DEF JobSound, JobShape, PinSound, PasswordSound, Judged, Saving
<1>7. Moved(p)
  BY <1>1, <1>2, <1>6, Goes DEF Phases
<1> QED BY <1>2, <1>3, <1>4, <1>5, <1>7, Recording DEF IInv, TypeOK

LEMMA InvWriteConfig ==
  ASSUME IInv, NEW p \in Procs, WriteConfig(p)
  PROVE  IInv'
<1> DEFINE j == jobs[p]
           root == j.req.root
           config == Pinned(j)
           k == [j EXCEPT !.conf = config]
<1>0. At(p, "write")
  BY DEF WriteConfig
<1>1. /\ j \in Job /\ JobSound(j, "write", trusted, worked) /\ j.req \in Request
      /\ j.conf \in Config /\ j.conf.url \in Urls /\ j.req.cmd \in Commands
  BY <1>0, JobAt
<1>2. /\ \/ /\ configs' = [configs EXCEPT ![root] = config]
            /\ recorded' = [recorded EXCEPT ![root] = config]
         \/ /\ configs' = [configs EXCEPT ![root] = Torn]
            /\ UNCHANGED recorded
      /\ Become(p, Goto(k, AfterWrite(j)))
      /\ UNCHANGED <<store, orphaned, server, changes, trusted, worked, sent>>
  BY DEF WriteConfig, InHand
<1>3. /\ config \in Config /\ config.certFingerprint = j.seen /\ config.url = j.conf.url
      /\ pinningApplies(config) = pinningApplies(j.conf) /\ config # Absent
  BY <1>1, PinnedFacts, SessionAssumption
<1>4. j.seen # Absent => j.seen \in trusted[j.conf.url]
  BY <1>1 DEF JobSound, PinSound
<1>5. /\ configs \in [Roots -> Config \cup {Absent, Torn}] /\ root \in Roots
      /\ recorded \in [Roots -> Config \cup {Absent}]
  BY <1>1 DEF IInv, TypeOK, Request
<1> HIDE DEF config
<1>6. /\ configs' \in [Roots -> Config \cup {Absent, Torn}]
      /\ recorded' \in [Roots -> Config \cup {Absent}]
  BY <1>2, <1>3, <1>5
<1>7. PinIsTrusted'
  <2> SUFFICES ASSUME NEW r \in Roots, configs'[r] \in Config,
                      configs'[r].certFingerprint # Absent
               PROVE  configs'[r].certFingerprint \in trusted[configs'[r].url]
    BY <1>2 DEF PinIsTrusted
  <2>1. CASE configs'[r] = configs[r]
    BY <2>1 DEF IInv, PinIsTrusted
  <2>2. CASE configs'[r] = config
    BY <1>3, <1>4, <2>2
  <2>3. CASE configs'[r] = Torn
    BY <2>3, SessionAssumption
  <2> QED BY <1>2, <1>5, <2>1, <2>2, <2>3
<1>8. /\ k \in Job /\ k.conf = config /\ k.req = j.req /\ k.seen = j.seen
      /\ k.view = j.view /\ k.password = j.password
  BY <1>1, <1>3, ConfFacts
<1> DEFINE after == AfterWrite(j)
<1>9. j.req.cmd # "logout"
  BY <1>1 DEF JobSound, JobShape
<1>10. /\ after \in Phases \cup {"end"}
       /\ after \in {"probe", "collect", "end", "hello"}
       /\ j.seen = Absent /\ j.req.cmd # "doctor" /\ after # "probe"
             => ~pinningApplies(j.conf)
  BY <1>1, TrustPhases, AfterTrustPhase DEF AfterWrite
<1>11. Become(p, Goto(k, after))
  BY <1>2
<1> HIDE DEF j, k, after
<1>12. JobShape(k, after)
  BY <1>1, <1>3, <1>8, <1>9, <1>10 DEF JobSound, JobShape
<1>13. PinSound(k, after, trusted')
  BY <1>2, <1>3, <1>4, <1>8, <1>10 DEF PinSound, Judged, Saving
<1>14. PasswordSound(k, after, worked')
  BY <1>1, <1>2, <1>8, <1>10 DEF JobSound, PasswordSound, Saving
<1>15. Moved(p)
  BY <1>8, <1>10, <1>11, <1>12, <1>13, <1>14, Goes DEF JobSound
<1> QED BY <1>2, <1>6, <1>7, <1>15, Recording

-----------------------------------------------------------------------------
(* Logging in, action by action *)

(* What a command that goes on with the same config and view keeps.        *)
LEMMA GoesOn ==
  ASSUME NEW j \in Job, NEW k \in Job, NEW phase, NEW next,
         JobSound(j, phase, trusted, worked), phase # "load", next # "load",
         next \notin {"truncate", "write", "ask", "emptystore", "writestore"},
         phase \in Judged, j.req.cmd # "logout", next \notin Saving,
         next \in {"oauth", "legacy"} => k.password # Absent,
         k.conf = j.conf, k.req = j.req, k.view = j.view
  PROVE  JobSound(k, next, trusted, worked)
<1>1. JobShape(k, next)
  BY DEF JobSound, JobShape
<1>2. PinSound(k, next, trusted)
  BY DEF JobSound, PinSound
<1>3. PasswordSound(k, next, worked)
  BY DEF JobSound, PasswordSound
<1> QED BY <1>1, <1>2, <1>3 DEF JobSound

LEMMA InvCollect ==
  ASSUME IInv, NEW p \in Procs, Collect(p)
  PROVE  IInv'
<1> DEFINE j == jobs[p]
           offered == IF j.req.piped THEN {j.req.stdin}
                      ELSE IF j.req.tty THEN Passwords \cup {Absent} ELSE {Absent}
<1>0. At(p, "collect")
  BY DEF Collect
<1>1. /\ j \in Job /\ JobSound(j, "collect", trusted, worked) /\ j.req \in Request
  BY <1>0, JobAt
<1>2. PICK password \in offered :
        Become(p, IF password = Absent THEN Over
                  ELSE Goto([j EXCEPT !.password = password], "hello"))
  BY DEF Collect, AfterCollect
<1>3. UNCHANGED <<files, server, changes, history>>
  BY DEF Collect
<1>4. CASE password = Absent
  <2>1. Moved(p)
    BY <1>2, <1>4 DEF Become, Moved
  <2> QED BY <1>3, <2>1, OnlyJobs DEF files
<1>5. CASE password # Absent
  <2> DEFINE k == [j EXCEPT !.password = password]
  <2>1. password \in Passwords
    BY <1>1, <1>5 DEF Request
  <2>2. k \in Job /\ k.conf = j.conf /\ k.req = j.req /\ k.view = j.view
    BY <1>1, <2>1, PasswordFacts
  <2>3. Become(p, Goto(k, "hello"))
    BY <1>2, <1>5
  <2> HIDE DEF j, k
  <2>4. j.req.cmd # "logout"
    BY <1>1 DEF JobSound, JobShape
  <2>5. JobSound(k, "hello", trusted, worked)
    BY <1>1, <2>2, <2>4, GoesOn DEF Judged, Saving
  <2>6. Moved(p)
    BY <1>3, <2>2, <2>3, <2>5, Goes DEF Phases, history
  <2> QED BY <1>3, <2>6, OnlyJobs DEF files
<1> QED BY <1>4, <1>5

LEMMA InvHello ==
  ASSUME IInv, NEW p \in Procs, Hello(p)
  PROVE  IInv'
<1> DEFINE j == jobs[p]
           next == IF logins[j.conf.url] # {} THEN "resolve" ELSE NoCookie(j.req.cmd)
<1>0. At(p, "hello")
  BY DEF Hello
<1>1. j \in Job /\ JobSound(j, "hello", trusted, worked)
  BY <1>0, JobAt
<1>2. /\ UNCHANGED <<files, server, changes, history>>
      /\ Become(p, Goto(j, next)) \/ Become(p, Over)
  BY DEF Hello
<1>3. next \in {"resolve", "connect", "end"}
  BY <1>1, CookiePhases
<1>4. CASE Become(p, Over)
  <2>1. Moved(p)
    BY <1>4 DEF Become, Moved
  <2> QED BY <1>2, <2>1, OnlyJobs DEF files
<1>5. CASE Become(p, Goto(j, next))
  <2> HIDE DEF j, next
  <2>1. j.req.cmd # "logout"
    BY <1>1 DEF JobSound, JobShape
  <2>2. next # "end" => JobSound(j, next, trusted, worked)
    BY <1>1, <1>3, <2>1, GoesOn DEF Judged, Saving
  <2>3. Moved(p)
    BY <1>1, <1>2, <1>3, <1>5, <2>2, Goes DEF Phases, history
  <2> QED BY <1>2, <2>3, OnlyJobs DEF files
<1> QED BY <1>2, <1>4, <1>5

LEMMA InvResolve ==
  ASSUME IInv, NEW p \in Procs, resolvePassword(p)
  PROVE  IInv'
<1> DEFINE j == jobs[p]
<1>0. At(p, "resolve")
  BY DEF resolvePassword
<1>1. /\ j \in Job /\ JobSound(j, "resolve", trusted, worked) /\ j.conf \in Config
      /\ j.conf # Absent
  BY <1>0, JobAt, SessionAssumption
<1> DEFINE Takes(offer) ==
             Become(p, IF offer[2] = Absent THEN Over
                       ELSE Goto([j EXCEPT !.source = offer[1], !.password = offer[2]],
                                 "oauth"))
<1>a. PICK file \in ReadResults : \E offer \in Offered(j, file) : Takes(offer)
  BY DEF resolvePassword
<1>2. PICK offer \in Offered(j, file) : Takes(offer)
  BY <1>a
<1>3. UNCHANGED <<files, server, changes, history>>
  BY DEF resolvePassword
<1>4. file \in CredentialsFile \cup {Torn}
  BY DEF ReadResults, IInv, TypeOK
<1>5. offer[1] \in Sources /\ offer[2] \in Passwords \cup {Absent}
  BY <1>1, <1>4, OfferedType
<1>6. CASE offer[2] = Absent
  <2>1. Moved(p)
    BY <1>2, <1>6 DEF Become, Moved
  <2> QED BY <1>3, <2>1, OnlyJobs DEF files
<1>7. CASE offer[2] # Absent
  <2> DEFINE i == [j EXCEPT !.source = offer[1]]
             k == [i EXCEPT !.password = offer[2]]
  <2>1. Become(p, Goto(k, "oauth"))
    BY <1>2, <1>7
  <2>2. i \in Job /\ i.conf = j.conf /\ i.req = j.req /\ i.view = j.view
    BY <1>1, <1>5, SourceFacts
  <2> HIDE DEF i
  <2>3. /\ k \in Job /\ k.conf = j.conf /\ k.req = j.req /\ k.view = j.view
        /\ k.password # Absent
    BY <1>5, <1>7, <2>2, PasswordFacts
  <2> HIDE DEF j, k
  <2>4. j.req.cmd # "logout"
    BY <1>1 DEF JobSound, JobShape
  <2>5. JobSound(k, "oauth", trusted, worked)
    BY <1>1, <2>3, <2>4, GoesOn DEF Judged, Saving
  <2>6. Moved(p)
    BY <1>3, <2>1, <2>3, <2>5, Goes DEF Phases, history
  <2> QED BY <1>3, <2>6, OnlyJobs DEF files
<1> QED BY <1>6, <1>7

(* A connection that lets a secret through leads to a certificate it may   *)
(* go to.                                                                  *)
LEMMA SendSound ==
  ASSUME IInv, HistoriesGrow, NEW p \in Procs, NEW phase \in {"oauth", "legacy", "connect"},
         At(p, phase), Lets(p), Sends(p)
  PROVE  sent' \in SUBSET Sending /\ SecretsOnlyToTrusted'
<1> DEFINE j == jobs[p]
           cert == presents[j.conf.url]
           s == [cmd |-> j.req.cmd, conf |-> j.conf, cert |-> cert]
<1>1. /\ j \in Job /\ JobSound(j, phase, trusted, worked) /\ j.req.cmd \in Commands
      /\ j.conf \in Config /\ j.conf # Absent /\ j.conf.url \in Urls
  BY JobAt, SessionAssumption
<1>2. cert \in Certs /\ cert # Absent
  BY <1>1, SessionAssumption DEF IInv, TypeOK
<1>3. sent' = sent \cup {s} /\ sent \subseteq Sending
  BY DEF Sends, IInv, TypeOK
<1>4. Verified(j.conf, cert)
  BY DEF Lets
<1>5. s \in Sending /\ s.cmd = j.req.cmd /\ s.conf = j.conf /\ s.cert = cert
  BY <1>1, <1>2 DEF Sending
<1> HIDE DEF j, cert, s
<1>6. ASSUME j.conf.url \in HttpsUrls, ~(j.req.cmd = "doctor" /\ j.conf.certFingerprint = Absent)
      PROVE  IF j.conf.allowSelfSigned THEN cert \in trusted'[j.conf.url] ELSE cert \in CaSigned
  <2>1. CASE j.conf.allowSelfSigned
    <3>1. pinningApplies(j.conf)
      BY <1>6, <2>1 DEF pinningApplies
    <3>2. j.conf.certFingerprint \in {Absent, cert}
      BY <1>4, <1>6, <3>1 DEF Verified
    <3>3. j.conf.certFingerprint # Absent
      BY <1>1, <1>6, <3>1 DEF JobSound, JobShape, PinSound, Judged
    <3>4. j.conf.certFingerprint \in trusted[j.conf.url]
      BY <1>1, <3>3 DEF JobSound, PinSound
    <3> QED BY <1>1, <2>1, <3>2, <3>3, <3>4 DEF HistoriesGrow
  <2>2. CASE ~j.conf.allowSelfSigned
    BY <1>4, <1>6, <2>2 DEF Verified, Readable
  <2> QED BY <2>1, <2>2
<1>7. SecretsOnlyToTrusted'
  <2> SUFFICES ASSUME NEW t \in sent', t.conf.url \in HttpsUrls,
                      ~(t.cmd = "doctor" /\ t.conf.certFingerprint = Absent)
               PROVE  IF t.conf.allowSelfSigned THEN t.cert \in trusted'[t.conf.url]
                      ELSE t.cert \in CaSigned
    BY DEF SecretsOnlyToTrusted
  <2>1. CASE t \in sent
    BY <2>1, SentBefore
  <2>2. CASE t = s
    BY <1>5, <1>6, <2>2
  <2> QED BY <1>3, <2>1, <2>2
<1> QED BY <1>3, <1>5, <1>7

(* A login that fails leads to the other path, or to an end.               *)
LEMMA FailedLogin ==
  ASSUME IInv, NEW p \in Procs, NEW path \in {"oauth", "legacy"}, At(p, path),
         UNCHANGED <<trusted, worked>>, NEW next \in {"legacy", "end"},
         Become(p, Goto(jobs[p], next))
  PROVE  Moved(p)
<1> DEFINE j == jobs[p]
<1>1. j \in Job /\ JobSound(j, path, trusted, worked)
  BY JobAt
<1>2. Become(p, Goto(j, next))
  OBVIOUS
<1> HIDE DEF j
<1>3. j.req.cmd # "logout" /\ j.password # Absent
  BY <1>1 DEF JobSound, JobShape
<1>4. next # "end" => JobSound(j, next, trusted, worked)
  BY <1>1, <1>3, GoesOn DEF Judged, Saving
<1> QED BY <1>1, <1>2, <1>4, Goes DEF Phases

(* A login that succeeds shows the password to be the account's.           *)
LEMMA AcceptedLogin ==
  ASSUME IInv, NEW p \in Procs, NEW path \in {"oauth", "legacy"}, At(p, path),
         Become(p, Goto([jobs[p] EXCEPT !.via = path], AfterCookie(jobs[p]))),
         worked' = [worked EXCEPT ![keyFor(jobs[p].conf)] = @ \cup {jobs[p].password}],
         UNCHANGED trusted
  PROVE  HistoriesGrow /\ Moved(p) /\ worked' \in [Keys -> SUBSET Passwords]
<1> DEFINE j == jobs[p]
           key == keyFor(j.conf)
           k == [j EXCEPT !.via = path]
           next == AfterCookie(j)
<1>1. /\ j \in Job /\ JobSound(j, path, trusted, worked) /\ key \in Keys
      /\ j.conf \in Config /\ j.conf # Absent
  BY JobAt, SessionAssumption
<1>2. j.req.cmd # "logout" /\ j.password \in Passwords
  BY <1>1 DEF JobSound, JobShape, Job
<1>3. worked \in [Keys -> SUBSET Passwords] /\ worked' = [worked EXCEPT ![key] = @ \cup {j.password}]
  BY DEF IInv, TypeOK
<1>4. Become(p, Goto(k, next))
  OBVIOUS
<1>5. next \in {"readstore", "offer", "connect"}
  BY <1>1, CookiePhases
<1>6. k \in Job /\ k.conf = j.conf /\ k.req = j.req /\ k.view = j.view /\ k.password = j.password
  BY <1>1, ViaFacts
<1>7. keyFor(k.conf) = key
  BY <1>6
<1> HIDE DEF j, key, k, next
<1>8. /\ worked' \in [Keys -> SUBSET Passwords]
      /\ \A other \in Keys : worked[other] \subseteq worked'[other]
      /\ j.password \in worked'[key]
  <2>1. worked[key] \cup {j.password} \in SUBSET Passwords
    BY <1>1, <1>2, <1>3
  <2>2. worked' \in [Keys -> SUBSET Passwords]
    BY <1>3, <2>1
  <2> QED BY <1>1, <1>3, <2>2
<1>9. JobShape(k, next)
  BY <1>1, <1>2, <1>5, <1>6 DEF JobSound, JobShape
<1>10. PinSound(k, next, trusted)
  BY <1>1, <1>5, <1>6 DEF JobSound, PinSound, Judged, Saving
<1>11. PasswordSound(k, next, worked')
  <2>1. \A other \in Keys : k.view # Torn /\ k.view[other] # Absent
                              => k.view[other] \in worked'[other]
    BY <1>1, <1>6, <1>8 DEF JobSound, PasswordSound
  <2> QED BY <1>6, <1>7, <1>8, <2>1 DEF PasswordSound
<1>12. Moved(p)
  BY <1>4, <1>5, <1>6, <1>9, <1>10, <1>11, Goes DEF JobSound, Phases
<1> QED BY <1>8, <1>12 DEF HistoriesGrow

LEMMA InvPost ==
  ASSUME IInv, NEW p \in Procs, NEW path \in {"oauth", "legacy"},
         NEW otherwise \in {"legacy", "end"}, Post(p, path, otherwise)
  PROVE  IInv'
<1>1. At(p, path) /\ UNCHANGED <<files, server, changes, trusted, recorded>>
  BY DEF Post
<1>2. trusted' \in [Urls -> SUBSET Certs] /\ UNCHANGED trusted
  BY <1>1 DEF IInv, TypeOK
<1>3. CASE /\ Lets(p)
           /\ Sends(p)
           /\ Become(p, Goto([jobs[p] EXCEPT !.via = path], AfterCookie(jobs[p])))
           /\ worked' = [worked EXCEPT ![keyFor(jobs[p].conf)] = @ \cup {jobs[p].password}]
  <2>1. HistoriesGrow /\ Moved(p) /\ worked' \in [Keys -> SUBSET Passwords]
    BY <1>1, <1>2, <1>3, AcceptedLogin
  <2>2. sent' \in SUBSET Sending /\ SecretsOnlyToTrusted'
    BY <1>1, <1>3, <2>1, SendSound
  <2> QED BY <1>1, <1>2, <2>1, <2>2, Accepting
<1>4. CASE /\ Lets(p)
           /\ Sends(p)
           /\ Become(p, Goto(jobs[p], otherwise))
           /\ UNCHANGED worked
  <2>1. HistoriesGrow /\ worked' \in [Keys -> SUBSET Passwords]
    BY <1>2, <1>4 DEF HistoriesGrow, IInv, TypeOK
  <2>2. Moved(p)
    BY <1>1, <1>2, <1>4, FailedLogin
  <2>3. sent' \in SUBSET Sending /\ SecretsOnlyToTrusted'
    BY <1>1, <1>4, <2>1, SendSound
  <2> QED BY <1>1, <1>2, <2>1, <2>2, <2>3, Accepting
<1>5. CASE /\ Become(p, Goto(jobs[p], IF pinningApplies(jobs[p].conf) THEN "end"
                                      ELSE otherwise))
           /\ UNCHANGED <<worked, sent>>
  <2> DEFINE next == IF pinningApplies(jobs[p].conf) THEN "end" ELSE otherwise
  <2>1. next \in {"legacy", "end"} /\ Become(p, Goto(jobs[p], next))
    BY <1>5
  <2> HIDE DEF next
  <2>2. Moved(p)
    BY <1>1, <1>2, <1>5, <2>1, FailedLogin
  <2> QED BY <1>1, <1>5, <2>2, OnlyJobs DEF files, history
<1> QED BY <1>3, <1>4, <1>5 DEF Post

LEMMA InvConnect ==
  ASSUME IInv, NEW p \in Procs, Connect(p)
  PROVE  IInv'
<1>1. /\ At(p, "connect") /\ Become(p, Over)
      /\ UNCHANGED <<files, server, changes, trusted, worked, recorded>>
  BY DEF Connect
<1>2. Moved(p)
  BY <1>1 DEF Become, Moved
<1>3. CASE Lets(p) /\ Sends(p)
  <2>1. HistoriesGrow
    BY <1>1 DEF HistoriesGrow
  <2>2. sent' \in SUBSET Sending /\ SecretsOnlyToTrusted'
    BY <1>1, <1>3, <2>1, SendSound
  <2> QED BY <1>1, <1>2, <2>1, <2>2, Accepting DEF IInv, TypeOK
<1>4. CASE UNCHANGED sent
  BY <1>1, <1>2, <1>4, OnlyJobs DEF files, history
<1> QED BY <1>3, <1>4 DEF Connect

-----------------------------------------------------------------------------
(* The credentials file, action by action *)

(* Steps that write the credentials file, with passwords that worked.      *)
LEMMA Storing ==
  ASSUME IInv, NEW p \in Procs, Moved(p), StoredPasswordWorked',
         store' \in CredentialsFile \cup {Torn},
         orphaned' \in SUBSET Procs,
         UNCHANGED <<configs, server, changes, trusted, worked, sent, recorded>>
  PROVE  IInv'
<1>1. HistoriesGrow
  BY DEF HistoriesGrow
<1>2. JobsSound' /\ jobs' \in [Procs -> Job \cup {Absent, Over}]
  BY <1>1, JobsMove
<1>3. TypeOK'
  BY <1>2 DEF IInv, TypeOK, server
<1>4. PinIsTrusted' /\ SecretsOnlyToTrusted'
  BY DEF IInv, PinIsTrusted, SecretsOnlyToTrusted
<1> QED BY <1>2, <1>3, <1>4 DEF IInv

LEMMA InvOffer ==
  ASSUME IInv, NEW p \in Procs, Offer(p)
  PROVE  IInv'
<1> DEFINE j == jobs[p]
<1>0. At(p, "offer")
  BY DEF Offer
<1>1. j \in Job /\ JobSound(j, "offer", trusted, worked)
  BY <1>0, JobAt
<1>2. PICK next \in {"readstore", "connect"} : Become(p, Goto(j, next))
  BY DEF Offer
<1>3. UNCHANGED <<files, server, changes, history>>
  BY DEF Offer
<1> HIDE DEF j
<1>4. JobSound(j, next, trusted, worked)
  BY <1>1 DEF JobSound, JobShape, PinSound, PasswordSound, Judged, Saving
<1>5. Moved(p)
  BY <1>1, <1>2, <1>3, <1>4, Goes DEF Phases, history
<1> QED BY <1>3, <1>5, OnlyJobs DEF files

LEMMA InvReadStore ==
  ASSUME IInv, NEW p \in Procs, ReadStore(p)
  PROVE  IInv'
<1> DEFINE j == jobs[p]
           GoesTo(file) == CASE j.req.cmd # "logout" -> "savestore"
                             [] j.req.cmd = "logout" ->
                                  IF StoredPassword(file, j.conf) = Absent THEN "end"
                                  ELSE "emptystore"
<1>0. At(p, "readstore")
  BY DEF ReadStore
<1>1. /\ j \in Job /\ JobSound(j, "readstore", trusted, worked)
      /\ j.conf \in Config /\ keyFor(j.conf) \in Keys
  BY <1>0, JobAt
<1>2. PICK file \in ReadResults : Become(p, Goto([j EXCEPT !.view = file], GoesTo(file)))
  BY DEF ReadStore
<1>3. UNCHANGED <<files, server, changes, history>>
  BY DEF ReadStore
<1> DEFINE k == [j EXCEPT !.view = file]
           next == GoesTo(file)
<1>4. /\ file \in CredentialsFile \cup {Torn}
      /\ file # Torn => \A key \in Keys : file[key] # Absent => file[key] \in worked[key]
  BY DEF ReadResults, IInv, TypeOK, StoredPasswordWorked
<1>5. /\ k \in Job /\ k.conf = j.conf /\ k.req = j.req /\ k.view = file
      /\ k.password = j.password /\ k.agreed = j.agreed /\ k.seen = j.seen
  BY <1>1, <1>4, ViewFacts
<1>6. /\ next \in {"savestore", "emptystore", "end"}
      /\ next = "savestore" => j.req.cmd # "logout"
      /\ next = "emptystore" => /\ j.req.cmd = "logout"
                                /\ file # Torn
                                /\ file[keyFor(j.conf)] # Absent
  BY DEF StoredPassword
<1>7. Become(p, Goto(k, next))
  BY <1>2
<1> HIDE DEF j, k, next
<1>8. next # "end" => JobShape(k, next)
  BY <1>1, <1>5, <1>6 DEF JobSound, JobShape
<1>9. PinSound(k, next, trusted)
  BY <1>1, <1>5, <1>6 DEF JobSound, PinSound, Judged, Saving
<1>10. PasswordSound(k, next, worked)
  BY <1>1, <1>4, <1>5, <1>6 DEF JobSound, PasswordSound, Saving
<1>11. Moved(p)
  BY <1>3, <1>5, <1>6, <1>7, <1>8, <1>9, <1>10, Goes DEF JobSound, Phases, history
<1> QED BY <1>3, <1>11, OnlyJobs DEF files

(* What a save puts into the file.                                         *)
LEMMA MergedFacts ==
  ASSUME NEW j \in Job, j.conf \in Config, j.password \in Passwords
  PROVE  /\ Merged(j) \in CredentialsFile
         /\ Merged(j)[keyFor(j.conf)] = j.password
         /\ \A key \in Keys \ {keyFor(j.conf)} :
              Merged(j)[key] = IF j.view = Torn THEN Absent ELSE j.view[key]
<1> DEFINE base == IF j.view = Torn THEN noCredentials ELSE j.view
<1>1. base \in CredentialsFile
  BY DEF Job, noCredentials, CredentialsFile
<1>2. Merged(j) = [base EXCEPT ![keyFor(j.conf)] = j.password]
  BY DEF Merged
<1>3. keyFor(j.conf) \in Keys
  BY KeyType
<1>4. \A key \in Keys : base[key] = IF j.view = Torn THEN Absent ELSE j.view[key]
  BY DEF noCredentials
<1> HIDE DEF base
<1> QED BY <1>1, <1>2, <1>3, <1>4 DEF CredentialsFile

(* What a logout leaves in it.                                             *)
LEMMA RemovedFacts ==
  ASSUME NEW j \in Job, j.conf \in Config, j.view # Torn
  PROVE  /\ Removed(j) \in CredentialsFile
         /\ Removed(j)[keyFor(j.conf)] = Absent
         /\ \A key \in Keys \ {keyFor(j.conf)} : Removed(j)[key] = j.view[key]
<1>1. j.view \in CredentialsFile
  BY DEF Job
<1>2. keyFor(j.conf) \in Keys
  BY KeyType
<1> QED BY <1>1, <1>2 DEF Removed, CredentialsFile

LEMMA InvSaveStore ==
  ASSUME IInv, NEW p \in Procs, SaveStore(p)
  PROVE  IInv'
<1> DEFINE j == jobs[p]
           next == AfterSave(j)
<1>0. At(p, "savestore")
  BY DEF SaveStore
<1>1. /\ j \in Job /\ JobSound(j, "savestore", trusted, worked)
      /\ j.conf \in Config /\ keyFor(j.conf) \in Keys
  BY <1>0, JobAt
<1>2. /\ store' = Merged(j)
      /\ orphaned' = orphaned \cup {q \in Procs : At(q, "writestore")}
      /\ Become(p, Goto(j, next))
      /\ UNCHANGED <<configs, server, changes, trusted, worked, sent, recorded>>
  BY DEF SaveStore
<1>3. next \in {"end", "connect"}
  BY <1>1, CookiePhases
<1>4. orphaned' \in SUBSET Procs
  BY <1>2 DEF IInv, TypeOK
<1>5. worked \in [Keys -> SUBSET Passwords]
  BY DEF IInv, TypeOK
<1> HIDE DEF j, next
<1>6. j.req.cmd # "logout" /\ j.password \in worked[keyFor(j.conf)] /\ j.password \in Passwords
  BY <1>1, <1>5 DEF JobSound, JobShape, PasswordSound, Saving
<1>7. JobSound(j, next, trusted', worked') \/ next = "end"
  BY <1>1, <1>2, <1>3, <1>6 DEF JobSound, JobShape, PinSound, PasswordSound, Judged, Saving
<1>8. Moved(p)
  BY <1>1, <1>2, <1>3, <1>7, Goes DEF Phases
<1>9. Merged(j) \in CredentialsFile
  BY <1>1, <1>6, MergedFacts
<1>10. StoredPasswordWorked'
  <2> SUFFICES ASSUME NEW key \in Keys, Merged(j)[key] # Absent
               PROVE  Merged(j)[key] \in worked[key]
    BY <1>2 DEF StoredPasswordWorked
  <2>1. CASE key = keyFor(j.conf)
    BY <1>1, <1>6, <2>1, MergedFacts
  <2>2. CASE key # keyFor(j.conf)
    <3>1. Merged(j)[key] = IF j.view = Torn THEN Absent ELSE j.view[key]
      BY <1>1, <1>6, <2>2, MergedFacts
    <3> QED BY <1>1, <3>1 DEF JobSound, PasswordSound
  <2> QED BY <2>1, <2>2
<1> QED BY <1>2, <1>4, <1>8, <1>9, <1>10, Storing

LEMMA InvSaveFails ==
  ASSUME IInv, NEW p \in Procs, SaveFails(p)
  PROVE  IInv'
<1> DEFINE j == jobs[p]
           next == IF j.req.cmd # "login" /\ j.via = "oauth" THEN "legacy" ELSE "end"
<1>0. At(p, "savestore")
  BY DEF SaveFails
<1>1. /\ j \in Job /\ JobSound(j, "savestore", trusted, worked)
      /\ j.conf \in Config /\ keyFor(j.conf) \in Keys
  BY <1>0, JobAt
<1>2. Become(p, Goto(j, next)) /\ UNCHANGED <<files, server, changes, history>>
  BY DEF SaveFails
<1>3. next \in {"legacy", "end"}
  OBVIOUS
<1>4. worked \in [Keys -> SUBSET Passwords]
  BY DEF IInv, TypeOK
<1> HIDE DEF j, next
<1>5. j.req.cmd # "logout" /\ j.password # Absent
  BY <1>1, <1>4, SessionAssumption DEF JobSound, JobShape, PasswordSound, Saving
<1>6. next # "end" => JobSound(j, next, trusted, worked)
  BY <1>1, <1>3, <1>5, GoesOn DEF Judged, Saving
<1>7. Moved(p)
  BY <1>1, <1>2, <1>3, <1>6, Goes DEF Phases, history
<1> QED BY <1>2, <1>7, OnlyJobs DEF files

LEMMA InvEmptyStore ==
  ASSUME IInv, NEW p \in Procs, EmptyStore(p)
  PROVE  IInv'
<1> DEFINE j == jobs[p]
<1>0. At(p, "emptystore")
  BY DEF EmptyStore
<1>1. j \in Job /\ JobSound(j, "emptystore", trusted, worked)
  BY <1>0, JobAt
<1>2. /\ store' = Torn /\ Become(p, Goto(j, "writestore"))
      /\ UNCHANGED <<configs, orphaned, server, changes, history>>
  BY DEF EmptyStore
<1> HIDE DEF j
<1>3. JobSound(j, "writestore", trusted, worked)
  BY <1>1 DEF JobSound, JobShape, PinSound, PasswordSound, Judged, Saving
<1>4. Moved(p)
  BY <1>1, <1>2, <1>3, Goes DEF Phases, history
<1>5. StoredPasswordWorked' /\ orphaned' \in SUBSET Procs
  BY <1>2 DEF StoredPasswordWorked, IInv, TypeOK, history
<1> QED BY <1>2, <1>4, <1>5, Storing DEF history

LEMMA InvWriteStore ==
  ASSUME IInv, NEW p \in Procs, WriteStore(p)
  PROVE  IInv'
<1> DEFINE j == jobs[p]
<1>0. At(p, "writestore")
  BY DEF WriteStore
<1>1. /\ j \in Job /\ JobSound(j, "writestore", trusted, worked)
      /\ j.conf \in Config /\ keyFor(j.conf) \in Keys
  BY <1>0, JobAt
<1>2. /\ store' \in {store, Removed(j), Torn}
      /\ orphaned' = orphaned \ {p}
      /\ Become(p, Over)
      /\ UNCHANGED <<configs, server, changes, trusted, worked, sent, recorded>>
  BY DEF WriteStore
<1>3. Moved(p)
  BY <1>2 DEF Become, Moved
<1> HIDE DEF j
<1>4. /\ Removed(j) \in CredentialsFile
      /\ \A key \in Keys : Removed(j)[key] # Absent => Removed(j)[key] \in worked[key]
  BY <1>1, RemovedFacts DEF JobSound, JobShape, PasswordSound
<1>5. StoredPasswordWorked'
  BY <1>2, <1>4 DEF StoredPasswordWorked, IInv
<1>6. /\ store' \in CredentialsFile \cup {Torn}
      /\ orphaned' \in SUBSET Procs
  BY <1>2, <1>4 DEF IInv, TypeOK
<1> QED BY <1>2, <1>3, <1>5, <1>6, Storing

-----------------------------------------------------------------------------
(* Others, and the invariant *)

(* Steps that no command takes.                                            *)
LEMMA InvOthers ==
  ASSUME IInv, Others
  PROVE  IInv'
<1> USE DEF IInv
<1>0. UNCHANGED <<jobs, store, orphaned, worked, sent>>
  BY DEF Others, Hang, Reissue, ChangePassword, UserEdits, files, server, history
<1>1. changes' \in 0 .. MaxChanges
  BY SessionAssumption DEF Others, Hang, Reissue, ChangePassword, UserEdits, MayChange, TypeOK
<1>2. StoredPasswordWorked'
  BY <1>0 DEF StoredPasswordWorked
<1>3. ASSUME UNCHANGED <<files, history>>, silent' \subseteq Urls,
             presents' \in [Urls -> Certs], secrets' \in [Keys -> Passwords],
             UNCHANGED logins
      PROVE  IInv'
  <2>1. TypeOK'
    BY <1>0, <1>1, <1>3 DEF TypeOK, files, history
  <2>2. PinIsTrusted' /\ SecretsOnlyToTrusted' /\ JobsSound'
    BY <1>0, <1>3 DEF PinIsTrusted, SecretsOnlyToTrusted, JobsSound, Running, files, history
  <2> QED BY <1>2, <2>1, <2>2
<1>4. ASSUME NEW url \in Urls, Hang(url)
      PROVE  IInv'
  <2>1. /\ UNCHANGED <<files, presents, logins, secrets, history>>
        /\ silent' = IF url \in silent THEN silent \ {url} ELSE silent \cup {url}
    BY <1>4 DEF Hang
  <2> QED BY <1>3, <2>1 DEF TypeOK
<1>5. ASSUME NEW url \in Urls, NEW cert \in Certs, Reissue(url, cert)
      PROVE  IInv'
  <2>1. /\ UNCHANGED <<files, logins, secrets, silent, history>>
        /\ presents' = [presents EXCEPT ![url] = cert]
    BY <1>5 DEF Reissue
  <2> QED BY <1>3, <2>1 DEF TypeOK
<1>6. ASSUME NEW key \in Keys, NEW password \in Passwords, ChangePassword(key, password)
      PROVE  IInv'
  <2>1. /\ UNCHANGED <<files, presents, logins, silent, history>>
        /\ secrets' = [secrets EXCEPT ![key] = password]
    BY <1>6 DEF ChangePassword
  <2> QED BY <1>3, <2>1 DEF TypeOK
<1>7. ASSUME NEW root \in Roots, NEW config \in EditedConfigs, UserEdits(root, config)
      PROVE  IInv'
  <2> DEFINE pin == {config.certFingerprint} \ {Absent}
  <2>1. /\ configs' = [configs EXCEPT ![root] = config]
        /\ recorded' = [recorded EXCEPT ![root] = config]
        /\ trusted' = [trusted EXCEPT ![config.url] = @ \cup pin]
        /\ UNCHANGED server
    BY <1>7 DEF UserEdits
  <2>2. config \in Config /\ config.url \in Urls /\ pin \subseteq Certs
    BY SessionAssumption DEF Config
  <2>3. trusted \in [Urls -> SUBSET Certs] /\ configs \in [Roots -> Config \cup {Absent, Torn}]
    BY DEF TypeOK
  <2>4. config.certFingerprint # Absent => config.certFingerprint \in pin
    OBVIOUS
  <2> HIDE DEF pin
  <2>5. /\ trusted' \in [Urls -> SUBSET Certs]
        /\ \A url \in Urls : trusted[url] \subseteq trusted'[url]
        /\ pin \subseteq trusted'[config.url]
    BY <2>1, <2>2, <2>3
  <2>6. HistoriesGrow
    BY <1>0, <2>5 DEF HistoriesGrow
  <2>7. TypeOK'
    BY <1>0, <1>1, <2>1, <2>2, <2>5 DEF TypeOK, server
  <2>8. PinIsTrusted'
    <3> SUFFICES ASSUME NEW r \in Roots, configs'[r] \in Config,
                        configs'[r].certFingerprint # Absent
                 PROVE  configs'[r].certFingerprint \in trusted'[configs'[r].url]
      BY DEF PinIsTrusted
    <3>1. CASE configs'[r] = config
      BY <2>4, <2>5, <3>1
    <3>2. CASE configs'[r] = configs[r]
      <4>1. configs[r].url \in Urls
        BY <3>2, KeyType
      <4> QED BY <2>5, <3>2, <4>1 DEF PinIsTrusted
    <3> QED BY <2>1, <2>3, <3>1, <3>2
  <2>9. SecretsOnlyToTrusted'
    BY <1>0, <2>6, SentBefore DEF SecretsOnlyToTrusted
  <2>10. JobsSound'
    <3> SUFFICES ASSUME NEW p \in Procs, jobs[p] \notin {Absent, Over}
                 PROVE  JobSound(jobs[p], jobs[p].phase, trusted', worked')
      BY <1>0 DEF JobsSound, Running
    <3>1. jobs[p] \in Job /\ JobSound(jobs[p], jobs[p].phase, trusted, worked)
      BY DEF TypeOK, JobsSound, Running
    <3> QED BY <2>6, <3>1, SoundKept
  <2> QED BY <1>2, <2>7, <2>8, <2>9, <2>10
<1> QED BY <1>4, <1>5, <1>6, <1>7 DEF Others

(* One step of one command.                                                *)
LEMMA InvRun ==
  ASSUME IInv, NEW p \in Procs, Run(p)
  PROVE  IInv'
<1>1. CASE loadConfig(p) \/ runInit(p)
  BY <1>1, InvLoad, InvRunInit
<1>2. CASE Probe(p) \/ ProbeFails(p) \/ Ask(p)
  BY <1>2, InvProbe, InvProbeFails, InvAsk
<1>3. CASE TruncateConfig(p) \/ WriteConfig(p)
  BY <1>3, InvTruncateConfig, InvWriteConfig
<1>4. CASE Collect(p) \/ Hello(p) \/ resolvePassword(p) \/ Connect(p)
  BY <1>4, InvCollect, InvHello, InvResolve, InvConnect
<1>5. CASE OAuth(p)
  BY <1>5, InvPost DEF OAuth
<1>6. CASE Legacy(p)
  BY <1>6, InvPost DEF Legacy
<1>7. CASE Offer(p) \/ ReadStore(p) \/ SaveStore(p) \/ SaveFails(p)
  BY <1>7, InvOffer, InvReadStore, InvSaveStore, InvSaveFails
<1>8. CASE EmptyStore(p) \/ WriteStore(p)
  BY <1>8, InvEmptyStore, InvWriteStore
<1> QED BY <1>1, <1>2, <1>3, <1>4, <1>5, <1>6, <1>7, <1>8 DEF Run

(* The configs and credentials there to begin with are taken on trust.     *)
LEMMA InvInit ==
  ASSUME Init
  PROVE  IInv
<1>1. TypeOK
  <2>1. /\ configs \in [Roots -> Config \cup {Absent}]
        /\ store \in CredentialsFile
        /\ logins \in [Urls -> SUBSET {"oauth", "legacy"}]
    BY SessionAssumption DEF Init
  <2>2. trusted \in [Urls -> SUBSET Certs] /\ worked \in [Keys -> SUBSET Passwords]
    BY DEF Init
  <2>3. jobs \in [Procs -> Job \cup {Absent, Over}] /\ changes \in 0 .. MaxChanges
    BY SessionAssumption DEF Init
  <2> QED BY <2>1, <2>2, <2>3 DEF Init, TypeOK
<1>2. PinIsTrusted
  <2> SUFFICES ASSUME NEW root \in Roots, configs[root] \in Config,
                      configs[root].certFingerprint # Absent
               PROVE  configs[root].certFingerprint \in trusted[configs[root].url]
    BY DEF PinIsTrusted
  <2> DEFINE config == configs[root]
             TrustedOf(url) ==
               {cert \in Certs : \E r \in Roots : /\ configs[r] # Absent
                                                  /\ configs[r].url = url
                                                  /\ configs[r].certFingerprint = cert}
  <2>1. config \in Config /\ config # Absent
    BY SessionAssumption
  <2>2. config.url \in Urls /\ config.certFingerprint \in Certs
    BY <2>1 DEF Config
  <2>3. trusted = [url \in Urls |-> TrustedOf(url)]
    BY DEF Init
  <2>4. trusted[config.url] = TrustedOf(config.url)
    BY <2>2, <2>3
  <2> QED BY <2>1, <2>2, <2>4
<1>3. StoredPasswordWorked
  <2> SUFFICES ASSUME NEW key \in Keys, store[key] # Absent
               PROVE  store[key] \in worked[key]
    BY DEF StoredPasswordWorked
  <2>1. worked[key] = {password \in Passwords : store[key] = password}
    BY DEF Init
  <2>2. store[key] \in Passwords
    BY SessionAssumption DEF Init, CredentialsFile
  <2> QED BY <2>1, <2>2
<1>4. SecretsOnlyToTrusted
  BY DEF Init, SecretsOnlyToTrusted
<1>5. JobsSound
  BY DEF Init, JobsSound, Running
<1> QED BY <1>1, <1>2, <1>3, <1>4, <1>5 DEF IInv

LEMMA InvNext ==
  ASSUME IInv, [Next]_vars
  PROVE  IInv'
<1>1. CASE Others
  BY <1>1, InvOthers
<1>2. ASSUME NEW p \in Procs, (\E req \in Requests : Start(p, req)) \/ Run(p) \/ Abort(p)
      PROVE  IInv'
  BY <1>2, InvStart, InvRun, InvAbort
<1>3. CASE UNCHANGED vars
  <2> USE <1>3 DEF vars, files, server, history
  <2>1. TypeOK'
    BY DEF IInv, TypeOK
  <2>2. PinIsTrusted' /\ StoredPasswordWorked' /\ SecretsOnlyToTrusted'
    BY DEF IInv, PinIsTrusted, StoredPasswordWorked, SecretsOnlyToTrusted
  <2>3. JobsSound'
    BY DEF IInv, JobsSound, Running
  <2> QED BY <2>1, <2>2, <2>3 DEF IInv
<1> QED BY <1>1, <1>2, <1>3 DEF Next

-----------------------------------------------------------------------------
(* Theorems *)

(* In every reachable state, however many commands, instances and changes: *)
(* the pins and passwords in the files and in every command's hands are    *)
(* ones that were accepted, and what was sent went where it may.           *)
THEOREM Invariant == Spec => []IInv
<1>1. Init => IInv
  BY InvInit
<1>2. IInv /\ [Next]_vars => IInv'
  BY InvNext
<1> QED BY <1>1, <1>2, PTL DEF Spec

(* The files, the commands and the histories keep their types.             *)
THEOREM TypeCorrect == Spec => []TypeOK
<1>1. IInv => TypeOK
  BY DEF IInv
<1> QED BY <1>1, Invariant, PTL

(* A password or a cookie only goes to a certificate that was accepted for *)
(* the instance, or that the CA store vouches for (client/tls.ts:16-24).   *)
THEOREM SecretsGoToTrusted == Spec => []SecretsOnlyToTrusted
<1>1. IInv => SecretsOnlyToTrusted
  BY DEF IInv
<1> QED BY <1>1, Invariant, PTL

(* A recorded pin was accepted for the url it stands beside, whichever     *)
(* commands wrote over each other's configs (config.ts:177-180).           *)
THEOREM PinsAreTrusted == Spec => []PinIsTrusted
<1>1. IInv => PinIsTrusted
  BY DEF IInv
<1> QED BY <1>1, Invariant, PTL

(* A stored password is one its account has accepted (login.ts:5-6).       *)
THEOREM StoredPasswordsWorked == Spec => []StoredPasswordWorked
<1>1. IInv => StoredPasswordWorked
  BY DEF IInv
<1> QED BY <1>1, Invariant, PTL

(* No command replaces the pin it went by unless the user said so          *)
(* (trust.ts:10-12).                                                       *)
THEOREM NeverRepinsAlone == Spec => BatchNeverRepins
<1>1. ASSUME IInv, NEW p \in Procs, WriteConfig(p), recorded[jobs[p].req.root] # Absent,
             recorded[jobs[p].req.root].certFingerprint
               \notin {Absent, recorded'[jobs[p].req.root].certFingerprint},
             jobs[p].conf = recorded[jobs[p].req.root]
      PROVE  jobs[p].agreed \/ (jobs[p].req.cmd = "trust" /\ jobs[p].req.yes)
  <2>1. At(p, "write")
    BY <1>1 DEF WriteConfig
  <2>2. JobSound(jobs[p], "write", trusted, worked)
    BY <1>1, <2>1, JobAt
  <2> QED BY <1>1, <2>2 DEF JobSound, PinSound
<1>2. IInv /\ [Next]_vars =>
        [\A p \in Procs : LET j == jobs[p]
                              old == recorded[j.req.root]
                              new == recorded'[j.req.root] IN
           /\ WriteConfig(p)
           /\ old # Absent
           /\ old.url = new.url
           /\ old.certFingerprint \notin {Absent, new.certFingerprint}
           => \/ j.agreed
              \/ j.req.cmd = "trust" /\ j.req.yes
              \/ j.req.cmd = "init" /\ j.req.force
              \/ j.conf # old]_vars
  BY <1>1
<1> QED BY <1>2, Invariant, PTL DEF Spec, BatchNeverRepins

=============================================================================
