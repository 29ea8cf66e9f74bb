------------------------------ MODULE Deployer ------------------------------
(***************************************************************************)
(* Save & Apply and Roll back, as internal/hap/deploy.go performs them and *)
(* internal/web/handlers_config.go calls them: render the database, stage  *)
(* and check the result, back up the live file, publish error pages and    *)
(* certificates, publish haproxy.cfg, record a version, reload HAProxy,    *)
(* undo what can be undone.  The Deployer holds no lock: every request is  *)
(* a process, and its steps interleave with those of the other requests,   *)
(* with edits of the database and with HAProxy dying.                      *)
(*                                                                         *)
(* A configuration is a value of Contents: the state of the database and   *)
(* the haproxy.cfg rendered from it.  FilesOf[c] are the error pages and   *)
(* certificates that state holds and that haproxy.cfg names.  HAProxy and  *)
(* its process manager are external.                                       *)
(***************************************************************************)
EXTENDS Integers, Sequences, FiniteSets

CONSTANTS
  Handlers,     \* HTTP requests that deploy, reload or restart
  Contents,     \* configurations
  Valid,        \* those `haproxy -c` accepts when the files they name exist
  Pages, Certs, \* error page files and certificate files
  FilesOf,      \* [Contents -> SUBSET (Pages \cup Certs)]
  Nothing,      \* no file on disk, no configuration running
  Operations,   \* what the requests do in this instance
  Faults,       \* whether file system and database calls may fail, and the
                \* controller crash
  EditsInFlight,\* whether the database is edited while a request runs
  BackupKeep,   \* backups kept on disk (20 in the code)
  VersionKeep,  \* versions kept by TrimVersions (at least 5 in the code)
  MaxRequests   \* bound: requests begun, and crashes, in one behaviour

Files == Pages \cup Certs

ASSUME ContentsAssumption ==
  /\ Valid \subseteq Contents /\ Nothing \notin Contents
  /\ Pages \cap Certs = {}
  /\ FilesOf \in [Contents -> SUBSET Files]
ASSUME OperationsAssumption == Operations \subseteq {"apply", "rollback", "reload", "restart"}
ASSUME FlagsAssumption == Faults \in BOOLEAN /\ EditsInFlight \in BOOLEAN
ASSUME BoundsAssumption ==
  BackupKeep \in Nat \ {0} /\ VersionKeep \in Nat \ {0} /\ MaxRequests \in Nat

VARIABLES
  db,        \* the configuration the database holds
  cfg,       \* the content of haproxy.cfg, or Nothing
  files,     \* error pages and certificates in the live directories
  backups,   \* contents of the backup directory, oldest first
  versions,  \* config_versions by id; a trimmed row has status "deleted"
  running,   \* the configuration HAProxy serves, or Nothing
  req,       \* req[h]: the local state of request h
  begun,     \* requests begun so far
  checked    \* history: configurations `haproxy -c` has accepted

vars == <<db, cfg, files, backups, versions, running, req, begun, checked>>
disk == <<cfg, files, backups>>

Points == {"idle", "stage", "check", "backup", "pages", "prunePages", "certs",
           "pruneCerts", "write", "record", "reload", "status", "mark", "restore",
           "undoReload", "addRolledBack", "markRolledBack", "trim", "stop"}
Statuses == {"applied", "failed", "rolled_back", "deleted"}
Version == [content : Contents, status : Statuses]
Outcomes == {"none", "ok", "reloaded", "rejected", "undone", "error"}
\* What lay behind a reload that was answered as good: HAProxy had loaded the file,
\* went on with the configuration it had, or was gone.
Answers == {"none", "true", "unconfirmed", "dead"}

Requests == [op : Operations \cup {"none"}, pc : Points, content : Contents \cup {Nothing},
             staged : SUBSET Files, previous : Contents \cup {Nothing},
             wanted : SUBSET Files, version : Nat, outcome : Outcomes, loaded : BOOLEAN,
             answer : Answers]

Idle(o) == [op |-> "none", pc |-> "idle", content |-> Nothing, staged |-> {},
            previous |-> Nothing, wanted |-> {}, version |-> 0, outcome |-> o,
            loaded |-> FALSE, answer |-> "none"]

TypeOK ==
  /\ db \in Contents
  /\ cfg \in Contents \cup {Nothing}
  /\ files \in SUBSET Files
  /\ backups \in Seq(Contents)
  /\ versions \in Seq(Version)
  /\ running \in Contents \cup {Nothing}
  /\ req \in [Handlers -> Requests]
  /\ begun \in 0..MaxRequests
  /\ checked \in SUBSET Contents

Init ==
  /\ db \in Contents
  /\ cfg = Nothing /\ files = {} /\ backups = << >>
  /\ versions = << >>
  /\ running = Nothing
  /\ req = [h \in Handlers |-> Idle("none")]
  /\ begun = 0
  /\ checked = {}

(***************************************************************************)
(* What a step does to the request that takes it.                          *)
(***************************************************************************)

At(h, p) == req[h].pc = p
Goto(h, p) == req' = [req EXCEPT ![h].pc = p]
Return(h, o) == req' = [req EXCEPT ![h] = Idle(o)]

\* A deployment that succeeds remembers (a history) what its reload was worth.
Succeed(h, o) == req' = [req EXCEPT ![h] = [Idle(o) EXCEPT !.answer = req[h].answer]]

\* A call on the file system or the database fails.
Fails == Faults

AddVersion(c, s) == versions' = Append(versions, [content |-> c, status |-> s])

\* An UPDATE: it finds no row once the version has been trimmed.
MarkVersion(v, s) ==
  versions' = [versions EXCEPT ![v].status = IF @ = "deleted" THEN @ ELSE s]

Stored == {v \in DOMAIN versions : versions[v].status # "deleted"}

Trimmed(keep) ==
  [v \in DOMAIN versions |->
     IF v + keep <= Len(versions) THEN [versions[v] EXCEPT !.status = "deleted"]
     ELSE versions[v]]

(***************************************************************************)
(* The operator edits the database; a request begins.                      *)
(***************************************************************************)

Edit ==
  /\ EditsInFlight \/ \A h \in Handlers : At(h, "idle")
  /\ \E c \in Contents \ {db} : db' = c
  /\ UNCHANGED <<disk, versions, running, req, begun, checked>>

Begin(h, o) ==
  /\ At(h, "idle") /\ begun < MaxRequests /\ o \in Operations
  /\ begun' = begun + 1

\* Render reads the whole database; on an error handleApply dereferences a nil
\* result and the request ends in a recovered panic.
BeginApply(h) ==
  /\ Begin(h, "apply")
  /\ \/ req' = [req EXCEPT ![h] = [Idle("none") EXCEPT !.op = "apply", !.pc = "stage",
                                                       !.content = db]]
     \/ Fails /\ Return(h, "error")
  /\ UNCHANGED <<db, disk, versions, running, checked>>

\* Mutant of BeginRollback: a stored version is trusted without a check.
BeginRollbackUnchecked(h) ==
  /\ Begin(h, "rollback")
  /\ \E v \in Stored :
       req' = [req EXCEPT ![h] = [Idle("none") EXCEPT !.op = "rollback", !.pc = "backup",
                                    !.content = versions[v].content, !.version = v]]
  /\ UNCHANGED <<db, disk, versions, running, checked>>

BeginRollback(h) ==
  /\ Begin(h, "rollback")
  /\ \/ \E v \in Stored :
          req' = [req EXCEPT ![h] = [Idle("none") EXCEPT !.op = "rollback", !.pc = "stage",
                                       !.content = versions[v].content, !.version = v]]
     \/ Fails /\ Return(h, "error")
  /\ UNCHANGED <<db, disk, versions, running, checked>>

BeginReload(h) ==
  /\ Begin(h, "reload")
  /\ req' = [req EXCEPT ![h] = [Idle("none") EXCEPT !.op = "reload", !.pc = "reload"]]
  /\ UNCHANGED <<db, disk, versions, running, checked>>

BeginRestart(h) ==
  /\ Begin(h, "restart")
  /\ req' = [req EXCEPT ![h] = [Idle("none") EXCEPT !.op = "restart", !.pc = "stop"]]
  /\ UNCHANGED <<db, disk, versions, running, checked>>

(***************************************************************************)
(* Validation: the files are read from the database again, after the       *)
(* content was rendered (Apply) or stored (Rollback).                      *)
(***************************************************************************)

Stage(h) ==
  /\ At(h, "stage")
  /\ \/ req' = [req EXCEPT ![h].pc = "check", ![h].staged = FilesOf[db]]
     \/ Fails /\ Return(h, "error")
  /\ UNCHANGED <<db, disk, versions, running, begun, checked>>

Accepted(h) == req[h].content \in Valid /\ FilesOf[req[h].content] \subseteq req[h].staged

CheckPasses(h) ==
  /\ At(h, "check") /\ Accepted(h)
  /\ checked' = checked \cup {req[h].content}
  /\ Goto(h, "backup")
  /\ UNCHANGED <<db, disk, versions, running, begun>>

\* Apply records the failed attempt, and ignores it when that fails; Rollback
\* records nothing.
CheckFails(h) ==
  /\ At(h, "check") /\ (~Accepted(h) \/ Fails)
  /\ \/ req[h].op = "apply" /\ AddVersion(req[h].content, "failed")
     \/ (req[h].op = "rollback" \/ Fails) /\ UNCHANGED versions
  /\ Return(h, "rejected")
  /\ UNCHANGED <<db, disk, running, begun, checked>>

(***************************************************************************)
(* Publication.                                                            *)
(***************************************************************************)

\* Mutant of Newest: the names are sorted oldest first before the trim.
Oldest(s) == IF Len(s) <= BackupKeep THEN s ELSE SubSeq(s, 1, BackupKeep)

Newest(s) == IF Len(s) <= BackupKeep THEN s ELSE SubSeq(s, Len(s) - BackupKeep + 1, Len(s))

\* A backup is named by the second: two in one second share a file.
WriteBackup(c) ==
  \/ backups' = Newest(Append(backups, c))
  \/ backups # << >> /\ backups' = [backups EXCEPT ![Len(backups)] = c]

AfterBackup(h) == IF req[h].op = "apply" THEN "pages" ELSE "write"

\* Read the live file, keep it for an undo, copy it to the backup directory.
\* Apply gives up when the copy fails, Rollback goes on; a file that cannot be
\* read is taken for one that is not there.
Backup(h) ==
  /\ At(h, "backup")
  /\ \/ /\ IF cfg = Nothing THEN UNCHANGED backups ELSE WriteBackup(cfg)
        /\ req' = [req EXCEPT ![h].pc = AfterBackup(h), ![h].previous = cfg]
     \/ /\ Fails /\ cfg # Nothing
        /\ UNCHANGED backups
        /\ IF req[h].op = "apply" THEN Return(h, "error")
           ELSE req' = [req EXCEPT ![h].pc = "write", ![h].previous = cfg]
     \/ /\ Fails /\ cfg # Nothing
        /\ UNCHANGED backups
        /\ req' = [req EXCEPT ![h].pc = AfterBackup(h), ![h].previous = Nothing]
  /\ UNCHANGED <<db, cfg, files, versions, running, begun, checked>>

\* writeErrorPages and writeCertificates: list the files of one kind in the
\* database, write them one after the other, then prune (below) the others.
WriteFiles(h, at, kind, next) ==
  /\ At(h, at)
  /\ \/ /\ files' = files \cup (FilesOf[db] \cap kind)
        /\ req' = [req EXCEPT ![h].pc = next, ![h].wanted = FilesOf[db] \cap kind]
     \/ /\ Fails
        /\ \E some \in SUBSET (FilesOf[db] \cap kind) : files' = files \cup some
        /\ Return(h, "error")
  /\ UNCHANGED <<db, cfg, backups, versions, running, begun, checked>>

\* A file that cannot be removed stays; a directory that cannot be read ends Apply.
PruneDir(h, at, kind, next) ==
  /\ At(h, at)
  /\ \/ /\ \/ files' = files \ (kind \ req[h].wanted)
           \/ Fails /\ UNCHANGED files
        /\ req' = [req EXCEPT ![h].pc = next, ![h].wanted = {}]
     \/ Fails /\ UNCHANGED files /\ Return(h, "error")
  /\ UNCHANGED <<db, cfg, backups, versions, running, begun, checked>>

WriteErrorPages(h) == WriteFiles(h, "pages", Pages, "prunePages")
PruneErrorPages(h) == PruneDir(h, "prunePages", Pages, "certs")
WriteCertificates(h) == WriteFiles(h, "certs", Certs, "pruneCerts")
PruneCertificates(h) == PruneDir(h, "pruneCerts", Certs, "write")

\* writeFileAtomic: a rename, so the file holds one content or the other.
WriteConfig(h) ==
  /\ At(h, "write")
  /\ \/ /\ cfg' = req[h].content
        /\ req' = [req EXCEPT ![h].pc = IF req[h].op = "apply" THEN "record" ELSE "reload",
                              ![h].loaded = FALSE]
     \/ Fails /\ UNCHANGED cfg /\ Return(h, "error")
  /\ UNCHANGED <<db, files, backups, versions, running, begun, checked>>

RecordApplied(h) ==
  /\ At(h, "record")
  /\ \/ /\ AddVersion(req[h].content, "applied")
        /\ req' = [req EXCEPT ![h].pc = "reload", ![h].version = Len(versions) + 1]
     \/ Fails /\ UNCHANGED versions /\ Return(h, "error")
  /\ UNCHANGED <<db, disk, running, begun, checked>>

(***************************************************************************)
(* The process manager (external) and what is made of its answer.          *)
(***************************************************************************)

\* A reload reads what is on disk at that moment.  When that cannot be served
\* (a file is missing) the previous worker stays.
Loadable == cfg \in Valid /\ FilesOf[cfg] \subseteq files

\* HAProxy loads the file.  Every request that has written its content knows
\* (a history) that a load came after its write.
Load(h, r) ==
  /\ Loadable
  /\ running' = cfg
  /\ req' = [g \in Handlers |->
               IF g = h THEN r ELSE [req[g] EXCEPT !.loaded = ~At(g, "idle")]]

\* p is where a reload reported as good continues, q where one reported as failed
\* does.  Any reload may fail on the host (an address in use), and be reported as
\* failed though it did not (a timeout, a client that left).  It may also be reported
\* as good with HAProxy dead, or alive on its old configuration: a reload command
\* says nothing of the workers, and the supervisor knows nothing of them without a
\* master socket, or when the baseline it compares with was not answered.
ProcessReload(h, p, q) ==
  \/ Load(h, [req[h] EXCEPT !.pc = p, !.loaded = TRUE, !.answer = "true"])
  \/ Load(h, [req[h] EXCEPT !.pc = q, !.loaded = TRUE])
  \/ Goto(h, q) /\ UNCHANGED running
  \/ /\ running' \in {running, Nothing}
     /\ req' = [req EXCEPT ![h].pc = p,
                  ![h].answer = IF running' = Nothing THEN "dead" ELSE "unconfirmed"]

\* Mutant of AfterReload: Apply believes the reload and does not ask for the status.
AfterReloadTrusting(h) == IF req[h].op = "rollback" THEN "addRolledBack" ELSE "trim"

AfterReload(h) ==
  CASE req[h].op = "apply" -> "status"
    [] req[h].op = "rollback" -> "addRolledBack"
    [] OTHER -> "trim"

Reload(h) ==
  /\ At(h, "reload")
  /\ ProcessReload(h, AfterReload(h), "mark")
  /\ UNCHANGED <<db, disk, versions, begun, checked>>

\* Restart: the old process is gone before the file is read.
RestartStop(h) ==
  /\ At(h, "stop")
  /\ running' = Nothing
  /\ Goto(h, "reload")
  /\ UNCHANGED <<db, disk, versions, begun, checked>>

\* Apply alone asks once more, half a second later, whether HAProxy is up.  A status
\* command may fail though it is.
Status(h) ==
  /\ At(h, "status")
  /\ Goto(h, "mark") \/ (running # Nothing /\ Goto(h, "trim"))
  /\ UNCHANGED <<db, disk, versions, running, begun, checked>>

HAProxyDies ==
  /\ running # Nothing /\ running' = Nothing
  /\ UNCHANGED <<db, disk, versions, req, begun, checked>>

(***************************************************************************)
(* The end of a request.                                                   *)
(***************************************************************************)

\* Mutant of MarkFailed: the version of a failed Apply stays "applied".
MarkFailedForgotten(h) ==
  /\ At(h, "mark")
  /\ IF req[h].op # "apply" THEN Return(h, "error")
     ELSE IF req[h].previous = Nothing THEN Return(h, "undone")
     ELSE Goto(h, "restore")
  /\ UNCHANGED <<db, disk, versions, running, begun, checked>>

\* A failed reload: Apply marks its version (an error is ignored) and undoes,
\* the others just report it.
MarkFailed(h) ==
  /\ At(h, "mark")
  /\ IF req[h].op = "apply"
     THEN /\ MarkVersion(req[h].version, "failed") \/ (Fails /\ UNCHANGED versions)
          /\ IF req[h].previous = Nothing THEN Return(h, "undone") ELSE Goto(h, "restore")
     ELSE Return(h, "error") /\ UNCHANGED versions
  /\ UNCHANGED <<db, disk, running, begun, checked>>

\* Only haproxy.cfg is put back; a failed write is not reported.
Restore(h) ==
  /\ At(h, "restore")
  /\ \/ cfg' = req[h].previous /\ Goto(h, "undoReload")
     \/ Fails /\ UNCHANGED cfg /\ Return(h, "undone")
  /\ UNCHANGED <<db, files, backups, versions, running, begun, checked>>

\* The answer of the second reload only goes into a message.
UndoReload(h) ==
  /\ At(h, "undoReload")
  /\ \/ Load(h, Idle("undone"))
     \/ Return(h, "undone") /\ UNCHANGED running
  /\ UNCHANGED <<db, disk, versions, begun, checked>>

\* Mutant of AddRolledBack: the content that was replaced is recorded.
AddReplaced(h) ==
  /\ At(h, "addRolledBack")
  /\ AddVersion(req[h].previous, "applied")
  /\ Goto(h, "markRolledBack")
  /\ UNCHANGED <<db, disk, running, begun, checked>>

AddRolledBack(h) ==
  /\ At(h, "addRolledBack")
  /\ AddVersion(req[h].content, "applied") \/ (Fails /\ UNCHANGED versions)
  /\ Goto(h, "markRolledBack")
  /\ UNCHANGED <<db, disk, running, begun, checked>>

MarkRolledBack(h) ==
  /\ At(h, "markRolledBack")
  /\ MarkVersion(req[h].version, "rolled_back") \/ (Fails /\ UNCHANGED versions)
  /\ Succeed(h, "ok")
  /\ UNCHANGED <<db, disk, running, begun, checked>>

Trim(h) ==
  /\ At(h, "trim")
  /\ IF req[h].op = "apply"
     THEN /\ versions' = Trimmed(VersionKeep) \/ (Fails /\ UNCHANGED versions)
          /\ Succeed(h, "ok")
     ELSE Return(h, "reloaded") /\ UNCHANGED versions
  /\ UNCHANGED <<db, disk, running, begun, checked>>

Request(h) == BeginApply(h) \/ BeginRollback(h) \/ BeginReload(h) \/ BeginRestart(h)

Step(h) ==
  \/ Stage(h) \/ CheckPasses(h) \/ CheckFails(h) \/ Backup(h)
  \/ WriteErrorPages(h) \/ PruneErrorPages(h) \/ WriteCertificates(h) \/ PruneCertificates(h)
  \/ WriteConfig(h) \/ RecordApplied(h) \/ Reload(h) \/ RestartStop(h) \/ Status(h)
  \/ MarkFailed(h) \/ Restore(h) \/ UndoReload(h)
  \/ AddRolledBack(h) \/ MarkRolledBack(h) \/ Trim(h)

\* The controller is killed and started again: its requests are gone, and main
\* starts HAProxy on the file it finds, unless HAProxy outlived the controller.
CrashAndBoot ==
  /\ Fails /\ begun < MaxRequests
  /\ begun' = begun + 1
  /\ req' = [h \in Handlers |-> Idle("none")]
  /\ \/ UNCHANGED running
     \/ running' = IF Loadable THEN cfg ELSE Nothing
  /\ UNCHANGED <<db, disk, versions, checked>>

Next == CrashAndBoot \/ Edit \/ HAProxyDies \/ \E h \in Handlers : Request(h) \/ Step(h)

Spec == Init /\ [][Next]_vars

(***************************************************************************)
(* Properties.                                                             *)
(***************************************************************************)

\* "A bad config never reaches the live directories": whatever requests, edits,
\* failures and crashes interleave, haproxy.cfg and HAProxy only ever hold a
\* configuration that `haproxy -c` accepted (Apply, Rollback and the undo).
OnlyCheckedIsLive == {cfg, running} \subseteq checked \cup {Nothing}

Ends(h, o) == req[h].pc # "idle" /\ req'[h].pc = "idle" /\ req'[h].outcome = o

\* "A reload can report success and still leave HAProxy dead": Apply returns success
\* only when HAProxy loaded the file after this request wrote it, or was found alive
\* after a reload whose good answer nobody had confirmed.  No other wrong answer, death,
\* restart, boot or concurrent deployment leads to one.
SuccessWasLoaded ==
  [][\A h \in Handlers :
       req[h].op = "apply" /\ Ends(h, "ok")
         => req[h].loaded \/ req[h].answer = "unconfirmed"]_vars

Applied == {v \in DOMAIN versions : versions[v].status = "applied"}
LatestApplied == CHOOSE v \in Applied : \A w \in Applied : w <= v

\* With one operator, who does not edit during a deployment: after one that
\* succeeded, the newest applied version is the file on disk; and if the answer to its
\* reload was true, HAProxy serves that file or is down, and the file would load again.
SuccessIsConsistent ==
  \A h \in Handlers : At(h, "idle") /\ req[h].outcome = "ok" =>
    /\ Applied # {} /\ versions[LatestApplied].content = cfg
    /\ req[h].answer = "true" => running \in {cfg, Nothing} /\ Loadable

\* With one operator: the content a deployment overwrites is the newest backup,
\* though backups made within one second share a name.
OverwrittenIsBackedUp ==
  [][\A h \in Handlers :
       At(h, "write") /\ cfg' # cfg /\ cfg # Nothing
         => backups # << >> /\ backups[Len(backups)] = cfg]_vars

\* handlers_config.go tells the operator "Apply failed and the previous configuration
\* was restored": the file HAProxy went on serving, put back on disk, would load again.
RestoredConfigLoads ==
  \A h \in Handlers :
    At(h, "idle") /\ req[h].outcome = "undone" /\ running = cfg => cfg = Nothing \/ Loadable
=============================================================================
