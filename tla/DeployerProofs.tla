--------------------------- MODULE DeployerProofs ---------------------------
(***************************************************************************)
(* Proofs about Deployer, for any number of requests, configurations and   *)
(* files, and any pattern of failures, edits and crashes: the state is     *)
(* well typed, and only a configuration `haproxy -c` accepted is ever live.*)
(***************************************************************************)
EXTENDS Deployer, SequenceTheorems, TLAPS

(***************************************************************************)
(* The inductive invariant.  OnlyCheckedIsLive is not inductive by itself: *)
(* haproxy.cfg is written with what a request carries, so every request    *)
(* past its check carries a checked configuration, and what it would put   *)
(* back was live, hence checked, when it read it.                          *)
(***************************************************************************)

\* Where a request has its content checked and has not written it yet.
Publishing == {"backup", "pages", "prunePages", "certs", "pruneCerts", "write"}

\* Where only Apply and Rollback come.
Deploying == Points \ {"idle", "stop", "reload", "mark", "trim"}

\* A request in state r, when the configurations in ok have been accepted.
Sound(r, ok) ==
  /\ r \in Requests
  /\ r.pc \in Deploying => r.op \in {"apply", "rollback"}
  /\ r.pc # "idle" /\ r.op \in {"apply", "rollback"} => r.content \in Contents
  /\ r.pc \in Publishing => r.content \in ok
  /\ r.previous \in ok \cup {Nothing}

RequestsSound == req \in [Handlers -> Requests] /\ \A h \in Handlers : Sound(req[h], checked)

LiveTyped ==
  /\ cfg \in Contents \cup {Nothing} /\ running \in Contents \cup {Nothing}
  /\ files \in SUBSET Files /\ backups \in Seq(Contents)

\* The state apart from the requests.
StateTyped ==
  /\ LiveTyped /\ db \in Contents /\ versions \in Seq(Version)
  /\ begun \in 0..MaxRequests /\ checked \in SUBSET Contents

IInv == StateTyped /\ RequestsSound /\ OnlyCheckedIsLive

LEMMA TypesFollow ==
  ASSUME IInv
  PROVE  TypeOK
BY DEF IInv, StateTyped, LiveTyped, RequestsSound, TypeOK

(***************************************************************************)
(* Steps of a request.                                                     *)
(***************************************************************************)

LEMMA IdleSound ==
  ASSUME NEW o \in Outcomes, NEW ok
  PROVE  Sound(Idle(o), ok)
<1>1. Idle(o) \in Requests
  BY Zenon DEF Idle, Requests, Points, Answers
<1>2. Idle(o).pc = "idle" /\ Idle(o).previous = Nothing
  BY DEF Idle
<1> QED
  BY <1>1, <1>2 DEF Sound, Deploying, Publishing

\* The end of a deployment that succeeds.
LEMMA SucceedSound ==
  ASSUME NEW o \in Outcomes, NEW ok, NEW a \in Answers
  PROVE  Sound([Idle(o) EXCEPT !.answer = a], ok)
<1> DEFINE r == [Idle(o) EXCEPT !.answer = a]
<1>1. Idle(o) \in Requests /\ Idle(o).pc = "idle" /\ Idle(o).previous = Nothing
  BY IdleSound DEF Sound, Idle
<1>2. r \in Requests /\ r.pc = Idle(o).pc /\ r.previous = Idle(o).previous
  BY <1>1, Zenon DEF Requests
<1> HIDE DEF r
<1>3. Sound(r, ok)
  BY <1>1, <1>2 DEF Sound, Deploying, Publishing
<1> QED
  BY <1>3 DEF r

\* A step that changes its own request only, while more configurations may have
\* been accepted.
LEMMA OwnSound ==
  ASSUME RequestsSound, NEW h \in Handlers, NEW r, Sound(r, checked'),
         req' = [req EXCEPT ![h] = r], checked \subseteq checked'
  PROVE  RequestsSound'
<1>1. r \in Requests /\ req' \in [Handlers -> Requests]
  BY DEF Sound, RequestsSound
<1>2. ASSUME NEW g \in Handlers PROVE Sound(req'[g], checked')
  <2>1. CASE g = h
    BY <2>1 DEF RequestsSound
  <2>2. CASE g # h
    <3>1. req'[g] = req[g] /\ Sound(req[g], checked)
      BY <2>2 DEF RequestsSound
    <3> QED
      BY <3>1 DEF Sound
  <2> QED
    BY <2>1, <2>2
<1> QED
  BY <1>1, <1>2 DEF RequestsSound

LEMMA ReturnSound ==
  ASSUME RequestsSound, NEW h \in Handlers, NEW o \in Outcomes, Return(h, o), UNCHANGED checked
  PROVE  RequestsSound'
BY IdleSound, OwnSound DEF Return

\* A request that goes on to p, whatever else of its bookkeeping changes, must have
\* what p relies on.
LEMMA MoveSound ==
  ASSUME RequestsSound, NEW h \in Handlers, req[h].pc # "idle",
         NEW r \in Requests, r.op = req[h].op, r.content = req[h].content,
         r.previous \in checked \cup {Nothing},
         r.pc \in Deploying => req[h].op \in {"apply", "rollback"},
         r.pc \in Publishing => req[h].content \in checked',
         req' = [req EXCEPT ![h] = r], checked \subseteq checked'
  PROVE  RequestsSound'
<1>1. Sound(req[h], checked)
  BY DEF RequestsSound
<1>2. Sound(r, checked')
  BY <1>1 DEF Sound
<1> QED
  BY <1>2, OwnSound

LEMMA GotoSound ==
  ASSUME RequestsSound, NEW h \in Handlers, req[h].pc # "idle", NEW p \in Points,
         p \in Deploying => req[h].op \in {"apply", "rollback"},
         p \in Publishing => req[h].content \in checked',
         Goto(h, p), checked \subseteq checked'
  PROVE  RequestsSound'
<1>1. req[h] \in Requests /\ req[h].previous \in checked \cup {Nothing}
  BY DEF RequestsSound, Sound
<1> DEFINE r == [req[h] EXCEPT !.pc = p]
<1>2. /\ r \in Requests /\ r.op = req[h].op /\ r.content = req[h].content
      /\ r.previous = req[h].previous /\ r.pc = p
  BY <1>1, Zenon DEF Requests
<1>3. req' = [req EXCEPT ![h] = r]
  BY Zenon DEF Goto
<1> HIDE DEF r
<1> QED
  BY <1>1, <1>2, <1>3, MoveSound

\* A load of haproxy.cfg, which is checked, marks every request in flight.
LEMMA LoadSound ==
  ASSUME IInv, NEW h \in Handlers, NEW r, Sound(r, checked), Load(h, r), UNCHANGED <<cfg, checked>>
  PROVE  RequestsSound' /\ OnlyCheckedIsLive' /\ running' \in Contents
<1>1. ASSUME NEW g \in Handlers, NEW l \in BOOLEAN
      PROVE  Sound([req[g] EXCEPT !.loaded = l], checked)
  <2> DEFINE u == [req[g] EXCEPT !.loaded = l]
  <2>1. req[g] \in Requests /\ Sound(req[g], checked)
    BY DEF IInv, RequestsSound
  <2>2. /\ u \in Requests /\ u.op = req[g].op /\ u.content = req[g].content
        /\ u.previous = req[g].previous /\ u.pc = req[g].pc
    BY <2>1, Zenon DEF Requests
  <2> HIDE DEF u
  <2>3. Sound(u, checked)
    BY <2>1, <2>2 DEF Sound
  <2> QED
    BY <2>3 DEF u
<1>2. ASSUME NEW g \in Handlers PROVE Sound(req'[g], checked)
  <2>1. (~At(g, "idle")) \in BOOLEAN
    OBVIOUS
  <2>2. Sound([req[g] EXCEPT !.loaded = ~At(g, "idle")], checked)
    BY <1>1, <2>1, Zenon
  <2>3. req'[g] = IF g = h THEN r ELSE [req[g] EXCEPT !.loaded = ~At(g, "idle")]
    BY Zenon DEF Load
  <2> QED
    BY <2>2, <2>3, Zenon
<1>3. req' \in [Handlers -> Requests]
  BY <1>2, Zenon DEF Load, Sound
<1>4. running' \in Contents /\ running' = cfg
  BY ContentsAssumption DEF Load, Loadable
<1> QED
  BY <1>2, <1>3, <1>4 DEF RequestsSound, IInv, OnlyCheckedIsLive

(***************************************************************************)
(* The version log and the backups.                                        *)
(***************************************************************************)

LEMMA AddVersionTyped ==
  ASSUME versions \in Seq(Version), NEW c \in Contents, NEW s \in Statuses, AddVersion(c, s)
  PROVE  versions' \in Seq(Version)
BY DEF AddVersion, Version

\* Marking or trimming rows changes their status only.
LEMMA MarkVersionTyped ==
  ASSUME versions \in Seq(Version), NEW v, NEW s \in Statuses, MarkVersion(v, s)
  PROVE  versions' \in Seq(Version)
<1>1. \A w \in DOMAIN versions : versions[w] \in Version
  BY ElementOfSeq
<1>2. \A w \in DOMAIN versions : \A t \in Statuses : [versions[w] EXCEPT !.status = t] \in Version
  BY <1>1, Zenon DEF Version
<1>3. CASE v \in DOMAIN versions
  <2> DEFINE t == IF versions[v].status = "deleted" THEN versions[v].status ELSE s
  <2>1. t \in Statuses
    BY <1>1, <1>3 DEF Version
  <2>2. versions' = [versions EXCEPT ![v] = [versions[v] EXCEPT !.status = t]]
    BY Zenon DEF MarkVersion
  <2> HIDE DEF t
  <2>3. [versions[v] EXCEPT !.status = t] \in Version
    BY <1>2, <1>3, <2>1
  <2> QED
    BY <1>3, <2>2, <2>3, LenProperties, ExceptSeq
<1>4. CASE v \notin DOMAIN versions
  <2> DEFINE r == [versions[v] EXCEPT !.status =
                     IF versions[v].status = "deleted" THEN versions[v].status ELSE s]
  <2>1. versions' = [versions EXCEPT ![v] = r]
    BY Zenon DEF MarkVersion
  <2> HIDE DEF r
  <2>2. versions \in [1..Len(versions) -> Version]
    BY LenProperties
  <2>3. versions' = versions
    BY <1>4, <2>1, <2>2
  <2> QED
    BY <2>3
<1> QED
  BY <1>3, <1>4

LEMMA TrimmedTyped ==
  ASSUME versions \in Seq(Version), NEW keep
  PROVE  Trimmed(keep) \in Seq(Version)
<1>1. \A w \in DOMAIN versions : versions[w] \in Version
  BY ElementOfSeq
<1>2. \A w \in DOMAIN versions : [versions[w] EXCEPT !.status = "deleted"] \in Version
  BY <1>1, Zenon DEF Version, Statuses
<1>3. DOMAIN versions = 1..Len(versions) /\ Len(versions) \in Nat
  OBVIOUS
<1>4. Trimmed(keep) \in [1..Len(versions) -> Version]
  BY <1>1, <1>2, <1>3 DEF Trimmed
<1> QED
  BY <1>3, <1>4, SeqDef

LEMMA WriteBackupTyped ==
  ASSUME backups \in Seq(Contents), NEW c \in Contents, WriteBackup(c)
  PROVE  backups' \in Seq(Contents)
<1>1. ASSUME NEW s \in Seq(Contents) PROVE Newest(s) \in Seq(Contents)
  <2>1. CASE Len(s) <= BackupKeep
    BY <2>1 DEF Newest
  <2>2. CASE ~(Len(s) <= BackupKeep)
    <3>1. Len(s) - BackupKeep + 1 \in 1..(Len(s) + 1) /\ Len(s) \in Nat
      BY <2>2, BoundsAssumption, LenProperties, SMT
    <3> QED
      BY <2>2, <3>1, SubSeqProperties DEF Newest
  <2> QED
    BY <2>1, <2>2
<1>2. Append(backups, c) \in Seq(Contents)
  OBVIOUS
<1>3. ASSUME backups # << >> PROVE [backups EXCEPT ![Len(backups)] = c] \in Seq(Contents)
  <2>1. Len(backups) \in 1..Len(backups)
    BY <1>3, LenProperties, EmptySeq, SMT
  <2> QED
    BY <2>1, ExceptSeq
<1> QED
  BY <1>1, <1>2, <1>3, Zenon DEF WriteBackup

(***************************************************************************)
(* Every step preserves the invariant.                                     *)
(***************************************************************************)

\* What a step leaves alone, besides the requests, stays as the invariant says.
LEMMA StateKept ==
  ASSUME IInv, RequestsSound', UNCHANGED <<db, disk, running, checked>>,
         versions' \in Seq(Version), begun' \in 0..MaxRequests
  PROVE  IInv'
BY DEF IInv, StateTyped, LiveTyped, OnlyCheckedIsLive, disk

LEMMA BeginPreserves ==
  ASSUME IInv, NEW h \in Handlers, Request(h)
  PROVE  IInv'
<1>1. RequestsSound /\ db \in Contents /\ versions \in Seq(Version)
  BY DEF IInv, StateTyped
<1>2. begun' \in 0..MaxRequests /\ UNCHANGED <<db, disk, versions, running, checked>>
  <2>1. /\ begun < MaxRequests /\ begun' = begun + 1
        /\ UNCHANGED <<db, disk, versions, running, checked>>
    BY DEF Request, BeginApply, BeginRollback, BeginReload, BeginRestart, Begin
  <2> QED
    BY <2>1, BoundsAssumption, SMT DEF IInv, StateTyped
<1>3. ASSUME NEW r, Sound(r, checked), req' = [req EXCEPT ![h] = r] PROVE RequestsSound'
  BY <1>1, <1>2, <1>3, OwnSound
<1>4. ASSUME Return(h, "error") PROVE RequestsSound'
  BY <1>1, <1>2, <1>4, ReturnSound DEF Outcomes
<1>5. ASSUME BeginApply(h) PROVE RequestsSound'
  <2> DEFINE r == [Idle("none") EXCEPT !.op = "apply", !.pc = "stage", !.content = db]
  <2>1. "apply" \in Operations
    BY <1>5 DEF BeginApply, Begin
  <2>2. /\ r \in Requests /\ r.op = "apply" /\ r.pc = "stage" /\ r.content = db
        /\ r.previous = Nothing
    BY <1>1, <2>1, Zenon DEF Idle, Requests, Points, Outcomes, Answers
  <2>3. req' = [req EXCEPT ![h] = r] \/ Return(h, "error")
    BY <1>5 DEF BeginApply
  <2> HIDE DEF r
  <2>4. Sound(r, checked)
    BY <1>1, <2>2 DEF Sound, Publishing
  <2> QED
    BY <1>3, <1>4, <2>3, <2>4
<1>6. ASSUME BeginRollback(h) PROVE RequestsSound'
  <2>1. CASE Return(h, "error")
    BY <1>4, <2>1
  <2>2. ASSUME NEW v \in Stored,
               req' = [req EXCEPT ![h] = [Idle("none") EXCEPT !.op = "rollback", !.pc = "stage",
                                            !.content = versions[v].content, !.version = v]]
        PROVE  RequestsSound'
    <3> DEFINE r == [Idle("none") EXCEPT !.op = "rollback", !.pc = "stage",
                                         !.content = versions[v].content, !.version = v]
    <3>1. v \in 1..Len(versions) /\ v \in Nat
      BY <1>1, LenProperties DEF Stored
    <3>2. versions[v].content \in Contents
      <4>1. versions[v] \in Version
        BY <1>1, <3>1, ElementOfSeq
      <4> QED
        BY <4>1 DEF Version
    <3>3. "rollback" \in Operations
      BY <1>6 DEF BeginRollback, Begin
    <3>4. r \in Requests
      <4> DEFINE c == versions[v].content
      <4>1. c \in Contents \cup {Nothing} /\ v \in Nat
        BY <3>1, <3>2
      <4> HIDE DEF c
      <4>2. [Idle("none") EXCEPT !.op = "rollback", !.pc = "stage", !.content = c, !.version = v]
              \in Requests
        BY <3>3, <4>1, Zenon DEF Idle, Requests, Points, Outcomes, Answers
      <4> QED
        BY <4>2 DEF c
    <3>5. /\ r.op = "rollback" /\ r.pc = "stage" /\ r.content = versions[v].content
          /\ r.previous = Nothing
      BY Zenon DEF Idle
    <3>6. req' = [req EXCEPT ![h] = r]
      BY <2>2
    <3> HIDE DEF r
    <3>7. Sound(r, checked)
      BY <3>2, <3>4, <3>5 DEF Sound, Publishing
    <3> QED
      BY <1>3, <3>6, <3>7
  <2> QED
    BY <1>6, <2>1, <2>2 DEF BeginRollback
<1>7. ASSUME BeginReload(h) PROVE RequestsSound'
  <2> DEFINE r == [Idle("none") EXCEPT !.op = "reload", !.pc = "reload"]
  <2>1. "reload" \in Operations
    BY <1>7 DEF BeginReload, Begin
  <2>2. r \in Requests /\ r.op = "reload" /\ r.pc = "reload" /\ r.previous = Nothing
    BY <2>1, Zenon DEF Idle, Requests, Points, Outcomes, Answers
  <2>3. req' = [req EXCEPT ![h] = r]
    BY <1>7 DEF BeginReload
  <2> HIDE DEF r
  <2>4. Sound(r, checked)
    BY <2>2 DEF Sound, Publishing, Deploying
  <2> QED
    BY <1>3, <2>3, <2>4
<1>8. ASSUME BeginRestart(h) PROVE RequestsSound'
  <2> DEFINE r == [Idle("none") EXCEPT !.op = "restart", !.pc = "stop"]
  <2>1. "restart" \in Operations
    BY <1>8 DEF BeginRestart, Begin
  <2>2. r \in Requests /\ r.op = "restart" /\ r.pc = "stop" /\ r.previous = Nothing
    BY <2>1, Zenon DEF Idle, Requests, Points, Outcomes, Answers
  <2>3. req' = [req EXCEPT ![h] = r]
    BY <1>8 DEF BeginRestart
  <2> HIDE DEF r
  <2>4. Sound(r, checked)
    BY <2>2 DEF Sound, Publishing, Deploying
  <2> QED
    BY <1>3, <2>3, <2>4
<1> QED
  BY <1>1, <1>2, <1>5, <1>6, <1>7, <1>8, StateKept DEF Request

\* Only the check lets a request on to publication, and it remembers what it let.
LEMMA CheckPreserves ==
  ASSUME IInv, NEW h \in Handlers, Stage(h) \/ CheckPasses(h) \/ CheckFails(h)
  PROVE  IInv'
<1>1. RequestsSound /\ Sound(req[h], checked) /\ req[h] \in Requests
  BY DEF IInv, RequestsSound, Sound
<1>2. db \in Contents /\ versions \in Seq(Version) /\ begun \in 0..MaxRequests
  BY DEF IInv, StateTyped
<1>3. req[h].pc # "idle"
  BY DEF Stage, CheckPasses, CheckFails, At
<1>4. CASE Stage(h)
  <2>1. UNCHANGED <<db, disk, versions, running, begun, checked>>
    BY <1>4 DEF Stage
  <2> DEFINE r == [req[h] EXCEPT !.pc = "check", !.staged = FilesOf[db]]
  <2>2. FilesOf[db] \in SUBSET Files
    BY <1>2, ContentsAssumption
  <2>3. /\ r \in Requests /\ r.op = req[h].op /\ r.content = req[h].content
        /\ r.previous = req[h].previous /\ r.pc = "check"
    BY <1>1, <2>2, Zenon DEF Requests, Points
  <2>4. req' = [req EXCEPT ![h] = r] \/ Return(h, "error")
    BY <1>4, Zenon DEF Stage
  <2>5. req[h].op \in {"apply", "rollback"}
    BY <1>1, <1>4 DEF Sound, Stage, At, Deploying, Points
  <2> HIDE DEF r
  <2>6. RequestsSound'
    BY <1>1, <1>3, <2>1, <2>3, <2>4, <2>5, MoveSound, ReturnSound DEF Outcomes, Publishing, Sound
  <2> QED
    BY <1>2, <2>1, <2>6, StateKept
<1>5. CASE CheckPasses(h)
  <2>1. req[h].content \in Contents /\ req[h].op \in {"apply", "rollback"}
    BY <1>1, <1>5 DEF Sound, CheckPasses, At, Deploying, Points
  <2>2. checked' = checked \cup {req[h].content} /\ UNCHANGED <<db, disk, versions, running, begun>>
    BY <1>5 DEF CheckPasses
  <2>3. RequestsSound'
    BY <1>1, <1>3, <1>5, <2>1, <2>2, GotoSound DEF CheckPasses, Points
  <2> QED
    BY <2>1, <2>2, <2>3 DEF IInv, StateTyped, LiveTyped, OnlyCheckedIsLive, disk
<1>6. CASE CheckFails(h)
  <2>1. req[h].content \in Contents
    BY <1>1, <1>6 DEF Sound, CheckFails, At, Deploying, Points
  <2>2. UNCHANGED <<db, disk, running, begun, checked>>
    BY <1>6 DEF CheckFails
  <2>3. versions' \in Seq(Version)
    BY <1>2, <1>6, <2>1, AddVersionTyped DEF CheckFails, Statuses
  <2>4. RequestsSound'
    BY <1>1, <1>6, <2>2, ReturnSound DEF CheckFails, Outcomes
  <2> QED
    BY <1>2, <2>2, <2>3, <2>4, StateKept
<1> QED
  BY <1>4, <1>5, <1>6

LEMMA BackupPreserves ==
  ASSUME IInv, NEW h \in Handlers, Backup(h)
  PROVE  IInv'
<1>1. RequestsSound /\ Sound(req[h], checked) /\ req[h] \in Requests /\ req[h].pc = "backup"
  BY DEF IInv, RequestsSound, Sound, Backup, At
<1>2. /\ cfg \in Contents \cup {Nothing} /\ cfg \in checked \cup {Nothing}
      /\ backups \in Seq(Contents)
  BY DEF IInv, StateTyped, LiveTyped, OnlyCheckedIsLive
<1>3. UNCHANGED <<db, cfg, files, versions, running, begun, checked>>
  BY DEF Backup
<1>4. backups' \in Seq(Contents)
  BY <1>2, WriteBackupTyped DEF Backup
<1>5. req[h].op \in {"apply", "rollback"} /\ req[h].content \in checked
  BY <1>1 DEF Sound, Deploying, Points, Publishing
<1>6. RequestsSound'
  <2> DEFINE r(p, c) == [req[h] EXCEPT !.pc = p, !.previous = c]
  <2>1. ASSUME NEW p \in {"pages", "write"}, NEW c \in {cfg, Nothing},
               req' = [req EXCEPT ![h] = r(p, c)]
        PROVE  RequestsSound'
    <3>1. c \in Contents \cup {Nothing} /\ c \in checked \cup {Nothing}
      BY <1>2
    <3>2. /\ r(p, c) \in Requests /\ r(p, c).op = req[h].op
          /\ r(p, c).content = req[h].content
          /\ r(p, c).previous = c /\ r(p, c).pc = p
      BY <1>1, <3>1, Zenon DEF Requests, Points
    <3> HIDE DEF r
    <3> QED
      BY <1>1, <1>3, <1>5, <2>1, <3>1, <3>2, MoveSound
  <2>2. AfterBackup(h) \in {"pages", "write"}
    BY DEF AfterBackup
  <2>3. \/ req' = [req EXCEPT ![h] = r(AfterBackup(h), cfg)]
        \/ req' = [req EXCEPT ![h] = r("write", cfg)]
        \/ req' = [req EXCEPT ![h] = r(AfterBackup(h), Nothing)]
        \/ Return(h, "error")
    BY Zenon DEF Backup
  <2> HIDE DEF r
  <2> QED
    BY <1>1, <1>3, <2>1, <2>2, <2>3, ReturnSound DEF Outcomes
<1> QED
  BY <1>3, <1>4, <1>6 DEF IInv, StateTyped, LiveTyped, OnlyCheckedIsLive

\* Writing and pruning the error pages and the certificates.
LEMMA FilesPreserve ==
  ASSUME IInv, NEW h \in Handlers,
         \/ WriteErrorPages(h) \/ PruneErrorPages(h)
         \/ WriteCertificates(h) \/ PruneCertificates(h)
  PROVE  IInv'
<1>1. RequestsSound /\ Sound(req[h], checked) /\ req[h] \in Requests
  BY DEF IInv, RequestsSound, Sound
<1>2. files \in SUBSET Files /\ FilesOf[db] \in SUBSET Files
  BY ContentsAssumption DEF IInv, StateTyped, LiveTyped
<1>3. ASSUME NEW w \in SUBSET Files, NEW p \in Publishing,
             req[h].pc \in Publishing, UNCHANGED checked,
             req' = [req EXCEPT ![h] = [req[h] EXCEPT !.pc = p, !.wanted = w]]
      PROVE  RequestsSound'
  <2> DEFINE r == [req[h] EXCEPT !.pc = p, !.wanted = w]
  <2>1. p \in Points /\ p \in Deploying /\ req[h].pc \in Deploying /\ req[h].pc # "idle"
    BY <1>3 DEF Publishing, Points, Deploying
  <2>2. /\ r \in Requests /\ r.op = req[h].op /\ r.content = req[h].content
        /\ r.previous = req[h].previous /\ r.pc = p
    BY <1>1, <2>1, Zenon DEF Requests
  <2>3. req' = [req EXCEPT ![h] = r]
    BY <1>3
  <2> HIDE DEF r
  <2> QED
    BY <1>1, <1>3, <2>1, <2>2, <2>3, MoveSound DEF Sound
<1>4. ASSUME NEW at \in Publishing, NEW kind \in {Pages, Certs}, NEW next \in Publishing,
             WriteFiles(h, at, kind, next)
      PROVE  IInv'
  <2>1. /\ req[h].pc \in Publishing
        /\ UNCHANGED <<db, cfg, backups, versions, running, begun, checked>>
    BY <1>4 DEF WriteFiles, At
  <2>2. files' \in SUBSET Files
    BY <1>2, <1>4 DEF WriteFiles
  <2>3. FilesOf[db] \cap kind \in SUBSET Files
    BY <1>2
  <2>4. \/ req' = [req EXCEPT ![h] = [req[h] EXCEPT !.pc = next, !.wanted = FilesOf[db] \cap kind]]
        \/ Return(h, "error")
    BY <1>4, Zenon DEF WriteFiles
  <2>5. RequestsSound'
    BY <1>1, <1>3, <2>1, <2>3, <2>4, ReturnSound DEF Outcomes
  <2> QED
    BY <2>1, <2>2, <2>5 DEF IInv, StateTyped, LiveTyped, OnlyCheckedIsLive
<1>5. ASSUME NEW at \in Publishing, NEW kind \in {Pages, Certs}, NEW next \in Publishing,
             PruneDir(h, at, kind, next)
      PROVE  IInv'
  <2>1. /\ req[h].pc \in Publishing
        /\ UNCHANGED <<db, cfg, backups, versions, running, begun, checked>>
    BY <1>5 DEF PruneDir, At
  <2>2. files' \in SUBSET Files
    BY <1>2, <1>5 DEF PruneDir
  <2>3. \/ req' = [req EXCEPT ![h] = [req[h] EXCEPT !.pc = next, !.wanted = {}]]
        \/ Return(h, "error")
    BY <1>5, Zenon DEF PruneDir
  <2>4. RequestsSound'
    BY <1>1, <1>3, <2>1, <2>3, ReturnSound DEF Outcomes
  <2> QED
    BY <2>1, <2>2, <2>4 DEF IInv, StateTyped, LiveTyped, OnlyCheckedIsLive
<1> QED
  BY <1>4, <1>5 DEF WriteErrorPages, PruneErrorPages, WriteCertificates, PruneCertificates,
                    Publishing

\* haproxy.cfg is replaced: by what the check accepted, or by what was live.
LEMMA WritePreserves ==
  ASSUME IInv, NEW h \in Handlers, WriteConfig(h) \/ Restore(h)
  PROVE  IInv'
<1>1. RequestsSound /\ Sound(req[h], checked) /\ req[h] \in Requests /\ checked \in SUBSET Contents
  BY DEF IInv, RequestsSound, Sound, StateTyped
<1>2. UNCHANGED <<db, files, backups, versions, running, begun, checked>>
  BY DEF WriteConfig, Restore
<1>3. req[h].op \in {"apply", "rollback"}
  BY <1>1 DEF Sound, Deploying, Points, WriteConfig, Restore, At
<1>4. cfg' \in checked \cup {Nothing}
  BY <1>1 DEF WriteConfig, Restore, At, Sound, Publishing, IInv, OnlyCheckedIsLive
<1>5. ASSUME WriteConfig(h) PROVE RequestsSound'
  <2> DEFINE r(p) == [req[h] EXCEPT !.pc = p, !.loaded = FALSE]
  <2>1. ASSUME NEW p \in {"record", "reload"}, req' = [req EXCEPT ![h] = r(p)]
        PROVE  RequestsSound'
    <3>1. /\ r(p) \in Requests /\ r(p).op = req[h].op /\ r(p).content = req[h].content
          /\ r(p).previous = req[h].previous /\ r(p).pc = p
      BY <1>1, Zenon DEF Requests, Points
    <3>2. req[h].pc # "idle" /\ p \notin Publishing
      BY <1>5 DEF WriteConfig, At, Publishing
    <3> HIDE DEF r
    <3> QED
      BY <1>1, <1>2, <1>3, <2>1, <3>1, <3>2, MoveSound DEF Sound
  <2>2. \/ \E p \in {"record", "reload"} : req' = [req EXCEPT ![h] = r(p)]
        \/ Return(h, "error")
    BY <1>5, Zenon DEF WriteConfig
  <2> HIDE DEF r
  <2> QED
    BY <1>1, <1>2, <2>1, <2>2, ReturnSound DEF Outcomes
<1>6. ASSUME Restore(h) PROVE RequestsSound'
  <2>1. req[h].pc # "idle"
    BY <1>6 DEF Restore, At
  <2> QED
    BY <1>1, <1>2, <1>3, <1>6, <2>1, GotoSound, ReturnSound DEF Restore, Points, Publishing, Outcomes
<1> QED
  BY <1>1, <1>2, <1>4, <1>5, <1>6 DEF IInv, StateTyped, LiveTyped, OnlyCheckedIsLive

\* The steps that only write the version log, and end or go on.
LEMMA LogPreserves ==
  ASSUME IInv, NEW h \in Handlers,
         \/ RecordApplied(h) \/ MarkFailed(h) \/ AddRolledBack(h) \/ MarkRolledBack(h) \/ Trim(h)
  PROVE  IInv'
<1>1. RequestsSound /\ Sound(req[h], checked) /\ req[h] \in Requests
  BY DEF IInv, RequestsSound, Sound
<1>2. versions \in Seq(Version) /\ begun \in 0..MaxRequests
  BY DEF IInv, StateTyped
<1>3. UNCHANGED <<db, disk, running, begun, checked>> /\ req[h].pc # "idle"
  BY DEF RecordApplied, MarkFailed, AddRolledBack, MarkRolledBack, Trim, At
<1>4. ASSUME NEW o \in Outcomes, Return(h, o) PROVE RequestsSound'
  BY <1>1, <1>3, <1>4, ReturnSound
<1>5. ASSUME RecordApplied(h) PROVE versions' \in Seq(Version) /\ RequestsSound'
  <2>1. req[h].op \in {"apply", "rollback"} /\ req[h].content \in Contents
    BY <1>1, <1>5 DEF RecordApplied, At, Sound, Deploying, Points
  <2>2. versions' \in Seq(Version)
    BY <1>2, <1>5, <2>1, AddVersionTyped DEF RecordApplied, Statuses
  <2> DEFINE r == [req[h] EXCEPT !.pc = "reload", !.version = Len(versions) + 1]
  <2>3. Len(versions) + 1 \in Nat
    BY <1>2, LenProperties, SMT
  <2>4. /\ r \in Requests /\ r.op = req[h].op /\ r.content = req[h].content
        /\ r.previous = req[h].previous /\ r.pc = "reload"
    BY <1>1, <2>3, Zenon DEF Requests, Points
  <2>5. req' = [req EXCEPT ![h] = r] \/ Return(h, "error")
    BY <1>5, Zenon DEF RecordApplied
  <2> HIDE DEF r
  <2>6. RequestsSound'
    BY <1>1, <1>3, <1>4, <2>1, <2>4, <2>5, MoveSound DEF Sound, Publishing, Outcomes
  <2> QED
    BY <2>2, <2>6
<1>6. ASSUME MarkFailed(h) PROVE versions' \in Seq(Version) /\ RequestsSound'
  <2>1. versions' \in Seq(Version)
    BY <1>2, <1>6, MarkVersionTyped DEF MarkFailed, Statuses
  <2>2. CASE Goto(h, "restore") /\ req[h].op = "apply"
    BY <1>1, <1>3, <2>1, <2>2, GotoSound DEF Points, Publishing
  <2>3. CASE Return(h, "undone") \/ Return(h, "error")
    BY <1>4, <2>1, <2>3 DEF Outcomes
  <2> QED
    BY <1>6, <2>2, <2>3 DEF MarkFailed
<1>7. ASSUME AddRolledBack(h) PROVE versions' \in Seq(Version) /\ RequestsSound'
  <2>1. req[h].op \in {"apply", "rollback"} /\ req[h].content \in Contents
    BY <1>1, <1>7 DEF AddRolledBack, At, Sound, Deploying, Points
  <2>2. versions' \in Seq(Version)
    BY <1>2, <1>7, <2>1, AddVersionTyped DEF AddRolledBack, Statuses
  <2> QED
    BY <1>1, <1>3, <1>7, <2>1, <2>2, GotoSound DEF AddRolledBack, Points, Publishing
<1>10. ASSUME Succeed(h, "ok") PROVE RequestsSound'
  <2>1. req[h].answer \in Answers
    BY <1>1, Zenon DEF Requests
  <2>2. Sound([Idle("ok") EXCEPT !.answer = req[h].answer], checked')
    BY <2>1, SucceedSound DEF Outcomes
  <2>3. checked \subseteq checked'
    BY <1>3
  <2> QED
    BY <1>1, <1>10, <2>2, <2>3, OwnSound DEF Succeed
<1>8. ASSUME MarkRolledBack(h) PROVE versions' \in Seq(Version) /\ RequestsSound'
  BY <1>2, <1>8, <1>10, MarkVersionTyped DEF MarkRolledBack, Statuses
<1>9. ASSUME Trim(h) PROVE versions' \in Seq(Version) /\ RequestsSound'
  BY <1>2, <1>4, <1>9, <1>10, TrimmedTyped DEF Trim, Outcomes
<1> QED
  BY <1>2, <1>3, <1>5, <1>6, <1>7, <1>8, <1>9, StateKept

\* The steps of the process manager: HAProxy is given the file that is live.
LEMMA ProcessPreserves ==
  ASSUME IInv, NEW h \in Handlers, Reload(h) \/ RestartStop(h) \/ Status(h) \/ UndoReload(h)
  PROVE  IInv'
<1>1. RequestsSound /\ Sound(req[h], checked) /\ req[h] \in Requests
  BY DEF IInv, RequestsSound, Sound
<1>2. UNCHANGED <<db, disk, versions, begun, checked>> /\ req[h].pc # "idle"
  BY DEF Reload, RestartStop, Status, UndoReload, At
<1>3. ASSUME RequestsSound', OnlyCheckedIsLive', running' \in Contents \cup {Nothing} PROVE IInv'
  BY <1>2, <1>3 DEF IInv, StateTyped, LiveTyped, disk
<1>4. ASSUME running' \in {running, Nothing}
      PROVE  OnlyCheckedIsLive' /\ running' \in Contents \cup {Nothing}
  BY <1>2, <1>4 DEF IInv, StateTyped, LiveTyped, OnlyCheckedIsLive, disk
<1>5. CASE Reload(h)
  <2>1. ASSUME NEW p \in {"status", "addRolledBack", "trim", "mark"},
               p \in Deploying => req[h].op \in {"apply", "rollback"}, NEW a \in Answers,
               Load(h, [req[h] EXCEPT !.pc = p, !.loaded = TRUE, !.answer = a])
        PROVE  IInv'
    <3> DEFINE r == [req[h] EXCEPT !.pc = p, !.loaded = TRUE, !.answer = a]
    <3>1. /\ r \in Requests /\ r.op = req[h].op /\ r.content = req[h].content
          /\ r.previous = req[h].previous /\ r.pc = p
      BY <1>1, Zenon DEF Requests, Points
    <3>3. Load(h, r)
      BY <2>1, Zenon
    <3> HIDE DEF r
    <3>2. Sound(r, checked)
      BY <1>1, <1>2, <2>1, <3>1 DEF Sound, Publishing
    <3> QED
      BY <1>2, <1>3, <3>2, <3>3, LoadSound DEF disk
  <2>2. ASSUME NEW p \in {"status", "addRolledBack", "trim", "mark"},
               p \in Deploying => req[h].op \in {"apply", "rollback"},
               Goto(h, p), running' \in {running, Nothing}
        PROVE  IInv'
    <3>1. RequestsSound'
      BY <1>1, <1>2, <2>2, GotoSound DEF Points, Publishing
    <3> QED
      BY <1>3, <1>4, <2>2, <3>1
  <2>3. /\ AfterReload(h) \in {"status", "addRolledBack", "trim", "mark"}
        /\ AfterReload(h) \in Deploying => req[h].op \in {"apply", "rollback"}
    BY DEF AfterReload, Deploying, Points
  <2>4. "mark" \notin Deploying
    BY DEF Deploying
  <2> DEFINE p == AfterReload(h)
  <2>5. CASE Load(h, [req[h] EXCEPT !.pc = p, !.loaded = TRUE, !.answer = "true"])
    BY <2>1, <2>3, <2>5, Zenon DEF Answers
  <2>6. CASE Load(h, [req[h] EXCEPT !.pc = "mark", !.loaded = TRUE])
    <3>1. [req[h] EXCEPT !.pc = "mark", !.loaded = TRUE, !.answer = req[h].answer]
            = [req[h] EXCEPT !.pc = "mark", !.loaded = TRUE]
      BY <1>1, Zenon DEF Requests
    <3>2. req[h].answer \in Answers
      BY <1>1, Zenon DEF Requests
    <3> QED
      BY <2>1, <2>4, <2>6, <3>1, <3>2, Zenon
  <2>7. CASE Goto(h, "mark") /\ UNCHANGED running
    BY <2>2, <2>4, <2>7
  <2>8. ASSUME NEW a \in Answers, req' = [req EXCEPT ![h].pc = p, ![h].answer = a],
               running' \in {running, Nothing}
        PROVE  IInv'
    <3> DEFINE r == [req[h] EXCEPT !.pc = p, !.answer = a]
    <3>1. /\ r \in Requests /\ r.op = req[h].op /\ r.content = req[h].content
          /\ r.previous = req[h].previous /\ r.pc = p
      BY <1>1, <2>3, Zenon DEF Requests, Points
    <3>2. req' = [req EXCEPT ![h] = r]
      BY <2>8, Zenon
    <3> HIDE DEF r, p
    <3>3. p \notin Publishing /\ (p \in Deploying => req[h].op \in {"apply", "rollback"})
      BY <2>3 DEF p, Publishing
    <3>4. r.previous \in checked \cup {Nothing} /\ checked \subseteq checked'
      BY <1>1, <1>2, <3>1 DEF Sound
    <3>5. RequestsSound'
      BY <1>1, <1>2, <3>1, <3>2, <3>3, <3>4, MoveSound
    <3> QED
      BY <1>3, <1>4, <2>8, <3>5
  <2>9. \/ Load(h, [req[h] EXCEPT !.pc = p, !.loaded = TRUE, !.answer = "true"])
        \/ Load(h, [req[h] EXCEPT !.pc = "mark", !.loaded = TRUE])
        \/ Goto(h, "mark") /\ UNCHANGED running
        \/ /\ running' \in {running, Nothing}
           /\ req' = [req EXCEPT ![h].pc = p,
                        ![h].answer = IF running' = Nothing THEN "dead" ELSE "unconfirmed"]
    BY <1>5, Zenon DEF Reload, ProcessReload
  <2>10. (IF running' = Nothing THEN "dead" ELSE "unconfirmed") \in Answers
    BY DEF Answers
  <2> HIDE DEF p
  <2> QED
    BY <2>5, <2>6, <2>7, <2>8, <2>9, <2>10, Zenon
<1>6. CASE RestartStop(h)
  <2>1. RequestsSound'
    BY <1>1, <1>2, <1>6, GotoSound DEF RestartStop, Points, Publishing, Deploying
  <2> QED
    BY <1>3, <1>4, <1>6, <2>1 DEF RestartStop
<1>7. CASE Status(h)
  <2>1. RequestsSound'
    BY <1>1, <1>2, <1>7, GotoSound DEF Status, Points, Publishing, Deploying
  <2> QED
    BY <1>3, <1>4, <1>7, <2>1 DEF Status
<1>8. CASE UndoReload(h)
  <2>1. CASE Load(h, Idle("undone"))
    BY <1>2, <1>3, <2>1, IdleSound, LoadSound DEF Outcomes, disk
  <2>2. CASE Return(h, "undone") /\ UNCHANGED running
    <3>1. RequestsSound'
      BY <1>1, <1>2, <2>2, ReturnSound DEF Outcomes
    <3> QED
      BY <1>3, <1>4, <2>2, <3>1
  <2> QED
    BY <1>8, <2>1, <2>2 DEF UndoReload
<1> QED
  BY <1>5, <1>6, <1>7, <1>8

\* The operator edits, HAProxy dies, the controller is killed and started again.
LEMMA OutsidePreserves ==
  ASSUME IInv, Edit \/ HAProxyDies \/ CrashAndBoot
  PROVE  IInv'
<1>1. CASE Edit
  BY <1>1 DEF Edit, IInv, StateTyped, LiveTyped, OnlyCheckedIsLive, RequestsSound, disk
<1>2. CASE HAProxyDies
  BY <1>2 DEF HAProxyDies, IInv, StateTyped, LiveTyped, OnlyCheckedIsLive, RequestsSound, disk
<1>3. CASE CrashAndBoot
  <2>1. \A h \in Handlers : Sound(req'[h], checked) /\ req'[h] \in Requests
    BY <1>3, IdleSound DEF CrashAndBoot, Outcomes, Sound
  <2>2. RequestsSound'
    BY <1>3, <2>1, Zenon DEF CrashAndBoot, RequestsSound
  <2>3. running' \in {running, cfg, Nothing}
    BY <1>3 DEF CrashAndBoot
  <2>4. begun' \in 0..MaxRequests
    <3>1. begun < MaxRequests /\ begun' = begun + 1 /\ begun \in 0..MaxRequests
      BY <1>3 DEF CrashAndBoot, IInv, StateTyped
    <3> QED
      BY <3>1, BoundsAssumption, SMT
  <2> QED
    BY <1>3, <2>2, <2>3, <2>4 DEF CrashAndBoot, IInv, StateTyped, LiveTyped, OnlyCheckedIsLive, disk
<1> QED
  BY <1>1, <1>2, <1>3

(***************************************************************************)
(* The theorems.                                                           *)
(***************************************************************************)

\* The inductive invariant holds in every reachable state.
THEOREM InductiveInvariant == Spec => []IInv
<1>1. Init => IInv
  <2> SUFFICES ASSUME Init PROVE IInv
    OBVIOUS
  <2>1. StateTyped /\ OnlyCheckedIsLive
    BY BoundsAssumption, EmptySeq DEF Init, StateTyped, LiveTyped, OnlyCheckedIsLive
  <2>2. Sound(Idle("none"), checked) /\ Idle("none") \in Requests
    BY IdleSound DEF Outcomes, Sound
  <2>3. RequestsSound
    BY <2>2, Zenon DEF Init, RequestsSound
  <2> QED
    BY <2>1, <2>3 DEF IInv
<1>2. IInv /\ [Next]_vars => IInv'
  <2> SUFFICES ASSUME IInv, [Next]_vars PROVE IInv'
    OBVIOUS
  <2>1. ASSUME NEW h \in Handlers, Step(h) PROVE IInv'
    BY <2>1, CheckPreserves, BackupPreserves, FilesPreserve, WritePreserves, LogPreserves,
       ProcessPreserves DEF Step
  <2>2. CASE UNCHANGED vars
    BY <2>2 DEF vars, disk, IInv, StateTyped, LiveTyped, OnlyCheckedIsLive, RequestsSound
  <2> QED
    BY <2>1, <2>2, BeginPreserves, OutsidePreserves DEF Next
<1> QED
  BY <1>1, <1>2, PTL DEF Spec

\* Every reachable state is well typed: in particular the log and the backups only
\* ever hold configurations, never the absent file a request may have found.
THEOREM TypeCorrect == Spec => []TypeOK
<1>1. IInv => TypeOK
  BY TypesFollow
<1> QED
  BY <1>1, InductiveInvariant, PTL

\* "A bad config never reaches the live directories": haproxy.cfg and HAProxy only
\* ever hold a configuration `haproxy -c` accepted, for any number of concurrent
\* requests and any pattern of edits, failures, crashes and lost processes.
THEOREM NothingUncheckedGoesLive == Spec => []OnlyCheckedIsLive
<1>1. IInv => OnlyCheckedIsLive
  BY DEF IInv
<1> QED
  BY <1>1, InductiveInvariant, PTL

(***************************************************************************)
(* Success after a load.  SuccessWasLoaded compares the end of an Apply    *)
(* with what happened since its write, so the invariant carries it through *)
(* the request: one that is about to ask whether HAProxy is up has seen a  *)
(* load of its file or had an answer nobody confirmed, or will be told no; *)
(* one that goes on to trim has the same.  Deaths of HAProxy and the loads *)
(* of other requests keep that.                                            *)
(***************************************************************************)

\* What lets a request in state r report success.
Backed(r) == r.loaded \/ r.answer = "unconfirmed"

\* What a request in state r knows of a load, when HAProxy is up or not.
LoadKnown(r, up) ==
  r.op = "apply" =>
    /\ r.pc \notin {"addRolledBack", "markRolledBack"}
    /\ r.pc = "status" /\ up => Backed(r)
    /\ r.pc = "trim" => Backed(r)

LoadsKnown == \A h \in Handlers : LoadKnown(req[h], running # Nothing)

\* A request that becomes r has not reported an Apply that was not loaded.
Honest(h, r) == req[h].op = "apply" /\ r.pc = "idle" /\ r.outcome = "ok" => Backed(req[h])

\* What one step must do for SuccessWasLoaded and its invariant.
LoadsTold ==
  /\ LoadsKnown'
  /\ \A g \in Handlers : req[g].op = "apply" /\ Ends(g, "ok") => Backed(req[g])

LEMMA OwnTold ==
  ASSUME IInv, LoadsKnown, NEW h \in Handlers, NEW r, req' = [req EXCEPT ![h] = r],
         running' \in {running, Nothing}, LoadKnown(r, running' # Nothing), Honest(h, r)
  PROVE  LoadsTold
<1>1. req' \in [Handlers -> {req'[g] : g \in Handlers}] /\ req'[h] = r
  BY DEF IInv, RequestsSound
<1>2. ASSUME NEW g \in Handlers, g # h
      PROVE  req'[g] = req[g] /\ LoadKnown(req[g], running' # Nothing) /\ ~Ends(g, "ok")
  <2>1. req'[g] = req[g]
    BY <1>2 DEF IInv, RequestsSound
  <2>2. LoadKnown(req[g], running # Nothing)
    BY DEF LoadsKnown
  <2> QED
    BY <2>1, <2>2 DEF LoadKnown, Ends
<1>3. LoadsKnown'
  BY <1>1, <1>2, Zenon DEF LoadsKnown
<1>4. Ends(h, "ok") /\ req[h].op = "apply" => Backed(req[h])
  BY <1>1 DEF Ends, Honest
<1> QED
  BY <1>2, <1>3, <1>4, Zenon DEF LoadsTold

LEMMA LoadTold ==
  ASSUME IInv, LoadsKnown, NEW h \in Handlers, NEW r, Load(h, r),
         LoadKnown(r, TRUE), Honest(h, r)
  PROVE  LoadsTold
<1>1. running' \in Contents /\ running' # Nothing
  BY ContentsAssumption DEF Load, Loadable
<1>2. req'[h] = r
  BY Zenon DEF Load
<1>3. ASSUME NEW g \in Handlers, g # h
      PROVE  LoadKnown(req'[g], TRUE) /\ ~Ends(g, "ok")
  <2> DEFINE l == ~At(g, "idle")
  <2>1. req'[g] = [req[g] EXCEPT !.loaded = l]
    BY <1>3, Zenon DEF Load
  <2>2. req[g] \in Requests /\ LoadKnown(req[g], running # Nothing)
    BY DEF IInv, RequestsSound, LoadsKnown
  <2>3. l = (req[g].pc # "idle")
    BY DEF At
  <2> HIDE DEF l
  <2>4. /\ req'[g].op = req[g].op /\ req'[g].pc = req[g].pc /\ req'[g].loaded = l
    BY <2>1, <2>2, Zenon DEF Requests
  <2> QED
    BY <2>2, <2>3, <2>4 DEF LoadKnown, Ends, Backed
<1>4. LoadsKnown'
  <2> SUFFICES ASSUME NEW g \in Handlers PROVE LoadKnown(req'[g], running' # Nothing)
    BY DEF LoadsKnown
  <2>1. (running' # Nothing) = TRUE
    BY <1>1
  <2>2. LoadKnown(req'[g], TRUE)
    BY <1>2, <1>3
  <2> QED
    BY <2>1, <2>2, Zenon
<1>5. Ends(h, "ok") /\ req[h].op = "apply" => Backed(req[h])
  BY <1>2 DEF Ends, Honest
<1> QED
  BY <1>3, <1>4, <1>5, Zenon DEF LoadsTold

LEMMA ReturnTold ==
  ASSUME IInv, LoadsKnown, NEW h \in Handlers, NEW o, Return(h, o), running' \in {running, Nothing},
         o # "ok"
  PROVE  LoadsTold
<1> DEFINE r == Idle(o)
<1>1. r.op = "none" /\ r.outcome = o /\ req' = [req EXCEPT ![h] = r]
  BY DEF Idle, Return
<1> HIDE DEF r
<1>2. LoadKnown(r, running' # Nothing) /\ Honest(h, r)
  BY <1>1 DEF LoadKnown, Honest
<1> QED
  BY <1>1, <1>2, OwnTold

LEMMA SucceedTold ==
  ASSUME IInv, LoadsKnown, NEW h \in Handlers, Succeed(h, "ok"), running' = running,
         req[h].op = "apply" => Backed(req[h])
  PROVE  LoadsTold
<1> DEFINE r == [Idle("ok") EXCEPT !.answer = req[h].answer]
<1>1. r.op = "none" /\ req' = [req EXCEPT ![h] = r]
  BY DEF Idle, Succeed
<1> HIDE DEF r
<1>2. LoadKnown(r, running' # Nothing) /\ Honest(h, r)
  BY <1>1 DEF LoadKnown, Honest
<1> QED
  BY <1>1, <1>2, OwnTold

\* A request that goes on, to a point that needs no load.
LEMMA MoveTold ==
  ASSUME IInv, LoadsKnown, NEW h \in Handlers, NEW r, req' = [req EXCEPT ![h] = r],
         running' \in {running, Nothing}, r.pc # "idle",
         r.op = "apply" => r.pc \notin {"addRolledBack", "markRolledBack", "status", "trim"}
  PROVE  LoadsTold
BY OwnTold DEF LoadKnown, Honest

LEMMA GotoTold ==
  ASSUME IInv, LoadsKnown, NEW h \in Handlers, NEW p \in Points \ {"idle"}, Goto(h, p),
         running' \in {running, Nothing},
         req[h].op = "apply" =>
           \/ p \notin {"addRolledBack", "markRolledBack", "status", "trim"}
           \/ p = "status" /\ running' = Nothing
           \/ p = "trim" /\ Backed(req[h])
  PROVE  LoadsTold
<1> DEFINE r == [req[h] EXCEPT !.pc = p]
<1>1. req[h] \in Requests
  BY DEF IInv, RequestsSound
<1>2. /\ r.pc = p /\ r.op = req[h].op /\ r.loaded = req[h].loaded
      /\ r.answer = req[h].answer
  BY <1>1, Zenon DEF Requests
<1>3. req' = [req EXCEPT ![h] = r]
  BY Zenon DEF Goto
<1> HIDE DEF r
<1>5. Backed(r) = Backed(req[h])
  BY <1>2 DEF Backed
<1>4. LoadKnown(r, running' # Nothing) /\ Honest(h, r)
  BY <1>2, <1>5 DEF LoadKnown, Honest
<1> QED
  BY <1>3, <1>4, OwnTold

\* Beginning, checking, publishing and the version log need no load.
LEMMA BeginTold ==
  ASSUME IInv, LoadsKnown, NEW h \in Handlers, Request(h)
  PROVE  LoadsTold
<1>1. running' = running
  BY DEF Request, BeginApply, BeginRollback, BeginReload, BeginRestart
<1>2. ASSUME NEW o, NEW p \in Points \ {"idle"}, NEW c, NEW v,
             o = "apply" => p = "stage",
             req' = [req EXCEPT ![h] = [Idle("none") EXCEPT !.op = o, !.pc = p, !.content = c,
                                                            !.version = v]]
      PROVE  LoadsTold
  <2> DEFINE r == [Idle("none") EXCEPT !.op = o, !.pc = p, !.content = c, !.version = v]
  <2>1. r.op = o /\ r.pc = p /\ req' = [req EXCEPT ![h] = r]
    BY <1>2 DEF Idle
  <2> HIDE DEF r
  <2> QED
    BY <1>1, <1>2, <2>1, MoveTold DEF Points
<1>3. ASSUME Return(h, "error") PROVE LoadsTold
  BY <1>1, <1>3, ReturnTold
<1>4. ASSUME BeginApply(h) PROVE LoadsTold
  <2> DEFINE r == [Idle("none") EXCEPT !.op = "apply", !.pc = "stage", !.content = db]
  <2>1. r.op = "apply" /\ r.pc = "stage"
    BY DEF Idle
  <2>2. req' = [req EXCEPT ![h] = r] \/ Return(h, "error")
    BY <1>4 DEF BeginApply
  <2> HIDE DEF r
  <2> QED
    BY <1>1, <1>3, <2>1, <2>2, MoveTold
<1>5. ASSUME BeginRollback(h) PROVE LoadsTold
  <2>1. ASSUME NEW v,
               req' = [req EXCEPT ![h] = [Idle("none") EXCEPT !.op = "rollback", !.pc = "stage",
                                            !.content = versions[v].content, !.version = v]]
        PROVE  LoadsTold
    <3> DEFINE c == versions[v].content
    <3>1. req' = [req EXCEPT ![h] = [Idle("none") EXCEPT !.op = "rollback", !.pc = "stage",
                                                         !.content = c, !.version = v]]
      BY <2>1
    <3>2. "stage" \in Points \ {"idle"}
      BY DEF Points
    <3> HIDE DEF c
    <3> QED
      BY <1>2, <3>1, <3>2
  <2> QED
    BY <1>3, <1>5, <2>1 DEF BeginRollback
<1>6. ASSUME BeginReload(h) PROVE LoadsTold
  <2> DEFINE r == [Idle("none") EXCEPT !.op = "reload", !.pc = "reload"]
  <2>1. r.op = "reload" /\ r.pc = "reload" /\ req' = [req EXCEPT ![h] = r]
    BY <1>6 DEF Idle, BeginReload
  <2> HIDE DEF r
  <2> QED
    BY <1>1, <2>1, MoveTold
<1>7. ASSUME BeginRestart(h) PROVE LoadsTold
  <2> DEFINE r == [Idle("none") EXCEPT !.op = "restart", !.pc = "stop"]
  <2>1. r.op = "restart" /\ r.pc = "stop" /\ req' = [req EXCEPT ![h] = r]
    BY <1>7 DEF Idle, BeginRestart
  <2> HIDE DEF r
  <2> QED
    BY <1>1, <2>1, MoveTold
<1> QED
  BY <1>4, <1>5, <1>6, <1>7 DEF Request

LEMMA PublishTold ==
  ASSUME IInv, LoadsKnown, NEW h \in Handlers,
         \/ Stage(h) \/ CheckPasses(h) \/ CheckFails(h) \/ Backup(h)
         \/ WriteErrorPages(h) \/ PruneErrorPages(h) \/ WriteCertificates(h)
         \/ PruneCertificates(h) \/ WriteConfig(h) \/ RecordApplied(h)
  PROVE  LoadsTold
<1>1. running' = running /\ req[h] \in Requests
  BY DEF Stage, CheckPasses, CheckFails, Backup, WriteErrorPages, PruneErrorPages,
         WriteCertificates, PruneCertificates, WriteConfig, RecordApplied, WriteFiles, PruneDir,
         IInv, RequestsSound
<1>2. ASSUME NEW o \in {"error", "rejected"}, Return(h, o) PROVE LoadsTold
  BY <1>1, <1>2, ReturnTold
<1>3. ASSUME NEW p \in Points \ {"idle", "addRolledBack", "markRolledBack", "status", "trim"},
             NEW r, r.pc = p, req' = [req EXCEPT ![h] = r]
      PROVE  LoadsTold
  BY <1>1, <1>3, MoveTold
<1>4. CASE Stage(h)
  <2> DEFINE r == [req[h] EXCEPT !.pc = "check", !.staged = FilesOf[db]]
  <2>1. r.pc = "check" /\ "check" \in Points
    BY <1>1, Zenon DEF Requests, Points
  <2>2. req' = [req EXCEPT ![h] = r] \/ Return(h, "error")
    BY <1>4, Zenon DEF Stage
  <2> HIDE DEF r
  <2> QED
    BY <1>2, <1>3, <2>1, <2>2
<1>5. CASE CheckPasses(h)
  BY <1>1, <1>5, GotoTold DEF CheckPasses, Points
<1>6. CASE CheckFails(h)
  BY <1>2, <1>6 DEF CheckFails
<1>7. CASE Backup(h)
  <2> DEFINE r(p, c) == [req[h] EXCEPT !.pc = p, !.previous = c]
  <2>1. ASSUME NEW p \in {"pages", "write"}, NEW c PROVE r(p, c).pc = p /\ p \in Points
    BY <1>1, <2>1, Zenon DEF Requests, Points
  <2>2. \/ \E c : req' = [req EXCEPT ![h] = r(AfterBackup(h), c)]
        \/ req' = [req EXCEPT ![h] = r("write", cfg)]
        \/ Return(h, "error")
    BY <1>7, Zenon DEF Backup
  <2>3. AfterBackup(h) \in {"pages", "write"}
    BY DEF AfterBackup
  <2> HIDE DEF r
  <2> QED
    BY <1>2, <1>3, <2>1, <2>2, <2>3
<1>8. ASSUME NEW at, NEW kind, NEW next \in {"prunePages", "pruneCerts"},
             WriteFiles(h, at, kind, next)
      PROVE  LoadsTold
  <2> DEFINE r == [req[h] EXCEPT !.pc = next, !.wanted = FilesOf[db] \cap kind]
  <2>1. r.pc = next /\ next \in Points
    BY <1>1, Zenon DEF Requests, Points
  <2>2. req' = [req EXCEPT ![h] = r] \/ Return(h, "error")
    BY <1>8, Zenon DEF WriteFiles
  <2> HIDE DEF r
  <2> QED
    BY <1>2, <1>3, <2>1, <2>2
<1>9. ASSUME NEW at, NEW kind, NEW next \in {"certs", "write"}, PruneDir(h, at, kind, next)
      PROVE  LoadsTold
  <2> DEFINE r == [req[h] EXCEPT !.pc = next, !.wanted = {}]
  <2>1. r.pc = next /\ next \in Points
    BY <1>1, Zenon DEF Requests, Points
  <2>2. req' = [req EXCEPT ![h] = r] \/ Return(h, "error")
    BY <1>9, Zenon DEF PruneDir
  <2> HIDE DEF r
  <2> QED
    BY <1>2, <1>3, <2>1, <2>2
<1>10. CASE WriteConfig(h)
  <2> DEFINE q == IF req[h].op = "apply" THEN "record" ELSE "reload"
             r == [req[h] EXCEPT !.pc = q, !.loaded = FALSE]
  <2>1. req' = [req EXCEPT ![h] = r] \/ Return(h, "error")
    BY <1>10, Zenon DEF WriteConfig
  <2>2. q \in Points \ {"idle", "addRolledBack", "markRolledBack", "status", "trim"}
    BY DEF Points
  <2> HIDE DEF q
  <2>3. r.pc = q
    BY <1>1, Zenon DEF Requests
  <2> HIDE DEF r
  <2> QED
    BY <1>2, <1>3, <2>1, <2>2, <2>3
<1>11. CASE RecordApplied(h)
  <2> DEFINE r == [req[h] EXCEPT !.pc = "reload", !.version = Len(versions) + 1]
  <2>1. r.pc = "reload" /\ "reload" \in Points
    BY <1>1, Zenon DEF Requests, Points
  <2>2. req' = [req EXCEPT ![h] = r] \/ Return(h, "error")
    BY <1>11, Zenon DEF RecordApplied
  <2> HIDE DEF r
  <2> QED
    BY <1>2, <1>3, <2>1, <2>2
<1> QED
  BY <1>4, <1>5, <1>6, <1>7, <1>8, <1>9, <1>10, <1>11
     DEF WriteErrorPages, PruneErrorPages, WriteCertificates, PruneCertificates

\* From the reload on: here the invariant is needed.
LEMMA AnswerTold ==
  ASSUME IInv, LoadsKnown, NEW h \in Handlers,
         \/ Reload(h) \/ RestartStop(h) \/ Status(h) \/ MarkFailed(h) \/ Restore(h)
         \/ UndoReload(h) \/ AddRolledBack(h) \/ MarkRolledBack(h) \/ Trim(h)
  PROVE  LoadsTold
<1>1. req[h] \in Requests /\ LoadKnown(req[h], running # Nothing)
  BY DEF IInv, RequestsSound, LoadsKnown
<1>2. ASSUME NEW o \in {"error", "undone", "reloaded"}, Return(h, o), running' = running
      PROVE  LoadsTold
  BY <1>2, ReturnTold
<1>3. CASE Reload(h)
  <2> DEFINE p == AfterReload(h)
  <2>1. /\ p \in {"status", "addRolledBack", "trim"} /\ (req[h].op = "apply" => p = "status")
    BY DEF AfterReload
  <2>2. CASE Load(h, [req[h] EXCEPT !.pc = p, !.loaded = TRUE, !.answer = "true"])
    <3> DEFINE r == [req[h] EXCEPT !.pc = p, !.loaded = TRUE, !.answer = "true"]
    <3>1. r.pc = p /\ r.op = req[h].op /\ r.loaded = TRUE
      BY <1>1, Zenon DEF Requests
    <3>2. Load(h, r)
      BY <2>2, Zenon
    <3> HIDE DEF r, p
    <3>3. LoadKnown(r, TRUE) /\ Honest(h, r)
      BY <2>1, <3>1 DEF LoadKnown, Honest, Backed
    <3> QED
      BY <3>2, <3>3, LoadTold
  <2>3. CASE Load(h, [req[h] EXCEPT !.pc = "mark", !.loaded = TRUE])
    <3> DEFINE r == [req[h] EXCEPT !.pc = "mark", !.loaded = TRUE]
    <3>1. r.pc = "mark" /\ Load(h, r)
      BY <1>1, <2>3, Zenon DEF Requests
    <3> HIDE DEF r
    <3>2. LoadKnown(r, TRUE) /\ Honest(h, r)
      BY <3>1 DEF LoadKnown, Honest
    <3> QED
      BY <3>1, <3>2, LoadTold
  <2>4. CASE Goto(h, "mark") /\ UNCHANGED running
    BY <2>4, GotoTold DEF Points
  <2>5. ASSUME NEW a, req' = [req EXCEPT ![h].pc = p, ![h].answer = a],
               running' \in {running, Nothing},
               running' # Nothing => a = "unconfirmed"
        PROVE  LoadsTold
    <3> DEFINE r == [req[h] EXCEPT !.pc = p, !.answer = a]
    <3>1. r.pc = p /\ r.op = req[h].op /\ r.answer = a
      BY <1>1, Zenon DEF Requests
    <3>2. req' = [req EXCEPT ![h] = r]
      BY <2>5, Zenon
    <3> HIDE DEF r, p
    <3>3. LoadKnown(r, running' # Nothing) /\ Honest(h, r)
      BY <2>1, <2>5, <3>1 DEF LoadKnown, Honest, Backed
    <3> QED
      BY <2>5, <3>2, <3>3, OwnTold
  <2>6. \/ Load(h, [req[h] EXCEPT !.pc = p, !.loaded = TRUE, !.answer = "true"])
        \/ Load(h, [req[h] EXCEPT !.pc = "mark", !.loaded = TRUE])
        \/ Goto(h, "mark") /\ UNCHANGED running
        \/ /\ running' \in {running, Nothing}
           /\ req' = [req EXCEPT ![h].pc = p,
                        ![h].answer = IF running' = Nothing THEN "dead" ELSE "unconfirmed"]
    BY <1>3, Zenon DEF Reload, ProcessReload
  <2>7. running' # Nothing
          => (IF running' = Nothing THEN "dead" ELSE "unconfirmed") = "unconfirmed"
    OBVIOUS
  <2> HIDE DEF p
  <2> QED
    BY <2>2, <2>3, <2>4, <2>5, <2>6, <2>7, Zenon
<1>4. CASE RestartStop(h)
  BY <1>4, GotoTold DEF RestartStop, Points
<1>5. CASE Status(h)
  <2>1. running' = running /\ req[h].pc = "status"
    BY <1>5 DEF Status, At
  <2>2. CASE running # Nothing /\ Goto(h, "trim")
    BY <1>1, <2>1, <2>2, GotoTold DEF Points, LoadKnown
  <2>3. CASE Goto(h, "mark")
    BY <2>1, <2>3, GotoTold DEF Points
  <2> QED
    BY <1>5, <2>2, <2>3 DEF Status
<1>6. CASE MarkFailed(h)
  <2>1. CASE Goto(h, "restore")
    BY <1>6, <2>1, GotoTold DEF MarkFailed, Points
  <2> QED
    BY <1>2, <1>6, <2>1 DEF MarkFailed
<1>7. CASE Restore(h)
  <2>1. CASE Goto(h, "undoReload")
    BY <1>7, <2>1, GotoTold DEF Restore, Points
  <2> QED
    BY <1>2, <1>7, <2>1 DEF Restore
<1>8. CASE UndoReload(h)
  <2>1. CASE Load(h, Idle("undone"))
    <3>1. LoadKnown(Idle("undone"), TRUE) /\ Honest(h, Idle("undone"))
      BY DEF LoadKnown, Honest, Idle
    <3> QED
      BY <2>1, <3>1, LoadTold
  <2> QED
    BY <1>2, <1>8, <2>1 DEF UndoReload
<1>9. CASE AddRolledBack(h)
  BY <1>1, <1>9, GotoTold DEF AddRolledBack, Points, LoadKnown, At
<1>10. CASE MarkRolledBack(h)
  BY <1>1, <1>10, SucceedTold DEF MarkRolledBack, LoadKnown, At
<1>11. CASE Trim(h)
  BY <1>1, <1>2, <1>11, SucceedTold DEF Trim, LoadKnown, At
<1> QED
  BY <1>3, <1>4, <1>5, <1>6, <1>7, <1>8, <1>9, <1>10, <1>11

LEMMA OutsideTold ==
  ASSUME IInv, LoadsKnown, Edit \/ HAProxyDies \/ CrashAndBoot
  PROVE  LoadsTold
<1>1. CASE Edit \/ HAProxyDies
  <2>1. req' = req /\ running' \in {running, Nothing}
    BY <1>1 DEF Edit, HAProxyDies
  <2>2. ASSUME NEW g \in Handlers PROVE ~Ends(g, "ok") /\ LoadKnown(req'[g], running' # Nothing)
    BY <2>1 DEF Ends, LoadsKnown, LoadKnown
  <2> QED
    BY <2>2, Zenon DEF LoadsTold, LoadsKnown
<1>2. CASE CrashAndBoot
  <2>1. ASSUME NEW g \in Handlers PROVE ~Ends(g, "ok") /\ LoadKnown(req'[g], running' # Nothing)
    <3>1. req'[g] = Idle("none")
      BY <1>2 DEF CrashAndBoot
    <3> QED
      BY <3>1 DEF Ends, LoadKnown, Idle
  <2> QED
    BY <2>1, Zenon DEF LoadsTold, LoadsKnown
<1> QED
  BY <1>1, <1>2

\* Apply reports success only when HAProxy has loaded the file on disk after this
\* request wrote it, or was found alive after a good answer to its reload that nobody had
\* confirmed: with any number of requests that reload and restart HAProxy, however often
\* it dies, and whatever else the process manager answers wrongly.
THEOREM SuccessFollowsLoad == Spec => SuccessWasLoaded
<1>1. Init => LoadsKnown
  BY DEF Init, LoadsKnown, LoadKnown, Idle
<1>2. IInv /\ LoadsKnown /\ [Next]_vars => LoadsKnown' /\ (LoadsTold \/ UNCHANGED vars)
  <2> SUFFICES ASSUME IInv, LoadsKnown, [Next]_vars PROVE LoadsKnown' /\ (LoadsTold \/ UNCHANGED vars)
    OBVIOUS
  <2>1. CASE Next
    <3>1. LoadsTold
      BY <2>1, BeginTold, PublishTold, AnswerTold, OutsideTold DEF Next, Step
    <3> QED
      BY <3>1 DEF LoadsTold
  <2>2. CASE UNCHANGED vars
    BY <2>2 DEF vars, LoadsKnown
  <2> QED
    BY <2>1, <2>2
<1>3. LoadsTold \/ UNCHANGED vars
      => [\A h \in Handlers :
            req[h].op = "apply" /\ Ends(h, "ok")
              => req[h].loaded \/ req[h].answer = "unconfirmed"]_vars
  BY DEF LoadsTold, Backed
<1> QED
  BY <1>1, <1>2, <1>3, InductiveInvariant, PTL DEF Spec, SuccessWasLoaded
=============================================================================
